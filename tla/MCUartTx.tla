------------------------------ MODULE MCUartTx ------------------------------
(* The instance of UartTx for TLC.                                         *)
EXTENDS UartTx
=============================================================================
