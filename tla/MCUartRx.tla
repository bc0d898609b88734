------------------------------ MODULE MCUartRx ------------------------------
(* The instance of UartRx for TLC: two blocks of each kind.                *)
EXTENDS UartRx, TLC
CONSTANTS b1, b2, i1, i2
TwoBufs == {b1, b2}
TwoIrqs == {i1, i2}
Symmetry == Permutations(TwoBufs) \cup Permutations(TwoIrqs)
=============================================================================
