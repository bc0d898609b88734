------------------------------- MODULE MCCan -------------------------------
(* The instance of CanTx and CanRx for TLC: three message buffers to send  *)
(* from and two identifiers; two filters and a FIFO of two frames.  part   *)
(* says which side of the controller a behaviour is about; the other one   *)
(* rests in an initial state.                                              *)
EXTENDS CanTx, CanRx
CONSTANTS x, y, f, g
VARIABLE part
TwoIds    == {x, y}
TwoFrames == {f, g}

MCInit ==
  /\ Init /\ CanRxInit /\ part \in {"send", "receive"}
  /\ part = "receive" => ~quick /\ subs = "never" /\ ~remains /\ id = x
MCNext ==
  /\ UNCHANGED part
  /\ \/ part = "send" /\ Next /\ UNCHANGED canRxVars
     \/ part = "receive" /\ CanRxNext /\ UNCHANGED vars
MCSpec == MCInit /\ [][MCNext]_<<vars, canRxVars, part>> /\ Fairness
=============================================================================
