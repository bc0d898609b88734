------------------------------ MODULE MCSocket ------------------------------
(* The instance of Socket and SocketEvents for TLC: two socket objects and *)
(* two threads that use them, or three sockets with callbacks.  The two    *)
(* models share no state: part says which of them a behaviour is about,    *)
(* and the other one rests in an initial state.                            *)
EXTENDS Socket, SocketEvents
CONSTANTS o1, o2, th1, th2, s1, s2, s3
VARIABLE part
TwoObjs    == {o1, o2}
TwoThreads == {th1, th2}
ThreeSocks == {s1, s2, s3}

Env(calls, chosen, sharing, fault) ==
  [calls |-> calls, chosen |-> chosen, sharing |-> sharing, fault |-> fault]
TwoReaders == {Env({"recv", "accept"}, "zero", "recv", "none")}
MCEnvironments ==
  { Env({"connect", "bind"}, "zero", "nothing", "none"),
    Env({"connect"}, "short", "nothing", "none"),
    Env({"connect"}, "zero", "timeout", "none"),
    Env({"send", "connect"}, "long", "nothing", "none"),
    Env({"recv", "accept"}, "long", "nothing", "none"),
    Env({"accept"}, "zero", "close", "none"),
    Env({"connect"}, "long", "close", "none"),
    Env({"accept"}, "zero", "nothing", "argument"),
    Env({"accept"}, "zero", "nothing", "memory") }

MCInit ==
  /\ SkInit /\ Init
  /\ \/ part = "descriptors" /\ polite = FALSE
     \/ part = "events" /\ env = CHOOSE e \in Environments : TRUE
MCNext ==
  \/ part = "descriptors" /\ SkNext /\ UNCHANGED vars /\ UNCHANGED part
  \/ part = "events" /\ Next /\ UNCHANGED <<skVars, env>> /\ UNCHANGED part
MCSpec ==
  /\ MCInit /\ [][MCNext]_<<skVars, env, vars, part>>
  /\ SkFairness /\ Fairness
=============================================================================
