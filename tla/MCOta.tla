------------------------------- MODULE MCOta -------------------------------
(* The instance of Ota for TLC: two sessions, the main thread and another, *)
(* and at most one kind of trouble.                                        *)
EXTENDS Ota
CONSTANTS s1, s2, main, aux
TwoSessions == {s1, s2}
TwoThreads == {main, aux}
OneTrouble == {{}, {"allocFails"}, {"stalls"}, {"intrudes"}}
=============================================================================
