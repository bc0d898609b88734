----------------------------- MODULE Ota_proof -----------------------------
(***************************************************************************)
(* Proofs about Ota, for every set of sessions and threads and every size  *)
(* of image, buffer and read.                                              *)
(***************************************************************************)
EXTENDS Ota, SequenceTheorems, TLAPS

(***************************************************************************)
(* Type correctness.  It rests on facts the types alone do not give: a     *)
(* blocked call and a running callback know their session, and a stream    *)
(* buffer is never overfilled.                                             *)
(***************************************************************************)
CallsHaveSession == \A t \in Threads : th[t].op # "idle" => th[t].s \in Sessions

CallbackHasSession == \A s \in Sessions : task[s] \in {"recv", "poll"} => cbself[s] \in Sessions

BufferBounded == \A s \in Sessions : Len(buf[s]) =< BufLen

TInv == StateOK /\ CallsHaveSession /\ CallbackHasSession /\ BufferBounded

(* Initially no task runs and no call is blocked.                          *)
LEMMA InitTInv == Init => TInv
BY OtaAssumption DEF Init, TInv, StateOK, CallsHaveSession, CallbackHasSession, BufferBounded,
   SessionOrNull, Idle, Ops, Faults, Bytes

(* What can be added to fault is a kind of fault.                          *)
LEMMA UsesAreFaults ==
  ASSUME NEW s, NEW t
  PROVE  /\ UseObject(s) \subseteq Faults /\ UseStream(s) \subseteq Faults
         /\ UseSem(s) \subseteq Faults /\ UseInDel(t, s) \subseteq Faults
BY DEF UseObject, UseStream, UseSem, UseInDel, Faults

(* Replacing the entry of one thread keeps the types of th.                *)
LEMMA ThreadTypes ==
  ASSUME StateOK, CallsHaveSession, NEW t \in Threads, NEW op \in Ops, NEW s \in SessionOrNull,
         NEW rem \in Nat, th' = [th EXCEPT ![t] = [op |-> op, s |-> s, rem |-> rem]],
         op # "idle" => s \in Sessions
  PROVE  /\ th' \in [Threads -> [op : Ops, s : SessionOrNull, rem : Nat]]
         /\ CallsHaveSession'
BY DEF StateOK, CallsHaveSession

(* Replacing the contents of one stream buffer.                            *)
LEMMA BufTypes ==
  ASSUME StateOK, BufferBounded, NEW s \in Sessions, NEW b \in Seq(Bytes), Len(b) =< BufLen,
         buf' = [buf EXCEPT ![s] = b]
  PROVE  buf' \in [Sessions -> Seq(Bytes)] /\ BufferBounded'
BY DEF StateOK, BufferBounded

(* Concatenation of two sequences of bytes.                                *)
LEMMA CatTypes ==
  ASSUME NEW a \in Seq(Bytes), NEW b \in Seq(Bytes)
  PROVE  a \o b \in Seq(Bytes) /\ Len(a \o b) = Len(a) + Len(b)
OBVIOUS

(* A receive moves bytes from one sequence of bytes to another.            *)
LEMMA ReceiveTypes ==
  ASSUME StateOK, BufferBounded, NEW s \in Sessions, NEW c \in Sessions, Receive(s, c)
  PROVE  /\ got' \in [Sessions -> Seq(Bytes)] /\ buf' \in [Sessions -> Seq(Bytes)]
         /\ task' = [task EXCEPT ![s] = "start"]
         /\ BufferBounded'
<1> DEFINE k == Min2(ReadLen, Len(buf[c]))
<1>1. buf[c] \in Seq(Bytes) /\ got[s] \in Seq(Bytes) /\ Len(buf[c]) \in Nat
      /\ Len(buf[c]) =< BufLen
  BY DEF StateOK, BufferBounded
<1>2. k \in 0 .. Len(buf[c])
  BY <1>1, OtaAssumption DEF Min2
<1>3. SubSeq(buf[c], 1, k) \in Seq(Bytes)
  BY <1>1, <1>2
<1>4. /\ SubSeq(buf[c], k + 1, Len(buf[c])) \in Seq(Bytes)
      /\ Len(SubSeq(buf[c], k + 1, Len(buf[c]))) =< BufLen
  BY <1>1, <1>2, OtaAssumption
<1>5. got[s] \o SubSeq(buf[c], 1, k) \in Seq(Bytes)
  BY <1>1, <1>3
<1>6. /\ got' = [got EXCEPT ![s] = got[s] \o SubSeq(buf[c], 1, k)]
      /\ buf' = [buf EXCEPT ![c] = SubSeq(buf[c], k + 1, Len(buf[c]))]
      /\ task' = [task EXCEPT ![s] = "start"]
  BY DEF Receive
<1>7. got' \in [Sessions -> Seq(Bytes)]
  BY <1>5, <1>6 DEF StateOK
<1> QED
  BY <1>4, <1>6, <1>7, BufTypes

(* One slice of write().                                                   *)
LEMMA WriteSliceTInv ==
  ASSUME TInv, NEW t \in Threads, WriteSlice(t)
  PROVE  TInv'
<1> DEFINE s == th[t].s
           k == SendNow(s, th[t].rem)
           rem == th[t].rem - k
<1>1. th[t].op = "write" /\ th[t].op # "idle"
  BY DEF WriteSlice
<1>2. s \in Sessions /\ th[t].rem \in Nat /\ sent[s] \in Nat
  BY <1>1 DEF TInv, StateOK, CallsHaveSession
<1>3. buf[s] \in Seq(Bytes) /\ Len(buf[s]) \in Nat /\ Len(buf[s]) =< BufLen
  BY <1>2 DEF TInv, StateOK, BufferBounded
<1>4. k \in Nat /\ rem \in Nat /\ k =< BufLen - Len(buf[s])
  BY <1>2, <1>3, OtaAssumption DEF SendNow, Min2
<1>5. /\ buf' = [buf EXCEPT ![s] = buf[s] \o Chunk(s, k)]
      /\ sent' = [sent EXCEPT ![s] = sent[s] + k]
      /\ fault' = fault \cup UseStream(s)
      /\ UNCHANGED <<obj, held, active, stream, sem, result, eof, finished, taskVars,
                      whole, outcome, phase>>
  BY DEF WriteSlice, Touch
<1>6. th' = [th EXCEPT ![t] = IF WriteEnds(s, rem) THEN Idle ELSE [th[t] EXCEPT !.rem = rem]]
  BY DEF WriteSlice
<1>7. [th[t] EXCEPT !.rem = rem] = [op |-> "write", s |-> s, rem |-> rem]
  <2>1. th[t] = [op |-> "write", s |-> s, rem |-> th[t].rem]
    BY <1>1 DEF TInv, StateOK
  <2> HIDE DEF rem
  <2> QED BY <2>1
<1> HIDE DEF k, rem
<1>8. Chunk(s, k) \in Seq(Bytes) /\ Len(Chunk(s, k)) = k
  BY <1>2, <1>4 DEF Chunk, Bytes
<1> HIDE DEF s
<1>9. /\ buf[s] \o Chunk(s, k) \in Seq(Bytes)
      /\ Len(buf[s] \o Chunk(s, k)) = Len(buf[s]) + k
  BY <1>3, <1>8, CatTypes
<1>10. Len(buf[s] \o Chunk(s, k)) =< BufLen
  BY <1>3, <1>4, <1>9, OtaAssumption
<1>11. buf' \in [Sessions -> Seq(Bytes)] /\ BufferBounded'
  BY <1>2, <1>5, <1>9, <1>10, BufTypes DEF TInv
<1>12. th' \in [Threads -> [op : Ops, s : SessionOrNull, rem : Nat]] /\ CallsHaveSession'
  <2>1. CASE WriteEnds(s, rem)
    <3>1. th' = [th EXCEPT ![t] = [op |-> "idle", s |-> NoSession, rem |-> 0]]
      BY <2>1, <1>6 DEF Idle
    <3> QED BY <3>1, ThreadTypes DEF TInv, Ops, SessionOrNull
  <2>2. CASE ~WriteEnds(s, rem)
    <3>1. th' = [th EXCEPT ![t] = [op |-> "write", s |-> s, rem |-> rem]]
      BY <2>2, <1>6, <1>7
    <3> QED BY <3>1, <1>2, <1>4, ThreadTypes DEF TInv, Ops, SessionOrNull
  <2> QED BY <2>1, <2>2
<1>13. sent' \in [Sessions -> Nat] /\ fault' \in SUBSET Faults
  <2>1. sent' \in [Sessions -> Nat]
    BY <1>2, <1>4, <1>5 DEF TInv, StateOK
  <2>2. UseStream(s) \subseteq Faults
    BY UsesAreFaults
  <2> QED BY <2>1, <2>2, <1>5 DEF TInv, StateOK
<1>14. StateOK'
  BY <1>5, <1>11, <1>12, <1>13 DEF TInv, StateOK, taskVars
<1> QED
  BY <1>5, <1>11, <1>12, <1>14 DEF TInv, CallbackHasSession, taskVars

(***************************************************************************)
(* Every step keeps TInv.                                                  *)
(***************************************************************************)
LEMMA NextTInv ==
  ASSUME TInv, [Next]_vars
  PROVE  TInv'
<1> USE DEF TInv
<1>1. ASSUME NEW t \in Threads, NEW s \in Sessions, MakeNew(t, s)
      PROVE  TInv'
  <2>1. StateOK'
    BY <1>1 DEF MakeNew, InitFields, cliVars, StateOK, SessionOrNull
  <2> QED
    BY <1>1, <2>1 DEF MakeNew, cliVars, StateOK, CallsHaveSession, CallbackHasSession, BufferBounded
<1>2. ASSUME NEW t \in Threads, NEW s \in Sessions, MakeNewFails(t, s)
      PROVE  TInv'
  <2>1. /\ stream' \in [Sessions -> {"null", "valid", "dangling"}]
        /\ sem' \in [Sessions -> {"null", "empty", "given", "dangling"}]
        /\ active' \in SessionOrNull
    BY ZenonT(40), <1>2 DEF MakeNewFails, StateOK, SessionOrNull
  <2>2. InitFields(s) /\ UNCHANGED <<held, buf, taskVars, cliVars, phase, th, fault>>
    BY <1>2 DEF MakeNewFails
  <2>3. StateOK'
    BY <2>1, <2>2 DEF InitFields, StateOK, taskVars, cliVars
  <2> QED
    BY <2>2, <2>3 DEF taskVars, CallsHaveSession, CallbackHasSession, BufferBounded
<1>3. ASSUME NEW t \in Threads, NEW s \in Sessions, NEW n \in 1 .. ImageLen, WriteEnter(t, s, n)
      PROVE  TInv'
  <2>1. /\ th' = [th EXCEPT ![t] = [op |-> "write", s |-> s, rem |-> n]]
        /\ fault' = fault \cup UseObject(s)
        /\ UNCHANGED <<obj, held, active, objVars, taskVars, cliVars, phase>>
    BY <1>3 DEF WriteEnter, Touch
  <2>2. th' \in [Threads -> [op : Ops, s : SessionOrNull, rem : Nat]] /\ CallsHaveSession'
    <3>1. n \in Nat /\ "write" \in Ops /\ s \in SessionOrNull
      BY OtaAssumption DEF Ops, SessionOrNull
    <3> QED BY <2>1, <3>1, ThreadTypes
  <2>3. UseObject(s) \subseteq Faults
    BY UsesAreFaults
  <2>4. StateOK'
    BY <2>1, <2>2, <2>3 DEF StateOK, objVars, taskVars, cliVars
  <2> QED
    BY <2>1, <2>2, <2>4 DEF objVars, taskVars, CallbackHasSession, BufferBounded
<1>4. ASSUME NEW t \in Threads, WriteSlice(t)
      PROVE  TInv'
  BY <1>4, WriteSliceTInv
<1>5. ASSUME NEW t \in Threads, NEW s \in Sessions, FinishEnter(t, s)
      PROVE  TInv'
  <2>1. /\ th' = [th EXCEPT ![t] = [op |-> "finish", s |-> s, rem |-> 0]]
        /\ finished' = [finished EXCEPT ![s] = TRUE]
        /\ eof' = [eof EXCEPT ![s] = TRUE]
        /\ whole' = [whole EXCEPT ![s] = (sent[s] = ImageLen)]
        /\ fault' = fault \cup UseObject(s)
        /\ UNCHANGED <<obj, held, active, stream, buf, sem, result, taskVars, sent, outcome,
                        phase>>
    BY <1>5 DEF FinishEnter, Touch, SignalEof
  <2>2. th' \in [Threads -> [op : Ops, s : SessionOrNull, rem : Nat]] /\ CallsHaveSession'
    BY <2>1, ThreadTypes DEF Ops, SessionOrNull
  <2>3. UseObject(s) \subseteq Faults
    BY UsesAreFaults
  <2>4. StateOK'
    BY <2>1, <2>2, <2>3 DEF StateOK, taskVars
  <2> QED
    BY <2>1, <2>2, <2>4 DEF taskVars, CallbackHasSession, BufferBounded
<1>6. ASSUME NEW t \in Threads, FinishReturn(t)
      PROVE  TInv'
  <2> DEFINE s == th[t].s
  <2>1. s \in Sessions
    BY <1>6 DEF FinishReturn, CallsHaveSession
  <2>2. /\ th' = [th EXCEPT ![t] = Idle]
        /\ sem' = [sem EXCEPT ![s] = IF sem[s] = "given" THEN "empty" ELSE sem[s]]
        /\ active' = ReleaseActive(s)
        /\ outcome' = [outcome EXCEPT ![s] = IF result[s] = "OK" THEN "ok" ELSE "EIO"]
        /\ fault' = fault \cup UseSem(s)
        /\ UNCHANGED <<obj, held, stream, buf, result, eof, finished, taskVars, sent,
                        whole, phase>>
    BY <1>6 DEF FinishReturn, Touch
  <2> HIDE DEF s
  <2>3. th' \in [Threads -> [op : Ops, s : SessionOrNull, rem : Nat]] /\ CallsHaveSession'
    BY <2>2, ThreadTypes DEF Ops, SessionOrNull, Idle
  <2>4. UseSem(s) \subseteq Faults /\ ReleaseActive(s) \in SessionOrNull
    BY UsesAreFaults DEF StateOK, ReleaseActive, SessionOrNull
  <2>5. StateOK'
    BY <2>1, <2>2, <2>3, <2>4 DEF StateOK, taskVars
  <2> QED
    BY <2>2, <2>3, <2>5 DEF taskVars, CallbackHasSession, BufferBounded
<1>7. ASSUME NEW t \in Threads, NEW s \in Sessions, Drop(t, s)
      PROVE  TInv'
  BY <1>7 DEF Drop, objVars, cliVars, taskVars, StateOK, CallsHaveSession, CallbackHasSession, BufferBounded
<1>8. ASSUME NEW t \in Threads, NEW s \in Sessions, DelAtOnce(t, s)
      PROVE  TInv'
  <2>1. UseInDel(t, s) \subseteq Faults /\ ReleaseActive(s) \in SessionOrNull
    BY UsesAreFaults DEF StateOK, ReleaseActive, SessionOrNull
  <2>2. StateOK'
    BY <1>8, <2>1 DEF DelAtOnce, Touch, Free, cliVars, taskVars, StateOK
  <2> QED
    BY <1>8, <2>2 DEF DelAtOnce, taskVars, CallsHaveSession, CallbackHasSession, BufferBounded
<1>9. ASSUME NEW t \in Threads, NEW s \in Sessions, DelEnter(t, s)
      PROVE  TInv'
  <2>1. th' \in [Threads -> [op : Ops, s : SessionOrNull, rem : Nat]] /\ CallsHaveSession'
    BY <1>9, ThreadTypes DEF DelEnter, Ops, SessionOrNull
  <2>2. StateOK'
    BY <1>9, <2>1 DEF DelEnter, SignalEof, cliVars, taskVars, StateOK
  <2> QED
    BY <1>9, <2>1, <2>2 DEF DelEnter, taskVars, CallbackHasSession, BufferBounded
<1>10. ASSUME NEW t \in Threads, DelSend(t)
       PROVE  TInv'
  <2> DEFINE s == th[t].s
             b == IF Len(buf[s]) < BufLen THEN Append(buf[s], <<s, 0>>) ELSE buf[s]
             r == [op |-> "delTake", s |-> s, rem |-> th[t].rem]
  <2>1. s \in Sessions /\ th[t].rem \in Nat
    BY <1>10 DEF DelSend, StateOK, CallsHaveSession
  <2>2. buf[s] \in Seq(Bytes) /\ Len(buf[s]) \in Nat /\ Len(buf[s]) =< BufLen
    BY <2>1 DEF StateOK, BufferBounded
  <2>3. <<s, 0>> \in Bytes
    BY <2>1 DEF Bytes
  <2>4. [th[t] EXCEPT !.op = "delTake"] = r
    <3>1. th[t] = [op |-> "delSend", s |-> s, rem |-> th[t].rem]
      BY <1>10 DEF DelSend, StateOK
    <3> QED BY <3>1
  <2>5. /\ buf' = [buf EXCEPT ![s] = b]
        /\ th' = [th EXCEPT ![t] = r]
        /\ fault' = fault \cup UseStream(s)
        /\ UNCHANGED <<obj, held, active, stream, sem, result, eof, finished, taskVars, cliVars,
                        phase>>
    BY <1>10, <2>4 DEF DelSend, Touch
  <2>6. b \in Seq(Bytes) /\ Len(b) =< BufLen
    BY <2>2, <2>3, OtaAssumption
  <2>7. buf' \in [Sessions -> Seq(Bytes)] /\ BufferBounded'
    BY <2>1, <2>5, <2>6, BufTypes
  <2>8. th' \in [Threads -> [op : Ops, s : SessionOrNull, rem : Nat]] /\ CallsHaveSession'
    BY <2>1, <2>5, ThreadTypes DEF Ops, SessionOrNull
  <2> HIDE DEF s, b, r
  <2>9. UseStream(s) \subseteq Faults
    BY UsesAreFaults
  <2>10. StateOK'
    BY <2>5, <2>7, <2>8, <2>9 DEF StateOK, taskVars, cliVars
  <2> QED
    BY <2>5, <2>7, <2>8, <2>10 DEF taskVars, CallbackHasSession
<1>11. ASSUME NEW t \in Threads, DelFree(t)
       PROVE  TInv'
  <2> DEFINE s == th[t].s
  <2>1. s \in Sessions
    BY <1>11 DEF DelFree, CallsHaveSession
  <2>2. Free(s) /\ th' = [th EXCEPT ![t] = Idle] /\ fault' = fault \cup UseInDel(t, s)
        /\ UNCHANGED <<held, buf, result, eof, finished, taskVars, cliVars, phase>>
    BY <1>11 DEF DelFree, Touch
  <2> HIDE DEF s
  <2>3. th' \in [Threads -> [op : Ops, s : SessionOrNull, rem : Nat]] /\ CallsHaveSession'
    BY <2>2, ThreadTypes DEF Ops, SessionOrNull, Idle
  <2>4. UseInDel(t, s) \subseteq Faults /\ ReleaseActive(s) \in SessionOrNull
    BY UsesAreFaults DEF StateOK, ReleaseActive, SessionOrNull
  <2>5. StateOK'
    BY <2>1, <2>2, <2>3, <2>4 DEF Free, StateOK, taskVars, cliVars
  <2> QED
    BY <2>2, <2>3, <2>5 DEF taskVars, CallbackHasSession, BufferBounded
<1>12. CASE SweepStart
  BY <1>12 DEF SweepStart, objVars, cliVars, taskVars, StateOK, CallsHaveSession, CallbackHasSession, BufferBounded
<1>13. CASE SweepEnd
  BY <1>13 DEF SweepEnd, objVars, cliVars, taskVars, StateOK, CallsHaveSession, CallbackHasSession, BufferBounded, Idle, Ops, SessionOrNull
<1>14. ASSUME NEW s \in Sessions, OtaStartOk(s)
       PROVE  TInv'
  <2>1. UseSem(s) \subseteq Faults
    BY UsesAreFaults
  <2> QED
    BY <1>14, <2>1 DEF OtaStartOk, Touch, TaskEnd, cliVars, StateOK, CallsHaveSession, CallbackHasSession, BufferBounded
<1>15. ASSUME NEW s \in Sessions, OtaStartFails(s)
       PROVE  TInv'
  <2>1. UseSem(s) \subseteq Faults
    BY UsesAreFaults
  <2> QED
    BY <1>15, <2>1 DEF OtaStartFails, Touch, TaskEnd, cliVars, StateOK, CallsHaveSession, CallbackHasSession, BufferBounded
<1>16. ASSUME NEW s \in Sessions, ReadEnter(s)
       PROVE  TInv'
  <2>1. UNCHANGED <<obj, held, active, stream, buf, eof, finished, got, flashErr, cliVars,
                    phase, th>>
    BY <1>16 DEF ReadEnter
  <2>2. CASE active = NoSession
    <3>1. TaskEnd(s, "ERR") /\ fault' = fault \cup UseSem(s) /\ UNCHANGED cbself
      BY <1>16, <2>2 DEF ReadEnter, Touch
    <3>2. UseSem(s) \subseteq Faults
      BY UsesAreFaults
    <3> QED
      BY <2>1, <3>1, <3>2 DEF TaskEnd, cliVars, StateOK, CallsHaveSession, CallbackHasSession, BufferBounded
  <2>3. CASE active # NoSession
    <3>1. active \in Sessions
      BY <2>3 DEF StateOK, SessionOrNull
    <3>2. /\ cbself' = [cbself EXCEPT ![s] = active] /\ task' = [task EXCEPT ![s] = "recv"]
          /\ UNCHANGED <<result, sem, fault>>
      BY <1>16, <2>3 DEF ReadEnter
    <3> QED
      BY <2>1, <3>1, <3>2 DEF cliVars, StateOK, CallsHaveSession, CallbackHasSession, BufferBounded, SessionOrNull
  <2> QED BY <2>2, <2>3
<1>17. ASSUME NEW s \in Sessions, ReadReceive(s)
       PROVE  TInv'
  <2> DEFINE c == cbself[s]
  <2>1. c \in Sessions /\ fault' = fault \cup UseStream(c)
    BY <1>17 DEF ReadReceive, Touch, CallbackHasSession
  <2>2. UNCHANGED <<obj, held, active, stream, sem, result, eof, finished, cbself, flashErr,
                    sent, whole, outcome, phase, th>>
    BY <1>17 DEF ReadReceive, cliVars
  <2>3. \/ Receive(s, c)
        \/ task' = [task EXCEPT ![s] = "poll"] /\ UNCHANGED <<got, buf>>
    BY <1>17 DEF ReadReceive
  <2>4. /\ got' \in [Sessions -> Seq(Bytes)] /\ buf' \in [Sessions -> Seq(Bytes)]
        /\ BufferBounded'
        /\ task' = [task EXCEPT ![s] = "start"] \/ task' = [task EXCEPT ![s] = "poll"]
    <3>1. CASE Receive(s, c)
      BY <3>1, <2>1, ReceiveTypes
    <3>2. CASE task' = [task EXCEPT ![s] = "poll"] /\ UNCHANGED <<got, buf>>
      BY <3>2 DEF StateOK, BufferBounded
    <3> QED BY <2>3, <3>1, <3>2
  <2>5. fault' \in SUBSET Faults
    <3>1. UseStream(c) \subseteq Faults
      BY UsesAreFaults
    <3> QED BY <3>1, <2>1 DEF StateOK
  <2>6. StateOK'
    BY <2>2, <2>4, <2>5 DEF StateOK
  <2> QED
    <3>1. CallbackHasSession'
      BY <2>1, <2>2, <2>4 DEF CallbackHasSession, StateOK
    <3> QED BY <2>2, <2>4, <2>6, <3>1 DEF CallsHaveSession
<1>18. ASSUME NEW s \in Sessions, ReadPoll(s)
       PROVE  TInv'
  <2> DEFINE c == cbself[s]
             res == IF got[s] = Image(s) THEN "OK" ELSE "ERR"
  <2>1. c \in Sessions
    BY <1>18 DEF ReadPoll, CallbackHasSession
  <2>2. UNCHANGED <<obj, held, active, stream, eof, finished, cbself, flashErr,
                    sent, whole, outcome, phase, th>>
    BY <1>18 DEF ReadPoll, cliVars
  <2>3. fault' \in SUBSET Faults
    <3>1. UseObject(c) \subseteq Faults /\ UseStream(c) \subseteq Faults /\ UseSem(s) \subseteq Faults
      BY UsesAreFaults
    <3>2. \/ fault' = fault \cup UseObject(c)
          \/ fault' = fault \cup UseStream(c)
          \/ fault' = fault \cup (UseStream(c) \cup UseSem(s))
      BY <1>18 DEF ReadPoll, Touch
    <3> QED BY <3>1, <3>2 DEF StateOK
  <2>4. CASE task' = [task EXCEPT ![s] = "recv"] /\ UNCHANGED <<got, buf, result, sem>>
    <3>1. StateOK'
      BY <2>2, <2>3, <2>4 DEF StateOK
    <3> QED
      BY <2>1, <2>2, <2>4, <3>1 DEF StateOK, CallsHaveSession, CallbackHasSession, BufferBounded
  <2>5. CASE Receive(s, c) /\ UNCHANGED <<result, sem>>
    <3>1. /\ got' \in [Sessions -> Seq(Bytes)] /\ buf' \in [Sessions -> Seq(Bytes)]
          /\ task' = [task EXCEPT ![s] = "start"] /\ BufferBounded'
      BY <2>1, <2>5, ReceiveTypes
    <3>2. StateOK'
      BY <2>2, <2>3, <2>5, <3>1 DEF StateOK
    <3> QED
      BY <2>2, <3>1, <3>2 DEF StateOK, CallsHaveSession, CallbackHasSession
  <2>6. CASE TaskEnd(s, res) /\ UNCHANGED <<got, buf>>
    <3>1. StateOK'
      BY <2>2, <2>3, <2>6 DEF StateOK, TaskEnd
    <3> QED
      BY <2>2, <2>6, <3>1 DEF StateOK, TaskEnd, CallsHaveSession, CallbackHasSession, BufferBounded
  <2> QED BY <1>18, <2>4, <2>5, <2>6 DEF ReadPoll
<1>19. CASE UNCHANGED vars
  BY <1>19 DEF vars, otaVars, StateOK, CallsHaveSession, CallbackHasSession, BufferBounded
<1>20. QED
  BY <1>1, <1>2, <1>3, <1>4, <1>5, <1>6, <1>7, <1>8, <1>9, <1>10, <1>11, <1>12, <1>13,
     <1>14, <1>15, <1>16, <1>17, <1>18, <1>19 DEF Next, Step, Client, Blocked, Task

(***************************************************************************)
(* Every variable of the OTA model keeps its type in every behaviour: in   *)
(* particular a write never sends more than it was given, and a stream     *)
(* buffer holds nothing but bytes of sessions.                             *)
(***************************************************************************)
THEOREM TypeOKAlways == Spec => []TypeOK
<1>1. TInv /\ troubles \in Settings => TypeOK
  BY DEF TInv, TypeOK
<1>2. Init => troubles \in Settings
  BY DEF Init
<1>3. troubles \in Settings /\ [Next]_vars => (troubles \in Settings)'
  BY DEF Next, vars
<1>4. TInv /\ [Next]_vars => TInv'
  BY NextTInv
<1> QED
  BY InitTInv, <1>1, <1>2, <1>3, <1>4, PTL DEF Spec

(***************************************************************************)
(* The safety of sessions.  A running task has its session active, pending *)
(* and with an untouched semaphore; that is what keeps make_new (EBUSY),   *)
(* finish (it waits for the token) and __del__ (it tests result, then      *)
(* waits) from replacing or freeing it.                                    *)
(***************************************************************************)
RunningOK ==
  \A s \in Sessions :
    Running(s) => active = s /\ result[s] = "PENDING" /\ sem[s] = "empty"

IInv == TInv /\ (InTime => RunningOK)

(* A thread that waits for nothing makes no difference to the tasks.       *)
LEMMA RunningUnchanged ==
  ASSUME RunningOK, UNCHANGED <<active, result, sem, task>>
  PROVE  RunningOK'
BY DEF RunningOK, Running

(* Ending a task leaves no running session behind with a changed result.   *)
LEMMA TaskEndRunning ==
  ASSUME TInv, RunningOK, NEW s \in Sessions, NEW res, TaskEnd(s, res), active' = active
  PROVE  RunningOK'
BY DEF TInv, StateOK, RunningOK, Running, TaskEnd

(* Moving a task on within its loop.                                       *)
LEMMA TaskMoveRunning ==
  ASSUME TInv, RunningOK, NEW s \in Sessions, Running(s), NEW pc,
         task' = [task EXCEPT ![s] = pc], UNCHANGED <<active, result, sem>>
  PROVE  RunningOK'
BY DEF TInv, StateOK, RunningOK, Running

(* Freeing a session that is not running.                                  *)
LEMMA FreeRunning ==
  ASSUME TInv, RunningOK, NEW s \in Sessions, ~Running(s), Free(s), UNCHANGED <<result, task>>
  PROVE  RunningOK'
BY DEF TInv, StateOK, RunningOK, Running, Free, ReleaseActive

(***************************************************************************)
(* Every step keeps RunningOK, provided the finaliser's 10 s suffice.      *)
(***************************************************************************)
LEMMA NextIInv ==
  ASSUME TInv, RunningOK, InTime, [Next]_vars
  PROVE  RunningOK'
<1>1. ASSUME NEW t \in Threads, NEW s \in Sessions, MakeNew(t, s)
      PROVE  RunningOK'
  <2>1. \A r \in Sessions : ~Running(r)
    BY <1>1, OtaAssumption DEF MakeNew, Busy, RunningOK
  <2>2. task' = [task EXCEPT ![s] = "start"] /\ active' = s
        /\ sem' = [sem EXCEPT ![s] = "empty"] /\ result' = [result EXCEPT ![s] = "PENDING"]
    BY <1>1 DEF MakeNew, InitFields
  <2> QED
    BY <2>1, <2>2 DEF RunningOK, Running, TInv, StateOK
<1>2. ASSUME NEW t \in Threads, NEW s \in Sessions, MakeNewFails(t, s)
      PROVE  RunningOK'
  <2>1. \A r \in Sessions : ~Running(r)
    BY <1>2, OtaAssumption DEF MakeNewFails, Busy, RunningOK, TInv, StateOK, SessionOrNull
  <2> QED
    BY <1>2, <2>1 DEF MakeNewFails, taskVars, RunningOK, Running
<1>3. ASSUME NEW t \in Threads, NEW s \in Sessions, NEW n \in 1 .. ImageLen, WriteEnter(t, s, n)
      PROVE  RunningOK'
  BY <1>3, RunningUnchanged DEF WriteEnter, objVars, taskVars
<1>4. ASSUME NEW t \in Threads, WriteSlice(t)
      PROVE  RunningOK'
  BY <1>4, RunningUnchanged DEF WriteSlice, taskVars
<1>5. ASSUME NEW t \in Threads, NEW s \in Sessions, FinishEnter(t, s)
      PROVE  RunningOK'
  BY <1>5, RunningUnchanged DEF FinishEnter, taskVars
<1>6. ASSUME NEW t \in Threads, FinishReturn(t)
      PROVE  RunningOK'
  <2> DEFINE s == th[t].s
  <2>1. s \in Sessions /\ sem[s] # "empty"
    BY <1>6 DEF FinishReturn, TInv, CallsHaveSession
  <2>2. ~Running(s)
    BY <2>1 DEF RunningOK
  <2>3. /\ sem' = [sem EXCEPT ![s] = IF sem[s] = "given" THEN "empty" ELSE sem[s]]
        /\ active' = ReleaseActive(s) /\ UNCHANGED <<result, task>>
    BY <1>6 DEF FinishReturn, taskVars
  <2> QED
    BY <2>1, <2>2, <2>3 DEF RunningOK, Running, ReleaseActive, TInv, StateOK
<1>7. ASSUME NEW t \in Threads, NEW s \in Sessions, Drop(t, s)
      PROVE  RunningOK'
  BY <1>7, RunningUnchanged DEF Drop, objVars, taskVars
<1>8. ASSUME NEW t \in Threads, NEW s \in Sessions, DelAtOnce(t, s)
      PROVE  RunningOK'
  <2>1. result[s] # "PENDING" \/ sem[s] = "null"
    BY <1>8 DEF DelAtOnce
  <2>2. ~Running(s)
    BY <2>1 DEF RunningOK
  <2> QED
    BY <1>8, <2>2, FreeRunning DEF DelAtOnce, taskVars
<1>9. ASSUME NEW t \in Threads, NEW s \in Sessions, DelEnter(t, s)
      PROVE  RunningOK'
  BY <1>9, RunningUnchanged DEF DelEnter, taskVars
<1>10. ASSUME NEW t \in Threads, DelSend(t)
       PROVE  RunningOK'
  BY <1>10, RunningUnchanged DEF DelSend, taskVars
<1>11. ASSUME NEW t \in Threads, DelFree(t)
       PROVE  RunningOK'
  <2> DEFINE s == th[t].s
  <2>1. s \in Sessions
    BY <1>11 DEF DelFree, TInv, CallsHaveSession
  <2>2. ~Running(s)
    BY <1>11, <2>1 DEF DelFree, TakeReturns, RunningOK, InTime
  <2> QED
    BY <1>11, <2>1, <2>2, FreeRunning DEF DelFree, taskVars
<1>12. CASE SweepStart
  BY <1>12, RunningUnchanged DEF SweepStart, objVars, taskVars
<1>13. CASE SweepEnd
  BY <1>13, RunningUnchanged DEF SweepEnd, objVars, taskVars
<1>14. ASSUME NEW s \in Sessions, OtaStartOk(s)
       PROVE  RunningOK'
  BY <1>14, TaskEndRunning DEF OtaStartOk
<1>15. ASSUME NEW s \in Sessions, OtaStartFails(s)
       PROVE  RunningOK'
  BY <1>15, TaskEndRunning DEF OtaStartFails
<1>16. ASSUME NEW s \in Sessions, ReadEnter(s)
       PROVE  RunningOK'
  <2>1. CASE TaskEnd(s, "ERR")
    BY <1>16, <2>1, TaskEndRunning DEF ReadEnter
  <2>2. CASE task' = [task EXCEPT ![s] = "recv"] /\ UNCHANGED <<result, sem>>
    BY <1>16, <2>2, TaskMoveRunning DEF ReadEnter, Running
  <2> QED BY <1>16, <2>1, <2>2 DEF ReadEnter
<1>17. ASSUME NEW s \in Sessions, ReadReceive(s)
       PROVE  RunningOK'
  BY <1>17, TaskMoveRunning DEF ReadReceive, Receive, Running
<1>18. ASSUME NEW s \in Sessions, ReadPoll(s)
       PROVE  RunningOK'
  <2> DEFINE res == IF got[s] = Image(s) THEN "OK" ELSE "ERR"
  <2>1. CASE TaskEnd(s, res)
    BY <1>18, <2>1, TaskEndRunning DEF ReadPoll
  <2>2. CASE UNCHANGED <<result, sem>> /\ \E pc : task' = [task EXCEPT ![s] = pc]
    BY <1>18, <2>2, TaskMoveRunning DEF ReadPoll, Running
  <2> QED BY <1>18, <2>1, <2>2 DEF ReadPoll, Receive
<1>19. CASE UNCHANGED vars
  BY <1>19, RunningUnchanged DEF vars, otaVars
<1>20. QED
  BY <1>1, <1>2, <1>3, <1>4, <1>5, <1>6, <1>7, <1>8, <1>9, <1>10, <1>11, <1>12, <1>13,
     <1>14, <1>15, <1>16, <1>17, <1>18, <1>19 DEF Next, Step, Client, Blocked, Task

(***************************************************************************)
(* Whatever the threads do, whatever allocation fails, and through any     *)
(* number of soft resets: the session of a running task is the one in      *)
(* ota_active, as long as the task ends within the finaliser's 10 s.       *)
(***************************************************************************)
THEOREM RunningIsActiveAlways == Spec => []RunningIsActive
<1>1. Init => IInv
  BY InitTInv DEF IInv, RunningOK, Running, Init
<1>2. IInv /\ [Next]_vars => IInv'
  <2> SUFFICES ASSUME IInv, [Next]_vars
               PROVE  IInv'
    OBVIOUS
  <2>1. TInv'
    BY NextTInv DEF IInv
  <2>2. InTime' => InTime
    BY DEF InTime, Next, vars
  <2> QED
    BY <2>1, <2>2, NextIInv DEF IInv
<1>3. IInv => RunningIsActive
  BY DEF IInv, RunningOK, RunningIsActive
<1> QED
  BY <1>1, <1>2, <1>3, PTL DEF Spec

(***************************************************************************)
(* Hence at most one update is in progress (quickref.rst:469).             *)
(***************************************************************************)
THEOREM OneInProgressAlways == Spec => []OneInProgress
<1>1. RunningIsActive => OneInProgress
  BY DEF RunningIsActive, OneInProgress
<1> QED
  BY RunningIsActiveAlways, <1>1, PTL
(***************************************************************************)
(* Who holds a session.  An object that a variable, a running task or a    *)
(* blocked call of another kind refers to is whole; one that a finaliser   *)
(* works on is known to nobody else; a soft reset sweeps alone.            *)
(***************************************************************************)
Deleting(t) == th[t].op \in {"delSend", "delTake"}
Intact(s)   == stream[s] = "valid" /\ sem[s] \in {"empty", "given"}
Ending(s)   == obj[s] = "freed" \/ \E t \in Threads : th[t].s = s /\ Deleting(t)

IdleHoldsNone == \A t \in Threads : th[t].op = "idle" => th[t].s = NoSession
CallsLive     == \A t \in Threads : th[t].op # "idle" => obj[th[t].s] = "live"
DeletesAlone  == \A t, u \in Threads : Deleting(t) /\ t # u => th[u].s # th[t].s
HeldLive      == phase = "run" => \A s \in held : obj[s] = "live" /\ ~Ending(s)
SweepsAlone   == phase = "sweep" => \A t \in Threads \ {Main} : th[t].op = "idle"
TasksLive     == \A s \in Sessions : Running(s) => /\ obj[s] = "live"
                                                   /\ task[s] # "start" => cbself[s] = s
Built == \A s \in Sessions :
           obj[s] = "live" =>
             \/ Intact(s)
             \/ /\ "allocFails" \in troubles /\ s \notin held /\ ~Running(s)
                /\ \A t \in Threads : th[t].s = s => Deleting(t)
Fresh == \A s \in Sessions : obj[s] = "none" => sem[s] = "null" /\ outcome[s] = "none"
TokenMeansResult == \A s \in Sessions : sem[s] = "given" => result[s] # "PENDING"

Held == /\ IdleHoldsNone /\ CallsLive /\ DeletesAlone /\ HeldLive /\ SweepsAlone
        /\ TasksLive /\ Built /\ Fresh /\ TokenMeansResult

(***************************************************************************)
(* The bytes of a session and the reasons for an error.                    *)
(***************************************************************************)
Byte(s, i, n) == IF i =< n THEN <<s, i>> ELSE <<s, 0>>

Carried(s, g, lg, b, lb, n) ==
  /\ \A i \in 1 .. lg : g[i] = Byte(s, i, n)
  /\ \A i \in 1 .. lb : b[i] = Byte(s, lg + i, n)
  /\ lg + lb \in {n, n + 1}

Dummied(s) == obj[s] = "freed" \/ \E t \in Threads : th[t].s = s /\ th[t].op = "delTake"

Contents == \A s \in Sessions :
  /\ Carried(s, got[s], Len(got[s]), buf[s], Len(buf[s]), sent[s])
  /\ Len(got[s]) + Len(buf[s]) # sent[s] => Dummied(s)
Writers == \A t \in Threads : th[t].op = "write" =>
  /\ sent[th[t].s] + th[t].rem =< ImageLen
  /\ \A u \in Threads : th[u].op = "write" /\ u # t => th[u].s # th[t].s
WholeIs  == \A s \in Sessions : whole[s] => sent[s] = ImageLen
EofMeans == \A s \in Sessions : eof[s] => finished[s] \/ Ending(s)
ErrMeans == \A s \in Sessions :
  result[s] = "ERR" => flashErr[s] \/ Ending(s) \/ (finished[s] /\ ~whole[s])
OutcomeMeans == /\ \A s \in Sessions : outcome[s] # "none" => finished[s]
                /\ \A s \in Sessions : outcome[s] = "EIO" => flashErr[s] \/ ~whole[s]
                /\ \A t \in Threads : th[t].op = "finish" => finished[th[t].s]
BytesInv == Contents /\ Writers /\ WholeIs /\ EofMeans /\ ErrMeans /\ OutcomeMeans

(* A thread's entry after its step, and those of the others.               *)
LEMMA ThreadIs ==
  ASSUME StateOK, NEW t \in Threads, NEW op, NEW s, NEW rem,
         th' = [th EXCEPT ![t] = [op |-> op, s |-> s, rem |-> rem]]
  PROVE  /\ th'[t].op = op /\ th'[t].s = s /\ th'[t].rem = rem
         /\ \A u \in Threads \ {t} : th'[u] = th[u]
BY DEF StateOK

LEMMA ThreadIdle ==
  ASSUME StateOK, NEW t \in Threads, th' = [th EXCEPT ![t] = Idle]
  PROVE  /\ th'[t].op = "idle" /\ th'[t].s = NoSession
         /\ \A u \in Threads \ {t} : th'[u] = th[u]
BY DEF StateOK, Idle

(* Without intruders a thread runs only outside the sweep.                 *)
LEMMA RunsOutside ==
  ASSUME Orderly, MayRun
  PROVE  phase = "run"
BY DEF Orderly, MayRun

LEMMA HeldInit == ASSUME Init PROVE Held
BY DEF Init, Held, IdleHoldsNone, CallsLive, DeletesAlone, HeldLive, SweepsAlone, TasksLive, Built, Fresh,
       TokenMeansResult, Idle, Running, Deleting

(* A step of the task of s.                                                *)
LEMMA HeldTask ==
  ASSUME TInv, Held, NEW s \in Sessions, Running(s), UNCHANGED <<obj, held, stream, phase, th, outcome, troubles>>,
         \A r \in Sessions \ {s} : /\ task'[r] = task[r] /\ cbself'[r] = cbself[r]
                                   /\ sem'[r] = sem[r] /\ result'[r] = result[r],
         task'[s] \in {"recv", "poll"} => cbself'[s] = s,
         sem'[s] \in {"empty", "given"}, sem'[s] = "given" => result'[s] # "PENDING"
  PROVE  Held'
<1>1. IdleHoldsNone' /\ CallsLive' /\ DeletesAlone' /\ SweepsAlone'
  BY DEF Held, IdleHoldsNone, CallsLive, DeletesAlone, SweepsAlone, Deleting
<1>2. HeldLive' BY DEF Held, HeldLive, Ending, Deleting
<1>3. TasksLive' BY DEF Held, TasksLive, Running
<1>4. Built' BY DEF Held, Built, Intact, Running, Deleting, TasksLive
<1>5. Fresh' BY DEF Held, Fresh, TasksLive
<1>6. TokenMeansResult' BY DEF Held, TokenMeansResult
<1> QED BY <1>1, <1>2, <1>3, <1>4, <1>5, <1>6 DEF Held

(* t enters write() or finish() on a session it holds.                     *)
LEMMA HeldCall ==
  ASSUME TInv, Held, NEW t \in Threads, NEW s \in Sessions, th[t].op = "idle", s \in held, phase = "run",
         th'[t].s = s, th'[t].op \in {"write", "finish"}, \A u \in Threads \ {t} : th'[u] = th[u],
         UNCHANGED <<obj, held, stream, sem, phase, task, cbself, result, outcome, troubles>>
  PROVE  Held'
<1>0. obj[s] = "live" /\ ~Ending(s) BY DEF Held, HeldLive
<1>1. IdleHoldsNone' BY DEF Held, IdleHoldsNone
<1>2. CallsLive' BY <1>0 DEF Held, CallsLive
<1>3. DeletesAlone' BY <1>0 DEF Held, DeletesAlone, Deleting, Ending
<1>4. HeldLive'
  <2>1. \A r \in Sessions : Ending(r)' => Ending(r) BY DEF Ending, Deleting
  <2> QED BY <2>1 DEF Held, HeldLive, TInv, StateOK
<1>5. SweepsAlone' BY DEF SweepsAlone
<1>6. TasksLive' /\ Fresh' /\ TokenMeansResult' BY DEF Held, TasksLive, Fresh, TokenMeansResult, Running
<1>7. Built' BY DEF Held, Built, Intact, Running, Deleting
<1> QED BY <1>1, <1>2, <1>3, <1>4, <1>5, <1>6, <1>7 DEF Held

(* No thread changes its session, begins a deletion or ends one.           *)
LEMMA HeldSame ==
  ASSUME TInv, Held,
         \A u \in Threads : /\ th'[u].s = th[u].s /\ (th'[u].op = "idle" <=> th[u].op = "idle")
                            /\ (Deleting(u)' <=> Deleting(u)),
         UNCHANGED <<obj, stream, sem, phase, task, cbself, result, outcome, troubles>>,
         held' \subseteq held
  PROVE  Held'
<1>1. IdleHoldsNone' /\ CallsLive' /\ DeletesAlone' /\ SweepsAlone'
  BY DEF Held, IdleHoldsNone, CallsLive, DeletesAlone, SweepsAlone
<1>2. \A r : Ending(r)' <=> Ending(r) BY DEF Ending
<1>3. HeldLive' BY <1>2 DEF Held, HeldLive
<1>4. TasksLive' /\ Fresh' /\ TokenMeansResult' BY DEF Held, TasksLive, Fresh, TokenMeansResult, Running
<1>5. Built' BY DEF Held, Built, Intact, Running
<1> QED BY <1>1, <1>3, <1>4, <1>5 DEF Held

(* t returns from write() or finish().                                     *)
LEMMA HeldBack ==
  ASSUME TInv, Held, NEW t \in Threads, th[t].op \in {"write", "finish"},
         th'[t].op = "idle", th'[t].s = NoSession, \A u \in Threads \ {t} : th'[u] = th[u],
         UNCHANGED <<obj, held, stream, phase, task, cbself, result, troubles>>,
         \A r \in Sessions : obj[r] = "none" => outcome'[r] = outcome[r],
         \A r \in Sessions : sem'[r] = sem[r] \/ (sem[r] = "given" /\ sem'[r] = "empty")
  PROVE  Held'
<1>1. IdleHoldsNone' /\ CallsLive' /\ DeletesAlone' /\ SweepsAlone'
  <2>1. IdleHoldsNone' BY DEF Held, IdleHoldsNone
  <2>2. CallsLive' BY DEF Held, CallsLive
  <2>3. SweepsAlone' BY DEF Held, SweepsAlone
  <2>4. ASSUME NEW u \in Threads, Deleting(u)' PROVE Deleting(u) /\ th'[u] = th[u] /\ th[u].s \in Sessions /\ u # t
    BY <2>4 DEF Deleting, TInv, CallsHaveSession
  <2>5. DeletesAlone' BY <2>4, OtaAssumption DEF Held, DeletesAlone
  <2> QED BY <2>1, <2>2, <2>3, <2>5
<1>2. \A r : Ending(r)' => Ending(r) BY DEF Ending, Deleting
<1>3. HeldLive' BY <1>2 DEF Held, HeldLive
<1>4. TasksLive' /\ TokenMeansResult' BY DEF Held, TasksLive, TokenMeansResult, Running
<1>5. Fresh' BY DEF Held, Fresh, TInv, StateOK
<1>6. Built' BY OtaAssumption DEF Held, Built, Intact, Running, Deleting
<1> QED BY <1>1, <1>3, <1>4, <1>5, <1>6 DEF Held
(* t starts to finalise a session that nobody else refers to.              *)
LEMMA HeldDelEnter ==
  ASSUME TInv, Held, NEW t \in Threads, NEW s \in Sessions, th[t].op = "idle", obj[s] = "live",
         \A u \in Threads : th[u].s # s, phase = "run" => s \notin held, phase = "sweep" => t = Main,
         th'[t].s = s, th'[t].op = "delSend", \A u \in Threads \ {t} : th'[u] = th[u],
         UNCHANGED <<obj, held, stream, sem, phase, task, cbself, result, outcome, troubles>>
  PROVE  Held'
<1>1. IdleHoldsNone' BY DEF Held, IdleHoldsNone
<1>2. CallsLive' BY DEF Held, CallsLive
<1>3. DeletesAlone' BY DEF Held, DeletesAlone, Deleting
<1>4. HeldLive'
  <2>1. \A r \in Sessions \ {s} : Ending(r)' => Ending(r) BY DEF Ending, Deleting
  <2> QED BY <2>1 DEF Held, HeldLive, TInv, StateOK
<1>5. SweepsAlone' BY DEF Held, SweepsAlone
<1>6. TasksLive' /\ Fresh' /\ TokenMeansResult' BY DEF Held, TasksLive, Fresh, TokenMeansResult, Running
<1>7. Built' BY DEF Held, Built, Intact, Running, Deleting
<1> QED BY <1>1, <1>2, <1>3, <1>4, <1>5, <1>6, <1>7 DEF Held

(* The finaliser frees a session that nobody else refers to.               *)
LEMMA HeldFree ==
  ASSUME TInv, Held, RunningOK', NEW t \in Threads, NEW s \in Sessions, obj[s] = "live", Free(s),
         \A u \in Threads \ {t} : th[u].s # s /\ th'[u] = th[u],
         th'[t].op = "idle", th'[t].s = NoSession, phase = "run" => s \notin held,
         UNCHANGED <<held, phase, task, cbself, result, outcome, troubles>>
  PROVE  Held'
<1>0. /\ obj' = [obj EXCEPT ![s] = "freed"] /\ sem' = [sem EXCEPT ![s] = "null"]
      /\ stream' = [stream EXCEPT ![s] = "null"]
  BY DEF Free
<1>a. /\ obj'[s] = "freed" /\ sem'[s] = "null"
      /\ \A r \in Sessions \ {s} : obj'[r] = obj[r] /\ sem'[r] = sem[r] /\ stream'[r] = stream[r]
  BY <1>0 DEF TInv, StateOK
<1>b. ~Running(s)' BY <1>a DEF RunningOK
<1>1. IdleHoldsNone' BY DEF Held, IdleHoldsNone
<1>2. CallsLive'
  <2>1. ASSUME NEW u \in Threads, th'[u].op # "idle" PROVE obj'[th'[u].s] = "live"
    <3>1. u # t /\ th'[u] = th[u] /\ th[u].s # s BY <2>1
    <3>2. th[u].s \in Sessions /\ obj[th[u].s] = "live" BY <2>1, <3>1 DEF TInv, CallsHaveSession, Held, CallsLive
    <3> QED BY <1>a, <3>1, <3>2
  <2> QED BY <2>1 DEF CallsLive
<1>3. DeletesAlone'
  <2>4. ASSUME NEW u \in Threads, Deleting(u)' PROVE Deleting(u) /\ th'[u] = th[u] /\ th[u].s \in Sessions /\ u # t
    BY <2>4 DEF Deleting, TInv, CallsHaveSession
  <2> QED BY <2>4, OtaAssumption DEF Held, DeletesAlone
<1>4. HeldLive'
  <2>1. \A r \in Sessions \ {s} : Ending(r)' => Ending(r) BY <1>a, OtaAssumption DEF Ending, Deleting
  <2>2. ASSUME phase = "run", NEW r \in held PROVE r \in Sessions \ {s}
    BY <2>2 DEF TInv, StateOK
  <2> QED BY <1>a, <2>1, <2>2 DEF Held, HeldLive
<1>5. SweepsAlone' BY DEF Held, SweepsAlone
<1>6. TasksLive' BY <1>a, <1>b DEF Held, TasksLive, Running
<1>7. Fresh' BY <1>a DEF Held, Fresh
<1>8. TokenMeansResult' BY <1>a DEF Held, TokenMeansResult
<1>9. ASSUME NEW r \in Sessions, obj'[r] = "live"
      PROVE  \/ Intact(r)'
             \/ /\ "allocFails" \in troubles' /\ r \notin held' /\ ~Running(r)'
                /\ \A u \in Threads : th'[u].s = r => Deleting(u)'
  <2>1. r # s /\ obj[r] = "live" BY <1>a, <1>9
  <2>2. CASE Intact(r) BY <1>a, <2>1, <2>2 DEF Intact
  <2>3. CASE ~Intact(r) BY <2>1, <2>3, OtaAssumption DEF Held, Built, Running, Deleting
  <2> QED BY <2>2, <2>3
<1>10. Built' BY <1>9 DEF Built
<1> QED BY <1>1, <1>2, <1>3, <1>4, <1>5, <1>6, <1>7, <1>8, <1>10 DEF Held

(* The constructor, when it succeeds and when it fails.                    *)
LEMMA HeldMake ==
  ASSUME TInv, Held, Orderly, Orderly', NEW t \in Threads, NEW s \in Sessions, UNCHANGED troubles,
         MakeNew(t, s) \/ MakeNewFails(t, s)
  PROVE  Held'
<1>0. /\ phase = "run" /\ obj[s] = "none" /\ UNCHANGED <<phase, th, cbself, outcome>>
  BY DEF MakeNew, MakeNewFails, Unused, cliVars, taskVars
<1>1. obj' = [obj EXCEPT ![s] = "live"] /\ result' = [result EXCEPT ![s] = "PENDING"]
  BY DEF MakeNew, MakeNewFails, InitFields
<1>a. /\ obj'[s] = "live" /\ result'[s] = "PENDING"
      /\ \A r \in Sessions \ {s} : obj'[r] = obj[r] /\ result'[r] = result[r]
  BY <1>1 DEF TInv, StateOK
<1>b. \A u \in Threads : th[u].s # s
  BY <1>0, OtaAssumption DEF Held, IdleHoldsNone, CallsLive
<1>c. ~Running(s) /\ sem[s] = "null" /\ outcome[s] = "none" BY <1>0 DEF Held, TasksLive, Fresh
<1>d. \/ /\ MakeNew(t, s) /\ Intact(s)' /\ sem'[s] = "empty" /\ held' = held \cup {s} /\ task'[s] = "start"
         /\ \A r \in Sessions \ {s} : task'[r] = task[r]
      \/ /\ MakeNewFails(t, s) /\ "allocFails" \in troubles /\ held' = held /\ task' = task
         /\ sem'[s] \in {"null", "dangling"}
  <2>1. CASE MakeNew(t, s) BY <2>1 DEF MakeNew, Intact, TInv, StateOK
  <2>2. CASE MakeNewFails(t, s) BY <1>c, <2>2 DEF MakeNewFails, taskVars, TInv, StateOK
  <2> QED BY <2>1, <2>2
<1>e. \A r \in Sessions \ {s} : sem'[r] = sem[r] /\ stream'[r] = stream[r]
  BY DEF MakeNew, MakeNewFails, TInv, StateOK
<1>2. IdleHoldsNone' /\ DeletesAlone' /\ SweepsAlone'
  BY <1>0 DEF Held, IdleHoldsNone, DeletesAlone, SweepsAlone, Deleting
<1>3. CallsLive'
  <2>1. \A u \in Threads : th[u].op # "idle" => th[u].s \in Sessions \ {s} BY <1>b DEF TInv, CallsHaveSession
  <2> QED BY <1>0, <1>a, <2>1 DEF Held, CallsLive
<1>4. HeldLive'
  <2>1. \A r \in Sessions \ {s} : Ending(r)' => Ending(r) BY <1>0, <1>a DEF Ending, Deleting
  <2>2. ~Ending(s)' BY <1>0, <1>a, <1>b DEF Ending
  <2>a. held' \subseteq held \cup {s} BY <1>d
  <2>b. held \subseteq Sessions BY DEF TInv, StateOK
  <2>3. ASSUME NEW r \in held' PROVE r = s \/ (r \in held /\ r \in Sessions \ {s})
    BY ONLY <2>3, <2>a, <2>b
  <2>4. \A r \in held : obj[r] = "live" /\ ~Ending(r) BY <1>0 DEF Held, HeldLive
  <2> QED BY <1>a, <2>1, <2>2, <2>3, <2>4 DEF HeldLive
<1>5. TasksLive' BY <1>0, <1>a, <1>c, <1>d DEF Held, TasksLive, Running
<1>6. Fresh' BY <1>0, <1>a, <1>e DEF Held, Fresh
<1>7. TokenMeansResult' BY <1>a, <1>d, <1>e DEF Held, TokenMeansResult
<1>8. ASSUME NEW r \in Sessions, obj'[r] = "live"
      PROVE  \/ Intact(r)'
             \/ /\ "allocFails" \in troubles' /\ r \notin held' /\ ~Running(r)'
                /\ \A u \in Threads : th'[u].s = r => Deleting(u)'
  <2>1. CASE r = s
    <3>1. CASE MakeNew(t, s) /\ Intact(s)' BY <2>1, <3>1
    <3>2. CASE "allocFails" \in troubles /\ held' = held /\ task' = task
      <4>1. s \notin held BY <1>0 DEF Held, HeldLive
      <4> QED BY <1>0, <1>b, <1>c, <2>1, <3>2, <4>1 DEF Running
    <3> QED BY <1>d, <3>1, <3>2
  <2>2. CASE r # s
    <3>1. obj[r] = "live" BY <1>a, <1>8, <2>2
    <3>2. CASE Intact(r) BY <1>e, <2>2, <3>2 DEF Intact
    <3>3. CASE ~Intact(r) BY <1>0, <1>d, <2>2, <3>1, <3>3 DEF Held, Built, Running, Deleting
    <3> QED BY <3>2, <3>3
  <2> QED BY <2>1, <2>2
<1>9. Built' BY <1>8 DEF Built
<1> QED BY <1>2, <1>3, <1>4, <1>5, <1>6, <1>7, <1>9 DEF Held

(* Who a finaliser that may start leaves alone.                            *)
LEMMA CollectableAlone ==
  ASSUME TInv, Held, Orderly, NEW t \in Threads, NEW s \in Sessions, Collectable(t, s)
  PROVE  /\ th[t].op = "idle" /\ obj[s] = "live" /\ \A u \in Threads : th[u].s # s
         /\ phase = "run" => s \notin held
         /\ phase = "sweep" => t = Main
<1>1. th[t].op = "idle" /\ obj[s] = "live" BY DEF Collectable, MayCall
<1>2. CASE MayCall(t) /\ ~Reachable(s)
  BY <1>1, <1>2, RunsOutside DEF MayCall, Reachable
<1>3. CASE phase = "sweep" /\ t = Main
  BY <1>1, <1>3, OtaAssumption DEF Held, SweepsAlone, IdleHoldsNone
<1> QED BY <1>1, <1>2, <1>3 DEF Collectable
(* Every step keeps Held.                                                  *)
LEMMA HeldNext ==
  ASSUME TInv, RunningOK, RunningOK', Held, Orderly, Orderly', [Next]_vars
  PROVE  Held'
<1>0. UNCHANGED troubles BY DEF Next, vars
<1>a. StateOK BY DEF TInv
<1>1. ASSUME NEW t \in Threads, NEW s \in Sessions, MakeNew(t, s) \/ MakeNewFails(t, s)
      PROVE  Held'
  BY <1>0, <1>1, HeldMake
<1>3. ASSUME NEW t \in Threads, NEW s \in Sessions, NEW n \in 1 .. ImageLen, WriteEnter(t, s, n)
      PROVE  Held'
  <2>1. /\ th[t].op = "idle" /\ s \in held /\ phase = "run"
        /\ UNCHANGED <<obj, held, stream, sem, phase, task, cbself, result, outcome>>
    BY <1>3, RunsOutside DEF WriteEnter, MayCall, objVars, taskVars, cliVars
  <2>2. th' = [th EXCEPT ![t] = [op |-> "write", s |-> s, rem |-> n]] BY <1>3 DEF WriteEnter
  <2>3. th'[t].op = "write" /\ th'[t].s = s /\ \A u \in Threads \ {t} : th'[u] = th[u]
    BY ONLY <1>a, <2>2, t \in Threads DEF StateOK
  <2> QED BY <1>0, <2>1, <2>3, HeldCall
<1>4. ASSUME NEW t \in Threads, WriteSlice(t)
      PROVE  Held'
  <2>1. PICK rem : /\ th' = [th EXCEPT ![t] = Idle] \/ th' = [th EXCEPT ![t] = [th[t] EXCEPT !.rem = rem]]
                   /\ th[t].op = "write"
                   /\ UNCHANGED <<obj, held, stream, sem, phase, task, cbself, result, outcome>>
    BY <1>4 DEF WriteSlice, taskVars
  <2>2. CASE th' = [th EXCEPT ![t] = Idle]
    <3>1. /\ th'[t].op = "idle" /\ th'[t].s = NoSession /\ \A u \in Threads \ {t} : th'[u] = th[u]
      BY <1>a, <2>2, ThreadIdle
    <3> QED BY <1>0, <2>1, <3>1, HeldBack
  <2>3. CASE th' = [th EXCEPT ![t] = [th[t] EXCEPT !.rem = rem]]
    <3>1. \A u \in Threads : th'[u].s = th[u].s /\ th'[u].op = th[u].op BY <1>a, <2>3 DEF StateOK
    <3>2. \A u \in Threads : Deleting(u)' <=> Deleting(u) BY <3>1 DEF Deleting
    <3> QED BY <1>0, <2>1, <3>1, <3>2, HeldSame
  <2> QED BY <2>1, <2>2, <2>3
<1>5. ASSUME NEW t \in Threads, NEW s \in Sessions, FinishEnter(t, s)
      PROVE  Held'
  <2>1. /\ th[t].op = "idle" /\ s \in held /\ phase = "run"
        /\ UNCHANGED <<obj, held, stream, sem, phase, task, cbself, result, outcome>>
    BY <1>5, RunsOutside DEF FinishEnter, MayCall, taskVars
  <2>2. th' = [th EXCEPT ![t] = [op |-> "finish", s |-> s, rem |-> 0]] BY <1>5 DEF FinishEnter
  <2>3. th'[t].op = "finish" /\ th'[t].s = s /\ \A u \in Threads \ {t} : th'[u] = th[u]
    BY ONLY <1>a, <2>2, t \in Threads DEF StateOK
  <2> QED BY <1>0, <2>1, <2>3, HeldCall
<1>6. ASSUME NEW t \in Threads, FinishReturn(t)
      PROVE  Held'
  <2>1. PICK s : s = th[t].s OBVIOUS
  <2>2. th[t].op = "finish" /\ s \in Sessions /\ obj[s] = "live"
    BY <1>6, <2>1 DEF FinishReturn, TInv, CallsHaveSession, Held, CallsLive
  <2>3. /\ th' = [th EXCEPT ![t] = Idle] /\ UNCHANGED <<obj, held, stream, phase, task, cbself, result>>
        /\ sem' = [sem EXCEPT ![s] = IF sem[s] = "given" THEN "empty" ELSE sem[s]]
        /\ \E o : outcome' = [outcome EXCEPT ![s] = o]
    BY <1>6, <2>1 DEF FinishReturn, taskVars
  <2>4. \A r \in Sessions : sem'[r] = sem[r] \/ (sem[r] = "given" /\ sem'[r] = "empty")
    BY <1>a, <2>2, <2>3 DEF StateOK
  <2>5. \A r \in Sessions : obj[r] = "none" => outcome'[r] = outcome[r]
    BY <1>a, <2>2, <2>3 DEF StateOK
  <2>6. /\ th'[t].op = "idle" /\ th'[t].s = NoSession /\ \A u \in Threads \ {t} : th'[u] = th[u]
    BY <1>a, <2>3, ThreadIdle
  <2> QED BY <1>0, <2>2, <2>3, <2>4, <2>5, <2>6, HeldBack
<1>7. ASSUME NEW t \in Threads, NEW s \in Sessions, Drop(t, s)
      PROVE  Held'
  <2>1. /\ UNCHANGED <<obj, stream, sem, phase, th, task, cbself, result, outcome>> /\ held' \subseteq held
    BY <1>7 DEF Drop, objVars, taskVars, cliVars
  <2>2. \A u \in Threads : Deleting(u)' <=> Deleting(u) BY <2>1 DEF Deleting
  <2> QED BY <1>0, <2>1, <2>2, HeldSame
<1>8. ASSUME NEW t \in Threads, NEW s \in Sessions, DelAtOnce(t, s)
      PROVE  Held'
  <2>1. /\ Collectable(t, s) /\ Free(s) /\ UNCHANGED <<held, phase, th, task, cbself, result, outcome>>
    BY <1>8 DEF DelAtOnce, taskVars, cliVars
  <2>2. /\ th[t].op = "idle" /\ obj[s] = "live" /\ \A u \in Threads : th[u].s # s
        /\ phase = "run" => s \notin held
    BY <2>1, CollectableAlone
  <2>3. th[t].s = NoSession BY <2>2 DEF Held, IdleHoldsNone
  <2> QED BY <1>0, <2>1, <2>2, <2>3, HeldFree
<1>9. ASSUME NEW t \in Threads, NEW s \in Sessions, DelEnter(t, s)
      PROVE  Held'
  <2>1. /\ Collectable(t, s) /\ UNCHANGED <<obj, held, stream, sem, phase, task, cbself, result, outcome>>
        /\ th' = [th EXCEPT ![t] = [op |-> "delSend", s |-> s, rem |-> 0]]
    BY <1>9 DEF DelEnter, taskVars, cliVars
  <2>2. /\ th[t].op = "idle" /\ obj[s] = "live" /\ \A u \in Threads : th[u].s # s
        /\ phase = "run" => s \notin held
        /\ phase = "sweep" => t = Main
    BY <2>1, CollectableAlone
  <2>3. th'[t].op = "delSend" /\ th'[t].s = s /\ \A u \in Threads \ {t} : th'[u] = th[u]
    BY ONLY <1>a, <2>1, t \in Threads DEF StateOK
  <2> QED BY <1>0, <2>1, <2>2, <2>3, HeldDelEnter
<1>10. ASSUME NEW t \in Threads, DelSend(t)
       PROVE  Held'
  <2>1. /\ th[t].op = "delSend" /\ th' = [th EXCEPT ![t].op = "delTake"]
        /\ UNCHANGED <<obj, held, stream, sem, phase, task, cbself, result, outcome>>
    BY <1>10 DEF DelSend, taskVars, cliVars
  <2>2. /\ \A u \in Threads : th'[u].s = th[u].s
        /\ th'[t].op = "delTake" /\ \A u \in Threads \ {t} : th'[u].op = th[u].op
    BY <1>a, <2>1 DEF StateOK
  <2>3. \A u \in Threads : Deleting(u)' <=> Deleting(u) BY <2>1, <2>2 DEF Deleting
  <2>4. \A u \in Threads : th'[u].op = "idle" <=> th[u].op = "idle" BY <2>1, <2>2
  <2> QED BY <1>0, <2>1, <2>2, <2>3, <2>4, HeldSame
<1>11. ASSUME NEW t \in Threads, DelFree(t)
       PROVE  Held'
  <2>1. PICK s : s = th[t].s OBVIOUS
  <2>2. th[t].op = "delTake" /\ s \in Sessions /\ obj[s] = "live" /\ Deleting(t)
    BY <1>11, <2>1 DEF DelFree, TInv, CallsHaveSession, Held, CallsLive, Deleting
  <2>3. /\ Free(s) /\ th' = [th EXCEPT ![t] = Idle]
        /\ UNCHANGED <<held, phase, task, cbself, result, outcome>>
    BY <1>11, <2>1 DEF DelFree, taskVars, cliVars
  <2>4. /\ th'[t].op = "idle" /\ th'[t].s = NoSession /\ \A u \in Threads \ {t} : th'[u] = th[u]
    BY <1>a, <2>3, ThreadIdle
  <2>5. \A u \in Threads \ {t} : th[u].s # s BY <2>1, <2>2 DEF Held, DeletesAlone
  <2>6. phase = "run" => s \notin held BY <2>1, <2>2 DEF Held, HeldLive, Ending
  <2> QED BY <1>0, <2>2, <2>3, <2>4, <2>5, <2>6, HeldFree
<1>12. CASE SweepStart
  <2>1. /\ \A t \in Threads : th[t].op = "idle"
        /\ phase' = "sweep" /\ UNCHANGED <<obj, held, stream, sem, th, task, cbself, result, outcome>>
    BY <1>12 DEF SweepStart, Orderly, objVars, taskVars, cliVars
  <2>2. HeldLive' /\ SweepsAlone' BY <2>1 DEF HeldLive, SweepsAlone
  <2>3. IdleHoldsNone' /\ CallsLive' /\ DeletesAlone' BY <2>1 DEF Held, IdleHoldsNone, CallsLive, DeletesAlone, Deleting
  <2>4. TasksLive' /\ Fresh' /\ TokenMeansResult'
    BY <2>1 DEF Held, TasksLive, Fresh, TokenMeansResult, Running
  <2>5. Built' BY <1>0, <2>1 DEF Held, Built, Intact, Running, Deleting
  <2> QED BY <2>2, <2>3, <2>4, <2>5 DEF Held
<1>13. CASE SweepEnd
  <2>1. /\ \A s \in Sessions : obj[s] # "live"
        /\ phase' = "run" /\ held' = {}
        /\ UNCHANGED <<obj, stream, sem, task, cbself, result, outcome>>
        /\ th' = [t \in Threads |-> Idle]
    BY <1>13 DEF SweepEnd, objVars, taskVars, cliVars
  <2>2. \A t \in Threads : th'[t].op = "idle" /\ th'[t].s = NoSession BY <2>1 DEF Idle
  <2>3. IdleHoldsNone' /\ CallsLive' /\ DeletesAlone' /\ SweepsAlone'
    BY <2>1, <2>2 DEF IdleHoldsNone, CallsLive, DeletesAlone, Deleting, SweepsAlone
  <2>4. HeldLive' BY <2>1 DEF HeldLive
  <2>5. TasksLive' /\ Fresh' /\ TokenMeansResult'
    BY <2>1 DEF Held, TasksLive, Fresh, TokenMeansResult, Running
  <2>6. Built' BY <2>1 DEF Built
  <2> QED BY <2>3, <2>4, <2>5, <2>6 DEF Held
<1>e. ASSUME NEW s \in Sessions, NEW res, res # "PENDING", Running(s), TaskEnd(s, res),
             UNCHANGED <<obj, held, stream, phase, th, outcome, cbself>>
      PROVE  Held'
  <2>1. sem[s] = "empty" BY <1>e DEF RunningOK
  <2>2. /\ task'[s] = "done" /\ sem'[s] = "given" /\ result'[s] # "PENDING"
        /\ \A r \in Sessions \ {s} : task'[r] = task[r] /\ sem'[r] = sem[r] /\ result'[r] = result[r]
    BY <1>a, <1>e, <2>1 DEF TaskEnd, StateOK
  <2> QED BY <1>0, <1>e, <2>2, HeldTask
<1>m. ASSUME NEW s \in Sessions, NEW pc, Running(s), task' = [task EXCEPT ![s] = pc],
             pc \in {"recv", "poll"} => cbself'[s] = s,
             \A r \in Sessions \ {s} : cbself'[r] = cbself[r],
             UNCHANGED <<obj, held, stream, phase, th, outcome, sem, result>>
      PROVE  Held'
  <2>1. sem[s] = "empty" BY <1>m DEF RunningOK
  <2>2. task'[s] = pc /\ \A r \in Sessions \ {s} : task'[r] = task[r] BY <1>a, <1>m DEF StateOK
  <2> QED BY <1>0, <1>m, <2>1, <2>2, HeldTask
<1>14. ASSUME NEW s \in Sessions, OtaStartOk(s) \/ OtaStartFails(s)
       PROVE  Held'
  <2>1. Running(s) BY <1>14 DEF OtaStartOk, OtaStartFails, Running
  <2>2. UNCHANGED <<obj, held, stream, phase, th, outcome, cbself>> /\ (TaskEnd(s, "OK") \/ TaskEnd(s, "ERR"))
    BY <1>14 DEF OtaStartOk, OtaStartFails, cliVars
  <2> QED BY <1>e, <2>1, <2>2
<1>16. ASSUME NEW s \in Sessions, ReadEnter(s)
       PROVE  Held'
  <2>1. Running(s) /\ active = s BY <1>16 DEF ReadEnter, Running, RunningOK
  <2>2. /\ UNCHANGED <<obj, held, stream, phase, th, outcome, sem, result>>
        /\ task' = [task EXCEPT ![s] = "recv"] /\ cbself' = [cbself EXCEPT ![s] = s]
    BY <1>16, <2>1, OtaAssumption DEF ReadEnter, cliVars
  <2>3. cbself'[s] = s /\ \A r \in Sessions \ {s} : cbself'[r] = cbself[r] BY <1>a, <2>2 DEF StateOK
  <2> QED BY <1>m, <2>1, <2>2, <2>3
<1>17. ASSUME NEW s \in Sessions, ReadReceive(s)
       PROVE  Held'
  <2>1. Running(s) /\ cbself[s] = s BY <1>17 DEF ReadReceive, Running, Held, TasksLive
  <2>2. /\ UNCHANGED <<obj, held, stream, phase, th, outcome, sem, result, cbself>>
        /\ \E pc \in {"start", "poll"} : task' = [task EXCEPT ![s] = pc]
    BY <1>17 DEF ReadReceive, Receive, cliVars
  <2> QED BY <1>m, <2>1, <2>2
<1>18. ASSUME NEW s \in Sessions, ReadPoll(s)
       PROVE  Held'
  <2>1. Running(s) /\ cbself[s] = s BY <1>18 DEF ReadPoll, Running, Held, TasksLive
  <2>2. UNCHANGED <<obj, held, stream, phase, th, outcome, cbself>> BY <1>18 DEF ReadPoll, cliVars
  <2>3. \/ TaskEnd(s, "OK") \/ TaskEnd(s, "ERR")
        \/ UNCHANGED <<sem, result>> /\ \E pc \in {"start", "recv"} : task' = [task EXCEPT ![s] = pc]
    BY <1>18 DEF ReadPoll, Receive
  <2>4. CASE TaskEnd(s, "OK") \/ TaskEnd(s, "ERR") BY <1>e, <2>1, <2>2, <2>4
  <2>5. CASE UNCHANGED <<sem, result>> /\ \E pc \in {"start", "recv"} : task' = [task EXCEPT ![s] = pc]
    BY <1>m, <2>1, <2>2, <2>5
  <2> QED BY <2>3, <2>4, <2>5
<1>19. CASE UNCHANGED vars
  <2>1. UNCHANGED <<obj, held, stream, sem, phase, th, task, cbself, result, outcome>> BY <1>19 DEF vars, otaVars
  <2>2. \A u \in Threads : Deleting(u)' <=> Deleting(u) BY <2>1 DEF Deleting
  <2> QED BY <1>0, <2>1, <2>2, HeldSame
<1>20. QED
  BY <1>1, <1>3, <1>4, <1>5, <1>6, <1>7, <1>8, <1>9, <1>10, <1>11, <1>12, <1>13,
     <1>14, <1>16, <1>17, <1>18, <1>19 DEF Next, Step, Client, Blocked, Task
(***************************************************************************)
(* With everything whole that is in use, nothing stale is touched.         *)
(***************************************************************************)
LEMMA UseNothingStale ==
  ASSUME NEW s, obj[s] = "live", Intact(s)
  PROVE  UseObject(s) = {} /\ UseStream(s) = {} /\ UseSem(s) = {}
BY DEF UseObject, UseStream, UseSem, Intact

LEMMA FaultNext ==
  ASSUME TInv, RunningOK, Held, troubles = {}, fault = {}, [Next]_vars
  PROVE  fault' = {}
<1>a. Orderly BY DEF Orderly
<1>b. \A s \in Sessions : obj[s] = "live" => Intact(s) BY DEF Held, Built
<1>c. ASSUME NEW s \in Sessions, obj[s] = "live"
      PROVE  UseObject(s) = {} /\ UseStream(s) = {} /\ UseSem(s) = {}
  BY <1>b, <1>c, UseNothingStale
<1>d. ASSUME NEW t \in Threads, NEW s \in Sessions, obj[s] = "live", \A u \in Threads \ {t} : th[u].s # s
      PROVE  UseInDel(t, s) = {}
  BY <1>b, <1>c, <1>d DEF UseInDel, Waited, Intact
<1>h. ASSUME NEW s \in held, MayRun PROVE s \in Sessions /\ obj[s] = "live"
  BY <1>a, <1>h, RunsOutside DEF Held, HeldLive, TInv, StateOK
<1>t. ASSUME NEW t \in Threads, th[t].op # "idle" PROVE th[t].s \in Sessions /\ obj[th[t].s] = "live"
  BY <1>t DEF Held, CallsLive, TInv, CallsHaveSession
<1>r. ASSUME NEW s \in Sessions, Running(s) PROVE obj[s] = "live" /\ (task[s] # "start" => cbself[s] = s)
  BY <1>r DEF Held, TasksLive
<1>3. ASSUME NEW t \in Threads, NEW s \in Sessions, NEW n \in 1 .. ImageLen, WriteEnter(t, s, n)
      PROVE  fault' = {}
  BY <1>3, <1>c, <1>h DEF WriteEnter, MayCall, Touch
<1>4. ASSUME NEW t \in Threads, WriteSlice(t)
      PROVE  fault' = {}
  <2>1. th[t].op # "idle" /\ fault' = fault \cup UseStream(th[t].s) BY <1>4 DEF WriteSlice, Touch
  <2> QED BY <1>c, <1>t, <2>1
<1>5. ASSUME NEW t \in Threads, NEW s \in Sessions, FinishEnter(t, s)
      PROVE  fault' = {}
  BY <1>5, <1>c, <1>h DEF FinishEnter, MayCall, Touch
<1>6. ASSUME NEW t \in Threads, FinishReturn(t)
      PROVE  fault' = {}
  <2>1. th[t].op # "idle" /\ fault' = fault \cup UseSem(th[t].s) BY <1>6 DEF FinishReturn, Touch
  <2> QED BY <1>c, <1>t, <2>1
<1>8. ASSUME NEW t \in Threads, NEW s \in Sessions, DelAtOnce(t, s)
      PROVE  fault' = {}
  <2>1. Collectable(t, s) /\ fault' = fault \cup UseInDel(t, s) BY <1>8 DEF DelAtOnce, Touch
  <2>2. obj[s] = "live" /\ \A u \in Threads : th[u].s # s BY <1>a, <2>1, CollectableAlone
  <2> QED BY <1>d, <2>1, <2>2
<1>10. ASSUME NEW t \in Threads, DelSend(t)
       PROVE  fault' = {}
  <2>1. th[t].op # "idle" /\ fault' = fault \cup UseStream(th[t].s) BY <1>10 DEF DelSend, Touch
  <2> QED BY <1>c, <1>t, <2>1
<1>11. ASSUME NEW t \in Threads, DelFree(t)
       PROVE  fault' = {}
  <2>1. th[t].op = "delTake" /\ fault' = fault \cup UseInDel(t, th[t].s) BY <1>11 DEF DelFree, Touch
  <2>2. \A u \in Threads \ {t} : th[u].s # th[t].s BY <2>1 DEF Held, DeletesAlone, Deleting
  <2> QED BY <1>d, <1>t, <2>1, <2>2
<1>14. ASSUME NEW s \in Sessions, OtaStartOk(s) \/ OtaStartFails(s)
       PROVE  fault' = {}
  <2>1. Running(s) /\ fault' = fault \cup UseSem(s) BY <1>14 DEF OtaStartOk, OtaStartFails, Running, Touch
  <2> QED BY <1>c, <1>r, <2>1
<1>16. ASSUME NEW s \in Sessions, ReadEnter(s)
       PROVE  fault' = {}
  <2>1. active = s BY <1>16 DEF ReadEnter, Running, RunningOK
  <2> QED BY <1>16, <2>1, OtaAssumption DEF ReadEnter
<1>17. ASSUME NEW s \in Sessions, ReadReceive(s)
       PROVE  fault' = {}
  <2>1. Running(s) /\ task[s] # "start" /\ fault' = fault \cup UseStream(cbself[s])
    BY <1>17 DEF ReadReceive, Running, Touch
  <2> QED BY <1>c, <1>r, <2>1
<1>18. ASSUME NEW s \in Sessions, ReadPoll(s)
       PROVE  fault' = {}
  <2>1. Running(s) /\ task[s] # "start" BY <1>18 DEF ReadPoll, Running
  <2>2. cbself[s] = s BY <1>r, <2>1
  <2>3. fault' \subseteq fault \cup UseObject(s) \cup UseStream(s) \cup UseSem(s)
    BY <1>18, <2>2 DEF ReadPoll, Touch
  <2> QED BY <1>c, <1>r, <2>1, <2>3
<1>19. CASE \/ \E t \in Threads, s \in Sessions : MakeNew(t, s) \/ MakeNewFails(t, s) \/ Drop(t, s) \/ DelEnter(t, s)
            \/ SweepStart \/ SweepEnd \/ UNCHANGED vars
  BY <1>19 DEF MakeNew, MakeNewFails, Drop, DelEnter, SweepStart, SweepEnd, vars, otaVars
<1>20. QED
  BY <1>3, <1>4, <1>5, <1>6, <1>8, <1>10, <1>11, <1>14, <1>16, <1>17, <1>18, <1>19
     DEF Next, Step, Client, Blocked, Task

OInv == IInv /\ (Orderly => Held)

LEMMA OInvNext ==
  ASSUME OInv, [Next]_vars
  PROVE  OInv'
<1>0. UNCHANGED troubles BY DEF Next, vars
<1>1. TInv' BY NextTInv DEF OInv, IInv
<1>2. InTime' => RunningOK' BY <1>0, NextIInv DEF OInv, IInv, InTime
<1>3. Orderly' => Orderly /\ InTime /\ InTime' BY <1>0 DEF Orderly, InTime
<1>4. Orderly' => Held' BY <1>2, <1>3, HeldNext DEF OInv, IInv
<1> QED BY <1>1, <1>2, <1>4 DEF OInv, IInv

LEMMA OInvInit == ASSUME Init PROVE OInv
BY InitTInv, HeldInit DEF OInv, IInv, RunningOK, Running, Init

(***************************************************************************)
(* When no allocation fails, no task stalls and no thread intrudes on a    *)
(* soft reset, no thread and no task ever touches an OTA object, a stream  *)
(* buffer or a semaphore that the finaliser has given back                 *)
(* (modota.c:116-140), however many threads and sessions there are.        *)
(***************************************************************************)
THEOREM NoUseAfterFreeAlways == Spec => []NoUseAfterFree
<1> DEFINE J == OInv /\ (troubles = {} => fault = {})
<1>1. Init => J BY OInvInit DEF Init
<1>2. J /\ [Next]_vars => J'
  <2> SUFFICES ASSUME J, [Next]_vars PROVE J' OBVIOUS
  <2>1. OInv' BY OInvNext
  <2>2. ASSUME troubles' = {} PROVE fault' = {}
    <3>1. troubles = {} BY <2>2 DEF Next, vars
    <3>2. Orderly /\ InTime BY <3>1 DEF Orderly, InTime
    <3> QED BY <3>1, <3>2, FaultNext DEF OInv, IInv
  <2> QED BY <2>1, <2>2
<1>3. J => NoUseAfterFree BY DEF NoUseAfterFree
<1> QED BY <1>1, <1>2, <1>3, PTL DEF Spec
(***************************************************************************)
(* Facts about sequences, for the order of the bytes.                      *)
(***************************************************************************)
LEMMA AppendIs ==
  ASSUME NEW S, NEW s \in Seq(S), NEW e \in S
  PROVE  /\ Append(s, e) \in Seq(S) /\ Len(Append(s, e)) = Len(s) + 1 /\ Append(s, e)[Len(s) + 1] = e
         /\ \A i \in 1 .. Len(s) : Append(s, e)[i] = s[i]
BY AppendProperties

LEMMA CatIs ==
  ASSUME NEW S, NEW a \in Seq(S), NEW b \in Seq(S)
  PROVE  /\ a \o b \in Seq(S) /\ Len(a \o b) = Len(a) + Len(b)
         /\ \A i \in 1 .. Len(a) : (a \o b)[i] = a[i]
         /\ \A i \in 1 .. Len(b) : (a \o b)[Len(a) + i] = b[i]
<1>1. /\ a \o b \in Seq(S) /\ Len(a \o b) = Len(a) + Len(b) /\ Len(a) \in Nat /\ Len(b) \in Nat
      /\ \A i \in 1 .. Len(a) + Len(b) : (a \o b)[i] = IF i <= Len(a) THEN a[i] ELSE b[i - Len(a)]
  BY ConcatProperties
<1>2. PICK m \in Nat, n \in Nat : m = Len(a) /\ n = Len(b) BY <1>1
<1>3. ASSUME NEW i \in 1 .. n PROVE (a \o b)[m + i] = b[i]
  <2>1. m + i \in 1 .. m + n /\ ~(m + i <= m) /\ (m + i) - m = i OBVIOUS
  <2>2. (a \o b)[m + i] = IF m + i <= m THEN a[m + i] ELSE b[(m + i) - m] BY ONLY <1>1, <1>2, <2>1
  <2> QED BY ONLY <2>1, <2>2
<1>4. ASSUME NEW i \in 1 .. m PROVE (a \o b)[i] = a[i]
  <2>1. i \in 1 .. m + n /\ i <= m OBVIOUS
  <2> QED BY ONLY <1>1, <1>2, <2>1
<1> QED BY ONLY <1>1, <1>2, <1>3, <1>4

(* The first n bytes of s, and the others.                                 *)
LEMMA CutIs ==
  ASSUME NEW S, NEW s \in Seq(S), NEW n \in 0 .. Len(s)
  PROVE  /\ SubSeq(s, 1, n) \in Seq(S) /\ Len(SubSeq(s, 1, n)) = n
         /\ \A i \in 1 .. n : SubSeq(s, 1, n)[i] = s[i]
         /\ SubSeq(s, n + 1, Len(s)) \in Seq(S) /\ Len(SubSeq(s, n + 1, Len(s))) = Len(s) - n
         /\ \A i \in 1 .. Len(s) - n : SubSeq(s, n + 1, Len(s))[i] = s[n + i]
<1>1. PICK l \in Nat : l = Len(s) OBVIOUS
<1>2. \A i \in 1 .. l : s[i] \in S BY <1>1
<1>3. SubSeq(s, 1, n) \in Seq(S) BY <1>1, <1>2, SubSeqProperties
<1>4. Len(SubSeq(s, 1, n)) = n BY <1>1, <1>2, SubSeqProperties
<1>5. ASSUME NEW i \in 1 .. n PROVE SubSeq(s, 1, n)[i] = s[i]
  BY <1>1, <1>2, SubSeqProperties
<1>6. SubSeq(s, n + 1, l) \in Seq(S) BY <1>1, <1>2, SubSeqProperties
<1>7. Len(SubSeq(s, n + 1, l)) = l - n BY <1>1, <1>2, SubSeqProperties
<1>8. ASSUME NEW i \in 1 .. l - n PROVE SubSeq(s, n + 1, l)[i] = s[n + i]
  BY <1>1, <1>2, SubSeqProperties
<1> QED BY <1>1, <1>3, <1>4, <1>5, <1>6, <1>7, <1>8

(***************************************************************************)
(* What ota_start has of a session (the lg entries of g) followed by what  *)
(* is buffered (the lb entries of b), of n bytes that write() accepted.    *)
(***************************************************************************)
LEMMA CarriedChunk ==
  ASSUME NEW s, NEW g, NEW lg \in Nat, NEW b, NEW lb \in Nat, NEW n \in Nat, NEW k \in Nat,
         Carried(s, g, lg, b, lb, n), lg + lb = n,
         NEW d, \A i \in 1 .. lb : d[i] = b[i], \A i \in 1 .. k : d[lb + i] = <<s, n + i>>
  PROVE  Carried(s, g, lg, d, lb + k, n + k)
<1>1. ASSUME NEW i \in 1 .. lg PROVE g[i] = Byte(s, i, n + k)
  <2>1. g[i] = Byte(s, i, n) /\ i =< n /\ i =< n + k BY DEF Carried
  <2> QED BY <2>1 DEF Byte
<1>2. ASSUME NEW i \in 1 .. lb + k PROVE d[i] = Byte(s, lg + i, n + k)
  <2>1. CASE i =< lb
    <3>1. b[i] = Byte(s, lg + i, n) /\ lg + i =< n /\ lg + i =< n + k BY <2>1 DEF Carried
    <3> QED BY <2>1, <3>1 DEF Byte
  <2>2. CASE i > lb
    <3>1. PICK j \in 1 .. k : i = lb + j BY <2>2, i - lb \in 1 .. k
    <3>2. d[i] = <<s, n + j>> /\ lg + i = n + j /\ lg + i =< n + k BY <3>1
    <3> QED BY ONLY <3>2 DEF Byte
  <2> QED BY <2>1, <2>2
<1> QED BY <1>1, <1>2 DEF Carried

LEMMA CarriedDummy ==
  ASSUME NEW s, NEW g, NEW lg \in Nat, NEW b, NEW lb \in Nat, NEW n \in Nat,
         Carried(s, g, lg, b, lb, n), lg + lb = n,
         NEW d, \A i \in 1 .. lb : d[i] = b[i], d[lb + 1] = <<s, 0>>
  PROVE  Carried(s, g, lg, d, lb + 1, n)
<1>1. \A i \in 1 .. lg : g[i] = Byte(s, i, n) BY DEF Carried
<1>2. ASSUME NEW i \in 1 .. lb + 1 PROVE d[i] = Byte(s, lg + i, n)
  <2>1. CASE i =< lb BY <2>1 DEF Carried
  <2>2. CASE i = lb + 1
    <3>1. ~(lg + i =< n) BY <2>2
    <3> QED BY <2>2, <3>1 DEF Byte
  <2> QED BY <2>1, <2>2
<1>3. lg + (lb + 1) \in {n, n + 1} OBVIOUS
<1> QED BY ONLY <1>1, <1>2, <1>3 DEF Carried

LEMMA CarriedMove ==
  ASSUME NEW s, NEW g, NEW lg \in Nat, NEW b, NEW lb \in Nat, NEW n \in Nat, NEW k \in 0 .. lb,
         Carried(s, g, lg, b, lb, n),
         NEW d, \A i \in 1 .. lb - k : d[i] = b[k + i],
         NEW h, \A i \in 1 .. lg : h[i] = g[i], \A i \in 1 .. k : h[lg + i] = b[i]
  PROVE  Carried(s, h, lg + k, d, lb - k, n)
<1>1. ASSUME NEW i \in 1 .. lg + k PROVE h[i] = Byte(s, i, n)
  <2>1. CASE i =< lg BY <2>1 DEF Carried
  <2>2. CASE i > lg
    <3>1. PICK j \in 1 .. k : i = lg + j BY <2>2, i - lg \in 1 .. k
    <3>2. j \in 1 .. lb OBVIOUS
    <3>3. b[j] = Byte(s, lg + j, n) BY ONLY <3>2, Carried(s, g, lg, b, lb, n) DEF Carried
    <3> QED BY <3>1, <3>3
  <2> QED BY <2>1, <2>2
<1>2. ASSUME NEW i \in 1 .. lb - k PROVE d[i] = Byte(s, (lg + k) + i, n)
  <2>1. k + i \in 1 .. lb OBVIOUS
  <2>2. b[k + i] = Byte(s, lg + (k + i), n) BY ONLY <2>1, Carried(s, g, lg, b, lb, n) DEF Carried
  <2>3. lg + (k + i) = (lg + k) + i OBVIOUS
  <2> QED BY <2>2, <2>3
<1>3. (lg + k) + (lb - k) \in {n, n + 1} BY DEF Carried
<1> QED BY ONLY <1>1, <1>2, <1>3 DEF Carried

(* The same as an equality of sequences.                                   *)
LEMMA CarriedIs ==
  ASSUME NEW s \in Sessions, NEW g \in Seq(Bytes), NEW b \in Seq(Bytes), NEW n \in Nat,
         Carried(s, g, Len(g), b, Len(b), n)
  PROVE  \E dummy \in {<<>>, << <<s, 0>> >>} : g \o b = [i \in 1 .. n |-> <<s, i>>] \o dummy
<1>1. PICK lg \in Nat, lb \in Nat : lg = Len(g) /\ lb = Len(b) OBVIOUS
<1>2. PICK z \in Seq(Bytes) : /\ z = g \o b /\ Len(z) = lg + lb
                              /\ \A i \in 1 .. lg : z[i] = g[i]
                              /\ \A i \in 1 .. lb : z[lg + i] = b[i]
  <2>1. /\ g \o b \in Seq(Bytes) /\ Len(g \o b) = lg + lb
        /\ \A i \in 1 .. lg : (g \o b)[i] = g[i]
        /\ \A i \in 1 .. lb : (g \o b)[lg + i] = b[i]
    BY ONLY g \in Seq(Bytes), b \in Seq(Bytes), <1>1, CatIs
  <2> QED BY ONLY <2>1
<1>3. /\ \A i \in 1 .. lg : g[i] = Byte(s, i, n)
      /\ \A i \in 1 .. lb : b[i] = Byte(s, lg + i, n)
      /\ lg + lb \in {n, n + 1}
  BY <1>1 DEF Carried
<1>4. ASSUME NEW i \in 1 .. lg + lb PROVE z[i] = Byte(s, i, n)
  <2>1. CASE i =< lg BY ONLY lg \in Nat, lb \in Nat, i \in 1 .. lg + lb, <1>2, <1>3, <2>1
  <2>2. CASE i > lg
    <3>1. PICK k \in 1 .. lb : i = lg + k BY <2>2, i - lg \in 1 .. lb
    <3> QED BY ONLY <1>2, <1>3, <3>1
  <2> QED BY <2>1, <2>2
<1>5. PICK p \in Seq(Bytes) : p = [i \in 1 .. n |-> <<s, i>>] /\ Len(p) = n /\ \A i \in 1 .. n : p[i] = <<s, i>>
  <2>1. \A i \in 1 .. n : <<s, i>> \in Bytes BY DEF Bytes
  <2>2. [i \in 1 .. n |-> <<s, i>>] \in Seq(Bytes) BY <2>1
  <2>3. Len([i \in 1 .. n |-> <<s, i>>]) = n OBVIOUS
  <2> QED BY <2>2, <2>3
<1>6. CASE lg + lb = n
  <2>1. \A i \in 1 .. n : z[i] = p[i] BY <1>4, <1>5, <1>6 DEF Byte
  <2>2. Len(z) = Len(p) /\ \A i \in 1 .. Len(z) : z[i] = p[i] BY ONLY <1>2, <1>5, <1>6, <2>1
  <2>3. z = p BY ONLY <2>2, z \in Seq(Bytes), p \in Seq(Bytes), SeqEqual
  <2>4. p \o <<>> = p BY ONLY p \in Seq(Bytes), ConcatEmptySeq
  <2> QED BY ONLY <1>2, <1>5, <2>3, <2>4
<1>7. CASE lg + lb = n + 1
  <2>1. /\ << <<s, 0>> >> \in Seq(Bytes) /\ Len(<< <<s, 0>> >>) = 1 /\ << <<s, 0>> >>[1] = <<s, 0>>
    BY DEF Bytes
  <2>2. PICK q \in Seq(Bytes) : q = << <<s, 0>> >> /\ Len(q) = 1 /\ q[1] = <<s, 0>> BY ONLY <2>1
  <2>3. /\ p \o q \in Seq(Bytes) /\ Len(p \o q) = Len(p) + Len(q)
        /\ \A i \in 1 .. Len(p) : (p \o q)[i] = p[i]
        /\ \A i \in 1 .. Len(q) : (p \o q)[Len(p) + i] = q[i]
    BY ONLY p \in Seq(Bytes), q \in Seq(Bytes), CatIs
  <2>4. PICK w \in Seq(Bytes) : /\ w = p \o q /\ Len(w) = n + 1 /\ w[n + 1] = <<s, 0>>
                                /\ \A i \in 1 .. n : w[i] = p[i]
    <3>1. Len(p) = n /\ Len(q) = 1 /\ 1 \in 1 .. Len(q) BY ONLY <1>5, <2>2
    <3>2. (p \o q)[n + 1] = q[1] BY ONLY <2>3, <3>1
    <3>3. Len(p \o q) = n + 1 /\ \A i \in 1 .. n : (p \o q)[i] = p[i] BY ONLY <2>3, <3>1
    <3> QED BY ONLY <2>2, <2>3, <3>2, <3>3
  <2>5. ASSUME NEW i \in 1 .. n + 1 PROVE z[i] = w[i]
    <3>1. z[i] = Byte(s, i, n) BY <1>4, <1>7
    <3>2. CASE i =< n
      <4>1. i \in 1 .. n BY <3>2
      <4> QED BY ONLY <1>5, <2>4, <3>1, <3>2, <4>1 DEF Byte
    <3>3. CASE i = n + 1
      <4>1. ~(i =< n) BY <3>3
      <4> QED BY ONLY <2>4, <3>1, <3>3, <4>1 DEF Byte
    <3> QED BY <3>2, <3>3
  <2>6. Len(z) = Len(w) /\ \A i \in 1 .. Len(z) : z[i] = w[i] BY ONLY <1>2, <1>7, <2>4, <2>5
  <2>7. z = w BY ONLY <2>6, z \in Seq(Bytes), w \in Seq(Bytes), SeqEqual
  <2> QED BY ONLY <1>2, <1>5, <2>2, <2>4, <2>7
<1> QED BY <1>3, <1>6, <1>7
(***************************************************************************)
(* A session that is being finalised stays so.                             *)
(***************************************************************************)
Grows == \A s \in Sessions : (Ending(s) => Ending(s)') /\ (Dummied(s) => Dummied(s)')

LEMMA EndingGrows ==
  ASSUME TInv, Held, Orderly, [Next]_vars
  PROVE  Grows
<1>a. StateOK BY DEF TInv
<1>k. ASSUME \A s \in Sessions : obj[s] = "freed" => obj'[s] = "freed",
             \A u \in Threads : Deleting(u) => th'[u] = th[u]
      PROVE  Grows
  BY <1>k DEF Grows, Ending, Dummied, Deleting
<1>o. ASSUME NEW t \in Threads, \A s \in Sessions : obj[s] = "freed" => obj'[s] = "freed",
             NEW e, th' = [th EXCEPT ![t] = e], ~Deleting(t)
      PROVE  Grows
  <2>1. \A u \in Threads : u # t => th'[u] = th[u] BY <1>a, <1>o DEF StateOK
  <2> QED BY <1>k, <1>o, <2>1
<1>u. ASSUME UNCHANGED <<obj, th>> PROVE Grows
  BY <1>k, <1>u
<1>1. ASSUME NEW t \in Threads, NEW s \in Sessions, MakeNew(t, s) \/ MakeNewFails(t, s)
      PROVE  Grows
  <2>1. obj[s] = "none" /\ obj' = [obj EXCEPT ![s] = "live"] /\ th' = th
    BY <1>1 DEF MakeNew, MakeNewFails, InitFields, Unused
  <2>2. \A r \in Sessions : obj[r] = "freed" => obj'[r] = "freed" BY <1>a, <2>1 DEF StateOK
  <2> QED BY <1>k, <2>1, <2>2
<1>3. ASSUME NEW t \in Threads, NEW s \in Sessions, NEW n \in 1 .. ImageLen, WriteEnter(t, s, n)
      PROVE  Grows
  BY <1>3, <1>o DEF WriteEnter, MayCall, Deleting
<1>4. ASSUME NEW t \in Threads, WriteSlice(t)
      PROVE  Grows
  <2>1. PICK e : th' = [th EXCEPT ![t] = e] BY <1>4 DEF WriteSlice
  <2> QED BY <1>4, <1>o, <2>1 DEF WriteSlice, Deleting
<1>5. ASSUME NEW t \in Threads, NEW s \in Sessions, FinishEnter(t, s)
      PROVE  Grows
  BY <1>5, <1>o DEF FinishEnter, MayCall, Deleting
<1>6. ASSUME NEW t \in Threads, FinishReturn(t)
      PROVE  Grows
  BY <1>6, <1>o DEF FinishReturn, Deleting
<1>f. ASSUME NEW s \in Sessions, Free(s)
      PROVE  obj'[s] = "freed" /\ \A r \in Sessions : obj[r] = "freed" => obj'[r] = "freed"
  BY <1>a, <1>f DEF Free, StateOK
<1>8. ASSUME NEW t \in Threads, NEW s \in Sessions, DelAtOnce(t, s)
      PROVE  Grows
  BY <1>8, <1>f, <1>k DEF DelAtOnce
<1>9. ASSUME NEW t \in Threads, NEW s \in Sessions, DelEnter(t, s)
      PROVE  Grows
  BY <1>9, <1>o DEF DelEnter, Collectable, MayCall, Deleting
<1>10. ASSUME NEW t \in Threads, DelSend(t)
       PROVE  Grows
  <2>1. th[t].op = "delSend" /\ th' = [th EXCEPT ![t].op = "delTake"] /\ obj' = obj BY <1>10 DEF DelSend
  <2>2. /\ th'[t].s = th[t].s /\ th'[t].op = "delTake" /\ \A u \in Threads \ {t} : th'[u] = th[u]
    BY <1>a, <2>1 DEF StateOK
  <2> QED BY <2>1, <2>2 DEF Grows, Ending, Dummied, Deleting
<1>11. ASSUME NEW t \in Threads, DelFree(t)
       PROVE  Grows
  <2>1. PICK s : s = th[t].s OBVIOUS
  <2>2. s \in Sessions /\ Free(s) /\ th' = [th EXCEPT ![t] = Idle]
    BY <1>11, <2>1 DEF DelFree, TInv, CallsHaveSession
  <2>3. \A u \in Threads \ {t} : th'[u] = th[u] BY <1>a, <2>2, ThreadIdle
  <2>4. obj'[s] = "freed" /\ \A r \in Sessions : obj[r] = "freed" => obj'[r] = "freed" BY <1>f, <2>2
  <2> QED BY <2>1, <2>3, <2>4 DEF Grows, Ending, Dummied, Deleting
<1>13. CASE SweepEnd
  <2>1. obj' = obj /\ phase = "sweep" /\ th[Main].op = "idle" BY <1>13 DEF SweepEnd, objVars
  <2>2. \A u \in Threads : ~Deleting(u) BY <2>1 DEF Held, SweepsAlone, Deleting
  <2> QED BY <1>k, <2>1, <2>2
<1>14. CASE \/ \E t \in Threads, s \in Sessions : Drop(t, s)
            \/ SweepStart \/ UNCHANGED vars \/ \E s \in Sessions : Task(s)
  BY <1>14, <1>u DEF Drop, SweepStart, vars, otaVars, Task, OtaStartOk, OtaStartFails, ReadEnter, ReadReceive, ReadPoll
<1>20. QED
  BY <1>1, <1>3, <1>4, <1>5, <1>6, <1>8, <1>9, <1>10, <1>11, <1>13, <1>14
     DEF Next, Step, Client, Blocked

(* Steps that leave parts of BytesInv alone.                               *)
LEMMA SameContents ==
  ASSUME Contents, Grows, UNCHANGED <<got, buf, sent>>
  PROVE  Contents'
BY DEF Contents, Grows

LEMMA SameWriters ==
  ASSUME Writers, WholeIs, \A u \in Threads : th'[u].op = "write" => th'[u] = th[u], UNCHANGED <<sent, whole>>
  PROVE  Writers' /\ WholeIs'
BY DEF Writers, WholeIs

LEMMA SameReasons ==
  ASSUME EofMeans, ErrMeans, OutcomeMeans, Grows, UNCHANGED <<result, finished, whole, flashErr, outcome>>,
         \A u \in Threads : th'[u].op = "finish" => th'[u] = th[u],
         \A s \in Sessions : eof'[s] => eof[s] \/ Ending(s)'
  PROVE  EofMeans' /\ ErrMeans' /\ OutcomeMeans'
<1>1. EofMeans' BY DEF EofMeans, Grows
<1>2. ErrMeans' BY DEF ErrMeans, Grows
<1>3. OutcomeMeans' BY DEF OutcomeMeans
<1> QED BY <1>1, <1>2, <1>3

(* The contents after a change of one session's sequences.                 *)
LEMMA ContentsAt ==
  ASSUME TInv, Contents, Grows, NEW s \in Sessions,
         \A r \in Sessions \ {s} : got'[r] = got[r] /\ buf'[r] = buf[r] /\ sent'[r] = sent[r],
         Carried(s, got'[s], Len(got'[s]), buf'[s], Len(buf'[s]), sent'[s]),
         Len(got'[s]) + Len(buf'[s]) # sent'[s] => Dummied(s)'
  PROVE  Contents'
<1>1. ASSUME NEW r \in Sessions \ {s}
      PROVE  /\ Carried(r, got'[r], Len(got'[r]), buf'[r], Len(buf'[r]), sent'[r])
             /\ Len(got'[r]) + Len(buf'[r]) # sent'[r] => Dummied(r)'
  BY DEF Contents, Grows
<1> QED BY <1>1 DEF Contents

LEMMA ContentsReceive ==
  ASSUME TInv, Contents, Grows, NEW s \in Sessions, Receive(s, s), UNCHANGED sent
  PROVE  Contents'
<1>1. PICK g \in Seq(Bytes), b \in Seq(Bytes), lg \in Nat, lb \in Nat, n \in Nat :
        g = got[s] /\ b = buf[s] /\ lg = Len(g) /\ lb = Len(b) /\ n = sent[s]
  BY DEF TInv, StateOK
<1>2. PICK k : k = Min2(ReadLen, Len(buf[s])) OBVIOUS
<1>3. k \in 0 .. lb BY <1>1, <1>2, OtaAssumption DEF Min2
<1>4. /\ got' = [got EXCEPT ![s] = got[s] \o SubSeq(buf[s], 1, k)]
      /\ buf' = [buf EXCEPT ![s] = SubSeq(buf[s], k + 1, Len(buf[s]))]
  BY <1>2 DEF Receive
<1>5. /\ got'[s] = g \o SubSeq(b, 1, k) /\ buf'[s] = SubSeq(b, k + 1, Len(b)) /\ sent'[s] = n
      /\ \A r \in Sessions \ {s} : got'[r] = got[r] /\ buf'[r] = buf[r] /\ sent'[r] = sent[r]
  BY <1>1, <1>4 DEF TInv, StateOK
<1>6. k \in 0 .. Len(b) BY <1>1, <1>3
<1>7. /\ SubSeq(b, 1, k) \in Seq(Bytes) /\ Len(SubSeq(b, 1, k)) = k
      /\ \A i \in 1 .. k : SubSeq(b, 1, k)[i] = b[i]
      /\ SubSeq(b, k + 1, Len(b)) \in Seq(Bytes) /\ Len(SubSeq(b, k + 1, Len(b))) = Len(b) - k
      /\ \A i \in 1 .. Len(b) - k : SubSeq(b, k + 1, Len(b))[i] = b[k + i]
  BY ONLY <1>6, b \in Seq(Bytes), CutIs
<1>8. PICK m \in Seq(Bytes) : m = SubSeq(b, 1, k) /\ Len(m) = k /\ \A i \in 1 .. k : m[i] = b[i]
  BY ONLY <1>7
<1>9. PICK d : d = buf'[s] /\ Len(d) = lb - k /\ \A i \in 1 .. lb - k : d[i] = b[k + i]
  BY ONLY <1>1, <1>5, <1>7
<1>10. /\ Len(g \o m) = Len(g) + Len(m)
       /\ \A i \in 1 .. Len(g) : (g \o m)[i] = g[i]
       /\ \A i \in 1 .. Len(m) : (g \o m)[Len(g) + i] = m[i]
  BY ONLY g \in Seq(Bytes), m \in Seq(Bytes), CatIs
<1>11. PICK h : /\ h = got'[s] /\ Len(h) = lg + k /\ \A i \in 1 .. lg : h[i] = g[i]
                /\ \A i \in 1 .. k : h[lg + i] = b[i]
  <2>1. Len(g) = lg /\ Len(m) = k /\ got'[s] = g \o m BY ONLY <1>1, <1>5, <1>8
  <2>2. /\ Len(g \o m) = lg + k /\ \A i \in 1 .. lg : (g \o m)[i] = g[i]
        /\ \A i \in 1 .. k : (g \o m)[lg + i] = m[i]
    BY ONLY <1>10, <2>1
  <2>3. \A i \in 1 .. k : (g \o m)[lg + i] = b[i] BY ONLY <1>8, <2>2
  <2> QED BY ONLY <2>1, <2>2, <2>3
<1>12. Carried(s, g, lg, b, lb, n) /\ (lg + lb # n => Dummied(s)) BY <1>1 DEF Contents
<1>13. Carried(s, h, lg + k, d, lb - k, n)
  <2>1. /\ \A i \in 1 .. lb - k : d[i] = b[k + i]
        /\ \A i \in 1 .. lg : h[i] = g[i]
        /\ \A i \in 1 .. k : h[lg + i] = b[i]
    BY ONLY <1>9, <1>11
  <2>2. Carried(s, g, lg, b, lb, n) BY <1>12
  <2> QED BY ONLY Zenon, <1>3, <2>1, <2>2, CarriedMove, lg \in Nat, lb \in Nat, n \in Nat
<1>14. (lg + k) + (lb - k) = lg + lb BY ONLY <1>3, lg \in Nat, lb \in Nat
<1>15. Carried(s, got'[s], Len(got'[s]), buf'[s], Len(buf'[s]), sent'[s])
  BY ONLY <1>5, <1>9, <1>11, <1>13
<1>16. Len(got'[s]) + Len(buf'[s]) # sent'[s] => Dummied(s)'
  BY <1>5, <1>9, <1>11, <1>12, <1>14 DEF Grows
<1> QED BY <1>5, <1>15, <1>16, ContentsAt
(* A thread that is not finalising keeps the others from it.               *)
LEMMA NotDummied ==
  ASSUME TInv, Held, NEW t \in Threads, th[t].op \in {"write", "finish", "delSend"}
  PROVE  ~Dummied(th[t].s) /\ (th[t].op # "delSend" => ~Ending(th[t].s))
<1>1. obj[th[t].s] = "live" BY DEF Held, CallsLive
<1>2. ASSUME NEW u \in Threads, th[u].s = th[t].s, Deleting(u) PROVE u = t
  BY <1>2 DEF Held, DeletesAlone
<1>3. ~Dummied(th[t].s) BY <1>1, <1>2 DEF Dummied, Deleting
<1>4. th[t].op # "delSend" => ~Ending(th[t].s) BY <1>1, <1>2 DEF Ending, Deleting
<1> QED BY <1>3, <1>4

(* One slice of write().                                                   *)
LEMMA SliceBytes ==
  ASSUME TInv, Held, Contents, Writers, WholeIs, Grows, NEW t \in Threads, WriteSlice(t)
  PROVE  Contents' /\ Writers' /\ WholeIs'
<1>1. PICK s \in Sessions, r \in Nat : s = th[t].s /\ r = th[t].rem /\ th[t].op = "write"
  BY DEF WriteSlice, TInv, StateOK, CallsHaveSession
<1>2. PICK g \in Seq(Bytes), b \in Seq(Bytes), lg \in Nat, lb \in Nat, n \in Nat :
        g = got[s] /\ b = buf[s] /\ lg = Len(g) /\ lb = Len(b) /\ n = sent[s]
  BY DEF TInv, StateOK
<1>3. PICK k : k = SendNow(s, r) OBVIOUS
<1>4. k \in Nat /\ k =< r /\ r - k \in Nat
  <2>1. lb =< BufLen BY <1>2 DEF TInv, BufferBounded
  <2>2. k = Min2(r, BufLen - lb) BY <1>2, <1>3 DEF SendNow
  <2> QED BY <2>1, <2>2, OtaAssumption DEF Min2
<1>5. /\ buf' = [buf EXCEPT ![s] = buf[s] \o Chunk(s, k)] /\ sent' = [sent EXCEPT ![s] = sent[s] + k]
      /\ th' = [th EXCEPT ![t] = IF WriteEnds(s, r - k) THEN Idle ELSE [th[t] EXCEPT !.rem = r - k]]
      /\ UNCHANGED <<got, whole>>
  BY <1>1, <1>3 DEF WriteSlice, taskVars
<1>6. /\ buf'[s] = b \o Chunk(s, k) /\ sent'[s] = n + k /\ got'[s] = g
      /\ \A q \in Sessions \ {s} : got'[q] = got[q] /\ buf'[q] = buf[q] /\ sent'[q] = sent[q]
  BY <1>2, <1>5 DEF TInv, StateOK
<1>7. \A i \in 1 .. k : <<s, n + i>> \in Bytes BY <1>4 DEF Bytes
<1>8. Chunk(s, k) = [i \in 1 .. k |-> <<s, n + i>>] BY <1>2 DEF Chunk
<1>9. PICK c \in Seq(Bytes) : c = Chunk(s, k) /\ Len(c) = k /\ \A i \in 1 .. k : c[i] = <<s, n + i>>
  <2>1. [i \in 1 .. k |-> <<s, n + i>>] \in Seq(Bytes) BY <1>4, <1>7
  <2>2. Len([i \in 1 .. k |-> <<s, n + i>>]) = k BY <1>4
  <2> QED BY <1>8, <2>1, <2>2
<1>10. /\ Len(b \o c) = Len(b) + Len(c)
       /\ \A i \in 1 .. Len(b) : (b \o c)[i] = b[i]
       /\ \A i \in 1 .. Len(c) : (b \o c)[Len(b) + i] = c[i]
  BY ONLY b \in Seq(Bytes), c \in Seq(Bytes), CatIs
<1>11. PICK d : /\ d = buf'[s] /\ Len(d) = lb + k /\ \A i \in 1 .. lb : d[i] = b[i]
                /\ \A i \in 1 .. k : d[lb + i] = <<s, n + i>>
  <2>1. Len(b) = lb /\ Len(c) = k /\ buf'[s] = b \o c BY ONLY <1>2, <1>6, <1>9
  <2>2. /\ Len(b \o c) = lb + k /\ \A i \in 1 .. lb : (b \o c)[i] = b[i]
        /\ \A i \in 1 .. k : (b \o c)[lb + i] = c[i]
    BY ONLY <1>10, <2>1
  <2>3. \A i \in 1 .. k : (b \o c)[lb + i] = <<s, n + i>> BY ONLY <1>9, <2>2
  <2> QED BY ONLY <2>1, <2>2, <2>3
<1>12. Carried(s, g, lg, b, lb, n) /\ lg + lb = n
  BY <1>1, <1>2, NotDummied DEF Contents
<1>13. Carried(s, g, lg, d, lb + k, n + k)
  <2>1. /\ \A i \in 1 .. lb : d[i] = b[i]
        /\ \A i \in 1 .. k : d[lb + i] = <<s, n + i>>
    BY ONLY <1>11
  <2>2. Carried(s, g, lg, b, lb, n) BY <1>12
  <2>3. lg + lb = n /\ k \in Nat BY <1>4, <1>12
  <2> QED BY ONLY Zenon, <2>1, <2>2, <2>3, CarriedChunk, lg \in Nat, lb \in Nat, n \in Nat
<1>14. lg + (lb + k) = n + k BY <1>4, <1>12
<1>15. Carried(s, got'[s], Len(got'[s]), buf'[s], Len(buf'[s]), sent'[s])
  BY ONLY <1>2, <1>6, <1>11, <1>13
<1>16. Len(got'[s]) + Len(buf'[s]) = sent'[s] BY ONLY <1>2, <1>6, <1>11, <1>14
<1>17. Contents' BY <1>6, <1>15, <1>16, ContentsAt
<1>18. n + r =< ImageLen /\ \A u \in Threads : th[u].op = "write" /\ u # t => th[u].s # s
  BY <1>1, <1>2 DEF Writers
<1>19. /\ \A u \in Threads \ {t} : th'[u] = th[u]
       /\ th'[t].op = "write" => th'[t].s = s /\ th'[t].rem = r - k
  <2>1. CASE WriteEnds(s, r - k) BY <1>5, <2>1, ThreadIdle DEF TInv
  <2>2. CASE ~WriteEnds(s, r - k)
    <3>1. th' = [th EXCEPT ![t] = [th[t] EXCEPT !.rem = r - k]] BY <1>5, <2>2
    <3> QED BY <1>1, <3>1 DEF TInv, StateOK
  <2> QED BY <2>1, <2>2
<1>20. Writers'
  <2>1. ASSUME NEW u \in Threads, th'[u].op = "write", u # t
        PROVE  th'[u] = th[u] /\ th[u].s \in Sessions \ {s} /\ sent'[th[u].s] = sent[th[u].s]
    <3>1. th'[u] = th[u] /\ th[u].op = "write" BY <1>19, <2>1
    <3>2. th[u].s \in Sessions \ {s} BY <1>18, <2>1, <3>1 DEF TInv, CallsHaveSession
    <3> QED BY <1>6, <3>1, <3>2
  <2>2. th'[t].op = "write" => sent'[th'[t].s] + th'[t].rem =< ImageLen
    BY <1>4, <1>6, <1>18, <1>19, OtaAssumption
  <2>3. ASSUME NEW u \in Threads, th'[u].op = "write" PROVE sent'[th'[u].s] + th'[u].rem =< ImageLen
    BY <2>1, <2>2, <2>3 DEF Writers
  <2>4. ASSUME NEW u \in Threads, NEW v \in Threads, th'[u].op = "write", th'[v].op = "write", u # v
        PROVE  th'[u].s # th'[v].s
    BY <1>19, <2>1, <2>4 DEF Writers
  <2> QED BY <2>3, <2>4 DEF Writers
<1>21. WholeIs'
  <2>1. ASSUME whole[s] PROVE sent'[s] = ImageLen
    <3>1. n = ImageLen BY <1>2, <2>1 DEF WholeIs
    <3> QED BY <1>4, <1>6, <1>18, <3>1, OtaAssumption
  <2> QED BY <1>5, <1>6, <2>1 DEF WholeIs
<1> QED BY <1>17, <1>20, <1>21

(* The dummy byte of the finaliser.                                        *)
LEMMA DelSendBytes ==
  ASSUME TInv, Held, Contents, Grows, NEW t \in Threads, DelSend(t)
  PROVE  Contents'
<1>1. PICK s \in Sessions : s = th[t].s /\ th[t].op = "delSend"
  BY DEF DelSend, TInv, CallsHaveSession
<1>2. PICK g \in Seq(Bytes), b \in Seq(Bytes), lg \in Nat, lb \in Nat, n \in Nat :
        g = got[s] /\ b = buf[s] /\ lg = Len(g) /\ lb = Len(b) /\ n = sent[s]
  BY DEF TInv, StateOK
<1>3. /\ buf' = [buf EXCEPT ![s] = IF Len(buf[s]) < BufLen THEN Append(buf[s], <<s, 0>>) ELSE buf[s]]
      /\ th' = [th EXCEPT ![t].op = "delTake"] /\ UNCHANGED <<got, sent>>
  BY <1>1 DEF DelSend, taskVars, cliVars
<1>4. th'[t].op = "delTake" /\ th'[t].s = s BY <1>1, <1>3 DEF TInv, StateOK
<1>5. Dummied(s)' BY <1>4 DEF Dummied
<1>6. /\ buf'[s] = IF lb < BufLen THEN Append(b, <<s, 0>>) ELSE b
      /\ got'[s] = g /\ sent'[s] = n
      /\ \A q \in Sessions \ {s} : got'[q] = got[q] /\ buf'[q] = buf[q] /\ sent'[q] = sent[q]
  BY <1>2, <1>3 DEF TInv, StateOK
<1>7. Carried(s, g, lg, b, lb, n) /\ lg + lb = n BY <1>1, <1>2, NotDummied DEF Contents
<1>8. Carried(s, got'[s], Len(got'[s]), buf'[s], Len(buf'[s]), sent'[s])
  <2>1. CASE lb < BufLen
    <3>1. <<s, 0>> \in Bytes BY DEF Bytes
    <3>2. /\ Len(Append(b, <<s, 0>>)) = Len(b) + 1 /\ Append(b, <<s, 0>>)[Len(b) + 1] = <<s, 0>>
          /\ \A i \in 1 .. Len(b) : Append(b, <<s, 0>>)[i] = b[i]
      BY ONLY <3>1, b \in Seq(Bytes), AppendIs
    <3>3. buf'[s] = Append(b, <<s, 0>>) /\ Len(b) = lb BY <1>2, <1>6, <2>1
    <3>4. PICK d : d = buf'[s] /\ Len(d) = lb + 1 /\ d[lb + 1] = <<s, 0>> /\ \A i \in 1 .. lb : d[i] = b[i]
      BY ONLY <3>2, <3>3
    <3>5. Carried(s, g, lg, d, lb + 1, n)
      <4>1. d[lb + 1] = <<s, 0>> /\ \A i \in 1 .. lb : d[i] = b[i] BY ONLY <3>4
      <4>2. Carried(s, g, lg, b, lb, n) /\ lg + lb = n BY <1>7
      <4> QED BY ONLY Zenon, <4>1, <4>2, CarriedDummy, lg \in Nat, lb \in Nat, n \in Nat
    <3> QED BY ONLY <1>2, <1>6, <3>4, <3>5
  <2>2. CASE ~(lb < BufLen)
    <3>1. buf'[s] = b BY <1>6, <2>2
    <3> QED BY ONLY <1>2, <1>6, <1>7, <3>1
  <2> QED BY <2>1, <2>2
<1> QED BY <1>5, <1>6, <1>8, ContentsAt
LEMMA BytesInit == ASSUME Init PROVE BytesInv
<1>1. Contents
  <2>1. ASSUME NEW s \in Sessions
        PROVE  /\ Carried(s, got[s], Len(got[s]), buf[s], Len(buf[s]), sent[s])
               /\ Len(got[s]) + Len(buf[s]) # sent[s] => Dummied(s)
    <3>1. got[s] = <<>> /\ buf[s] = <<>> /\ sent[s] = 0 /\ Len(<<>>) = 0 BY DEF Init
    <3> QED BY <3>1 DEF Carried
  <2> QED BY <2>1 DEF Contents
<1>2. Writers /\ WholeIs BY DEF Init, Writers, WholeIs, Idle
<1>3. EofMeans /\ ErrMeans BY DEF Init, EofMeans, ErrMeans
<1>4. OutcomeMeans BY DEF Init, OutcomeMeans, Idle
<1> QED BY <1>1, <1>2, <1>3, <1>4 DEF BytesInv

(* The task ends: an error it did not make itself has a cause.             *)
LEMMA EndReasons ==
  ASSUME TInv, EofMeans, ErrMeans, OutcomeMeans, Grows, NEW s \in Sessions, NEW res,
         result' = [result EXCEPT ![s] = res], res = "ERR" => flashErr'[s] \/ Ending(s) \/ (finished[s] /\ ~whole[s]),
         \A r \in Sessions : flashErr[r] => flashErr'[r],
         UNCHANGED <<eof, finished, whole, outcome, th>>
  PROVE  EofMeans' /\ ErrMeans' /\ OutcomeMeans'
<1>1. EofMeans' BY DEF EofMeans, Grows
<1>2. result'[s] = res /\ \A r \in Sessions \ {s} : result'[r] = result[r] BY DEF TInv, StateOK
<1>3. ErrMeans' BY <1>2 DEF ErrMeans, Grows
<1>4. OutcomeMeans' BY DEF OutcomeMeans
<1> QED BY <1>1, <1>3, <1>4

(* A whole image that was drained is the image.                            *)
LEMMA DrainedIsImage ==
  ASSUME TInv, Contents, WholeIs, NEW s \in Sessions, whole[s], buf[s] = <<>>, ~Dummied(s)
  PROVE  got[s] = Image(s)
<1>1. PICK g \in Seq(Bytes), lg \in Nat : g = got[s] /\ lg = Len(g) BY DEF TInv, StateOK
<1>2. sent[s] = ImageLen /\ Len(<<>>) = 0 BY DEF WholeIs
<1>3. Carried(s, g, lg, <<>>, 0, ImageLen) /\ lg + 0 = ImageLen BY <1>1, <1>2 DEF Contents
<1>4. lg = ImageLen /\ \A i \in 1 .. lg : g[i] = Byte(s, i, ImageLen) BY <1>3 DEF Carried
<1>5. \A i \in 1 .. ImageLen : g[i] = <<s, i>> BY <1>4 DEF Byte
<1>6. g \in [1 .. ImageLen -> Bytes] BY ONLY <1>1, <1>4, LenProperties
<1> QED BY ONLY <1>1, <1>5, <1>6 DEF Image

LEMMA BytesNext ==
  ASSUME TInv, RunningOK, Held, BytesInv, Orderly, [Next]_vars
  PROVE  BytesInv'
<1>g. Grows BY EndingGrows
<1>a. StateOK BY DEF TInv
<1>b. Contents /\ Writers /\ WholeIs /\ EofMeans /\ ErrMeans /\ OutcomeMeans BY DEF BytesInv
<1>1. ASSUME NEW t \in Threads, NEW s \in Sessions, MakeNew(t, s) \/ MakeNewFails(t, s)
      PROVE  BytesInv'
  <2>1. obj[s] = "none" /\ UNCHANGED <<got, buf, sent, whole, outcome, th, flashErr>>
    BY <1>1 DEF MakeNew, MakeNewFails, Unused, cliVars, taskVars
  <2>2. /\ result' = [result EXCEPT ![s] = "PENDING"] /\ eof' = [eof EXCEPT ![s] = FALSE]
        /\ finished' = [finished EXCEPT ![s] = FALSE]
    BY <1>1 DEF MakeNew, MakeNewFails, InitFields
  <2>3. /\ result'[s] = "PENDING" /\ ~eof'[s]
        /\ \A r \in Sessions \ {s} : result'[r] = result[r] /\ eof'[r] = eof[r] /\ finished'[r] = finished[r]
    BY <1>a, <2>2 DEF StateOK
  <2>4. outcome[s] = "none" /\ \A u \in Threads : th[u].op # "idle" => th[u].s \in Sessions \ {s}
    BY <2>1 DEF Held, Fresh, CallsLive, TInv, CallsHaveSession
  <2>5. Contents' /\ Writers' /\ WholeIs' BY <1>b, <1>g, <2>1, SameContents, SameWriters
  <2>6. EofMeans' BY <1>b, <1>g, <2>3 DEF EofMeans, Grows
  <2>7. ErrMeans' BY <1>b, <1>g, <2>1, <2>3 DEF ErrMeans, Grows
  <2>8. OutcomeMeans' BY <1>b, <2>1, <2>3, <2>4 DEF OutcomeMeans
  <2> QED BY <2>5, <2>6, <2>7, <2>8 DEF BytesInv
<1>3. ASSUME NEW t \in Threads, NEW s \in Sessions, NEW n \in 1 .. ImageLen, WriteEnter(t, s, n)
      PROVE  BytesInv'
  <2>1. UNCHANGED <<got, buf, sent, whole, result, eof, finished, flashErr, outcome>>
    BY <1>3 DEF WriteEnter, objVars, taskVars, cliVars
  <2>2. /\ th[t].op = "idle" /\ sent[s] + n =< ImageLen /\ \A u \in Threads : th[u].op = "write" => th[u].s # s
        /\ th' = [th EXCEPT ![t] = [op |-> "write", s |-> s, rem |-> n]]
    BY <1>3 DEF WriteEnter, MayCall, SerialWriters
  <2>3. /\ th'[t].op = "write" /\ th'[t].s = s /\ th'[t].rem = n /\ \A u \in Threads \ {t} : th'[u] = th[u]
    BY ONLY <1>a, <2>2, t \in Threads DEF StateOK
  <2>4. Contents' /\ WholeIs' BY <1>b, <1>g, <2>1, SameContents DEF WholeIs
  <2>5. Writers' BY <1>b, <2>1, <2>2, <2>3 DEF Writers
  <2>6. EofMeans' /\ ErrMeans' /\ OutcomeMeans' BY <1>b, <1>g, <2>1, <2>3, SameReasons
  <2> QED BY <2>4, <2>5, <2>6 DEF BytesInv
<1>4. ASSUME NEW t \in Threads, WriteSlice(t)
      PROVE  BytesInv'
  <2>1. Contents' /\ Writers' /\ WholeIs' BY <1>4, <1>b, <1>g, SliceBytes
  <2>2. PICK e : /\ th' = [th EXCEPT ![t] = e] /\ (e = Idle \/ \E m : e = [th[t] EXCEPT !.rem = m])
                 /\ th[t].op = "write"
                 /\ UNCHANGED <<result, eof, finished, whole, flashErr, outcome>>
    BY <1>4 DEF WriteSlice, taskVars
  <2>3. \A u \in Threads : th'[u].op = "finish" => th'[u] = th[u] BY <1>a, <2>2 DEF StateOK, Idle
  <2>4. EofMeans' /\ ErrMeans' /\ OutcomeMeans' BY <1>b, <1>g, <2>2, <2>3, SameReasons
  <2> QED BY <2>1, <2>4 DEF BytesInv
<1>5. ASSUME NEW t \in Threads, NEW s \in Sessions, FinishEnter(t, s)
      PROVE  BytesInv'
  <2>1. /\ UNCHANGED <<got, buf, sent, result, flashErr, outcome>> /\ ~finished[s] /\ th[t].op = "idle"
        /\ finished' = [finished EXCEPT ![s] = TRUE] /\ eof' = [eof EXCEPT ![s] = TRUE]
        /\ whole' = [whole EXCEPT ![s] = (sent[s] = ImageLen)]
        /\ th' = [th EXCEPT ![t] = [op |-> "finish", s |-> s, rem |-> 0]]
    BY <1>5 DEF FinishEnter, SignalEof, MayCall, taskVars
  <2>2. /\ finished'[s] /\ (whole'[s] <=> sent[s] = ImageLen)
        /\ \A r \in Sessions \ {s} : finished'[r] = finished[r] /\ eof'[r] = eof[r] /\ whole'[r] = whole[r]
    BY <1>a, <2>1 DEF StateOK
  <2>3. /\ th'[t].op = "finish" /\ th'[t].s = s /\ \A u \in Threads \ {t} : th'[u] = th[u]
    BY ONLY <1>a, <2>1, t \in Threads DEF StateOK
  <2>4. Contents' BY <1>b, <1>g, <2>1, SameContents
  <2>5. Writers' BY <1>b, <2>1, <2>3 DEF Writers
  <2>6. WholeIs' BY <1>b, <2>1, <2>2 DEF WholeIs
  <2>7. EofMeans' BY <1>b, <1>g, <2>2 DEF EofMeans, Grows
  <2>8. ErrMeans' BY <1>b, <1>g, <2>1, <2>2 DEF ErrMeans, Grows
  <2>9. \A r \in Sessions : finished[r] => finished'[r] BY <2>2
  <2>10. \A u \in Threads : th'[u].op = "finish" => finished'[th'[u].s]
    BY <1>b, <2>2, <2>3, <2>9 DEF OutcomeMeans, TInv, CallsHaveSession
  <2>11. OutcomeMeans' BY <1>b, <2>1, <2>2, <2>9, <2>10 DEF OutcomeMeans
  <2> QED BY <2>4, <2>5, <2>6, <2>7, <2>8, <2>11 DEF BytesInv
<1>6. ASSUME NEW t \in Threads, FinishReturn(t)
      PROVE  BytesInv'
  <2>1. PICK s \in Sessions : s = th[t].s /\ th[t].op = "finish" BY <1>6 DEF FinishReturn, TInv, CallsHaveSession
  <2>2. /\ UNCHANGED <<got, buf, sent, whole, result, eof, finished, flashErr>> /\ sem[s] # "empty"
        /\ outcome' = [outcome EXCEPT ![s] = IF result[s] = "OK" THEN "ok" ELSE "EIO"]
        /\ th' = [th EXCEPT ![t] = Idle]
    BY <1>6, <2>1 DEF FinishReturn, taskVars
  <2>3. /\ th'[t].op = "idle" /\ \A u \in Threads \ {t} : th'[u] = th[u] BY <1>a, <2>2, ThreadIdle
  <2>4. finished[s] /\ ~Ending(s) BY <1>b, <2>1, NotDummied DEF OutcomeMeans
  <2>5. result[s] # "OK" => result[s] = "ERR"
    <3>1. obj[s] = "live" BY <2>1 DEF Held, CallsLive
    <3>2. Intact(s) BY <2>1, <3>1 DEF Held, Built, Deleting
    <3>3. sem[s] = "given" BY <2>2, <3>2 DEF Intact
    <3> QED BY <1>a, <3>3 DEF Held, TokenMeansResult, StateOK
  <2>6. outcome'[s] = "EIO" => flashErr[s] \/ ~whole[s] BY <1>a, <1>b, <2>2, <2>4, <2>5 DEF StateOK, ErrMeans
  <2>7. \A r \in Sessions \ {s} : outcome'[r] = outcome[r] BY <1>a, <2>2 DEF StateOK
  <2>8. Contents' /\ Writers' /\ WholeIs' BY <1>b, <1>g, <2>2, <2>3, SameContents, SameWriters
  <2>9. EofMeans' /\ ErrMeans' BY <1>b, <1>g, <2>2 DEF EofMeans, ErrMeans, Grows
  <2>10. OutcomeMeans' BY <1>b, <2>2, <2>3, <2>4, <2>6, <2>7 DEF OutcomeMeans
  <2> QED BY <2>8, <2>9, <2>10 DEF BytesInv
<1>8. ASSUME NEW t \in Threads, NEW s \in Sessions, DelAtOnce(t, s)
      PROVE  BytesInv'
  <2>1. /\ UNCHANGED <<got, buf, sent, whole, result, finished, flashErr, outcome, th>>
        /\ eof' = [eof EXCEPT ![s] = eof[s] \/ result[s] = "PENDING"] /\ obj' = [obj EXCEPT ![s] = "freed"]
    BY <1>8 DEF DelAtOnce, Free, taskVars, cliVars
  <2>2. Ending(s)' BY <1>a, <2>1 DEF Ending, StateOK
  <2>3. \A r \in Sessions : eof'[r] => eof[r] \/ Ending(r)' BY <1>a, <2>1, <2>2 DEF StateOK
  <2> QED BY <1>b, <1>g, <2>1, <2>3, SameContents, SameWriters, SameReasons DEF BytesInv
<1>9. ASSUME NEW t \in Threads, NEW s \in Sessions, DelEnter(t, s)
      PROVE  BytesInv'
  <2>1. /\ UNCHANGED <<got, buf, sent, whole, result, finished, flashErr, outcome>>
        /\ eof' = [eof EXCEPT ![s] = TRUE]
        /\ th' = [th EXCEPT ![t] = [op |-> "delSend", s |-> s, rem |-> 0]]
    BY <1>9 DEF DelEnter, SignalEof, taskVars, cliVars
  <2>2. /\ th'[t].op = "delSend" /\ th'[t].s = s /\ \A u \in Threads \ {t} : th'[u] = th[u]
    BY ONLY <1>a, <2>1, t \in Threads DEF StateOK
  <2>3. Ending(s)' BY <2>2 DEF Ending, Deleting
  <2>4. \A r \in Sessions : eof'[r] => eof[r] \/ Ending(r)' BY <1>a, <2>1, <2>3 DEF StateOK
  <2>5. \A u \in Threads : th'[u].op \in {"write", "finish"} => th'[u] = th[u] BY <2>2
  <2> QED BY <1>b, <1>g, <2>1, <2>4, <2>5, SameContents, SameWriters, SameReasons DEF BytesInv
<1>10. ASSUME NEW t \in Threads, DelSend(t)
       PROVE  BytesInv'
  <2>1. UNCHANGED <<sent, whole, result, eof, finished, flashErr, outcome>> /\ th' = [th EXCEPT ![t].op = "delTake"]
    BY <1>10 DEF DelSend, taskVars, cliVars
  <2>2. \A u \in Threads : th'[u].op \in {"write", "finish"} => th'[u] = th[u] BY <1>a, <2>1 DEF StateOK
  <2>3. Contents' BY <1>10, <1>b, <1>g, DelSendBytes
  <2> QED BY <1>b, <1>g, <2>1, <2>2, <2>3, SameWriters, SameReasons DEF BytesInv
<1>11. ASSUME NEW t \in Threads, DelFree(t)
       PROVE  BytesInv'
  <2>1. UNCHANGED <<got, buf, sent, whole, result, eof, finished, flashErr, outcome>> /\ th' = [th EXCEPT ![t] = Idle]
    BY <1>11 DEF DelFree, taskVars, cliVars
  <2>2. \A u \in Threads : th'[u].op \in {"write", "finish"} => th'[u] = th[u] BY <1>a, <2>1, ThreadIdle
  <2> QED BY <1>b, <1>g, <2>1, <2>2, SameContents, SameWriters, SameReasons DEF BytesInv
<1>13. CASE SweepEnd
  <2>1. /\ UNCHANGED <<got, buf, sent, whole, result, eof, finished, flashErr, outcome>>
        /\ th' = [t \in Threads |-> Idle]
    BY <1>13 DEF SweepEnd, objVars, taskVars, cliVars
  <2>2. \A u \in Threads : th'[u].op = "idle" BY <2>1 DEF Idle
  <2> QED BY <1>b, <1>g, <2>1, <2>2, SameContents, SameWriters, SameReasons DEF BytesInv
<1>12. CASE (\E t \in Threads, s \in Sessions : Drop(t, s)) \/ SweepStart \/ UNCHANGED vars
  <2>1. UNCHANGED <<got, buf, sent, whole, result, eof, finished, flashErr, outcome, th>>
    BY <1>12 DEF Drop, SweepStart, objVars, taskVars, cliVars, vars, otaVars
  <2> QED BY <1>b, <1>g, <2>1, SameContents, SameWriters, SameReasons DEF BytesInv
<1>14. ASSUME NEW s \in Sessions, OtaStartOk(s)
       PROVE  BytesInv'
  <2>1. UNCHANGED <<got, buf, sent, whole, eof, finished, flashErr, outcome, th>> /\ result' = [result EXCEPT ![s] = "OK"]
    BY <1>14 DEF OtaStartOk, TaskEnd, cliVars
  <2>2. EofMeans' /\ ErrMeans' /\ OutcomeMeans' BY <1>b, <1>g, <2>1, EndReasons
  <2> QED BY <1>b, <1>g, <2>1, <2>2, SameContents, SameWriters DEF BytesInv
<1>15. ASSUME NEW s \in Sessions, OtaStartFails(s)
       PROVE  BytesInv'
  <2>1. UNCHANGED <<got, buf, sent, whole, eof, finished, outcome, th>> /\ result' = [result EXCEPT ![s] = "ERR"]
        /\ flashErr' = [flashErr EXCEPT ![s] = TRUE]
    BY <1>15 DEF OtaStartFails, TaskEnd, cliVars
  <2>2. flashErr'[s] /\ \A r \in Sessions : flashErr[r] => flashErr'[r] BY <1>a, <2>1 DEF StateOK
  <2>3. EofMeans' /\ ErrMeans'
    <3>1. EofMeans' BY <1>b, <1>g, <2>1 DEF EofMeans, Grows
    <3>2. ErrMeans' BY <1>a, <1>b, <1>g, <2>1, <2>2 DEF ErrMeans, Grows, StateOK
    <3> QED BY <3>1, <3>2
  <2>4. OutcomeMeans' BY <1>b, <2>1, <2>2 DEF OutcomeMeans
  <2> QED BY <1>b, <1>g, <2>1, <2>3, <2>4, SameContents, SameWriters DEF BytesInv
<1>16. ASSUME NEW s \in Sessions, ReadEnter(s)
       PROVE  BytesInv'
  <2>1. active = s BY <1>16 DEF ReadEnter, Running, RunningOK
  <2>2. UNCHANGED <<got, buf, sent, whole, result, eof, finished, flashErr, outcome, th>>
    BY <1>16, <2>1, OtaAssumption DEF ReadEnter, cliVars
  <2> QED BY <1>b, <1>g, <2>2, SameContents, SameWriters, SameReasons DEF BytesInv
<1>17. ASSUME NEW s \in Sessions, ReadReceive(s)
       PROVE  BytesInv'
  <2>1. cbself[s] = s BY <1>17 DEF ReadReceive, Running, Held, TasksLive
  <2>2. UNCHANGED <<sent, whole, result, eof, finished, flashErr, outcome, th>>
    BY <1>17 DEF ReadReceive, cliVars
  <2>3. Receive(s, s) \/ UNCHANGED <<got, buf>> BY <1>17, <2>1 DEF ReadReceive
  <2>4. Contents' BY <1>b, <1>g, <2>2, <2>3, SameContents, ContentsReceive
  <2> QED BY <1>b, <1>g, <2>2, <2>4, SameWriters, SameReasons DEF BytesInv
<1>18. ASSUME NEW s \in Sessions, ReadPoll(s)
       PROVE  BytesInv'
  <2>1. cbself[s] = s BY <1>18 DEF ReadPoll, Running, Held, TasksLive
  <2>2. UNCHANGED <<sent, whole, eof, finished, flashErr, outcome, th>> BY <1>18 DEF ReadPoll, cliVars
  <2>3. \/ (Receive(s, s) \/ UNCHANGED <<got, buf>>) /\ UNCHANGED result
        \/ /\ UNCHANGED <<got, buf>> /\ eof[s] /\ buf[s] = <<>>
           /\ result' = [result EXCEPT ![s] = IF got[s] = Image(s) THEN "OK" ELSE "ERR"]
    BY <1>18, <2>1 DEF ReadPoll, TaskEnd, AtEof
  <2>4. Contents' BY <1>b, <1>g, <2>2, <2>3, SameContents, ContentsReceive
  <2>5. Writers' /\ WholeIs' BY <1>b, <2>2, SameWriters
  <2>6. EofMeans' /\ ErrMeans' /\ OutcomeMeans'
    <3>1. CASE UNCHANGED result BY <1>b, <1>g, <2>2, <3>1, SameReasons
    <3>2. CASE /\ eof[s] /\ buf[s] = <<>>
               /\ result' = [result EXCEPT ![s] = IF got[s] = Image(s) THEN "OK" ELSE "ERR"]
      <4>1. PICK res : res = IF got[s] = Image(s) THEN "OK" ELSE "ERR" OBVIOUS
      <4>2. Dummied(s) => Ending(s) BY DEF Dummied, Ending, Deleting
      <4>3. finished[s] \/ Ending(s) BY <1>b, <3>2 DEF EofMeans
      <4>4. whole[s] /\ ~Ending(s) => got[s] = Image(s) BY <1>b, <3>2, <4>2, DrainedIsImage
      <4>5. res = "ERR" => Ending(s) \/ (finished[s] /\ ~whole[s]) BY <4>1, <4>3, <4>4
      <4>6. result' = [result EXCEPT ![s] = res] BY <3>2, <4>1
      <4> QED BY <1>b, <1>g, <2>2, <4>5, <4>6, EndReasons
    <3> QED BY <2>3, <3>1, <3>2
  <2> QED BY <2>4, <2>5, <2>6 DEF BytesInv
<1>20. QED
  BY <1>1, <1>3, <1>4, <1>5, <1>6, <1>8, <1>9, <1>10, <1>11, <1>12, <1>13,
     <1>14, <1>15, <1>16, <1>17, <1>18 DEF Next, Step, Client, Blocked, Task

(***************************************************************************)
(* In every program whose threads leave a soft reset alone and whose tasks *)
(* end in time, also when allocations fail: ota_start receives the bytes   *)
(* that write() accepted, in order, once and from its own session only,    *)
(* and finish() reports an error only when ota_start failed by itself or   *)
(* the image was incomplete.  No byte is lost in the race of finish() with *)
(* the task's test of eof (modota.c:38-57, 147-203).                       *)
(***************************************************************************)
THEOREM BytesInOrderAlways == Spec => []BytesInOrder
<1> DEFINE J == OInv /\ (Orderly => BytesInv)
<1>1. Init => J BY OInvInit, BytesInit
<1>2. J /\ [Next]_vars => J'
  <2> SUFFICES ASSUME J, [Next]_vars PROVE J' OBVIOUS
  <2>1. OInv' BY OInvNext
  <2>a. UNCHANGED troubles BY DEF Next, vars
  <2>2. Orderly' => Orderly /\ InTime BY ONLY <2>a DEF Orderly, InTime
  <2>3. Orderly' => BytesInv' BY <2>2, BytesNext DEF OInv, IInv
  <2> QED BY <2>1, <2>3
<1>3. J => BytesInOrder
  <2> SUFFICES ASSUME J, Orderly, NEW s \in Sessions
               PROVE  /\ \E dummy \in {<<>>, << <<s, 0>> >>} : got[s] \o buf[s] = Prefix(s) \o dummy
                      /\ outcome[s] = "EIO" => flashErr[s] \/ ~whole[s]
    BY DEF BytesInOrder
  <2>1. TInv /\ BytesInv BY DEF OInv, IInv
  <2>2. got[s] \in Seq(Bytes) /\ buf[s] \in Seq(Bytes) /\ sent[s] \in Nat BY <2>1 DEF TInv, StateOK
  <2>3. Carried(s, got[s], Len(got[s]), buf[s], Len(buf[s]), sent[s]) BY <2>1 DEF BytesInv, Contents
  <2>4. \E dummy \in {<<>>, << <<s, 0>> >>} : got[s] \o buf[s] = [i \in 1 .. sent[s] |-> <<s, i>>] \o dummy
    BY ONLY <2>2, <2>3, s \in Sessions, CarriedIs
  <2>5. outcome[s] = "EIO" => flashErr[s] \/ ~whole[s] BY <2>1 DEF BytesInv, OutcomeMeans
  <2> QED BY <2>4, <2>5 DEF Prefix
<1> QED BY <1>1, <1>2, <1>3, PTL DEF Spec
=============================================================================
