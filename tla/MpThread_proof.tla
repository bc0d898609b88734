--------------------------- MODULE MpThread_proof ---------------------------
(***************************************************************************)
(* The list of threads is sound, the collector frees nothing a thread      *)
(* refers to and the soft reset stops every other thread, for every set of *)
(* threads and of objects.                                                 *)
(***************************************************************************)
EXTENDS MpThread, SequenceTheorems, WellFoundedInduction, TLAPS

(* A set of numbers that is not empty has a least one.                     *)
LEMMA MinIn ==
  ASSUME NEW T \in SUBSET Nat, T # {}
  PROVE  Min(T) \in T
<1> DEFINE R == OpToRel(<, Nat)
<1>1. IsWellFoundedOn(R, Nat) BY NatLessThanWellFounded
<1>2. \A m, n \in Nat : (<<n, m>> \in R) <=> n < m BY DEF OpToRel
<1> HIDE DEF R
<1>3. PICK m \in T : \A n \in T : ~(<<n, m>> \in R) BY <1>1, WFMin
<1>4. ASSUME NEW n \in T PROVE m <= n
  <2>1. m \in Nat /\ n \in Nat OBVIOUS
  <2>2. ~(<<n, m>> \in R) BY <1>3, <1>4
  <2>3. ~(n < m) BY <1>2, <2>1, <2>2, Zenon
  <2> QED BY <2>1, <2>3
<1> QED BY <1>4 DEF Min

(* A sequence without one of its entries.                                  *)
LEMMA RemoveAtIs ==
  ASSUME NEW S, NEW s \in Seq(S), NEW i \in 1 .. Len(s)
  PROVE  /\ RemoveAt(s, i) \in Seq(S) /\ Len(RemoveAt(s, i)) = Len(s) - 1
         /\ \A j \in 1 .. Len(s) - 1 : RemoveAt(s, i)[j] = IF j < i THEN s[j] ELSE s[j + 1]
<1>0. Len(s) \in Nat /\ i \in Nat /\ \A j \in 1 .. Len(s) : s[j] \in S OBVIOUS
<1>1. PICK a \in Seq(S) : a = SubSeq(s, 1, i - 1) /\ Len(a) = i - 1 /\ \A j \in 1 .. i - 1 : a[j] = s[j]
  <2>1. \A j \in 1 .. i - 1 : s[j] \in S BY <1>0
  <2>2. SubSeq(s, 1, i - 1) \in Seq(S) BY <1>0, <2>1, SubSeqProperties
  <2>3. Len(SubSeq(s, 1, i - 1)) = i - 1 BY <1>0, SubSeqProperties
  <2>4. ASSUME NEW j \in 1 .. i - 1 PROVE SubSeq(s, 1, i - 1)[j] = s[j]
    BY <1>0, SubSeqProperties
  <2> QED BY <2>2, <2>3, <2>4
<1>2. PICK b \in Seq(S) : /\ b = SubSeq(s, i + 1, Len(s)) /\ Len(b) = Len(s) - i
                          /\ \A j \in 1 .. Len(s) - i : b[j] = s[i + j]
  <2>1. SubSeq(s, i + 1, Len(s)) \in Seq(S) BY <1>0, SubSeqProperties
  <2>2. Len(SubSeq(s, i + 1, Len(s))) = Len(s) - i BY <1>0, SubSeqProperties
  <2>3. ASSUME NEW j \in 1 .. Len(s) - i PROVE SubSeq(s, i + 1, Len(s))[j] = s[i + j]
    <3>1. i + 1 \in Int /\ Len(s) \in Int /\ j \in 1 .. Len(s) - (i + 1) + 1 BY <1>0
    <3>2. SubSeq(s, i + 1, Len(s))[j] = s[(i + 1) + j - 1] BY <3>1, <1>0, SubSeqProperties
    <3>3. (i + 1) + j - 1 = i + j OBVIOUS
    <3> QED BY <3>2, <3>3
  <2> QED BY <2>1, <2>2, <2>3
<1>3. PICK r \in Seq(S) : r = a \o b BY ConcatProperties
<1>4. /\ Len(r) = Len(a) + Len(b)
      /\ \A j \in 1 .. Len(a) + Len(b) : r[j] = IF j <= Len(a) THEN a[j] ELSE b[j - Len(a)]
  BY ONLY a \in Seq(S), b \in Seq(S), <1>3, ConcatProperties
<1>5. Len(r) = Len(s) - 1 BY <1>0, <1>1, <1>2, <1>4
<1>6. ASSUME NEW j \in 1 .. Len(s) - 1 PROVE r[j] = IF j < i THEN s[j] ELSE s[j + 1]
  <2>1. r[j] = IF j <= i - 1 THEN a[j] ELSE b[j - (i - 1)]
    <3>1. Len(a) = i - 1 /\ Len(b) = Len(s) - i BY <1>1, <1>2
    <3>2. (i - 1) + (Len(s) - i) = Len(s) - 1 BY <1>0
    <3>3. j \in 1 .. Len(a) + Len(b) BY ONLY j \in 1 .. Len(s) - 1, <3>1, <3>2
    <3>4. r[j] = IF j <= Len(a) THEN a[j] ELSE b[j - Len(a)] BY ONLY <1>4, <3>3
    <3> QED BY ONLY <3>1, <3>4
  <2>2. CASE j < i BY <1>0, <1>1, <2>1, <2>2
  <2>3. CASE j >= i
    <3>1. j - (i - 1) \in 1 .. Len(s) - i /\ i + (j - (i - 1)) = j + 1 BY <1>0, <2>3
    <3>2. b[j - (i - 1)] = s[i + (j - (i - 1))] BY ONLY <1>2, <3>1
    <3> QED BY <1>0, <2>1, <2>3, <3>1, <3>2
  <2> QED BY <1>0, <2>2, <2>3
<1>7. RemoveAt(s, i) = r BY ONLY <1>1, <1>2, <1>3 DEF RemoveAt
<1> QED BY <1>5, <1>6, <1>7

(* What a list of threads must be: without repetition, the main thread     *)
(* last.                                                                   *)
Sound(s) == s \in Seq(Threads) /\ s # <<>> /\ Last(s) = Main /\ IsInjective(s)

LEMMA LinkedFirstSound ==
  ASSUME Sound(list), NEW c \in Threads, ~Linked(c)
  PROVE  /\ Sound(LinkedFirst(c))
         /\ \A t \in Threads : Contains(LinkedFirst(c), t) <=> t = c \/ Linked(t)
<1>0. list \in Seq(Threads) /\ <<c>> \in Seq(Threads) /\ Len(<<c>>) = 1 /\ <<c>>[1] = c
  BY DEF Sound
<1>1. PICK n \in Nat : n = Len(list) /\ n > 0 BY <1>0 DEF Sound
<1>2. PICK s \in Seq(Threads) : s = LinkedFirst(c) BY <1>0, ConcatProperties DEF LinkedFirst
<1>3. Len(s) = n + 1 /\ s[1] = c /\ \A i \in 1 .. n : s[i + 1] = list[i]
  <2>1. /\ Len(s) = Len(<<c>>) + Len(list)
        /\ \A i \in 1 .. Len(<<c>>) + Len(list) :
             s[i] = IF i <= Len(<<c>>) THEN <<c>>[i] ELSE list[i - Len(<<c>>)]
    BY ONLY <1>0, <1>2, ConcatProperties DEF LinkedFirst
  <2>2. Len(s) = 1 + n /\ \A i \in 1 .. 1 + n : s[i] = IF i <= 1 THEN <<c>>[i] ELSE list[i - 1]
    BY ONLY <2>1, <1>0, <1>1
  <2>3. s[1] = c BY <1>0, <1>1, <2>2
  <2>4. ASSUME NEW i \in 1 .. n PROVE s[i + 1] = list[i]
    <3>1. i + 1 \in 1 .. 1 + n /\ ~(i + 1 <= 1) /\ (i + 1) - 1 = i OBVIOUS
    <3> QED BY <2>2, <3>1
  <2> QED BY <2>2, <2>3, <2>4
<1>4. ASSUME NEW j \in 1 .. n + 1 PROVE j = 1 \/ \E i \in 1 .. n : j = i + 1
  <2>1. j # 1 => j - 1 \in 1 .. n /\ j = (j - 1) + 1 OBVIOUS
  <2> QED BY <2>1
<1>5. \A i \in 1 .. n : list[i] # c BY <1>1 DEF Linked, Contains
<1>6. \A i, j \in 1 .. n : list[i] = list[j] => i = j
  BY <1>0, <1>1 DEF Sound, IsInjective
<1>7. IsInjective(s)
  <2> SUFFICES ASSUME NEW i \in 1 .. n + 1, NEW j \in 1 .. n + 1, s[i] = s[j] PROVE i = j
    BY <1>3 DEF IsInjective
  <2>1. CASE i = 1 BY <1>3, <1>4, <1>5, <2>1
  <2>2. CASE j = 1 BY <1>3, <1>4, <1>5, <2>2
  <2>3. CASE i # 1 /\ j # 1
    <3>1. PICK a \in 1 .. n : i = a + 1 BY <1>4, <2>3
    <3>2. PICK b \in 1 .. n : j = b + 1 BY <1>4, <2>3
    <3> QED BY <1>3, <1>6, <3>1, <3>2
  <2> QED BY <2>1, <2>2, <2>3
<1>8. Last(s) = Main
  <2>1. n \in 1 .. n /\ list[n] = Main BY <1>1 DEF Sound, Last
  <2>2. s[n + 1] = Main BY <1>3, <2>1
  <2> QED BY <1>3, <2>2 DEF Last
<1>9. s # <<>> BY <1>3
<1>10. ASSUME NEW t \in Threads PROVE Contains(s, t) <=> t = c \/ Linked(t)
  <2>1. t = c => Contains(s, t)
    <3>1. 1 \in 1 .. Len(s) BY <1>3
    <3> QED BY <1>3, <3>1 DEF Contains
  <2>2. Linked(t) => Contains(s, t)
    <3> SUFFICES ASSUME NEW i \in 1 .. n, list[i] = t PROVE Contains(s, t)
      BY <1>1 DEF Linked, Contains
    <3>1. i + 1 \in 1 .. Len(s) /\ s[i + 1] = t BY <1>3
    <3> QED BY <3>1 DEF Contains
  <2>3. Contains(s, t) => t = c \/ Linked(t)
    <3> SUFFICES ASSUME NEW j \in 1 .. n + 1, s[j] = t, t # c PROVE Linked(t)
      BY <1>3 DEF Contains
    <3>1. PICK i \in 1 .. n : j = i + 1 BY <1>3, <1>4
    <3>2. i \in 1 .. Len(list) /\ list[i] = t BY <1>1, <1>3, <3>1
    <3> QED BY <3>2 DEF Linked, Contains
  <2> QED BY <2>1, <2>2, <2>3
<1> QED BY <1>2, <1>7, <1>8, <1>9, <1>10 DEF Sound

LEMMA WithoutSound ==
  ASSUME Sound(list), NEW c \in Threads, Linked(c), c # Main
  PROVE  /\ Sound(Without(c))
         /\ \A t \in Threads : Contains(Without(c), t) <=> t # c /\ Linked(t)
<1>0. list \in Seq(Threads) BY DEF Sound
<1>1. PICK n \in Nat : n = Len(list) /\ n > 0 BY <1>0 DEF Sound
<1>2. PICK k \in 1 .. n : list[k] = c /\ Without(c) = RemoveAt(list, k)
  <2> DEFINE I == {i \in 1 .. Len(list) : list[i] = c}
  <2>1. I # {} /\ I \in SUBSET Nat BY <1>1 DEF Linked, Contains
  <2>2. Min(I) \in I BY <2>1, MinIn
  <2>3. Without(c) = RemoveAt(list, Min(I)) BY <2>1 DEF Without, RemoveFirst, SelectInSeq
  <2> QED BY <1>1, <2>2, <2>3
<1>3. PICK s \in Seq(Threads) :
        /\ s = Without(c) /\ Len(s) = n - 1
        /\ \A j \in 1 .. n - 1 : s[j] = IF j < k THEN list[j] ELSE list[j + 1]
  <2>1. /\ RemoveAt(list, k) \in Seq(Threads) /\ Len(RemoveAt(list, k)) = n - 1
        /\ \A j \in 1 .. n - 1 : RemoveAt(list, k)[j] = IF j < k THEN list[j] ELSE list[j + 1]
    BY <1>0, <1>1, RemoveAtIs
  <2> QED BY <1>2, <2>1
<1>4. \A i, j \in 1 .. n : list[i] = list[j] => i = j
  BY <1>0, <1>1 DEF Sound, IsInjective
<1>5. list[n] = Main /\ k # n BY <1>1, <1>2 DEF Sound, Last
<1>6. IsInjective(s)
  <2> SUFFICES ASSUME NEW i \in 1 .. n - 1, NEW j \in 1 .. n - 1, s[i] = s[j] PROVE i = j
    BY <1>3 DEF IsInjective
  <2>1. i \in 1 .. n /\ i + 1 \in 1 .. n /\ j \in 1 .. n /\ j + 1 \in 1 .. n OBVIOUS
  <2>2. CASE i < k /\ j < k BY <1>3, <1>4, <2>1, <2>2
  <2>3. CASE i < k /\ ~(j < k)
    <3>1. list[i] = list[j + 1] BY <1>3, <2>3
    <3>2. i = j + 1 BY <1>4, <2>1, <3>1
    <3> QED BY <2>3, <3>2
  <2>4. CASE ~(i < k) /\ j < k
    <3>1. list[i + 1] = list[j] BY <1>3, <2>4
    <3>2. i + 1 = j BY <1>4, <2>1, <3>1
    <3> QED BY <2>4, <3>2
  <2>5. CASE ~(i < k) /\ ~(j < k)
    <3>1. list[i + 1] = list[j + 1] BY <1>3, <2>5
    <3>2. i + 1 = j + 1 BY <1>4, <2>1, <3>1
    <3> QED BY <3>2
  <2> QED BY <2>2, <2>3, <2>4, <2>5
<1>7. Last(s) = Main /\ s # <<>>
  <2>1. n - 1 \in 1 .. n - 1 /\ ~(n - 1 < k) /\ (n - 1) + 1 = n BY <1>5
  <2>2. s[n - 1] = Main BY <1>3, <1>5, <2>1
  <2> QED BY <1>3, <2>1, <2>2 DEF Last
<1>8. ASSUME NEW t \in Threads PROVE Contains(s, t) <=> t # c /\ Linked(t)
  <2>1. Contains(s, t) => t # c /\ Linked(t)
    <3> SUFFICES ASSUME NEW j \in 1 .. n - 1, s[j] = t PROVE t # c /\ Linked(t)
      BY <1>3 DEF Contains
    <3>1. PICK i \in 1 .. n : list[i] = t /\ i # k
      <4>1. CASE j < k BY <1>3, <4>1
      <4>2. CASE ~(j < k)
        <5>1. j + 1 \in 1 .. n /\ j + 1 # k BY <4>2
        <5> QED BY <1>3, <4>2, <5>1
      <4> QED BY <4>1, <4>2
    <3>2. t # c BY <1>2, <1>4, <3>1
    <3> QED BY <1>1, <3>1, <3>2 DEF Linked, Contains
  <2>2. t # c /\ Linked(t) => Contains(s, t)
    <3> SUFFICES ASSUME NEW i \in 1 .. n, list[i] = t, t # c PROVE Contains(s, t)
      BY <1>1 DEF Linked, Contains
    <3>1. i # k BY <1>2
    <3>2. CASE i < k
      <4>1. i \in 1 .. n - 1 /\ s[i] = t BY <1>3, <3>2
      <4> QED BY <1>3, <4>1 DEF Contains
    <3>3. CASE i > k
      <4>1. i - 1 \in 1 .. n - 1 /\ ~(i - 1 < k) /\ (i - 1) + 1 = i BY <3>3
      <4>2. s[i - 1] = t BY <1>3, <4>1
      <4> QED BY <1>3, <4>1, <4>2 DEF Contains
    <3> QED BY <3>1, <3>2, <3>3
  <2> QED BY <2>1, <2>2
<1> QED BY <1>3, <1>6, <1>7, <1>8 DEF Sound
(***************************************************************************)
(* The inductive invariant.                                                *)
(***************************************************************************)
(* The threads with the GIL, with a task, with Python code on their stack. *)
Holding == {"start", "run", "link", "sweep"}
Gone    == {"none", "dying"}
Begun   == {"run", "out", "link", "sweep"}

Types ==
  /\ pc \in [Threads -> PCs]
  /\ gil \in Threads \cup {Nobody} /\ mutex \in Threads \cup {Nobody}
  /\ child \in Threads \cup {Nobody}
  /\ runstate \in [Threads -> {"NEW", "RUNNING", "FINISHED"}]
  /\ node \in [Threads -> {"none", "live", "freed"}]
  /\ arg \in [Threads -> SUBSET Objs] /\ stack \in [Threads -> SUBSET Objs]
  /\ objs \subseteq Objs
  /\ marked \in [objs : SUBSET Objs, nodes : SUBSET Threads]
  /\ phase \in {"up", "swept"}

Locks ==
  /\ \A t \in Threads : pc[t] \in Holding <=> gil = t
  /\ \A t \in Threads : pc[t] = "link" <=> mutex = t
  /\ mutex = Nobody <=> child = Nobody
  /\ child # Nobody => pc[child] = "new"

(* The list holds the threads that have a task, but for the one that is    *)
(* being created.                                                          *)
Members == \A t \in Threads : Linked(t) <=> pc[t] \notin Gone /\ t # child

MainRuns ==
  /\ pc[Main] \in Begun /\ node[Main] = "live"
  /\ phase = "swept" => pc[Main] = "run"

(* The collector scans a thread that has begun.                            *)
Scanned == \A t \in Threads : pc[t] \in Begun => runstate[t] = "RUNNING"

Nodes == phase = "up" => \A t \in Threads : pc[t] \notin Gone => node[t] = "live"

(* Between mark and sweep what is referred to is marked.                   *)
Marks ==
  (\E t \in Threads : pc[t] = "sweep") =>
    \A u \in Threads :
      /\ pc[u] \notin Gone => u \in marked.nodes
      /\ pc[u] \in Begun => stack[u] \subseteq marked.objs
      /\ pc[u] \in {"new", "start"} => arg[u] \subseteq marked.objs

ThreadInv ==
  /\ Types /\ Sound(list) /\ Locks /\ Members /\ MainRuns /\ Scanned /\ Nodes /\ Marks
  /\ NothingLiveFreed

LEMMA ThreadInitInv == Init => ThreadInv
<1> SUFFICES ASSUME Init PROVE ThreadInv
  OBVIOUS
<1> USE MpThreadAssumption
<1>1. marked \in [objs : SUBSET Objs, nodes : SUBSET Threads] BY DEF Init, NoMarks
<1>2. arg \in [Threads -> SUBSET Objs] /\ stack \in [Threads -> SUBSET Objs]
  <2>1. {} \in SUBSET Objs OBVIOUS
  <2> QED BY <2>1 DEF Init
<1>3. pc \in [Threads -> PCs] /\ node \in [Threads -> {"none", "live", "freed"}]
  BY DEF Init, PCs
<1>4. runstate \in [Threads -> {"NEW", "RUNNING", "FINISHED"}] BY DEF Init
<1>5. Types BY <1>1, <1>2, <1>3, <1>4 DEF Init, Types
<1>6. list = <<Main>> /\ Len(list) = 1 /\ list[1] = Main /\ list \in Seq(Threads) BY DEF Init
<1>7. Sound(list) BY <1>6 DEF Sound, Last, IsInjective
<1>8. \A t \in Threads : Linked(t) <=> t = Main BY <1>6 DEF Linked, Contains
<1>9. \A t \in Threads : pc[t] = IF t = Main THEN "run" ELSE "none" BY DEF Init
<1>10. Locks BY <1>9 DEF Init, Locks, Holding
<1>11. Members BY <1>8, <1>9 DEF Init, Members, Gone
<1>12. MainRuns /\ Scanned BY DEF Init, MainRuns, Scanned, Begun
<1>13. Nodes /\ Marks BY DEF Init, Nodes, Marks, Gone
<1>14. NothingLiveFreed BY DEF Init, NothingLiveFreed, InPython
<1> QED BY <1>5, <1>7, <1>10, <1>11, <1>12, <1>13, <1>14 DEF ThreadInv

LEMMA ListUnchanged ==
  ASSUME list' = list
  PROVE  /\ Sound(list)' <=> Sound(list)
         /\ \A t \in Threads : Linked(t)' <=> Linked(t)
BY DEF Sound, Linked

(* The GIL, the heap and the stacks.                                       *)
LEMMA PythonInv ==
  ASSUME ThreadInv, NEW t \in Threads, Python(t)
  PROVE  ThreadInv'
<1> USE MpThreadAssumption DEF heap, rest
<1>1. UNCHANGED <<mutex, list, runstate, node, arg, marked, child, phase>>
  BY DEF Python, GilExit, GilEnter, Allocate, Forget
<1>2. Sound(list)' /\ \A u \in Threads : Linked(u)' <=> Linked(u)
  BY <1>1, ListUnchanged DEF ThreadInv
<1>3. CASE GilExit(t) \/ GilEnter(t)
  <2>1. UNCHANGED <<stack, objs>> BY <1>3 DEF GilExit, GilEnter
  <2>2. \/ pc[t] = "run" /\ gil' = Nobody /\ pc' = [pc EXCEPT ![t] = "out"] /\ phase = "up"
        \/ pc[t] = "out" /\ gil = Nobody /\ gil' = t /\ pc' = [pc EXCEPT ![t] = "run"]
        \/ pc[t] = "new" /\ gil = Nobody /\ gil' = t /\ pc' = [pc EXCEPT ![t] = "start"]
    BY <1>3 DEF GilExit, GilEnter
  <2>3. Types' BY <1>1, <2>1, <2>2 DEF ThreadInv, Types, PCs
  <2>4. Locks' BY <1>1, <2>2 DEF ThreadInv, Types, Locks, Holding
  <2>5. Members' BY <1>1, <1>2, <2>2 DEF ThreadInv, Types, Members, Gone
  <2>6. MainRuns'
    <3>1. pc[Main] # "new" /\ (phase = "swept" => gil = Main)
      BY DEF ThreadInv, MainRuns, Begun, Locks, Holding
    <3> QED BY <1>1, <2>2, <3>1 DEF ThreadInv, Types, MainRuns, Begun
  <2>7. Scanned' BY <1>1, <2>2 DEF ThreadInv, Types, Scanned, Begun
  <2>8. Nodes' BY <1>1, <2>2 DEF ThreadInv, Types, Nodes, Gone
  <2>9. Marks'
    <3>1. ~\E u \in Threads : pc'[u] = "sweep"
      BY <2>2 DEF ThreadInv, Types, Locks, Holding
    <3> QED BY <3>1 DEF Marks
  <2>10. NothingLiveFreed' BY <1>1, <2>1, <2>2 DEF ThreadInv, Types, NothingLiveFreed, InPython
  <2> QED BY <1>2, <2>3, <2>4, <2>5, <2>6, <2>7, <2>8, <2>9, <2>10 DEF ThreadInv
<1>4. CASE Allocate(t) \/ Forget(t)
  <2>1. UNCHANGED <<pc, gil>> /\ pc[t] = "run" BY <1>4 DEF Allocate, Forget
  <2>2. PICK o \in Objs :
          \/ objs' = objs \cup {o} /\ stack' = [stack EXCEPT ![t] = @ \cup {o}]
          \/ objs' = objs /\ stack' = [stack EXCEPT ![t] = @ \ {o}]
    BY <1>4 DEF Allocate, Forget, ThreadInv, Types
  <2>3. Types' BY <1>1, <2>1, <2>2 DEF ThreadInv, Types
  <2>4. Locks' /\ MainRuns' /\ Scanned' /\ Nodes'
    BY <1>1, <2>1 DEF ThreadInv, Locks, MainRuns, Scanned, Nodes
  <2>5. Members' BY <1>1, <1>2, <2>1 DEF ThreadInv, Members
  <2>6. Marks'
    <3>1. ~\E u \in Threads : pc'[u] = "sweep"
      BY <2>1 DEF ThreadInv, Types, Locks, Holding
    <3> QED BY <3>1 DEF Marks
  <2>7. NothingLiveFreed' BY <1>1, <2>1, <2>2 DEF ThreadInv, Types, NothingLiveFreed
  <2> QED BY <1>2, <2>3, <2>4, <2>5, <2>6, <2>7 DEF ThreadInv
<1> QED BY <1>3, <1>4 DEF Python
(* mp_thread_create_ex, up to the link.                                    *)
LEMMA CreateInv ==
  ASSUME ThreadInv, NEW t \in Threads, Create(t) \/ CreateFails(t)
  PROVE  ThreadInv'
<1> USE MpThreadAssumption DEF heap, rest
<1>1. UNCHANGED <<gil, list, runstate, stack, objs, marked, phase>>
      /\ pc[t] = "run" /\ phase = "up" /\ mutex = Nobody
  BY DEF Create, CreateFails
<1>2. Sound(list)' /\ \A u \in Threads : Linked(u)' <=> Linked(u)
  BY <1>1, ListUnchanged DEF ThreadInv
<1>3. gil = t /\ child = Nobody /\ t # Nobody BY <1>1 DEF ThreadInv, Locks, Holding
<1>4. CASE Create(t)
  <2>1. PICK c \in Threads, a \in Objs :
          /\ a \in stack[t] /\ pc[c] = "none" /\ mutex' = t /\ child' = c
          /\ node' = [node EXCEPT ![c] = "live"] /\ arg' = [arg EXCEPT ![c] = {a}]
          /\ pc' = [pc EXCEPT ![t] = "link", ![c] = "new"]
    BY <1>4 DEF Create, ThreadInv, Types
  <2>2. c # t /\ c # Nobody BY <1>1, <2>1
  <2>3. /\ pc'[t] = "link" /\ pc'[c] = "new"
        /\ \A u \in Threads : u # t /\ u # c => pc'[u] = pc[u]
    BY <2>1, <2>2 DEF ThreadInv, Types
  <2>4. Types'
    <3>1. pc' \in [Threads -> PCs] BY <2>1 DEF ThreadInv, Types, PCs
    <3>2. arg' \in [Threads -> SUBSET Objs] BY <2>1 DEF ThreadInv, Types
    <3> QED BY <1>1, <2>1, <3>1, <3>2 DEF ThreadInv, Types
  <2>5. Locks' BY <1>1, <1>3, <2>1, <2>2, <2>3 DEF ThreadInv, Locks, Holding
  <2>6. Members' BY <1>1, <1>2, <1>3, <2>1, <2>2, <2>3 DEF ThreadInv, Members, Gone
  <2>7. MainRuns' BY <1>1, <2>1, <2>3 DEF ThreadInv, Types, MainRuns, Begun
  <2>8. Scanned' BY <1>1, <2>3 DEF ThreadInv, Scanned, Begun
  <2>9. Nodes' BY <1>1, <2>1, <2>3 DEF ThreadInv, Types, Nodes, Gone
  <2>10. Marks'
    <3>1. ~\E u \in Threads : pc'[u] = "sweep"
      BY <1>1, <1>3, <2>3 DEF ThreadInv, Locks, Holding
    <3> QED BY <3>1 DEF Marks
  <2>11. NothingLiveFreed'
    BY <1>1, <2>1, <2>3 DEF ThreadInv, Types, NothingLiveFreed, InPython
  <2> QED BY <1>2, <2>4, <2>5, <2>6, <2>7, <2>8, <2>9, <2>10, <2>11 DEF ThreadInv
<1>5. CASE CreateFails(t)
  <2>1. PICK c \in Threads : pc[c] = "none" /\ node' = [node EXCEPT ![c] = "freed"]
    BY <1>5 DEF CreateFails
  <2>2. UNCHANGED <<pc, mutex, arg, child>> BY <1>5 DEF CreateFails
  <2>3. Types' BY <1>1, <2>1, <2>2 DEF ThreadInv, Types
  <2>4. Locks' /\ Scanned' BY <1>1, <2>2 DEF ThreadInv, Locks, Scanned
  <2>5. Members' BY <1>2, <2>2 DEF ThreadInv, Members
  <2>6. MainRuns' BY <1>1, <2>1, <2>2 DEF ThreadInv, Types, MainRuns, Begun
  <2>7. Nodes' BY <1>1, <2>1, <2>2 DEF ThreadInv, Types, Nodes, Gone
  <2>8. Marks' /\ NothingLiveFreed' BY <1>1, <2>2 DEF ThreadInv, Marks, NothingLiveFreed
  <2> QED BY <1>2, <2>3, <2>4, <2>5, <2>6, <2>7, <2>8 DEF ThreadInv
<1> QED BY <1>4, <1>5

(* The new thread enters the list.                                         *)
LEMMA LinkInv ==
  ASSUME ThreadInv, NEW t \in Threads, Link(t)
  PROVE  ThreadInv'
<1> USE MpThreadAssumption DEF heap
<1>1. /\ UNCHANGED <<gil, marked, phase, node, arg, stack, objs>> /\ pc[t] = "link"
      /\ list' = LinkedFirst(child) /\ runstate' = [runstate EXCEPT ![child] = "NEW"]
      /\ mutex' = Nobody /\ child' = Nobody /\ pc' = [pc EXCEPT ![t] = "run"]
  BY DEF Link
<1>2. mutex = t /\ child \in Threads /\ child # Nobody /\ pc[child] = "new" /\ child # t
  BY <1>1 DEF ThreadInv, Types, Locks
<1>3. ~Linked(child) BY <1>2 DEF ThreadInv, Members
<1>4. Sound(list') /\ \A u \in Threads : Contains(list', u) <=> u = child \/ Linked(u)
  BY <1>1, <1>2, <1>3, LinkedFirstSound DEF ThreadInv
<1>5. Sound(list)' /\ \A u \in Threads : Linked(u)' <=> u = child \/ Linked(u)
  BY <1>4 DEF Sound, Linked
<1>6. pc'[t] = "run" /\ \A u \in Threads : u # t => pc'[u] = pc[u]
  BY <1>1 DEF ThreadInv, Types
<1>7. Types' BY <1>1, <1>2 DEF ThreadInv, Types, PCs
<1>8. Locks' BY <1>1, <1>2, <1>6 DEF ThreadInv, Locks, Holding
<1>9. Members' BY <1>1, <1>2, <1>5, <1>6 DEF ThreadInv, Members, Gone
<1>10. MainRuns' BY <1>1, <1>6 DEF ThreadInv, MainRuns, Begun
<1>11. Scanned' BY <1>1, <1>2, <1>6 DEF ThreadInv, Types, Scanned, Begun
<1>12. Nodes' BY <1>1, <1>6 DEF ThreadInv, Nodes, Gone
<1>13. Marks'
  <2>1. ~\E u \in Threads : pc'[u] = "sweep" BY <1>1, <1>6 DEF ThreadInv, Locks, Holding
  <2> QED BY <2>1 DEF Marks
<1>14. NothingLiveFreed' BY <1>1, <1>6 DEF ThreadInv, NothingLiveFreed, InPython
<1> QED BY <1>5, <1>7, <1>8, <1>9, <1>10, <1>11, <1>12, <1>13, <1>14 DEF ThreadInv

(* mp_thread_start and mp_thread_finish.                                   *)
LEMMA StartInv ==
  ASSUME ThreadInv, NEW t \in Threads, Start(t) \/ Finish(t)
  PROVE  ThreadInv'
<1> USE MpThreadAssumption DEF rest
<1>1. UNCHANGED <<mutex, list, node, arg, objs, marked, child, phase>> /\ mutex = Nobody
  BY DEF Start, Finish
<1>2. Sound(list)' /\ \A u \in Threads : Linked(u)' <=> Linked(u)
  BY <1>1, ListUnchanged DEF ThreadInv
<1>3. \/ /\ pc[t] = "start" /\ pc' = [pc EXCEPT ![t] = "run"] /\ gil' = gil
         /\ runstate' = [runstate EXCEPT ![t] = "RUNNING"]
         /\ stack' = [stack EXCEPT ![t] = arg[t]]
      \/ /\ pc[t] = "run" /\ pc' = [pc EXCEPT ![t] = "unlink"] /\ gil' = Nobody
         /\ runstate' = [runstate EXCEPT ![t] = "FINISHED"] /\ t # Main
         /\ stack' = [stack EXCEPT ![t] = {}] /\ phase = "up"
  <2>1. pc[t] = "start" => Linked(t) BY <1>1 DEF ThreadInv, Members, Locks, Gone
  <2> QED BY <2>1 DEF Start, Finish, Started
<1>4. gil = t BY <1>3 DEF ThreadInv, Locks, Holding
<1>5. \A u \in Threads : u # t => pc'[u] = pc[u] /\ runstate'[u] = runstate[u] /\ stack'[u] = stack[u]
  BY <1>3 DEF ThreadInv, Types
<1>6. \/ pc[t] = "start" /\ pc'[t] = "run" /\ runstate'[t] = "RUNNING" /\ stack'[t] = arg[t]
      \/ pc'[t] = "unlink"
  BY <1>3 DEF ThreadInv, Types
<1>7. Types'
  <2>1. stack' \in [Threads -> SUBSET Objs] BY <1>3 DEF ThreadInv, Types
  <2>2. pc' \in [Threads -> PCs] BY <1>3 DEF ThreadInv, Types, PCs
  <2> QED BY <1>1, <1>3, <2>1, <2>2 DEF ThreadInv, Types
<1>8. Locks'
  <2>1. \A u \in Threads : pc'[u] \in Holding <=> gil' = u
    BY <1>3, <1>4, <1>5 DEF ThreadInv, Types, Locks, Holding
  <2>2. \A u \in Threads : pc'[u] = "link" <=> mutex' = u
    BY <1>1, <1>3, <1>5, <1>6 DEF ThreadInv, Locks
  <2> QED BY <1>1, <2>1, <2>2 DEF ThreadInv, Locks
<1>9. Members' BY <1>1, <1>2, <1>3, <1>5, <1>6 DEF ThreadInv, Members, Gone
<1>10. MainRuns' BY <1>1, <1>3, <1>5 DEF ThreadInv, MainRuns, Begun
<1>11. Scanned' BY <1>5, <1>6 DEF ThreadInv, Scanned, Begun
<1>12. Nodes' BY <1>1, <1>3, <1>5 DEF ThreadInv, Nodes, Gone
<1>13. Marks'
  <2>1. ~\E u \in Threads : pc'[u] = "sweep" BY <1>4, <1>5, <1>6 DEF ThreadInv, Locks, Holding
  <2> QED BY <2>1 DEF Marks
<1>14. NothingLiveFreed'
  <2> SUFFICES ASSUME phase = "up", NEW u \in Threads
               PROVE  /\ pc'[u] \in InPython \ {"start"} => stack'[u] \subseteq objs
                      /\ pc'[u] \in {"new", "start"} => arg[u] \subseteq objs
    BY <1>1 DEF NothingLiveFreed
  <2>1. /\ pc[u] \in InPython \ {"start"} => stack[u] \subseteq objs
        /\ pc[u] \in {"new", "start"} => arg[u] \subseteq objs
    BY DEF ThreadInv, NothingLiveFreed
  <2>2. CASE u = t BY <1>6, <2>1, <2>2 DEF InPython
  <2>3. CASE u # t BY <1>5, <2>1, <2>3
  <2> QED BY <2>2, <2>3
<1> QED BY <1>2, <1>7, <1>8, <1>9, <1>10, <1>11, <1>12, <1>13, <1>14 DEF ThreadInv

(* The end of freertos_entry.                                              *)
LEMMA UnlinkInv ==
  ASSUME ThreadInv, NEW t \in Threads, Unlink(t) \/ Die(t)
  PROVE  ThreadInv'
<1> USE MpThreadAssumption DEF heap, rest
<1>1. UNCHANGED <<gil, mutex, runstate, node, arg, stack, objs, marked, child, phase>>
  BY DEF Unlink, Die
<1>2. PICK p \in Gone : pc' = [pc EXCEPT ![t] = p] /\ pc[t] \in {"unlink", "dying"}
  BY DEF Unlink, Die, Gone
<1>3. t # Main /\ t # child BY <1>2 DEF ThreadInv, MainRuns, Begun, Locks
<1>4. Sound(list)' /\ \A u \in Threads : Linked(u)' <=> u # t /\ Linked(u)
  <2>1. CASE Unlink(t)
    <3>1. Linked(t) /\ list' = Without(t)
      BY <1>3, <2>1 DEF Unlink, ThreadInv, Members, Gone
    <3>2. Sound(list') /\ \A u \in Threads : Contains(list', u) <=> u # t /\ Linked(u)
      BY <1>3, <3>1, WithoutSound DEF ThreadInv
    <3> QED BY <3>2 DEF Sound, Linked
  <2>2. CASE Die(t)
    <3>1. ~Linked(t) /\ list' = list BY <2>2 DEF Die, ThreadInv, Members, Gone
    <3> QED BY <3>1, ListUnchanged DEF ThreadInv
  <2> QED BY <2>1, <2>2
<1>5. pc'[t] = p /\ \A u \in Threads : u # t => pc'[u] = pc[u] BY <1>2 DEF ThreadInv, Types
<1>6. Types' BY <1>1, <1>2 DEF ThreadInv, Types, PCs, Gone
<1>7. Locks' BY <1>1, <1>2, <1>3, <1>5 DEF ThreadInv, Types, Locks, Holding, Gone
<1>8. Members' BY <1>1, <1>4, <1>5 DEF ThreadInv, Members
<1>9. MainRuns' BY <1>1, <1>3, <1>5 DEF ThreadInv, MainRuns
<1>10. Scanned' BY <1>1, <1>5 DEF ThreadInv, Scanned, Begun, Gone
<1>11. Nodes' BY <1>1, <1>5 DEF ThreadInv, Nodes
<1>12. Marks' BY <1>1, <1>5 DEF ThreadInv, Marks, Begun, Gone
<1>13. NothingLiveFreed' BY <1>1, <1>5 DEF ThreadInv, NothingLiveFreed, InPython, Gone
<1> QED BY <1>4, <1>6, <1>7, <1>8, <1>9, <1>10, <1>11, <1>12, <1>13 DEF ThreadInv
(* gc_collect: mark and sweep.                                             *)
LEMMA GcInv ==
  ASSUME ThreadInv, NEW t \in Threads, Gc(t)
  PROVE  ThreadInv'
<1> USE MpThreadAssumption DEF heap
<1>1. UNCHANGED <<gil, mutex, list, runstate, arg, stack, child, phase>>
  BY DEF Gc, GcMark, GcSweep
<1>2. Sound(list)' /\ \A u \in Threads : Linked(u)' <=> Linked(u)
  BY <1>1, ListUnchanged DEF ThreadInv
<1>3. PICK p, q \in {"run", "sweep"} : pc[t] = p /\ pc' = [pc EXCEPT ![t] = q]
  BY DEF Gc, GcMark, GcSweep
<1>4. /\ gil = t /\ mutex = Nobody /\ child = Nobody
      /\ \A u \in Threads : u # t => pc[u] \notin Holding
  BY <1>3 DEF ThreadInv, Types, Locks, Holding
<1>5. pc'[t] = q /\ \A u \in Threads : u # t => pc'[u] = pc[u] BY <1>3 DEF ThreadInv, Types
<1>a. phase = "up"
  <2>1. CASE GcMark(t) BY <2>1 DEF GcMark
  <2>2. CASE GcSweep(t)
    <3>1. pc[t] = "sweep" BY <2>2 DEF GcSweep
    <3>2. phase = "swept" => gil = Main /\ pc[Main] = "run"
      BY DEF ThreadInv, Locks, MainRuns, Holding
    <3> QED BY <1>4, <3>1, <3>2 DEF ThreadInv, Types
  <2> QED BY <2>1, <2>2 DEF Gc
<1>b. \A u \in Threads : u \in ToSet(list) <=> pc[u] \notin Gone
  <2>1. \A u \in Threads : u \in ToSet(list) <=> Linked(u)
    <3>1. list \in Seq(Threads) /\ DOMAIN list = 1 .. Len(list) BY DEF ThreadInv, Sound
    <3> QED BY <3>1 DEF ToSet, Linked, Contains
  <2> QED BY <1>4, <2>1 DEF ThreadInv, Members
<1>6. Locks' BY <1>1, <1>3, <1>4, <1>5 DEF ThreadInv, Locks, Holding
<1>7. Members' BY <1>1, <1>2, <1>3, <1>5 DEF ThreadInv, Members, Gone
<1>8. Scanned' BY <1>1, <1>3, <1>5 DEF ThreadInv, Scanned, Begun
<1>9. CASE GcMark(t)
  <2>1. UNCHANGED <<node, objs>> /\ q = "sweep" BY <1>3, <1>9 DEF GcMark, ThreadInv, Types
  <2>2. PICK so \in SUBSET Objs, sn \in SUBSET Threads :
          /\ marked' = [objs |-> so, nodes |-> sn] /\ sn = ToSet(list)
          /\ so = Stacks(t) \cup UNION {arg[u] : u \in ToSet(list)}
    <3>1. ToSet(list) \in SUBSET Threads BY DEF ToSet, ThreadInv, Sound
    <3>2. Stacks(t) \cup UNION {arg[u] : u \in ToSet(list)} \in SUBSET Objs
      BY <3>1 DEF Stacks, ThreadInv, Types
    <3> QED BY <1>9, <3>1, <3>2 DEF GcMark
  <2>3. Types'
    <3>1. marked' \in [objs : SUBSET Objs, nodes : SUBSET Threads] BY <2>2
    <3> QED BY <1>1, <1>3, <2>1, <3>1 DEF ThreadInv, Types, PCs
  <2>4. ASSUME NEW u \in Threads
        PROVE  /\ pc[u] \notin Gone => u \in sn
               /\ pc[u] \in Begun => stack[u] \subseteq so
               /\ pc[u] \in {"new", "start"} => arg[u] \subseteq so
    <3>1. pc[u] \notin Gone => u \in sn BY <1>b, <2>2
    <3>2. pc[u] \in Begun => stack[u] \subseteq so
      BY <1>b, <2>2 DEF Stacks, ThreadInv, Scanned, Begun, Gone
    <3>3. pc[u] \in {"new", "start"} => arg[u] \subseteq so BY <1>b, <2>2 DEF Gone
    <3> QED BY <3>1, <3>2, <3>3
  <2>5. marked'.nodes = sn /\ marked'.objs = so BY <2>2
  <2>6. Marks'
    <3> SUFFICES ASSUME NEW u \in Threads
                 PROVE  /\ pc'[u] \notin Gone => u \in sn
                        /\ pc'[u] \in Begun => stack[u] \subseteq so
                        /\ pc'[u] \in {"new", "start"} => arg[u] \subseteq so
      BY <1>1, <2>5 DEF Marks
    <3>1. CASE u = t
      <4>1. pc[t] \in Begun /\ pc[t] \notin Gone /\ pc'[t] = "sweep"
        BY <1>3, <1>5, <2>1 DEF Begun, Gone
      <4> QED BY <2>4, <3>1, <4>1
    <3>2. CASE u # t BY <1>5, <2>4, <3>2
    <3> QED BY <3>1, <3>2
  <2>7. MainRuns' BY <1>1, <1>a, <1>3, <1>5, <2>1 DEF ThreadInv, MainRuns, Begun
  <2>8. Nodes' BY <1>1, <1>3, <1>5, <2>1 DEF ThreadInv, Nodes, Gone
  <2>9. NothingLiveFreed' BY <1>1, <1>3, <1>5, <2>1 DEF ThreadInv, NothingLiveFreed, InPython
  <2> QED BY <1>2, <1>6, <1>7, <1>8, <2>3, <2>6, <2>7, <2>8, <2>9 DEF ThreadInv
<1>10. CASE GcSweep(t)
  <2>1. /\ objs' = objs \cap marked.objs /\ node' = FreeNodes(Threads \ marked.nodes)
        /\ marked' = NoMarks /\ pc[t] = "sweep" /\ q = "run"
    BY <1>3, <1>5, <1>10 DEF GcSweep, ThreadInv, Types
  <2>2. \A u \in Threads : node'[u] = IF node[u] = "live" /\ u \in Threads \ marked.nodes
                                      THEN "freed" ELSE node[u]
    BY <2>1 DEF FreeNodes
  <2>3. \A u \in Threads :
          /\ pc[u] \notin Gone => u \in marked.nodes
          /\ pc[u] \in Begun => stack[u] \subseteq marked.objs
          /\ pc[u] \in {"new", "start"} => arg[u] \subseteq marked.objs
    BY <2>1 DEF ThreadInv, Marks
  <2>4. Types'
    <3>1. marked' \in [objs : SUBSET Objs, nodes : SUBSET Threads] BY <2>1 DEF NoMarks
    <3>2. node' \in [Threads -> {"none", "live", "freed"}]
      BY <2>1 DEF FreeNodes, ThreadInv, Types
    <3> QED BY <1>1, <1>3, <2>1, <3>1, <3>2 DEF ThreadInv, Types, PCs
  <2>5. MainRuns'
    <3>1. pc[Main] \notin Gone BY DEF ThreadInv, MainRuns, Begun, Gone
    <3>2. node'[Main] = "live" BY <2>2, <2>3, <3>1 DEF ThreadInv, MainRuns
    <3> QED BY <1>1, <1>a, <1>5, <2>1, <3>2 DEF ThreadInv, MainRuns, Begun
  <2>6. Nodes' BY <1>1, <1>3, <1>5, <2>2, <2>3 DEF ThreadInv, Nodes, Gone
  <2>7. Marks'
    <3>1. ~\E u \in Threads : pc'[u] = "sweep" BY <1>4, <1>5, <2>1 DEF Holding
    <3> QED BY <3>1 DEF Marks
  <2>8. NothingLiveFreed'
    <3> SUFFICES ASSUME NEW u \in Threads
                 PROVE  /\ pc'[u] \in InPython \ {"start"} => stack[u] \subseteq objs'
                        /\ pc'[u] \in {"new", "start"} => arg[u] \subseteq objs'
      BY <1>1 DEF NothingLiveFreed
    <3>1. /\ pc[u] \in InPython \ {"start"} => stack[u] \subseteq objs
          /\ pc[u] \in {"new", "start"} => arg[u] \subseteq objs
      BY <1>a DEF ThreadInv, NothingLiveFreed
    <3>2. CASE u = t BY <1>5, <2>1, <2>3, <3>1, <3>2 DEF InPython, Begun
    <3>3. CASE u # t BY <1>5, <2>1, <2>3, <3>1, <3>3 DEF InPython, Begun
    <3> QED BY <3>2, <3>3
  <2> QED BY <1>2, <1>6, <1>7, <1>8, <2>4, <2>5, <2>6, <2>7, <2>8 DEF ThreadInv
<1> QED BY <1>9, <1>10 DEF Gc

(* The soft reset.                                                         *)
LEMMA ResetInv ==
  ASSUME ThreadInv, SweepAll \/ Deinit
  PROVE  ThreadInv'
<1> USE MpThreadAssumption
<1>1. CASE SweepAll
  <2>1. /\ UNCHANGED <<pc, gil, mutex, list, runstate, arg, stack, marked, child>>
        /\ pc[Main] = "run" /\ phase' = "swept" /\ objs' = {} /\ node' = FreeNodes(Threads \ {Main})
    BY <1>1 DEF SweepAll
  <2>2. Sound(list)' /\ \A u \in Threads : Linked(u)' <=> Linked(u)
    BY <2>1, ListUnchanged DEF ThreadInv
  <2>3. node' \in [Threads -> {"none", "live", "freed"}] BY <2>1 DEF FreeNodes, ThreadInv, Types
  <2>4. node'[Main] = node[Main] BY <2>1 DEF FreeNodes
  <2>5. Types' BY <2>1, <2>3 DEF ThreadInv, Types
  <2>6. Locks' /\ Scanned' /\ Marks' BY <2>1 DEF ThreadInv, Locks, Scanned, Marks
  <2>7. Members' BY <2>1, <2>2 DEF ThreadInv, Members
  <2>8. MainRuns' BY <2>1, <2>4 DEF ThreadInv, MainRuns
  <2>9. Nodes' /\ NothingLiveFreed' BY <2>1 DEF Nodes, NothingLiveFreed
  <2> QED BY <2>2, <2>5, <2>6, <2>7, <2>8, <2>9 DEF ThreadInv
<1>2. CASE Deinit
  <2>1. /\ UNCHANGED <<mutex, runstate, node, arg, objs, marked, child>>
        /\ phase = "swept" /\ mutex = Nobody /\ phase' = "up" /\ gil' = Main /\ list' = <<Main>>
        /\ pc' = [u \in Threads |-> IF u \in Deleted THEN "none" ELSE pc[u]]
        /\ stack' = [u \in Threads |-> {}]
    BY <1>2 DEF Deinit
  <2>2. gil = Main /\ pc[Main] = "run" /\ child = Nobody
    BY <2>1 DEF ThreadInv, MainRuns, Locks, Holding
  <2>3. \A u \in Threads : u \in ToSet(list) <=> pc[u] \notin Gone
    <3>1. \A u \in Threads : u \in ToSet(list) <=> Linked(u)
      <4>1. list \in Seq(Threads) /\ DOMAIN list = 1 .. Len(list) BY DEF ThreadInv, Sound
      <4> QED BY <4>1 DEF ToSet, Linked, Contains
    <3> QED BY <2>2, <3>1 DEF ThreadInv, Members
  <2>4. pc'[Main] = "run" /\ \A u \in Threads \ {Main} : pc'[u] \in Gone
    BY <2>1, <2>2, <2>3 DEF Deleted, Gone
  <2>5. list' \in Seq(Threads) /\ Len(list') = 1 /\ list'[1] = Main BY <2>1
  <2>6. Sound(list)' BY <2>1, <2>5 DEF Sound, Last, IsInjective
  <2>7. \A u \in Threads : Linked(u)' <=> u = Main BY <2>5 DEF Linked, Contains
  <2>8. Types'
    <3>1. pc' \in [Threads -> PCs] BY <2>1 DEF ThreadInv, Types, PCs
    <3>2. stack' \in [Threads -> SUBSET Objs]
      <4>1. {} \in SUBSET Objs OBVIOUS
      <4> QED BY <2>1, <4>1
    <3> QED BY <2>1, <3>1, <3>2 DEF ThreadInv, Types
  <2>9. Locks' BY <2>1, <2>2, <2>4 DEF Locks, Holding, Gone
  <2>10. Members' BY <2>1, <2>2, <2>4, <2>7 DEF Members, Gone
  <2>11. MainRuns' BY <2>1, <2>4 DEF ThreadInv, MainRuns, Begun
  <2>12. Scanned' BY <2>1, <2>2, <2>4 DEF ThreadInv, Scanned, Begun, Gone
  <2>13. Nodes' BY <2>1, <2>4 DEF ThreadInv, Nodes, MainRuns
  <2>14. Marks' BY <2>4 DEF Marks, Gone
  <2>15. NothingLiveFreed' BY <2>1, <2>4 DEF NothingLiveFreed, InPython, Gone
  <2> QED BY <2>6, <2>8, <2>9, <2>10, <2>11, <2>12, <2>13, <2>14, <2>15 DEF ThreadInv
<1> QED BY <1>1, <1>2

LEMMA ThreadStepInv == ThreadInv /\ [Next]_vars => ThreadInv'
<1> SUFFICES ASSUME ThreadInv, [Next]_vars PROVE ThreadInv'
  OBVIOUS
<1>1. ASSUME NEW t \in Threads, Python(t) \/ Life(t) \/ Gc(t) PROVE ThreadInv'
  BY <1>1, PythonInv, CreateInv, LinkInv, StartInv, UnlinkInv, GcInv DEF Life
<1>2. CASE SweepAll \/ Deinit BY <1>2, ResetInv
<1>3. CASE UNCHANGED vars
  <2>1. Sound(list)' /\ \A u \in Threads : Linked(u)' <=> Linked(u)
    BY <1>3, ListUnchanged DEF ThreadInv, vars
  <2>2. Members' BY <1>3, <2>1 DEF ThreadInv, Members, vars
  <2> QED
    BY <1>3, <2>1, <2>2
       DEF vars, ThreadInv, Types, Locks, MainRuns, Scanned, Nodes, Marks, NothingLiveFreed
<1> QED BY <1>1, <1>2, <1>3 DEF Next

LEMMA ThreadInvAlways == Spec => []ThreadInv
BY ThreadInitInv, ThreadStepInv, PTL DEF Spec

(* Every thread with Python code to run is in the list, once, the main one *)
(* last, in live memory.                                                   *)
THEOREM ListSoundAlways == Spec => []ListSound
<1>1. ThreadInv => ListSound
  <2> SUFFICES ASSUME ThreadInv PROVE ListSound
    OBVIOUS
  <2>1. TypeOK BY DEF ThreadInv, Types, Sound, TypeOK
  <2>2. \A t \in Threads : pc[t] \in InPython => Linked(t)
    BY MpThreadAssumption DEF ThreadInv, Members, Locks, InPython, Gone
  <2>3. \A t \in ToSet(list) : Linked(t) /\ t \in Threads
    <3>1. list \in Seq(Threads) /\ DOMAIN list = 1 .. Len(list) BY DEF ThreadInv, Sound
    <3> QED BY <3>1 DEF ToSet, Linked, Contains
  <2>4. phase = "up" => \A t \in ToSet(list) : node[t] = "live"
    BY <2>3 DEF ThreadInv, Nodes, Members
  <2> QED BY <2>1, <2>2, <2>4 DEF ThreadInv, Sound, ListSound
<1> QED BY <1>1, ThreadInvAlways, PTL

(* No collection frees an object that a thread still refers to.            *)
THEOREM NothingLiveFreedAlways == Spec => []NothingLiveFreed
<1>1. ThreadInv => NothingLiveFreed BY DEF ThreadInv
<1> QED BY <1>1, ThreadInvAlways, PTL

(* mp_thread_deinit leaves no other thread with Python code to run.        *)
THEOREM ResetStopsThreadsAlways == Spec => ResetStopsThreads
<1>1. ThreadInv /\ [Next]_vars =>
        [phase = "swept" /\ phase' = "up" =>
           \A t \in Threads \ {Main} : pc'[t] \in {"none", "dying"}]_vars
  <2> SUFFICES ASSUME ThreadInv, Next, phase = "swept", phase' = "up"
               PROVE  \A t \in Threads \ {Main} : pc'[t] \in {"none", "dying"}
    OBVIOUS
  <2> USE MpThreadAssumption DEF heap, rest
  <2>1. ASSUME NEW t \in Threads, Python(t) \/ Life(t) \/ Gc(t) PROVE phase' = phase
    BY <2>1 DEF Python, GilExit, GilEnter, Allocate, Forget, Life, Create, CreateFails, Link,
                Start, Finish, Unlink, Die, Gc, GcMark, GcSweep
  <2>2. Deinit BY <2>1 DEF Next, SweepAll
  <2>3. child = Nobody BY <2>2 DEF Deinit, ThreadInv, Locks
  <2>4. \A u \in Threads : u \in ToSet(list) <=> pc[u] \notin Gone
    <3>1. \A u \in Threads : u \in ToSet(list) <=> Linked(u)
      <4>1. list \in Seq(Threads) /\ DOMAIN list = 1 .. Len(list) BY DEF ThreadInv, Sound
      <4> QED BY <4>1 DEF ToSet, Linked, Contains
    <3> QED BY <2>3, <3>1 DEF ThreadInv, Members
  <2> QED BY <2>2, <2>4 DEF Deinit, Deleted, Gone
<1> QED BY <1>1, ThreadInvAlways, PTL DEF Spec, ResetStopsThreads
=============================================================================
