------------------------------ MODULE MpThread ------------------------------
(***************************************************************************)
(* Python threads on FreeRTOS tasks (mpthreadport.c): the list of threads  *)
(* and its mutex, creation, start, finish and removal, the marking of      *)
(* other threads' stacks by the collector, and mp_thread_deinit in the     *)
(* soft reset of mp_main.c.                                                *)
(*                                                                         *)
(* modthread.c, the GIL and the collector are external.  A thread's entry  *)
(* function enters the GIL, calls mp_thread_start, runs Python, calls      *)
(* mp_thread_finish and leaves the GIL; Python code runs with the GIL and  *)
(* leaves it around blocking calls and between bytecodes.  What runs under *)
(* thread_mutex without giving it up is one step, taken when it is free;   *)
(* mp_thread_create_ex is two, since the task exists before its node is    *)
(* linked.  Heap objects stand for whatever a thread's stack refers to.    *)
(***************************************************************************)
EXTENDS Naturals, Sequences, SequencesExt, FiniteSets

CONSTANTS
  Threads,  \* Python threads
  Main,     \* thread_entry0, the main task
  Objs,     \* heap objects
  Nobody    \* no thread

ASSUME MpThreadAssumption == Main \in Threads /\ Nobody \notin Threads

VARIABLES
  pc,        \* where each thread is
  gil,       \* the thread that has the GIL
  mutex,     \* the thread that has thread_mutex across a step
  list,      \* the list `thread', first entry first
  runstate,  \* run_state of each node
  node,      \* the heap block of each node: "none", "live", "freed"
  arg,       \* the objects th->arg of each node refers to
  stack,     \* the objects the stack of each thread refers to
  objs,      \* heap objects that have not been freed
  marked,    \* the objects and the nodes marked by the collection in progress
  child,     \* the thread whose creation is in progress
  phase      \* "up", or the soft reset: "swept"

vars == <<pc, gil, mutex, list, runstate, node, arg, stack, objs, marked, child, phase>>
heap == <<node, arg, stack, objs>>
rest == <<marked, child, phase>>

(* none: no task; new: waits for the GIL; start: mp_thread_start next;     *)
(* run: executes Python; out: outside the GIL; link: between xTaskCreate   *)
(* and the link; sweep: between mark and sweep; unlink: back in            *)
(* freertos_entry; dying: unlinked, vTaskDelete next.                      *)
PCs == {"none", "new", "start", "run", "out", "link", "sweep", "unlink", "dying"}

(* Where a thread executes Python code or will resume it.                  *)
InPython == {"start", "run", "out", "link", "sweep"}

NoMarks == [objs |-> {}, nodes |-> {}]

TypeOK ==
  /\ pc \in [Threads -> PCs]
  /\ gil \in Threads \cup {Nobody} /\ mutex \in Threads \cup {Nobody}
  /\ child \in Threads \cup {Nobody}
  /\ list \in Seq(Threads)
  /\ runstate \in [Threads -> {"NEW", "RUNNING", "FINISHED"}]
  /\ node \in [Threads -> {"none", "live", "freed"}]
  /\ arg \in [Threads -> SUBSET Objs] /\ stack \in [Threads -> SUBSET Objs]
  /\ objs \subseteq Objs
  /\ marked \in [objs : SUBSET Objs, nodes : SUBSET Threads]
  /\ phase \in {"up", "swept"}

(* mp_thread_init: the main thread has the GIL and the only node, which is *)
(* static memory.                                                          *)
Init ==
  /\ pc = [t \in Threads |-> IF t = Main THEN "run" ELSE "none"]
  /\ gil = Main /\ mutex = Nobody /\ child = Nobody
  /\ list = <<Main>>
  /\ runstate = [t \in Threads |-> IF t = Main THEN "RUNNING" ELSE "NEW"]
  /\ node = [t \in Threads |-> IF t = Main THEN "live" ELSE "none"]
  /\ arg = [t \in Threads |-> {}] /\ stack = [t \in Threads |-> {}]
  /\ objs = {} /\ marked = NoMarks
  /\ phase = "up"

Linked(t) == Contains(list, t)

-----------------------------------------------------------------------------
(* The GIL and Python code.                                                *)
GilExit(t) ==
  /\ pc[t] = "run" /\ phase = "up"
  /\ gil' = Nobody /\ pc' = [pc EXCEPT ![t] = "out"]
  /\ UNCHANGED <<mutex, list, runstate>> /\ UNCHANGED heap /\ UNCHANGED rest

GilEnter(t) ==
  /\ gil = Nobody /\ pc[t] \in {"out", "new"}
  /\ gil' = t
  /\ pc' = [pc EXCEPT ![t] = IF pc[t] = "out" THEN "run" ELSE "start"]
  /\ UNCHANGED <<mutex, list, runstate>> /\ UNCHANGED heap /\ UNCHANGED rest

Allocate(t) ==
  /\ pc[t] = "run" /\ phase = "up"
  /\ \E o \in Objs \ objs :
       /\ objs' = objs \cup {o} /\ stack' = [stack EXCEPT ![t] = @ \cup {o}]
  /\ UNCHANGED <<pc, gil, mutex, list, runstate, node, arg>> /\ UNCHANGED rest

Forget(t) ==
  /\ pc[t] = "run" /\ phase = "up"
  /\ \E o \in stack[t] : stack' = [stack EXCEPT ![t] = @ \ {o}]
  /\ UNCHANGED <<pc, gil, mutex, list, runstate, node, arg, objs>> /\ UNCHANGED rest

-----------------------------------------------------------------------------
(* mp_thread_create_ex: the node is allocated, thread_mutex taken and the  *)
(* task created.  The argument is an object of the creator.                *)
Create(t) ==
  /\ pc[t] = "run" /\ phase = "up" /\ mutex = Nobody
  /\ \E c \in Threads : \E a \in stack[t] :
       /\ pc[c] = "none"
       /\ mutex' = t /\ child' = c
       /\ node' = [node EXCEPT ![c] = "live"]
       /\ arg' = [arg EXCEPT ![c] = {a}]
       /\ pc' = [pc EXCEPT ![t] = "link", ![c] = "new"]
  /\ UNCHANGED <<gil, list, runstate, stack, objs, marked, phase>>

(* xTaskCreate fails: the mutex is given back and OSError raised; the node *)
(* is garbage.                                                             *)
CreateFails(t) ==
  /\ pc[t] = "run" /\ phase = "up" /\ mutex = Nobody
  /\ \E c \in Threads : pc[c] = "none" /\ node' = [node EXCEPT ![c] = "freed"]
  /\ UNCHANGED <<pc, gil, mutex, list, runstate, arg, stack, objs>> /\ UNCHANGED rest

(* Mutant: the new thread is put behind the main one.                      *)
LinkedLast(c) == Append(list, c)

LinkedFirst(c) == <<c>> \o list

Link(t) ==
  /\ pc[t] = "link"
  /\ list' = LinkedFirst(child)
  /\ runstate' = [runstate EXCEPT ![child] = "NEW"]
  /\ mutex' = Nobody /\ child' = Nobody
  /\ pc' = [pc EXCEPT ![t] = "run"]
  /\ UNCHANGED <<gil, marked, phase>> /\ UNCHANGED heap

(* The state mp_thread_start gives to the caller's node, if it finds it.   *)
(* Mutant: the state is left at NEW.                                       *)
NotStarted(t) == runstate

Started(t) == IF Linked(t) THEN [runstate EXCEPT ![t] = "RUNNING"] ELSE runstate

(* mp_thread_start; the thread then has its argument on its stack.         *)
Start(t) ==
  /\ pc[t] = "start" /\ mutex = Nobody
  /\ runstate' = Started(t)
  /\ stack' = [stack EXCEPT ![t] = arg[t]]
  /\ pc' = [pc EXCEPT ![t] = "run"]
  /\ UNCHANGED <<gil, mutex, list, node, arg, objs>> /\ UNCHANGED rest

(* mp_thread_finish, after which the entry function leaves the GIL.        *)
Finish(t) ==
  /\ pc[t] = "run" /\ phase = "up" /\ t # Main /\ mutex = Nobody
  /\ runstate' = [runstate EXCEPT ![t] = "FINISHED"]
  /\ stack' = [stack EXCEPT ![t] = {}]
  /\ gil' = Nobody /\ pc' = [pc EXCEPT ![t] = "unlink"]
  /\ UNCHANGED <<mutex, list, node, arg, objs>> /\ UNCHANGED rest

(* Mutant: the node is skipped in a copy of the head pointer only.         *)
WithoutNot(t) == list

Without(t) == RemoveFirst(list, t)

(* The end of freertos_entry.                                              *)
Unlink(t) ==
  /\ pc[t] = "unlink" /\ mutex = Nobody
  /\ list' = Without(t)
  /\ pc' = [pc EXCEPT ![t] = "dying"]
  /\ UNCHANGED <<gil, mutex, runstate>> /\ UNCHANGED heap /\ UNCHANGED rest

Die(t) ==
  /\ pc[t] = "dying" /\ pc' = [pc EXCEPT ![t] = "none"]
  /\ UNCHANGED <<gil, mutex, list, runstate>> /\ UNCHANGED heap /\ UNCHANGED rest

-----------------------------------------------------------------------------
(* The stacks a collection by t scans: its own and those of the other      *)
(* RUNNING threads of the list.                                            *)
Stacks(t) ==
  stack[t] \cup UNION {stack[u] : u \in {v \in ToSet(list) : runstate[v] = "RUNNING"}}

(* gc_collect: the mark phase with mp_thread_gc_others, then the sweep.    *)
GcMark(t) ==
  /\ pc[t] = "run" /\ phase = "up" /\ mutex = Nobody
  /\ marked' = [objs  |-> Stacks(t) \cup UNION {arg[u] : u \in ToSet(list)},
                nodes |-> ToSet(list)]
  /\ pc' = [pc EXCEPT ![t] = "sweep"]
  /\ UNCHANGED <<gil, mutex, list, runstate, child, phase>> /\ UNCHANGED heap

FreeNodes(s) == [u \in Threads |-> IF node[u] = "live" /\ u \in s THEN "freed" ELSE node[u]]

GcSweep(t) ==
  /\ pc[t] = "sweep"
  /\ objs' = objs \cap marked.objs
  /\ node' = FreeNodes(Threads \ marked.nodes)
  /\ marked' = NoMarks
  /\ pc' = [pc EXCEPT ![t] = "run"]
  /\ UNCHANGED <<gil, mutex, list, runstate, arg, stack, child, phase>>

-----------------------------------------------------------------------------
(* The soft reset in mp_main: gc_sweep_all frees the whole heap, then      *)
(* mp_thread_deinit deletes the tasks of the list, then mp_init starts     *)
(* over with a new GIL.  (The nodes of the list are on the heap just freed *)
(* and are read while the list is walked.)                                 *)
SweepAll ==
  /\ pc[Main] = "run" /\ phase = "up"
  /\ phase' = "swept"
  /\ objs' = {} /\ node' = FreeNodes(Threads \ {Main})
  /\ UNCHANGED <<pc, gil, mutex, list, runstate, arg, stack, marked, child>>

(* Mutant: threads that have not started yet are not deleted.              *)
DeletedStarted == {t \in ToSet(list) \ {Main} : runstate[t] # "NEW"}

Deleted == ToSet(list) \ {Main}

Deinit ==
  /\ phase = "swept" /\ mutex = Nobody
  /\ pc' = [t \in Threads |-> IF t \in Deleted THEN "none" ELSE pc[t]]
  /\ list' = <<Main>>
  /\ stack' = [t \in Threads |-> {}] /\ phase' = "up" /\ gil' = Main
  /\ UNCHANGED <<mutex, runstate, node, arg, objs, marked, child>>

Python(t) == GilExit(t) \/ GilEnter(t) \/ Allocate(t) \/ Forget(t)
Life(t)   == Create(t) \/ CreateFails(t) \/ Link(t) \/ Start(t) \/ Finish(t) \/ Unlink(t) \/ Die(t)
Gc(t)     == GcMark(t) \/ GcSweep(t)

Next == \/ \E t \in Threads : Python(t) \/ Life(t) \/ Gc(t)
        \/ SweepAll \/ Deinit

Spec == Init /\ [][Next]_vars

(* A creator that holds the mutex runs on; a mutex that keeps becoming     *)
(* free is obtained by a thread that ends (unlocking yields to the         *)
(* waiters, all tasks have the same priority, and FreeRTOS serves them in  *)
(* order).  No other step need ever happen.                                *)
Fairness ==
  /\ WF_vars(\E t \in Threads : Link(t))
  /\ \A t \in Threads \ {Main} : SF_vars(Unlink(t))

FairSpec == Spec /\ Fairness

-----------------------------------------------------------------------------
(* No collection frees an object that a thread still refers to: from the   *)
(* argument of a thread that has not started to the stack of a running one.*)
NothingLiveFreed ==
  phase = "up" =>
    \A t \in Threads :
      /\ pc[t] \in InPython \ {"start"} => stack[t] \subseteq objs
      /\ pc[t] \in {"new", "start"} => arg[t] \subseteq objs

(* The state is well typed; every thread that executes or may resume       *)
(* Python code is in the list, so the collector scans it and the soft      *)
(* reset deletes it; each has one node, in live memory outside the soft    *)
(* reset, and the main thread's is the last: the assertions of             *)
(* mp_thread_deinit.                                                       *)
ListSound ==
  /\ TypeOK
  /\ \A t \in Threads : pc[t] \in InPython => Linked(t)
  /\ list # <<>> /\ Last(list) = Main
  /\ IsInjective(list)
  /\ phase = "up" => \A t \in ToSet(list) : node[t] = "live"

(* When the soft reset is over no thread but the main one has Python code  *)
(* left to run.                                                            *)
ResetStopsThreads ==
  [][phase = "swept" /\ phase' = "up" =>
       \A t \in Threads \ {Main} : pc'[t] \in {"none", "dying"}]_vars

(* A thread whose function has returned leaves the list.                   *)
FinishedLeaves == \A t \in Threads \ {Main} : pc[t] = "unlink" ~> ~Linked(t)
=============================================================================
