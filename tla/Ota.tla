-------------------------------- MODULE Ota --------------------------------
(***************************************************************************)
(* ameba.OTA (modota.c): a Python object that streams a firmware image to  *)
(* a background FreeRTOS task.                                             *)
(*                                                                         *)
(* Actors.  Python threads run one GIL-protected segment at a time; a      *)
(* segment ends where the code executes MP_THREAD_GIL_EXIT or returns.     *)
(* Each session has a task at OTA_TASK_PRIO = 2, above the Python threads  *)
(* (priority 1, mp_main.c and mpthreadport.c), so a stretch of task code   *)
(* that does not block is one step.  The SDK's ota_start is external: it   *)
(* calls the read callback until it has the image, may fail at any moment  *)
(* (flash, header or checksum), and activates the new image on success.    *)
(*                                                                         *)
(* Sessions are object identities; each is constructed at most once.       *)
(* Byte i of the image fed to session s is <<s, i>>; <<s, 0>> is the dummy *)
(* byte that __del__ sends.                                                *)
(***************************************************************************)
EXTENDS Naturals, Sequences, FiniteSets

CONSTANTS
  Sessions,    \* identities of OTA objects
  Threads,     \* Python threads
  Main,        \* the thread of mp_main, which performs a soft reset
  NoSession,   \* the NULL pointer
  ImageLen,    \* bytes in the image
  BufLen,      \* OTA_STREAM_BUF_SIZE
  ReadLen,     \* the len ota_start passes to its read callback
  Settings     \* the combinations of troubles to be considered

(* What may go wrong around a session: the creation of an RTOS object      *)
(* fails; ota_start outlasts the 10 s wait of __del__; other threads go on *)
(* using sessions while a soft reset sweeps the heap.                      *)
Troubles == {"allocFails", "stalls", "intrudes"}

ASSUME OtaAssumption ==
  /\ Settings \subseteq SUBSET Troubles
  /\ NoSession \notin Sessions
  /\ Main \in Threads
  /\ ImageLen \in Nat \ {0} /\ BufLen \in Nat \ {0} /\ ReadLen \in Nat \ {0}

VARIABLES
  obj,        \* heap cell of the object: "none", "live", "freed"
  held,       \* sessions a Python variable refers to
  active,     \* MP_STATE_PORT(ota_active)
  stream,     \* the field stream: "null", "valid", "dangling"
  buf,        \* contents of the stream buffer
  sem,        \* the field sem_done: "null", "empty", "given", "dangling"
  result,     \* OTA_RESULT_PENDING, OK, ERR
  eof,        \* the field eof
  finished,   \* the field finished
  task,       \* program counter of the session's task
  cbself,     \* the callback's local variable self
  got,        \* bytes ota_start has consumed
  sent,       \* bytes of the image accepted by write()
  whole,      \* history: the image was complete when finish() set eof
  flashErr,   \* ota_start failed for a reason of its own
  outcome,    \* what finish() told its caller: "none", "ok", "EIO"
  phase,      \* "run", or "sweep" during gc_sweep_all of a soft reset
  th,         \* what each thread is blocked in
  fault,      \* kinds of freed memory that were touched
  troubles    \* fixed: what may go wrong

objVars  == <<stream, buf, sem, result, eof, finished>>
taskVars == <<task, cbself, got, flashErr>>
cliVars  == <<sent, whole, outcome>>
otaVars == <<obj, held, active, stream, buf, sem, result, eof, finished, task, cbself,
             got, sent, whole, flashErr, outcome, phase, th, fault>>
vars == <<otaVars, troubles>>

Bytes == Sessions \X Nat
SessionOrNull == Sessions \cup {NoSession}
Idle == [op |-> "idle", s |-> NoSession, rem |-> 0]
Ops == {"idle", "write", "finish", "delSend", "delTake"}
Faults == {"object", "stream", "sem"}

Min2(a, b) == IF a < b THEN a ELSE b
Image(s) == [i \in 1 .. ImageLen |-> <<s, i>>]

StateOK ==
  /\ obj \in [Sessions -> {"none", "live", "freed"}] /\ held \in SUBSET Sessions
  /\ active \in SessionOrNull
  /\ stream \in [Sessions -> {"null", "valid", "dangling"}] /\ buf \in [Sessions -> Seq(Bytes)]
  /\ sem \in [Sessions -> {"null", "empty", "given", "dangling"}]
  /\ result \in [Sessions -> {"PENDING", "OK", "ERR"}]
  /\ eof \in [Sessions -> BOOLEAN] /\ finished \in [Sessions -> BOOLEAN]
  /\ task \in [Sessions -> {"none", "start", "recv", "poll", "done"}]
  /\ cbself \in [Sessions -> SessionOrNull] /\ got \in [Sessions -> Seq(Bytes)]
  /\ sent \in [Sessions -> Nat] /\ whole \in [Sessions -> BOOLEAN]
  /\ flashErr \in [Sessions -> BOOLEAN] /\ outcome \in [Sessions -> {"none", "ok", "EIO"}]
  /\ phase \in {"run", "sweep"} /\ fault \in SUBSET Faults
  /\ th \in [Threads -> [op : Ops, s : SessionOrNull, rem : Nat]]

TypeOK == StateOK /\ troubles \in Settings

Init ==
  /\ obj = [s \in Sessions |-> "none"] /\ held = {} /\ active = NoSession
  /\ stream = [s \in Sessions |-> "null"] /\ buf = [s \in Sessions |-> <<>>]
  /\ sem = [s \in Sessions |-> "null"] /\ result = [s \in Sessions |-> "PENDING"]
  /\ eof = [s \in Sessions |-> FALSE] /\ finished = [s \in Sessions |-> FALSE]
  /\ task = [s \in Sessions |-> "none"] /\ cbself = [s \in Sessions |-> NoSession]
  /\ got = [s \in Sessions |-> <<>>] /\ flashErr = [s \in Sessions |-> FALSE]
  /\ sent = [s \in Sessions |-> 0] /\ whole = [s \in Sessions |-> FALSE]
  /\ outcome = [s \in Sessions |-> "none"]
  /\ phase = "run" /\ th = [t \in Threads |-> Idle] /\ fault = {}
  /\ troubles \in Settings

-----------------------------------------------------------------------------
(***************************************************************************)
(* Scheduling.  A thread other than Main runs whenever the GIL is free;    *)
(* during gc_sweep_all that is only while a finaliser of the main thread   *)
(* has released it.                                                        *)
(***************************************************************************)
MayRun == phase = "run" \/ ("intrudes" \in troubles /\ th[Main].op # "idle")

MayCall(t) == th[t].op = "idle" /\ MayRun

(* Touching a deleted RTOS object or a freed heap cell is undefined        *)
(* behaviour: the model records it and goes on.                            *)
UseObject(s) == IF obj[s] # "live" THEN {"object"} ELSE {}
UseStream(s) == UseObject(s) \cup IF stream[s] # "valid" THEN {"stream"} ELSE {}
UseSem(s) == UseObject(s) \cup IF sem[s] \notin {"empty", "given"} THEN {"sem"} ELSE {}
Touch(uses) == fault' = fault \cup uses

-----------------------------------------------------------------------------
(***************************************************************************)
(* ameba_ota_make_new                                                      *)
(***************************************************************************)
Busy == active # NoSession /\ result[active] = "PENDING"

(* Identities are interchangeable, so a new object takes a chosen one.     *)
Unused(s) == obj[s] = "none" /\ s = CHOOSE r \in Sessions : obj[r] = "none"

(* The allocation and the initial values of the fields.                    *)
InitFields(s) ==
  /\ obj' = [obj EXCEPT ![s] = "live"]
  /\ result' = [result EXCEPT ![s] = "PENDING"]
  /\ eof' = [eof EXCEPT ![s] = FALSE]
  /\ finished' = [finished EXCEPT ![s] = FALSE]

(* The object is complete and its task has been created.  (A constructor   *)
(* that another thread calls while the main thread sweeps is left out.)    *)
MakeNew(t, s) ==
  /\ phase = "run" /\ MayCall(t) /\ Unused(s) /\ ~Busy
  /\ InitFields(s)
  /\ held' = held \cup {s}
  /\ stream' = [stream EXCEPT ![s] = "valid"]
  /\ sem' = [sem EXCEPT ![s] = "empty"]
  /\ task' = [task EXCEPT ![s] = "start"]
  /\ active' = s
  /\ UNCHANGED <<buf, cbself, got, flashErr, cliVars, phase, th, fault>>

(* One of the creations fails and the constructor raises.  The heap object *)
(* stays behind for its finaliser, with the fields the error path left in  *)
(* it: what the path deleted is not reset to NULL.                         *)
MakeNewFails(t, s) ==
  /\ phase = "run" /\ MayCall(t) /\ Unused(s) /\ ~Busy /\ "allocFails" \in troubles
  /\ InitFields(s)
  /\ \/ /\ UNCHANGED <<stream, sem, active>>              \* ota_init or stream buffer
     \/ /\ stream' = [stream EXCEPT ![s] = "dangling"]    \* semaphore
        /\ UNCHANGED <<sem, active>>
     \/ /\ stream' = [stream EXCEPT ![s] = "dangling"]    \* task
        /\ sem' = [sem EXCEPT ![s] = "dangling"]
        /\ active' = NoSession
  /\ UNCHANGED <<held, buf, taskVars, cliVars, phase, th, fault>>

-----------------------------------------------------------------------------
(***************************************************************************)
(* ameba_ota_write.  Stream buffers admit one writer at a time; the model  *)
(* assumes that a program does not write to a session from two threads at  *)
(* once.                                                                   *)
(***************************************************************************)
SerialWriters(s) == \A t \in Threads : th[t].op = "write" => th[t].s # s

(* Entry of write(chunk): a chunk of n bytes, refused (EALREADY, EIO)      *)
(* without an effect when the session is finished or its task has ended.   *)
WriteEnter(t, s, n) ==
  /\ MayCall(t) /\ s \in held /\ SerialWriters(s)
  /\ sent[s] + n =< ImageLen
  /\ ~finished[s] /\ result[s] = "PENDING"
  /\ th' = [th EXCEPT ![t] = [op |-> "write", s |-> s, rem |-> n]]
  /\ Touch(UseObject(s))
  /\ UNCHANGED <<obj, held, active, objVars, taskVars, cliVars, phase>>

SendNow(s, n) == Min2(n, BufLen - Len(buf[s]))

Chunk(s, k) == [i \in 1 .. k |-> <<s, sent[s] + i>>]

(* Mutant: the loop does not look at result.                               *)
WriteEndsWhenSent(s, rem) == rem = 0

WriteEnds(s, rem) == rem = 0 \/ result[s] # "PENDING"

(* One slice of the loop: xStreamBufferSend accepts what fits (nothing,    *)
(* after 100 ms, when the buffer is full), then the loop test and the      *)
(* check of result.                                                        *)
WriteSlice(t) ==
  LET s == th[t].s
      k == SendNow(s, th[t].rem)
      rem == th[t].rem - k
  IN  /\ th[t].op = "write" /\ MayRun
      /\ buf' = [buf EXCEPT ![s] = @ \o Chunk(s, k)]
      /\ sent' = [sent EXCEPT ![s] = @ + k]
      /\ th' = [th EXCEPT ![t] = IF WriteEnds(s, rem)
                                 THEN Idle ELSE [@ EXCEPT !.rem = rem]]
      /\ Touch(UseStream(s))
      /\ UNCHANGED <<obj, held, active, stream, sem, result, eof, finished, taskVars,
                     whole, outcome, phase>>

-----------------------------------------------------------------------------
(***************************************************************************)
(* ameba_ota_finish                                                        *)
(***************************************************************************)
SignalEof(s) == eof' = [eof EXCEPT ![s] = TRUE]

FinishEnter(t, s) ==
  /\ MayCall(t) /\ s \in held /\ ~finished[s]
  /\ finished' = [finished EXCEPT ![s] = TRUE]
  /\ SignalEof(s)
  /\ whole' = [whole EXCEPT ![s] = (sent[s] = ImageLen)]
  /\ th' = [th EXCEPT ![t] = [op |-> "finish", s |-> s, rem |-> 0]]
  /\ Touch(UseObject(s))
  /\ UNCHANGED <<obj, held, active, stream, buf, sem, result, taskVars, sent, outcome, phase>>

(* Mutant: ota_active is cleared whosever it is.                           *)
ReleaseAny(s) == NoSession

(* xSemaphoreTake returns, the thread regains the GIL and gives up         *)
(* ota_active if that is still its own session: other threads may have run *)
(* since the task gave the token.                                          *)
ReleaseActive(s) == IF active = s THEN NoSession ELSE active

FinishReturn(t) ==
  LET s == th[t].s
  IN  /\ th[t].op = "finish" /\ sem[s] # "empty" /\ MayRun
      /\ sem' = [sem EXCEPT ![s] = IF @ = "given" THEN "empty" ELSE @]
      /\ active' = ReleaseActive(s)
      /\ outcome' = [outcome EXCEPT ![s] = IF result[s] = "OK" THEN "ok" ELSE "EIO"]
      /\ th' = [th EXCEPT ![t] = Idle]
      /\ Touch(UseSem(s))
      /\ UNCHANGED <<obj, held, stream, buf, result, eof, finished, taskVars, sent,
                     whole, phase>>

(* A Python program forgets its last reference to the session.             *)
Drop(t, s) ==
  /\ MayCall(t) /\ s \in held
  /\ held' = held \ {s}
  /\ UNCHANGED <<obj, active, objVars, taskVars, cliVars, phase, th, fault>>

-----------------------------------------------------------------------------
(***************************************************************************)
(* ameba_ota_del, the finaliser: run by a collection that finds the object *)
(* unreachable (ota_active is a root pointer), or by the gc_sweep_all of a *)
(* soft reset for every object.                                            *)
(***************************************************************************)
(* Mutant: the stacks of the other threads are not scanned.                *)
ReachableByRoots(s) == s \in held \/ s = active

Reachable(s) == s \in held \/ s = active \/ \E t \in Threads : th[t].s = s

Collectable(t, s) ==
  /\ obj[s] = "live"
  /\ \/ MayCall(t) /\ ~Reachable(s)
     \/ phase = "sweep" /\ t = Main /\ th[t].op = "idle"

(* Lines 136-139 and the return to the collector, which frees the cell.    *)
Free(s) ==
  /\ sem' = [sem EXCEPT ![s] = "null"]
  /\ stream' = [stream EXCEPT ![s] = "null"]
  /\ active' = ReleaseActive(s)
  /\ obj' = [obj EXCEPT ![s] = "freed"]

(* A null field is tested before it is used; only a stale one is a fault.  *)
(* Deleting a semaphore another thread waits on is a fault too.            *)
Waited(t, s) == \E u \in Threads \ {t} : th[u].op = "finish" /\ th[u].s = s
UseInDel(t, s) ==
  UseObject(s) \cup (IF stream[s] = "dangling" THEN {"stream"} ELSE {})
               \cup (IF sem[s] = "dangling" \/ Waited(t, s) THEN {"sem"} ELSE {})

(* result is not PENDING, or the constructor failed before there was       *)
(* anything to wait for.                                                   *)
DelAtOnce(t, s) ==
  /\ Collectable(t, s)
  /\ result[s] # "PENDING" \/ (stream[s] = "null" /\ sem[s] = "null")
  /\ eof' = [eof EXCEPT ![s] = @ \/ result[s] = "PENDING"]
  /\ Free(s)
  /\ Touch(UseInDel(t, s))
  /\ UNCHANGED <<held, buf, result, finished, taskVars, cliVars, phase, th>>

DelEnter(t, s) ==
  /\ Collectable(t, s) /\ result[s] = "PENDING" /\ stream[s] # "null"
  /\ SignalEof(s)
  /\ th' = [th EXCEPT ![t] = [op |-> "delSend", s |-> s, rem |-> 0]]
  /\ UNCHANGED <<obj, held, active, stream, buf, sem, result, finished, taskVars, cliVars,
                 phase, fault>>

(* The dummy byte is sent, or dropped when the buffer is still full after  *)
(* 100 ms.                                                                 *)
DelSend(t) ==
  LET s == th[t].s
  IN  /\ th[t].op = "delSend"
      /\ buf' = [buf EXCEPT ![s] = IF Len(@) < BufLen THEN Append(@, <<s, 0>>) ELSE @]
      /\ th' = [th EXCEPT ![t].op = "delTake"]
      /\ Touch(UseStream(s))
      /\ UNCHANGED <<obj, held, active, stream, sem, result, eof, finished, taskVars, cliVars,
                     phase>>

Running(s) == task[s] \in {"start", "recv", "poll"}

(* The token arrives, or 10 s pass: the token was taken by another thread, *)
(* there never was a task, or the task needs longer than that.             *)
TakeReturns(s) == sem[s] = "empty" => ("stalls" \in troubles \/ ~Running(s))

DelFree(t) ==
  LET s == th[t].s
  IN  /\ th[t].op = "delTake"
      /\ TakeReturns(s)
      /\ Free(s)
      /\ th' = [th EXCEPT ![t] = Idle]
      /\ Touch(UseInDel(t, s))
      /\ UNCHANGED <<held, buf, result, eof, finished, taskVars, cliVars, phase>>

(* Soft reset (mp_main): gc_sweep_all finalises every object,              *)
(* mp_thread_deinit deletes the other threads, and the interpreter starts  *)
(* again without variables.                                                *)
SweepStart ==
  /\ phase = "run" /\ th[Main].op = "idle"
  /\ "intrudes" \in troubles \/ \A t \in Threads : th[t].op = "idle"
  /\ phase' = "sweep"
  /\ UNCHANGED <<obj, held, active, objVars, taskVars, cliVars, th, fault>>

SweepEnd ==
  /\ phase = "sweep" /\ th[Main].op = "idle"
  /\ \A s \in Sessions : obj[s] # "live"
  /\ phase' = "run"
  /\ held' = {}
  /\ th' = [t \in Threads |-> Idle]
  /\ UNCHANGED <<obj, active, objVars, taskVars, cliVars, fault>>

-----------------------------------------------------------------------------
(***************************************************************************)
(* The OTA task: ota_start (external), ota_user_read_cb, and the epilogue  *)
(* of ameba_ota_task_entry.                                                *)
(***************************************************************************)
(* Lines 62-64: publish the result and give the semaphore.                 *)
TaskEnd(s, res) ==
  /\ result' = [result EXCEPT ![s] = res]
  /\ sem' = [sem EXCEPT ![s] = IF @ = "empty" THEN "given" ELSE @]
  /\ task' = [task EXCEPT ![s] = "done"]

(* ota_start succeeds: it needs the whole image, in order.                 *)
OtaStartOk(s) ==
  /\ task[s] = "start" /\ got[s] = Image(s)
  /\ TaskEnd(s, "OK")
  /\ Touch(UseSem(s))
  /\ UNCHANGED <<obj, held, active, stream, buf, eof, finished, cbself, got, flashErr,
                 cliVars, phase, th>>

(* ota_start fails by itself: flash, header or checksum.                   *)
OtaStartFails(s) ==
  /\ task[s] = "start"
  /\ flashErr' = [flashErr EXCEPT ![s] = TRUE]
  /\ TaskEnd(s, "ERR")
  /\ Touch(UseSem(s))
  /\ UNCHANGED <<obj, held, active, stream, buf, eof, finished, cbself, got, cliVars, phase, th>>

(* Entry of the read callback: it looks the session up in ota_active, and  *)
(* returns -1 when there is none.                                          *)
ReadEnter(s) ==
  /\ task[s] = "start"
  /\ IF active = NoSession
     THEN /\ TaskEnd(s, "ERR") /\ Touch(UseSem(s)) /\ UNCHANGED cbself
     ELSE /\ cbself' = [cbself EXCEPT ![s] = active]
          /\ task' = [task EXCEPT ![s] = "recv"]
          /\ UNCHANGED <<result, sem, fault>>
  /\ UNCHANGED <<obj, held, active, stream, buf, eof, finished, got, flashErr, cliVars, phase, th>>

(* A receive that finds bytes hands up to len of them to ota_start.        *)
Receive(s, c) ==
  LET k == Min2(ReadLen, Len(buf[c]))
  IN  /\ got' = [got EXCEPT ![s] = @ \o SubSeq(buf[c], 1, k)]
      /\ buf' = [buf EXCEPT ![c] = SubSeq(@, k + 1, Len(@))]
      /\ task' = [task EXCEPT ![s] = "start"]

(* The receive with its 50 ms timeout.                                     *)
ReadReceive(s) ==
  LET c == cbself[s]
  IN  /\ task[s] = "recv"
      /\ IF buf[c] # <<>>
         THEN Receive(s, c)
         ELSE /\ task' = [task EXCEPT ![s] = "poll"]
              /\ UNCHANGED <<got, buf>>
      /\ Touch(UseStream(c))
      /\ UNCHANGED <<obj, held, active, stream, sem, result, eof, finished, cbself, flashErr,
                     cliVars, phase, th>>

(* Mutant: the callback returns 0 without the second receive.              *)
AtEofUndrained(c) == eof[c]

(* eof is set and the second receive finds nothing either.                 *)
AtEof(c) == eof[c] /\ buf[c] = <<>>

(* After an empty receive: the test of eof, the second receive that        *)
(* drains, and the end of file, at which ota_start decides by what it has. *)
ReadPoll(s) ==
  LET c == cbself[s]
  IN  /\ task[s] = "poll"
      /\ \/ /\ ~eof[c]
            /\ task' = [task EXCEPT ![s] = "recv"]
            /\ Touch(UseObject(c))
            /\ UNCHANGED <<got, buf, result, sem>>
         \/ /\ eof[c] /\ ~AtEof(c)
            /\ Receive(s, c)
            /\ Touch(UseStream(c))
            /\ UNCHANGED <<result, sem>>
         \/ /\ AtEof(c)
            /\ TaskEnd(s, IF got[s] = Image(s) THEN "OK" ELSE "ERR")
            /\ Touch(UseStream(c) \cup UseSem(s))
            /\ UNCHANGED <<got, buf>>
      /\ UNCHANGED <<obj, held, active, stream, eof, finished, cbself, flashErr, cliVars, phase, th>>

-----------------------------------------------------------------------------
Client(t) ==
  \/ \E s \in Sessions : \/ MakeNew(t, s) \/ MakeNewFails(t, s) \/ FinishEnter(t, s)
                         \/ Drop(t, s) \/ DelAtOnce(t, s) \/ DelEnter(t, s)
  \/ \E s \in Sessions, n \in 1 .. ImageLen : WriteEnter(t, s, n)

Blocked(t) == WriteSlice(t) \/ FinishReturn(t) \/ DelSend(t) \/ DelFree(t)

Task(s) == OtaStartOk(s) \/ OtaStartFails(s) \/ ReadEnter(s) \/ ReadReceive(s) \/ ReadPoll(s)

Step ==
  \/ \E t \in Threads : Client(t) \/ Blocked(t)
  \/ SweepStart \/ SweepEnd
  \/ \E s \in Sessions : Task(s)

Next == Step /\ UNCHANGED troubles

Spec == Init /\ [][Next]_vars

(***************************************************************************)
(* Fairness: every task and every blocked thread is scheduled again (equal *)
(* priorities, timeouts of 50 ms, 100 ms and 10 s), ota_start makes        *)
(* progress, and the loop of gc_sweep_all goes on.                         *)
(***************************************************************************)
SweepStep == phase = "sweep" /\ \E s \in Sessions : DelAtOnce(Main, s) \/ DelEnter(Main, s)

Fairness ==
  /\ \A t \in Threads : WF_otaVars(Blocked(t))
  /\ \A s \in Sessions : WF_otaVars(Task(s))
  /\ WF_otaVars(SweepStep)
  /\ WF_otaVars(SweepEnd)

FairSpec == Spec /\ Fairness

-----------------------------------------------------------------------------
(***************************************************************************)
(* Properties                                                              *)
(***************************************************************************)
(* The assumptions some of them need.  (A stalled task outlives what the   *)
(* finaliser frees; a failed constructor leaves dangling fields to its     *)
(* finaliser; gc_sweep_all finalises objects that other threads are        *)
(* using.)                                                                 *)
InTime  == "stalls" \notin troubles
Orderly == troubles \subseteq {"allocFails"}

(* No step of a thread or of a task uses a heap cell after its finaliser   *)
(* ran, or a stream buffer or semaphore after it was deleted               *)
(* (modota.c:116-140 frees them while a task of higher priority may still  *)
(* hold them).                                                             *)
NoUseAfterFree == troubles = {} => fault = {}

(* While a session's task runs, ota_active is that session, so the read    *)
(* callback finds the right stream, make_new answers EBUSY, and a          *)
(* collection cannot reach the object (modota.c:39, 71, 232).              *)
RunningIsActive == InTime => \A s \in Sessions : Running(s) => active = s

(* At most one update is in progress: quickref.rst:469.                    *)
OneInProgress == InTime => \A s, r \in Sessions : Running(s) /\ Running(r) => s = r

Prefix(s) == [i \in 1 .. sent[s] |-> <<s, i>>]

(* What ota_start received followed by what is buffered is what write()    *)
(* accepted, in order, once, from this session only, with at most the      *)
(* dummy byte behind it; and finish() raises EIO only for a reason:        *)
(* ota_start failed by itself, or the image was not complete when finish() *)
(* signalled the end.  Bytes accepted by write() just before finish() are  *)
(* never lost in the race with the poll of the task.                       *)
BytesInOrder ==
  Orderly =>
    \A s \in Sessions :
      /\ \E dummy \in {<<>>, << <<s, 0>> >>} : got[s] \o buf[s] = Prefix(s) \o dummy
      /\ outcome[s] = "EIO" => flashErr[s] \/ ~whole[s]

(* Every call returns: ameba_ota_write finds space or notices the end of   *)
(* the task, ameba_ota_finish (which waits without a timeout) gets its     *)
(* token, the finaliser is woken or gives up, also in a soft reset.        *)
CallReturns == \A t \in Threads : th[t].op # "idle" ~> th[t].op = "idle"
=============================================================================
