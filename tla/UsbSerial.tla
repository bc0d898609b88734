----------------------------- MODULE UsbSerial -----------------------------
(***************************************************************************)
(* The USB CDC-ACM serial port (machine_usbserial.c): bring-up and         *)
(* tear-down of the driver, and usbserial_transmit_blocking, the transmit  *)
(* path shared by USBSerial.write() and the mirror of the REPL.            *)
(*                                                                         *)
(* Callers run without the GIL (write) or beside threads that run without  *)
(* it (the mirror), so every RTOS or driver call is a step of its own and  *)
(* the interrupt that completes a transfer falls between any two of them.  *)
(* The SDK's usbd_cdc_acm_transmit is external: it starts a DMA transfer   *)
(* that reads the caller's buffer in place, and answers HAL_BUSY while one *)
(* is in flight.  Reception is not part of this module.                    *)
(***************************************************************************)
EXTENDS Naturals, FiniteSets

CONSTANTS
  UsbCallers,  \* callers of the transmit path
  NoThread     \* no caller

ASSUME UsbAssumption == NoThread \notin UsbCallers

VARIABLES
  ready,     \* usbserial_core_ready
  attached,  \* usbserial_attached
  core,      \* the USB core: "down", "bare", "up" (with the CDC class driver)
  tx_mutex,  \* usbserial_tx_mutex: "none", "free", "taken"
  owner,     \* the thread that took it
  sema,      \* usbserial_tx_done_sema: "none", "empty", "given"
  dma,       \* the thread whose buffer the transfer in flight reads
  mine,      \* mine[t]: t's current call has had its transfer accepted
  where,     \* where each thread is in usbserial_transmit_blocking
  ok,        \* the local variable ok
  stage,     \* where machine_usbserial_init0 or machine_usbserial_deinit is
  fault,     \* a deleted RTOS object was used
  stalls     \* fixed: the host may take longer than the timeout to read

usbVars == <<ready, attached, core, tx_mutex, owner, sema, dma, mine, where, ok, stage, fault>>
drv  == <<ready, attached, core, stage>>

Stages == {"rest", "mutex", "core", "class", "flag", "tearing"}
UsbPCs == {"idle", "lock", "drain", "send", "busy", "resend", "wait", "unlock"}

UsbTypeOK ==
  /\ ready \in BOOLEAN /\ attached \in BOOLEAN /\ fault \in BOOLEAN /\ stalls \in BOOLEAN
  /\ stage \in Stages /\ core \in {"down", "bare", "up"}
  /\ tx_mutex \in {"none", "free", "taken"} /\ sema \in {"none", "empty", "given"}
  /\ owner \in UsbCallers \cup {NoThread} /\ dma \in UsbCallers \cup {NoThread}
  /\ mine \in [UsbCallers -> BOOLEAN] /\ ok \in [UsbCallers -> BOOLEAN]
  /\ where \in [UsbCallers -> UsbPCs]

UsbInit ==
  /\ ready = FALSE /\ attached = FALSE /\ core = "down" /\ stage = "rest"
  /\ tx_mutex = "none" /\ sema = "none" /\ owner = NoThread
  /\ dma = NoThread
  /\ mine = [t \in UsbCallers |-> FALSE] /\ ok = [t \in UsbCallers |-> FALSE]
  /\ where = [t \in UsbCallers |-> "idle"]
  /\ fault = FALSE /\ stalls \in BOOLEAN

InFlight == dma # NoThread

-----------------------------------------------------------------------------
(***************************************************************************)
(* machine_usbserial_init0: four creations and the flag, one step each.  A *)
(* creation that fails is followed by the deletions of its own error path: *)
(* UndoneAt says what is deleted when the creation of that stage fails.    *)
(* (When the first one fails nothing changes.)                             *)
(***************************************************************************)
Delete(objs) ==
  /\ core'  = IF "core"  \in objs THEN "down" ELSE core
  /\ tx_mutex' = IF "mutex" \in objs THEN "none" ELSE tx_mutex
  /\ sema'  = IF "sema"  \in objs THEN "none" ELSE sema

(* Mutant: the last error path forgets the mutex.                          *)
UndoneForgets ==
  [mutex |-> {"sema"}, core |-> {"mutex", "sema"}, class |-> {"core", "sema"}]

UndoneAt ==
  [mutex |-> {"sema"}, core |-> {"mutex", "sema"}, class |-> {"core", "mutex", "sema"}]

Fails == stage \in DOMAIN UndoneAt /\ Delete(UndoneAt[stage]) /\ stage' = "rest"

InitSema ==
  /\ stage = "rest" /\ ~ready
  /\ sema' = "empty" /\ stage' = "mutex"
  /\ UNCHANGED <<core, tx_mutex, ready>>

InitMutex ==
  /\ stage = "mutex" /\ tx_mutex' = "free" /\ stage' = "core"
  /\ UNCHANGED <<core, sema, ready>>

InitCore ==
  /\ stage = "core" /\ core' = "bare" /\ stage' = "class"
  /\ UNCHANGED <<tx_mutex, sema, ready>>

InitClass ==
  /\ stage = "class" /\ core' = "up" /\ stage' = "flag"
  /\ UNCHANGED <<tx_mutex, sema, ready>>

InitFlag ==
  /\ stage = "flag" /\ ready' = TRUE /\ stage' = "rest"
  /\ UNCHANGED <<core, tx_mutex, sema>>

Init0 ==
  /\ \/ InitSema \/ InitMutex \/ InitCore \/ InitClass \/ InitFlag
     \/ Fails /\ UNCHANGED ready
  /\ UNCHANGED <<attached, owner, dma, mine, where, ok, fault>>

(* machine_usbserial_deinit, which by the caveat above it is not called    *)
(* while a transmit is in progress.  The class driver and the core go      *)
(* first, and with them the transfer in flight and all further callbacks.  *)
NobodySends == \A t \in UsbCallers : where[t] = "idle"

DeinitCore ==
  /\ ready /\ stage = "rest" /\ NobodySends
  /\ core' = "down"
  /\ dma' = NoThread
  /\ stage' = "tearing"
  /\ UNCHANGED <<ready, attached, tx_mutex, owner, sema, mine, where, ok, fault>>

DeinitObjects ==
  /\ stage = "tearing"
  /\ Delete({"mutex", "sema"})
  /\ ready' = FALSE /\ attached' = FALSE
  /\ stage' = "rest"
  /\ UNCHANGED <<owner, dma, mine, where, ok, fault>>

-----------------------------------------------------------------------------
(***************************************************************************)
(* Callbacks, in interrupt context                                         *)
(***************************************************************************)
(* usbserial_cb_status_changed: attached, or detached, which may abandon   *)
(* the transfer in flight without a callback.                              *)
StatusChanged ==
  /\ core = "up"
  /\ attached' = ~attached
  /\ dma' \in (IF attached THEN {dma, NoThread} ELSE {dma})
  /\ UNCHANGED <<ready, core, tx_mutex, owner, sema, mine, where, ok, stage, fault>>

(* usbserial_cb_transmitted: the DMA is done with the buffer.              *)
Transmitted ==
  /\ core = "up" /\ InFlight
  /\ dma' = NoThread
  /\ sema' = IF sema = "none" THEN sema ELSE "given"
  /\ fault' = (fault \/ sema = "none")
  /\ UNCHANGED <<ready, attached, core, tx_mutex, owner, mine, where, ok, stage>>

-----------------------------------------------------------------------------
(***************************************************************************)
(* usbserial_transmit_blocking                                             *)
(***************************************************************************)
Goto(t, l) == where' = [where EXCEPT ![t] = l]

(* Entry from write() or from the mirror, both of which test the flags     *)
(* first.                                                                  *)
Enter(t) ==
  /\ where[t] = "idle" /\ ready /\ attached /\ stage = "rest"
  /\ Goto(t, "lock")
  /\ ok' = [ok EXCEPT ![t] = FALSE]
  /\ UNCHANGED <<drv, tx_mutex, owner, sema, dma, mine, fault>>

MutexFree == tx_mutex = "free"

Lock(t) ==
  /\ where[t] = "lock" /\ MutexFree
  /\ tx_mutex' = "taken" /\ owner' = t
  /\ Goto(t, "drain")
  /\ UNCHANGED <<drv, sema, dma, mine, ok, fault>>

LockTimesOut(t) ==
  /\ where[t] = "lock" /\ tx_mutex = "taken"
  /\ Goto(t, "idle")
  /\ UNCHANGED <<drv, tx_mutex, owner, sema, dma, mine, ok, fault>>

(* The loop of takes that do not wait: it ends with an empty semaphore.    *)
Drain(t) ==
  /\ where[t] = "drain"
  /\ sema' = "empty"
  /\ Goto(t, "send")
  /\ UNCHANGED <<drv, tx_mutex, owner, dma, mine, ok, fault>>

(* Mutant: a transfer is started and its end is not waited for.            *)
AfterSendNoWait == "unlock"

AfterSend == "wait"

MaySend == ~InFlight

(* Both calls of usbd_cdc_acm_transmit: accepted, busy, or refused because *)
(* the host has gone.                                                      *)
Send(t, here, ifBusy) ==
  /\ where[t] = here
  /\ \/ /\ MaySend
        /\ dma' = t /\ mine' = [mine EXCEPT ![t] = TRUE]
        /\ Goto(t, AfterSend)
     \/ /\ ~MaySend
        /\ Goto(t, ifBusy)
        /\ UNCHANGED <<dma, mine>>
     \/ /\ ~attached
        /\ Goto(t, "unlock")
        /\ UNCHANGED <<dma, mine>>
  /\ UNCHANGED <<drv, tx_mutex, owner, sema, ok, fault>>

SendFirst(t) == Send(t, "send", "busy")
SendAgain(t) == Send(t, "resend", "unlock")

(* Mutant: the take has no timeout.                                        *)
NeverExpires(t) == FALSE

(* A take with a timeout may expire only if the transfer it waits for is   *)
(* slow, or is not there.                                                  *)
MayExpire(t) == stalls \/ ~InFlight

(* The wait for whatever is in flight; its outcome is ignored.             *)
BusyWait(t) ==
  /\ where[t] = "busy"
  /\ sema = "given" \/ MayExpire(t)
  /\ sema' = "empty"
  /\ Goto(t, "resend")
  /\ UNCHANGED <<drv, tx_mutex, owner, dma, mine, ok, fault>>

(* The wait for the completion of the caller's own transfer.               *)
Wait(t) ==
  /\ where[t] = "wait"
  /\ sema = "given" \/ MayExpire(t)
  /\ ok' = [ok EXCEPT ![t] = (sema = "given")]
  /\ sema' = "empty"
  /\ Goto(t, "unlock")
  /\ UNCHANGED <<drv, tx_mutex, owner, dma, mine, fault>>

Unlock(t) ==
  /\ where[t] = "unlock"
  /\ tx_mutex' = "free" /\ owner' = NoThread
  /\ mine' = [mine EXCEPT ![t] = FALSE]
  /\ Goto(t, "idle")
  /\ UNCHANGED <<drv, sema, dma, ok, fault>>

-----------------------------------------------------------------------------
Transmit(t) ==
  \/ Lock(t) \/ LockTimesOut(t) \/ Drain(t) \/ SendFirst(t) \/ BusyWait(t)
  \/ SendAgain(t) \/ Wait(t) \/ Unlock(t)

UsbStep ==
  \/ Init0 \/ DeinitCore \/ DeinitObjects \/ StatusChanged \/ Transmitted
  \/ \E t \in UsbCallers : Enter(t) \/ Transmit(t)

UsbNext == UsbStep /\ UNCHANGED stalls

UsbSpec == UsbInit /\ [][UsbNext]_<<usbVars, stalls>>

(* Threads are scheduled and their timeouts expire; a host that does not   *)
(* stall reads what it is sent.                                            *)
UsbFairness ==
  /\ \A t \in UsbCallers : WF_usbVars(Transmit(t))
  /\ WF_usbVars(~stalls /\ Transmitted)

-----------------------------------------------------------------------------
(* A call returns success only when its own transfer is complete: line 58, *)
(* "a caller's own take can only be satisfied by its own transfer's        *)
(* completion".                                                            *)
CompletionIsOwn == \A t \in UsbCallers : where[t] = "unlock" /\ ok[t] => dma # t

(* The state is well typed, no interrupt gives a semaphore that deinit has *)
(* deleted, and with a host that reads in time the DMA never reads the     *)
(* buffer of a call that has returned: lines 43-45, "Every caller must     *)
(* therefore wait for the `transmitted` callback before touching/reusing   *)
(* its buffer".  (A call whose take times out does not.)                   *)
BufferStable == UsbTypeOK /\ ~fault /\ (~stalls /\ InFlight => mine[dma])

(* Between calls of init() and deinit() the driver, the mutex and the      *)
(* semaphore exist together or not at all, whatever creation failed (lines *)
(* 169-186) and however often the port is torn down and brought up; and    *)
(* the mutex is held only by a call in progress, so that a transmit that   *)
(* fails does not close the port for good.                                 *)
AllOrNothing ==
  /\ stage = "rest" => /\ core  = IF ready THEN "up" ELSE "down"
                       /\ tx_mutex # "none" <=> ready
                       /\ sema  # "none" <=> ready
  /\ tx_mutex = "taken" => owner # NoThread /\ where[owner] \notin {"idle", "lock"}

(* Every transmit returns, also when the host reads nothing.               *)
CallReturns == \A t \in UsbCallers : where[t] # "idle" ~> where[t] = "idle"
=============================================================================
