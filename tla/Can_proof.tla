----------------------------- MODULE Can_proof -----------------------------
(***************************************************************************)
(* Invariants of machine.CAN: the table of message buffers of send() and   *)
(* the interrupt, and the filters and the error state of the receive side. *)
(***************************************************************************)
EXTENDS CanTx, CanRx, WellFoundedInduction, TLAPS

(* A set of numbers that is not empty has a least one.                     *)
LEMMA MinIn ==
  ASSUME NEW T \in SUBSET Nat, T # {}
  PROVE  Min(T) \in T
<1> DEFINE R == OpToRel(<, Nat)
<1>1. IsWellFoundedOn(R, Nat) BY NatLessThanWellFounded
<1>2. \A m, n \in Nat : (<<n, m>> \in R) <=> n < m BY DEF OpToRel
<1> HIDE DEF R
<1>3. PICK m \in T : \A n \in T : ~(<<n, m>> \in R) BY <1>1, WFMin
<1>4. ASSUME NEW n \in T PROVE m <= n
  <2>1. m \in Nat /\ n \in Nat OBVIOUS
  <2>2. ~(<<n, m>> \in R) BY <1>3, <1>4
  <2>3. ~(n < m) BY <1>2, <2>1, <2>2, Zenon
  <2> QED BY <2>1, <2>3
<1> QED BY <1>4 DEF Min

(***************************************************************************)
(* Transmission.                                                           *)
(***************************************************************************)
(* The subscription the program keeps; without one no done bit outlasts    *)
(* its interrupt.                                                          *)
Subscribed ==
  /\ subs = "always" => listens
  /\ subs = "never" => ~listens /\ (done # {} => txint)

(* The buffer send() has chosen is free in the table until it is recorded, *)
(* and then holds the frame, or has lost it to the bus.                    *)
Chosen ==
  /\ pc \in {"write", "record"} => tx[idx] = TX_EMPTY
  /\ pc = "record" => hw[idx] \in {id, TX_EMPTY}
  /\ Records /\ pc = "record" => hw[idx] = id \/ (quick /\ idx \in done)

(* A pending frame is in the table, a done bit belongs to an entry of the  *)
(* table and to no pending frame.                                          *)
Pending ==
  \A i \in Slots :
    /\ Recording(i) \/ hw[i] = TX_EMPTY \/ hw[i] = tx[i]
    /\ i \in done => hw[i] = TX_EMPTY /\ (Recording(i) \/ tx[i] # TX_EMPTY)

(* An entry of the table is pending or done.                               *)
NoneStale == \A i \in Slots : tx[i] # TX_EMPTY => hw[i] # TX_EMPTY \/ i \in done

Ordered == pc = "write" /\ ~unord => \A i \in Slots : hw[i] # id

CanTxInv ==
  /\ TypeOK /\ Subscribed
  /\ NoRemains => Chosen /\ Pending /\ Ordered /\ ~clash
  /\ NoRemains /\ Records => NoneStale

LEMMA CanTxInitInv == Init => CanTxInv
<1> SUFFICES ASSUME Init PROVE CanTxInv
  OBVIOUS
<1> USE CanTxAssumption DEF Init
<1>1. TypeOK
  <2>1. 0 \in Slots BY DEF Slots
  <2>2. Triggers \subseteq BOOLEAN BY DEF Triggers
  <2>3. listens \in BOOLEAN BY <2>2
  <2>4. TX_EMPTY \in Ids \cup {TX_EMPTY} OBVIOUS
  <2>5. /\ tx \in [Slots -> Ids \cup {TX_EMPTY}]
        /\ hw \in [Slots -> Ids \cup {TX_EMPTY}]
    BY <2>4
  <2> QED BY <2>1, <2>3, <2>5 DEF TypeOK
<1>2. Subscribed BY DEF Subscribed, Triggers
<1>3. Chosen /\ Pending /\ Ordered /\ NoneStale
  BY DEF Chosen, Pending, Ordered, NoneStale, Recording
<1> QED BY <1>1, <1>2, <1>3 DEF CanTxInv

LEMMA CanTxStepInv == CanTxInv /\ [Next]_vars => CanTxInv'
<1> SUFFICES ASSUME CanTxInv, [Next]_vars PROVE CanTxInv'
  OBVIOUS
<1>f. UNCHANGED fixed BY DEF Next, vars
<1> USE CanTxAssumption, <1>f DEF CanTxInv, fixed, Records, NoRemains
<1>1. CASE ~txint /\ SendScan
  <2>1. Empty \in SUBSET Nat /\ Empty # {} /\ Empty \subseteq Slots
    BY <1>1 DEF SendScan, MaySend, Empty, Slots
  <2>2. idx' \in Empty BY <1>1, <2>1, MinIn DEF SendScan, FirstEmpty
  <2>3. PICK n \in Ids, u \in BOOLEAN :
          MaySend(n, u) /\ id' = n /\ unord' = u /\ pc' = "write" /\ pc = "idle"
    BY <1>1 DEF SendScan
  <2>4. UNCHANGED <<tx, hw, done, txint, listens, told, clash>> BY <1>1 DEF SendScan, bus
  <2>5. TypeOK' BY <2>1, <2>2, <2>3, <2>4 DEF TypeOK
  <2>6. Subscribed' BY <2>4 DEF Subscribed
  <2>7. NoRemains => (Chosen /\ Pending)'
    BY <2>2, <2>3, <2>4 DEF Chosen, Pending, Recording, Empty
  <2>8. NoRemains => Ordered'
    BY <2>3, <2>4 DEF MaySend, Pending, Recording, Ordered, TypeOK
  <2>9. NoRemains /\ Records => NoneStale' BY <2>4 DEF NoneStale
  <2> QED BY <2>4, <2>5, <2>6, <2>7, <2>8, <2>9
<1>2. CASE ~txint /\ SendWrite
  <2>0. idx \in Slots /\ id \in Ids /\ hw \in [Slots -> Ids \cup {TX_EMPTY}] BY DEF TypeOK
  <2>1. TypeOK' /\ Subscribed' BY <1>2, <2>0 DEF SendWrite, TypeOK, Subscribed
  <2>2. NoRemains => hw[idx] = TX_EMPTY /\ tx[idx] = TX_EMPTY /\ idx \notin done
    BY <1>2, <2>0 DEF SendWrite, Chosen, Pending, Recording
  <2>3. NoRemains => Chosen' /\ ~clash' BY <1>2, <2>0, <2>2 DEF SendWrite, Chosen
  <2>4. NoRemains => Pending' /\ Ordered'
    BY <1>2, <2>0, <2>2 DEF SendWrite, Pending, Recording, Ordered
  <2>5. NoRemains /\ Records => NoneStale' BY <1>2, <2>0, <2>2 DEF SendWrite, NoneStale
  <2> QED BY <2>1, <2>3, <2>4, <2>5
<1>3. CASE ~txint /\ SendRecord
  <2>0. idx \in Slots /\ id \in Ids /\ tx \in [Slots -> Ids \cup {TX_EMPTY}] BY DEF TypeOK
  <2>1. TypeOK' /\ Subscribed' BY <1>3, <2>0 DEF SendRecord, bus, TypeOK, Subscribed
  <2>2. NoRemains => Chosen' /\ ~clash' BY <1>3 DEF SendRecord, Chosen
  <2>3. NoRemains => Pending' /\ Ordered'
    BY <1>3, <2>0 DEF SendRecord, bus, Chosen, Pending, Recording, Ordered
  <2>4. NoRemains /\ Records => NoneStale'
    BY <1>3, <2>0 DEF SendRecord, bus, Chosen, NoneStale
  <2> QED BY <2>1, <2>2, <2>3, <2>4
<1>4. ASSUME NEW i \in Slots, Complete(i) PROVE CanTxInv'
  <2>0. hw \in [Slots -> Ids \cup {TX_EMPTY}] /\ idx \in Slots BY DEF TypeOK
  <2>1. TypeOK' /\ Subscribed' BY <1>4, <2>0 DEF Complete, loc, TypeOK, Subscribed
  <2>2. NoRemains => Chosen' /\ ~clash' BY <1>4, <2>0 DEF Complete, loc, Chosen
  <2>3. NoRemains => Pending' /\ Ordered'
    BY <1>4, <2>0 DEF Complete, loc, Pending, Recording, Ordered, TypeOK
  <2>4. NoRemains /\ Records => NoneStale' BY <1>4, <2>0 DEF Complete, loc, NoneStale
  <2> QED BY <2>1, <2>2, <2>3, <2>4
<1>5. CASE TxInterrupt
  <2>1. CASE listens
    BY <1>5, <2>1
       DEF TxInterrupt, loc, TypeOK, Subscribed, Chosen, Pending, Recording, Ordered, NoneStale
  <2>2. CASE ~listens
    <3>0. /\ UNCHANGED <<hw, listens, pc, idx, id, unord, clash, told>> /\ txint' = FALSE
          /\ done' = {} /\ tx' = [i \in Slots |-> IF i \in done THEN TX_EMPTY ELSE tx[i]]
          /\ idx \in Slots
      BY <1>5, <2>2 DEF TxInterrupt, loc, Freed, TypeOK
    <3>1. TypeOK' BY <3>0 DEF TypeOK
    <3>2. Subscribed' BY <2>2, <3>0 DEF Subscribed
    <3>3. NoRemains => Chosen' /\ ~clash'
      <4>1. Records /\ NoRemains /\ pc = "record" => hw[idx] = id \/ (quick /\ idx \in done)
        BY DEF Chosen
      <4>2. Records => ~quick BY <2>2 DEF Subscribed
      <4> QED BY <2>2, <3>0, <4>1, <4>2 DEF Chosen, Subscribed
    <3>4. NoRemains => Pending' /\ Ordered' BY <3>0 DEF Pending, Recording, Ordered
    <3>5. NoRemains /\ Records => NoneStale' BY <3>0 DEF NoneStale
    <3> QED BY <3>1, <3>2, <3>3, <3>4, <3>5
  <2> QED BY <2>1, <2>2
<1>6. CASE ~txint /\ Callback
  BY <1>6 DEF Callback, bus, TypeOK, Subscribed, Chosen, Pending, Recording, Ordered, NoneStale
<1>7. CASE ~txint /\ IrqFlags
  <2>0. Min(done) \in done /\ done \subseteq Slots
    BY <1>7, MinIn DEF IrqFlags, TypeOK, Slots
  <2>1. PICK m \in done : done' = done \ {m} /\ tx' = [tx EXCEPT ![m] = TX_EMPTY] /\ m \in Slots
    BY <1>7, <2>0 DEF IrqFlags
  <2>2. UNCHANGED <<hw, txint, listens, told, clash, pc, idx, id, unord>> /\ pc = "flags"
    BY <1>7 DEF IrqFlags, loc
  <2>3. TypeOK' /\ Subscribed' BY <2>1, <2>2 DEF TypeOK, Subscribed
  <2>4. NoRemains => Chosen' /\ ~clash' /\ Ordered' BY <2>2 DEF Chosen, Ordered
  <2>5. NoRemains => Pending' BY <2>1, <2>2 DEF Pending, Recording, TypeOK
  <2>6. NoRemains /\ Records => NoneStale' BY <2>1, <2>2 DEF NoneStale, TypeOK
  <2> QED BY <2>3, <2>4, <2>5, <2>6
<1>8. CASE ~txint /\ IrqFlagsNone
  BY <1>8 DEF IrqFlagsNone, bus, TypeOK, Subscribed, Chosen, Pending, Recording, Ordered, NoneStale
<1>9. CASE ~txint /\ Subscribe
  <2>1. UNCHANGED <<tx, told, hw, done, txint, pc, idx, id, unord, clash>> /\ listens' \in Triggers
    BY <1>9 DEF Subscribe, bus, loc
  <2>2. TypeOK' /\ Subscribed' BY <1>9, <2>1 DEF TypeOK, Triggers, Uses, Subscribed
  <2> QED BY <2>1, <2>2 DEF Chosen, Pending, Recording, Ordered, NoneStale
<1>10. CASE ~txint /\ Restart
  <2>0. /\ pc = "idle" /\ remains
        /\ \A i \in Slots : tx'[i] = TX_EMPTY /\ hw'[i] = TX_EMPTY
        /\ UNCHANGED <<done, listens, told, pc, idx, id, unord, clash>> /\ txint' = FALSE
    BY <1>10 DEF Restart, loc
  <2>a. [i \in Slots |-> TX_EMPTY] \in [Slots -> Ids \cup {TX_EMPTY}] OBVIOUS
  <2>b. tx' \in [Slots -> Ids \cup {TX_EMPTY}] /\ hw' \in [Slots -> Ids \cup {TX_EMPTY}]
    BY <1>10, <2>a DEF Restart
  <2>c. TypeOK' BY <2>0, <2>b DEF TypeOK
  <2>d. Subscribed' BY <1>10, <2>0 DEF Subscribed
  <2>1. TypeOK' /\ Subscribed' BY <2>c, <2>d
  <2>2. NoRemains => done = {} BY <1>10, <2>0 DEF Subscribed
  <2> QED BY <2>0, <2>1, <2>2 DEF Chosen, Pending, Recording, Ordered, NoneStale
<1>11. CASE ~txint /\ Reinit
  <2>0. /\ pc = "idle" /\ done' \in {{}, done} /\ (~remains => done' = {})
        /\ \A i \in Slots : tx'[i] = TX_EMPTY /\ hw'[i] = TX_EMPTY
        /\ UNCHANGED <<listens, told, pc, idx, id, unord, clash>> /\ txint' = FALSE
    BY <1>11 DEF Reinit, loc
  <2>a. [i \in Slots |-> TX_EMPTY] \in [Slots -> Ids \cup {TX_EMPTY}] OBVIOUS
  <2>b. tx' \in [Slots -> Ids \cup {TX_EMPTY}] /\ hw' \in [Slots -> Ids \cup {TX_EMPTY}]
    BY <1>11, <2>a DEF Reinit
  <2>c. TypeOK' BY <2>0, <2>b DEF TypeOK
  <2>d. Subscribed' BY <1>11, <2>0 DEF Subscribed
  <2>1. TypeOK' /\ Subscribed' BY <2>c, <2>d
  <2>2. NoRemains => done' = {} BY <1>11, <2>0 DEF NoRemains, Subscribed
  <2> QED BY <2>0, <2>1, <2>2 DEF Chosen, Pending, Recording, Ordered, NoneStale
<1>12. CASE UNCHANGED vars
  BY <1>12 DEF vars, canVars, TypeOK, Subscribed, Chosen, Pending, Recording, Ordered, NoneStale
<1> QED
  BY <1>1, <1>2, <1>3, <1>4, <1>5, <1>6, <1>7, <1>8, <1>9, <1>10, <1>11, <1>12
     DEF Next, Step, Python, Send, Notice

(* An entry of port->tx is a pending frame or a finished one that waits to *)
(* be noticed, send() never writes over a pending frame and starts an      *)
(* ordered one only when none with its id is pending.                      *)
THEOREM SlotAgreesAlways == Spec => []SlotAgrees
<1>1. CanTxInv => SlotAgrees
  <2> SUFFICES ASSUME CanTxInv PROVE SlotAgrees
    OBVIOUS
  <2>1. Records /\ NoRemains =>
          \A i \in Slots : \/ Recording(i)
                           \/ tx[i] = hw[i] /\ (tx[i] # TX_EMPTY => i \notin done)
                           \/ hw[i] = TX_EMPTY /\ i \in done
    BY DEF CanTxInv, Pending, NoneStale
  <2> QED BY <2>1 DEF CanTxInv, SlotAgrees, Ordered
<1> QED BY <1>1, CanTxInitInv, CanTxStepInv, PTL DEF Spec

(***************************************************************************)
(* Reception and error states.                                             *)
(***************************************************************************)
Sources == {"ERR", "BUSOFF"}

(* A BUSOFF interrupt is pending only while the node is off the bus; a     *)
(* period that has been counted is known to the port; without a pending    *)
(* error interrupt the port knows the state.                               *)
Known ==
  /\ "BUSOFF" \in rxInt => err = "bus_off"
  /\ counted => err = "passive" /\ port.passive
  /\ Sources \cap rxInt = {} => (port.passive <=> err = "passive")

(* What is owed to the program is on its way to it.                        *)
OnItsWay ==
  owed =>
    /\ "STATE" \in trigger
    /\ \/ port.statePending /\ cbTold
       \/ "BUSOFF" \in rxInt
       \/ "ERR" \in rxInt /\ err = "passive" /\ ~port.passive

CanRxInv ==
  /\ CanRxTypeOK /\ ~missed /\ ~twice /\ Known /\ OnItsWay
  /\ \A i \in Filters : mb[i].dir = "RX"

LEMMA CanRxInitInv == CanRxInit => CanRxInv
<1> SUFFICES ASSUME CanRxInit PROVE CanRxInv
  OBVIOUS
<1> USE CanRxAssumption DEF CanRxInit
<1>1. Closed \in [dir : {"RX", "TX"}, accepts : SUBSET Frames] /\ Closed.dir = "RX" BY DEF Closed
<1>2. <<>> \in Seq(Frames) /\ Len(<<>>) = 0 OBVIOUS
<1>3. CanRxTypeOK
  <2>1. port \in [passive : BOOLEAN, statePending : BOOLEAN] OBVIOUS
  <2>2. mb \in [Filters -> [dir : {"RX", "TX"}, accepts : SUBSET Frames]] BY <1>1
  <2>3. rxFifo \in Seq(Frames) /\ Len(rxFifo) <= FifoDepth BY <1>2
  <2>4. /\ ramCs \in {"RX", "TX"} /\ err \in ErrStates
        /\ rxInt \subseteq {"RX", "ERR", "BUSOFF"} /\ trigger \subseteq {"RX", "STATE"}
    BY DEF ErrStates
  <2>5. /\ cbTold \in BOOLEAN /\ owed \in BOOLEAN /\ counted \in BOOLEAN
        /\ missed \in BOOLEAN /\ twice \in BOOLEAN
    BY Zenon
  <2> QED BY ONLY <2>1, <2>2, <2>3, <2>4, <2>5 DEF CanRxTypeOK
<1>4. \A i \in Filters : mb[i].dir = "RX" BY <1>1
<1>5. Known /\ OnItsWay BY DEF Known, OnItsWay, Sources
<1> QED BY <1>3, <1>4, <1>5 DEF CanRxInv

LEMMA CanRxStepInv == CanRxInv /\ [CanRxNext]_canRxVars => CanRxInv'
<1> SUFFICES ASSUME CanRxInv, [CanRxNext]_canRxVars PROVE CanRxInv'
  OBVIOUS
<1> USE CanRxAssumption DEF CanRxInv, errVars, filterVars
<1>t. /\ mb \in [Filters -> [dir : {"RX", "TX"}, accepts : SUBSET Frames]]
      /\ port \in [passive : BOOLEAN, statePending : BOOLEAN]
      /\ rxFifo \in Seq(Frames) /\ Len(rxFifo) \in Nat /\ Len(rxFifo) <= FifoDepth
  BY DEF CanRxTypeOK
<1>1. CASE SendMarks BY <1>1 DEF SendMarks, CanRxTypeOK, Known, OnItsWay
<1>2. CASE ClearFilters
  <2>1. [dir |-> "RX", accepts |-> {}] \in [dir : {"RX", "TX"}, accepts : SUBSET Frames] OBVIOUS
  <2>2. mb' = [i \in Filters |-> [dir |-> "RX", accepts |-> {}]] /\ ramCs' = "RX"
    BY <1>2 DEF ClearFilters, Cleared, Staged
  <2>3. UNCHANGED <<missed, rxFifo, rxInt, trigger, cbTold, err, port, owed, counted, twice>>
    BY <1>2 DEF ClearFilters
  <2> QED BY <2>1, <2>2, <2>3 DEF CanRxTypeOK, Known, OnItsWay
<1>3. ASSUME NEW i \in Filters, NEW a \in SUBSET Frames, SetFilter(i, a) PROVE CanRxInv'
  <2>1. [dir |-> "RX", accepts |-> a] \in [dir : {"RX", "TX"}, accepts : SUBSET Frames] OBVIOUS
  <2>2. mb' = [mb EXCEPT ![i] = [dir |-> "RX", accepts |-> a]] /\ ramCs' = "RX"
    BY <1>3 DEF SetFilter, Staged
  <2>3. UNCHANGED <<missed, rxFifo, rxInt, trigger, cbTold, err, port, owed, counted, twice>>
    BY <1>3 DEF SetFilter
  <2>4. \A j \in Filters : mb'[j].dir = "RX" BY <1>t, <2>2
  <2> QED BY <1>t, <2>1, <2>2, <2>3, <2>4 DEF CanRxTypeOK, Known, OnItsWay
<1>4. ASSUME NEW f \in Frames, Arrive(f) PROVE CanRxInv'
  <2>1. UNCHANGED <<ramCs, mb, trigger, cbTold, err, port, owed, counted, twice>>
    BY <1>4 DEF Arrive
  <2>2. missed' = missed
    <3>1. CASE \E i \in Filters : f \in mb[i].accepts
      <4>1. \E i \in Filters : mb[i].dir = "RX" /\ f \in mb[i].accepts BY <3>1
      <4> QED BY <1>4, <4>1 DEF Arrive
    <3>2. CASE ~\E i \in Filters : f \in mb[i].accepts
      <4>1. ~\E i \in Filters : mb[i].dir = "RX" /\ f \in mb[i].accepts BY <3>2
      <4>2. missed' = (missed \/ \E i \in Filters : f \in mb[i].accepts)
        BY <1>4, <4>1 DEF Arrive
      <4>3. missed = FALSE BY DEF CanRxTypeOK
      <4>4. missed' = (FALSE \/ FALSE) BY ONLY <3>2, <4>2, <4>3, Zenon
      <4> QED BY <4>3, <4>4
    <3> QED BY <3>1, <3>2
  <2>3. rxFifo' \in Seq(Frames) /\ Len(rxFifo') <= FifoDepth
    BY SMTT(40), <1>4, <1>t DEF Arrive
  <2>4. rxInt' \in {rxInt, rxInt \cup {"RX"}} BY <1>4 DEF Arrive
  <2>5. CanRxTypeOK' BY <2>1, <2>2, <2>3, <2>4 DEF CanRxTypeOK
  <2>6. Known' /\ OnItsWay' BY <2>1, <2>4 DEF Known, OnItsWay, Sources
  <2> QED BY <2>1, <2>2, <2>5, <2>6
<1>5. CASE RecvFrame
  <2>1. rxFifo' \in Seq(Frames) /\ Len(rxFifo') <= FifoDepth BY <1>5, <1>t DEF RecvFrame
  <2> QED BY <1>5, <2>1 DEF RecvFrame, CanRxTypeOK, Known, OnItsWay
<1>6. ASSUME NEW s \in ErrStates, ErrorEvent(s) PROVE CanRxInv'
  <2>0. /\ UNCHANGED <<rxFifo, trigger, port, cbTold, twice, ramCs, mb, missed>> /\ err' = s
        /\ rxInt' = rxInt \cup {"ERR"} \cup (IF s = "bus_off" THEN {"BUSOFF"} ELSE {})
        /\ owed' = ("STATE" \in trigger /\ s \in {"passive", "bus_off"} /\ (owed \/ s # err))
        /\ counted' = (counted /\ s = "passive")
        /\ err = "bus_off" => s = "active"
        /\ s = "bus_off" => err = "passive"
        /\ s # err => rxInt \cap Sources = {}
    BY <1>6 DEF ErrorEvent, Sources
  <2>1. CanRxTypeOK' BY <2>0 DEF CanRxTypeOK
  <2>2. Known' BY <2>0 DEF Known, Sources
  <2>3. OnItsWay' BY <2>0 DEF OnItsWay, Known, Sources
  <2> QED BY <2>0, <2>1, <2>2, <2>3
<1>7. CASE CanIsr
  <2> DEFINE st == StateChange /\ "STATE" \in trigger
             ps == IF "BUSOFF" \in rxInt THEN FALSE
                   ELSE IF "ERR" \in rxInt THEN err = "passive" ELSE port.passive
             counts == "ERR" \in rxInt /\ EntersPassive
  <2>0. /\ UNCHANGED <<rxFifo, trigger, err, owed, ramCs, mb, missed>> /\ rxInt' = {}
        /\ port' = [passive |-> ps, statePending |-> port.statePending \/ st]
        /\ cbTold' = (cbTold \/ st \/ ("RX" \in rxInt /\ "RX" \in trigger))
        /\ twice' = (twice \/ (counts /\ counted)) /\ counted' = (counted \/ counts)
    BY <1>7 DEF CanIsr
  <2>1. ps \in BOOLEAN /\ (port.statePending \/ st) \in BOOLEAN BY <1>t
  <2>2. port'.passive = ps /\ port'.statePending = (port.statePending \/ st) BY <2>0
  <2>3. port' \in [passive : BOOLEAN, statePending : BOOLEAN] BY <2>0, <2>1
  <2>4. CanRxTypeOK' BY <2>0, <2>3 DEF CanRxTypeOK
  <2>5. ~twice' BY <2>0 DEF Known, EntersPassive
  <2>6. Known' BY <2>0, <2>2 DEF Known, Sources, EntersPassive
  <2>7. OnItsWay' BY <2>0, <2>2 DEF OnItsWay, StateChange, EntersPassive
  <2> QED BY <2>0, <2>4, <2>5, <2>6, <2>7
<1>8. CASE CanCallback
  <2> DEFINE tells == "STATE" \in trigger /\ port.statePending
  <2>0. /\ UNCHANGED <<rxFifo, rxInt, trigger, err, counted, twice, ramCs, mb, missed>>
        /\ cbTold' = FALSE /\ owed' = (owed /\ ~tells)
        /\ port' = [port EXCEPT !.statePending = @ /\ ~tells]
    BY <1>8 DEF CanCallback
  <2>1. port' \in [passive : BOOLEAN, statePending : BOOLEAN] /\ port'.passive = port.passive
    BY <1>t, <2>0
  <2>2. CanRxTypeOK' BY <2>0, <2>1 DEF CanRxTypeOK
  <2>3. Known' BY <2>0, <2>1 DEF Known
  <2>4. OnItsWay' BY <2>0, <2>1 DEF OnItsWay
  <2> QED BY <2>0, <2>2, <2>3, <2>4
<1>9. ASSUME NEW s \in SUBSET {"RX", "STATE"}, SetTrigger(s) PROVE CanRxInv'
  BY <1>9 DEF SetTrigger, CanRxTypeOK, Known, OnItsWay
<1>10. CASE CanRestart
  BY <1>10 DEF CanRestart, CanRxTypeOK, ErrStates, Known, OnItsWay, Sources
<1>11. CASE CanReinit
  <2>0. /\ err' = "active" /\ rxInt' = {} /\ port' = [passive |-> FALSE, statePending |-> FALSE]
        /\ owed' = FALSE /\ counted' = FALSE /\ rxFifo' = <<>>
        /\ UNCHANGED <<trigger, cbTold, twice, missed>>
    BY <1>11 DEF CanReinit
  <2>1. /\ mb' \in [Filters -> [dir : {"RX", "TX"}, accepts : SUBSET Frames]]
        /\ ramCs' \in {"RX", "TX"} /\ \A i \in Filters : mb'[i].dir = "RX"
    <3>1. [dir |-> "RX", accepts |-> {}] \in [dir : {"RX", "TX"}, accepts : SUBSET Frames] OBVIOUS
    <3>2. \/ mb' = [i \in Filters |-> [dir |-> "RX", accepts |-> {}]] /\ ramCs' = "RX"
          \/ mb' = mb /\ ramCs' = ramCs
      BY <1>11 DEF CanReinit, Cleared, Staged
    <3> QED BY <1>t, <3>1, <3>2 DEF CanRxTypeOK
  <2>2. <<>> \in Seq(Frames) /\ Len(<<>>) = 0 OBVIOUS
  <2>3. CanRxTypeOK'
    <3>1. port' \in [passive : BOOLEAN, statePending : BOOLEAN] BY <2>0
    <3>2. rxFifo' \in Seq(Frames) /\ Len(rxFifo') <= FifoDepth BY <2>0, <2>2
    <3>3. /\ err' \in ErrStates /\ rxInt' \subseteq {"RX", "ERR", "BUSOFF"}
          /\ trigger' \subseteq {"RX", "STATE"}
      BY <2>0 DEF ErrStates, CanRxTypeOK
    <3>4. /\ cbTold' \in BOOLEAN /\ owed' \in BOOLEAN /\ counted' \in BOOLEAN
          /\ missed' \in BOOLEAN /\ twice' \in BOOLEAN
      BY <2>0 DEF CanRxTypeOK
    <3> QED BY ONLY <2>1, <3>1, <3>2, <3>3, <3>4 DEF CanRxTypeOK
  <2>4. Known' /\ OnItsWay' BY <2>0 DEF Known, OnItsWay, Sources
  <2> QED BY <2>0, <2>1, <2>3, <2>4
<1>12. CASE UNCHANGED canRxVars
  BY <1>12 DEF canRxVars, CanRxTypeOK, Known, OnItsWay
<1> QED
  BY <1>1, <1>2, <1>3, <1>4, <1>5, <1>6, <1>7, <1>8, <1>9, <1>10, <1>11, <1>12 DEF CanRxNext

LEMMA CanRxInvAlways == CanRxSpec => []CanRxInv
BY CanRxInitInv, CanRxStepInv, PTL DEF CanRxSpec

(* A frame that some filter accepts is received, whatever send() has left  *)
(* in the register the filters share with it.                              *)
THEOREM FilterReceivesAlways == CanRxSpec => []FilterReceives
<1>1. CanRxInv => FilterReceives BY DEF CanRxInv, FilterReceives
<1> QED BY <1>1, CanRxInvAlways, PTL

(* A passive period is counted once, and the program learns that the node  *)
(* is passive or off the bus.                                              *)
THEOREM StateReportedAlways == CanRxSpec => []StateReported
<1>1. CanRxInv => StateReported
  BY DEF CanRxInv, StateReported, Known, OnItsWay, Sources
<1> QED BY <1>1, CanRxInvAlways, PTL
=============================================================================
