---------------------------- MODULE UartRx_proof ----------------------------
(***************************************************************************)
(* The receive path of machine.UART loses, invents and reorders nothing,   *)
(* and its interrupt touches no freed block, for every size of the buffer, *)
(* of the FIFO's backlog and of read().                                    *)
(***************************************************************************)
EXTENDS UartRx, SequenceTheorems, TLAPS

Bytes == 0 .. MaxSent

-----------------------------------------------------------------------------
(* Facts about sequences.                                                  *)

LEMMA AppendIs ==
  ASSUME NEW S, NEW s \in Seq(S), NEW e \in S
  PROVE  /\ Append(s, e) \in Seq(S) /\ Len(Append(s, e)) = Len(s) + 1 /\ Append(s, e)[Len(s) + 1] = e
         /\ \A i \in 1 .. Len(s) : Append(s, e)[i] = s[i]
BY AppendProperties

LEMMA TailIs ==
  ASSUME NEW S, NEW s \in Seq(S), s # <<>>
  PROVE  /\ Tail(s) \in Seq(S) /\ Len(Tail(s)) = Len(s) - 1 /\ Head(s) = s[1] /\ s[1] \in S
         /\ Len(s) \in Nat \ {0}
         /\ \A i \in 1 .. Len(s) - 1 : Tail(s)[i] = s[i + 1]
<1>1. Len(s) \in Nat \ {0} BY EmptySeq
<1>2. s[1] \in S BY <1>1
<1> QED BY <1>1, <1>2, HeadTailProperties

LEMMA FrontIs ==
  ASSUME NEW S, NEW s \in Seq(S), s # <<>>
  PROVE  /\ Front(s) \in Seq(S) /\ Len(Front(s)) = Len(s) - 1
         /\ \A i \in 1 .. Len(s) - 1 : Front(s)[i] = s[i]
<1>1. PICK n \in Nat : n = Len(s) - 1 /\ Len(s) \in Nat BY EmptySeq
<1>2. \A i \in 1 .. n : s[i] \in S BY <1>1
<1>3. SubSeq(s, 1, n) \in Seq(S) BY <1>2, SubSeqProperties
<1>4. Len(SubSeq(s, 1, n)) = IF 1 <= n THEN n - 1 + 1 ELSE 0 BY ONLY n \in Nat, <1>2, SubSeqProperties
<1>5. Len(SubSeq(s, 1, n)) = n BY <1>4
<1>6. ASSUME NEW i \in 1 .. n PROVE SubSeq(s, 1, n)[i] = s[i]
  BY <1>2, SubSeqProperties
<1>7. Front(s) = SubSeq(s, 1, n) BY <1>1 DEF Front
<1> QED BY <1>1, <1>3, <1>5, <1>6, <1>7

(* What ringbuf_put leaves of the old bytes and the new ones.              *)
LEMMA PutsIs ==
  ASSUME NEW S, NEW s \in Seq(S), NEW w \in Seq(S)
  PROVE  /\ Puts(s, w) \in Seq(S) /\ Len(Puts(s, w)) <= RxBuf
         /\ Len(Puts(s, w)) <= Len(s) + Len(w)
         /\ Len(s) + Len(w) <= RxBuf => Len(Puts(s, w)) = Len(s) + Len(w)
         /\ \A i \in 1 .. Len(Puts(s, w)) : Puts(s, w)[i] = IF i <= Len(s) THEN s[i] ELSE w[i - Len(s)]
<1>0. RxBuf \in Nat \ {0} BY UartRxAssumption
<1>1. PICK a \in Seq(S) : a = s \o w BY ConcatProperties
<1>2. /\ Len(a) = Len(s) + Len(w) /\ Len(s) \in Nat /\ Len(w) \in Nat
      /\ \A i \in 1 .. Len(s) + Len(w) : a[i] = IF i <= Len(s) THEN s[i] ELSE w[i - Len(s)]
  BY <1>1, ConcatProperties
<1>3. CASE Len(a) <= RxBuf
  <2>1. Puts(s, w) = a BY <1>1, <1>3 DEF Puts
  <2> QED BY <1>2, <1>3, <2>1
<1>4. CASE Len(a) > RxBuf
  <2>1. Puts(s, w) = SubSeq(a, 1, RxBuf) BY <1>0, <1>1, <1>2, <1>4 DEF Puts
  <2>2. \A i \in 1 .. RxBuf : a[i] \in S BY <1>0, <1>2, <1>4
  <2>3. SubSeq(a, 1, RxBuf) \in Seq(S) BY <1>0, <2>2, SubSeqProperties
  <2>4. Len(SubSeq(a, 1, RxBuf)) = RxBuf BY <1>0, <2>2, SubSeqProperties
  <2>5. ASSUME NEW i \in 1 .. RxBuf PROVE SubSeq(a, 1, RxBuf)[i] = a[i]
    BY <1>0, <2>2, SubSeqProperties
  <2> QED BY <1>0, <1>2, <1>4, <2>1, <2>3, <2>4, <2>5
<1> QED BY <1>0, <1>2, <1>3, <1>4

(* The index of an entry of two or three sequences in a row.               *)
LEMMA CatIs ==
  ASSUME NEW S, NEW a \in Seq(S), NEW b \in Seq(S)
  PROVE  /\ a \o b \in Seq(S) /\ Len(a \o b) = Len(a) + Len(b)
         /\ \A i \in 1 .. Len(a) + Len(b) : (a \o b)[i] = IF i <= Len(a) THEN a[i] ELSE b[i - Len(a)]
BY ConcatProperties
-----------------------------------------------------------------------------
(* The way of a byte: x is the last one Python has, the la entries of a    *)
(* are being read, the lb entries of b are buffered, the first n entries   *)
(* of c are in the FIFO, and y is the last one sent.  InOrder says that    *)
(* they increase, Complete that they are all there.                        *)
InOrder(x, a, la, b, lb, c, n, y) ==
  /\ x <= y
  /\ \A i \in 1 .. la : a[i] \in Nat /\ x < a[i] /\ a[i] <= y
  /\ \A i \in 1 .. lb : b[i] \in Nat /\ x < b[i] /\ b[i] <= y
  /\ \A i \in 1 .. n : c[i] \in Nat /\ x < c[i] /\ c[i] <= y
  /\ \A i, j \in 1 .. la : i < j => a[i] < a[j]
  /\ \A i, j \in 1 .. lb : i < j => b[i] < b[j]
  /\ \A i, j \in 1 .. n : i < j => c[i] < c[j]
  /\ \A i \in 1 .. la, j \in 1 .. lb : a[i] < b[j]
  /\ \A i \in 1 .. la, j \in 1 .. n : a[i] < c[j]
  /\ \A i \in 1 .. lb, j \in 1 .. n : b[i] < c[j]

Complete(x, a, la, b, lb, c, n, y) ==
  /\ \A i \in 1 .. la : a[i] = x + i
  /\ \A i \in 1 .. lb : b[i] = x + la + i
  /\ \A i \in 1 .. n : c[i] = x + la + lb + i
  /\ y = x + la + lb + n

(* A byte arrives.                                                         *)
LEMMA ByteArrives ==
  ASSUME NEW x \in Nat, NEW y \in Nat, NEW a, NEW b, NEW c, NEW d,
         NEW la \in Nat, NEW lb \in Nat, NEW n \in Nat,
         d[n + 1] = y + 1, \A i \in 1 .. n : d[i] = c[i]
  PROVE  /\ InOrder(x, a, la, b, lb, c, n, y) => InOrder(x, a, la, b, lb, d, n + 1, y + 1)
         /\ Complete(x, a, la, b, lb, c, n, y) => Complete(x, a, la, b, lb, d, n + 1, y + 1)
<1>1. \A i \in 1 .. n + 1 : i \in 1 .. n \/ i = n + 1 OBVIOUS
<1>2. ASSUME InOrder(x, a, la, b, lb, c, n, y) PROVE InOrder(x, a, la, b, lb, d, n + 1, y + 1)
  <2>1. /\ \A i \in 1 .. n + 1 : d[i] \in Nat /\ x < d[i] /\ d[i] <= y + 1
        /\ \A i, j \in 1 .. n + 1 : i < j => d[i] < d[j]
    BY <1>1, <1>2 DEF InOrder
  <2>2. /\ \A i \in 1 .. la, j \in 1 .. n + 1 : a[i] < d[j]
        /\ \A i \in 1 .. lb, j \in 1 .. n + 1 : b[i] < d[j]
    BY <1>1, <1>2 DEF InOrder
  <2>3. x <= y + 1 /\ (\A i \in 1 .. la : a[i] <= y + 1) /\ (\A i \in 1 .. lb : b[i] <= y + 1)
    BY <1>2 DEF InOrder
  <2> QED BY <1>2, <2>1, <2>2, <2>3 DEF InOrder
<1>3. ASSUME Complete(x, a, la, b, lb, c, n, y) PROVE Complete(x, a, la, b, lb, d, n + 1, y + 1)
  BY <1>1, <1>3 DEF Complete
<1> QED BY <1>2, <1>3

(* The interrupt moves the n bytes of the FIFO to the buffer r, which may  *)
(* have no room for the last ones.                                         *)
LEMMA BytesMove ==
  ASSUME NEW x \in Nat, NEW y \in Nat, NEW a, NEW b, NEW c, NEW r, NEW e,
         NEW la \in Nat, NEW lb \in Nat, NEW n \in Nat, NEW lr \in 0 .. lb + n,
         \A i \in 1 .. lr : r[i] = IF i <= lb THEN b[i] ELSE c[i - lb]
  PROVE  /\ InOrder(x, a, la, b, lb, c, n, y) => InOrder(x, a, la, r, lr, e, 0, y)
         /\ Complete(x, a, la, b, lb, c, n, y) /\ lr = lb + n => Complete(x, a, la, r, lr, e, 0, y)
<1>1. ASSUME NEW i \in 1 .. lr
      PROVE  (i \in 1 .. lb /\ r[i] = b[i]) \/ (\E k \in 1 .. n : i = lb + k /\ r[i] = c[k])
  <2>1. CASE i <= lb BY <2>1
  <2>2. CASE i > lb
    <3>1. i - lb \in 1 .. n /\ i = lb + (i - lb) /\ r[i] = c[i - lb] BY <2>2
    <3> QED BY <3>1
  <2> QED BY <2>1, <2>2
<1>2. ASSUME InOrder(x, a, la, b, lb, c, n, y) PROVE InOrder(x, a, la, r, lr, e, 0, y)
  <2>1. \A i \in 1 .. lr : r[i] \in Nat /\ x < r[i] /\ r[i] <= y BY <1>1, <1>2 DEF InOrder
  <2>2. ASSUME NEW i \in 1 .. lr, NEW j \in 1 .. lr, i < j PROVE r[i] < r[j]
    <3>1. CASE j \in 1 .. lb /\ r[j] = b[j]
      <4>1. i \in 1 .. lb /\ r[i] = b[i] BY <1>1, <2>2, <3>1
      <4> QED BY <1>2, <2>2, <3>1, <4>1 DEF InOrder
    <3>2. ASSUME NEW k \in 1 .. n, j = lb + k, r[j] = c[k] PROVE r[i] < r[j]
      <4>1. CASE i \in 1 .. lb /\ r[i] = b[i] BY <1>2, <3>2, <4>1 DEF InOrder
      <4>2. ASSUME NEW m \in 1 .. n, i = lb + m, r[i] = c[m] PROVE r[i] < r[j]
        BY <1>2, <2>2, <3>2, <4>2 DEF InOrder
      <4> QED BY <1>1, <4>1, <4>2
    <3> QED BY <1>1, <3>1, <3>2
  <2>3. ASSUME NEW i \in 1 .. la, NEW j \in 1 .. lr PROVE a[i] < r[j]
    BY <1>1, <1>2 DEF InOrder
  <2> QED BY <1>2, <2>1, <2>2, <2>3 DEF InOrder
<1>3. ASSUME Complete(x, a, la, b, lb, c, n, y), lr = lb + n PROVE Complete(x, a, la, r, lr, e, 0, y)
  <2>1. ASSUME NEW i \in 1 .. lr PROVE r[i] = x + la + i
    BY <1>1, <1>3 DEF Complete
  <2> QED BY <1>3, <2>1 DEF Complete
<1> QED BY <1>2, <1>3

(* read() takes the first byte of b: s is a with it, r the rest of b.      *)
LEMMA ByteRead ==
  ASSUME NEW x \in Nat, NEW y \in Nat, NEW a, NEW b, NEW c, NEW r, NEW s,
         NEW la \in Nat, NEW lb \in Nat \ {0}, NEW n \in Nat,
         s[la + 1] = b[1], \A i \in 1 .. la : s[i] = a[i], \A i \in 1 .. lb - 1 : r[i] = b[i + 1]
  PROVE  /\ InOrder(x, a, la, b, lb, c, n, y) => InOrder(x, s, la + 1, r, lb - 1, c, n, y)
         /\ Complete(x, a, la, b, lb, c, n, y) => Complete(x, s, la + 1, r, lb - 1, c, n, y)
<1>1. \A i \in 1 .. la + 1 : i \in 1 .. la \/ i = la + 1 OBVIOUS
<1>2. 1 \in 1 .. lb /\ \A i \in 1 .. lb - 1 : i + 1 \in 1 .. lb /\ 1 < i + 1 OBVIOUS
<1>3. ASSUME InOrder(x, a, la, b, lb, c, n, y) PROVE InOrder(x, s, la + 1, r, lb - 1, c, n, y)
  <2>1. \A i \in 1 .. la + 1 : s[i] \in Nat /\ x < s[i] /\ s[i] <= y BY <1>1, <1>2, <1>3 DEF InOrder
  <2>2. \A i, j \in 1 .. la + 1 : i < j => s[i] < s[j] BY <1>1, <1>2, <1>3 DEF InOrder
  <2>3. \A i \in 1 .. la + 1, j \in 1 .. n : s[i] < c[j] BY <1>1, <1>2, <1>3 DEF InOrder
  <2>4. ASSUME NEW i \in 1 .. la + 1, NEW j \in 1 .. lb - 1 PROVE s[i] < r[j]
    BY <1>1, <1>2, <1>3 DEF InOrder
  <2>5. \A i \in 1 .. lb - 1 : r[i] \in Nat /\ x < r[i] /\ r[i] <= y BY <1>2, <1>3 DEF InOrder
  <2>6. ASSUME NEW i \in 1 .. lb - 1, NEW j \in 1 .. lb - 1, i < j PROVE r[i] < r[j]
    BY <1>2, <1>3, <2>6 DEF InOrder
  <2>7. \A i \in 1 .. lb - 1, j \in 1 .. n : r[i] < c[j] BY <1>2, <1>3 DEF InOrder
  <2> QED BY <1>3, <2>1, <2>2, <2>3, <2>4, <2>5, <2>6, <2>7 DEF InOrder
<1>4. ASSUME Complete(x, a, la, b, lb, c, n, y) PROVE Complete(x, s, la + 1, r, lb - 1, c, n, y)
  <2>1. \A i \in 1 .. la + 1 : s[i] = x + i BY <1>1, <1>2, <1>4 DEF Complete
  <2>2. ASSUME NEW i \in 1 .. lb - 1 PROVE r[i] = x + (la + 1) + i BY <1>2, <1>4 DEF Complete
  <2> QED BY <1>4, <2>1, <2>2 DEF Complete
<1> QED BY <1>3, <1>4

(* read() returns.                                                         *)
LEMMA BytesReturned ==
  ASSUME NEW x \in Nat, NEW y \in Nat, NEW a, NEW b, NEW c, NEW e, NEW la \in Nat \ {0}, NEW lb \in Nat,
         NEW n \in Nat
  PROVE  /\ InOrder(x, a, la, b, lb, c, n, y) => InOrder(a[la], e, 0, b, lb, c, n, y) /\ a[la] \in Nat
         /\ Complete(x, a, la, b, lb, c, n, y) => Complete(a[la], e, 0, b, lb, c, n, y)
<1>1. la \in 1 .. la OBVIOUS
<1>2. ASSUME InOrder(x, a, la, b, lb, c, n, y) PROVE InOrder(a[la], e, 0, b, lb, c, n, y) /\ a[la] \in Nat
  BY <1>1, <1>2 DEF InOrder
<1>3. ASSUME Complete(x, a, la, b, lb, c, n, y) PROVE Complete(a[la], e, 0, b, lb, c, n, y)
  BY <1>1, <1>3 DEF Complete
<1> QED BY <1>2, <1>3
-----------------------------------------------------------------------------
(* The inductive invariant.                                                *)

(* What the driver points to has not been freed; as long as the program    *)
(* keeps the irq object, neither has that.                                 *)
HeapOK ==
  /\ rbuf # Nil => rbuf \in live
  /\ fresh # Nil => fresh \in live
  /\ pc = "apply" <=> fresh # Nil
  /\ kept \subseteq live
  /\ rxon <=> inited
  /\ rxon => rbuf # Nil
  /\ pc = "swept" => rbuf = Nil /\ irq = Nil /\ ~rxon
  /\ ~forgets => (irq # Nil => irq \in kept) /\ ~fault

Quiet ==
  /\ pc # "read" => got = <<>>
  /\ ~rxon => rxfifo = <<>>

(* The entries of the FIFO that are the peer's bytes.                      *)
Count(s) == IF s # <<>> /\ s[Len(s)] = Brk THEN Len(s) - 1 ELSE Len(s)

BreakLast == \A i \in 1 .. Len(rxfifo) - 1 : rxfifo[i] # Brk

Ordered == InOrder(taken, got, Len(got), rb, Len(rb), rxfifo, Count(rxfifo), sent)
NoGap   == Complete(taken, got, Len(got), rb, Len(rb), rxfifo, Count(rxfifo), sent)

Stream ==
  /\ ~masked => BreakLast /\ Ordered
  /\ ~masked /\ inited /\ ~dropped => NoGap

RxInv == TypeOK /\ HeapOK /\ Quiet /\ Stream

LEMMA RxInvInit == Init => RxInv
<1> SUFFICES ASSUME Init PROVE RxInv OBVIOUS
<1> USE UartRxAssumption DEF Init
<1>0. <<>> \in Seq(Bytes) /\ Len(<<>>) = 0 BY EmptySeq
<1>a. /\ rb \in Seq(Bytes) /\ rxfifo \in Seq(Bytes) /\ got \in Seq(Bytes) /\ Len(rb) <= RxBuf
      /\ sent \in Bytes /\ taken \in Bytes /\ want \in 0 .. MaxRead
  BY <1>0 DEF Bytes
<1>1. TypeOK BY <1>a DEF TypeOK, Bytes
<1>2. HeapOK BY DEF HeapOK
<1>3. Quiet BY DEF Quiet
<1>4. Stream BY <1>0 DEF Stream, BreakLast, Ordered, InOrder, Count
<1> QED BY <1>1, <1>2, <1>3, <1>4 DEF RxInv

HeapTypes ==
  /\ inited \in BOOLEAN /\ rxon \in BOOLEAN /\ fault \in BOOLEAN /\ forgets \in BOOLEAN
  /\ rbuf \in Bufs \cup {Nil} /\ fresh \in Bufs \cup {Nil}
  /\ irq \in Irqs \cup {Nil} /\ kept \subseteq Irqs /\ live \subseteq Bufs \cup Irqs

(* What the interrupt and the collector rely on.                           *)
LEMMA HeapNext ==
  ASSUME HeapTypes, HeapOK, [Next]_vars
  PROVE  HeapOK'
<1> USE UartRxAssumption
<1>1. CASE UNCHANGED vars BY <1>1 DEF vars, fixed, HeapOK
<1>2. ASSUME Step, UNCHANGED forgets PROVE HeapOK'
  <2>1. CASE Receive \/ Break \/ InitArgs BY <1>2, <2>1 DEF Receive, Break, InitArgs, obj, HeapOK
  <2>2. CASE RxIrq
    <3>1. UNCHANGED <<rbuf, fresh, pc, kept, live, rxon, inited, irq>> /\ rxon BY <2>2 DEF RxIrq, obj
    <3>2. ~forgets => ~fault' BY <2>2, <3>1 DEF RxIrq, HeapOK
    <3> QED BY <1>2, <3>1, <3>2 DEF HeapOK
  <2>3. CASE InitAlloc BY <1>2, <2>3 DEF InitAlloc, Alloc, HeapOK, HeapTypes
  <2>4. CASE InitApply BY <1>2, <2>4 DEF InitApply, RegistrationAfterInit, HeapOK, HeapTypes
  <2>5. CASE Deinit BY <1>2, <2>5 DEF Deinit, HeapOK, HeapTypes
  <2>6. CASE DeinitAll BY <1>2, <2>6 DEF DeinitAll, Silenced, HeapOK, HeapTypes
  <2>7. CASE SweepAll BY <1>2, <2>7 DEF SweepAll, HeapOK, HeapTypes
  <2>8. CASE Irq BY <1>2, <2>8 DEF Irq, HeapOK, HeapTypes
  <2>9. CASE IrqTrigger BY <1>2, <2>9 DEF IrqTrigger, HeapOK
  <2>10. CASE Forget BY <1>2, <2>10 DEF Forget, HeapOK, HeapTypes
  <2>11. CASE Collect BY <1>2, <2>11 DEF Collect, Survivors, HeapOK, HeapTypes
  <2>12. CASE ReadEnter BY <1>2, <2>12 DEF ReadEnter, obj, HeapOK
  <2>13. CASE ReadByte \/ ReadReturn BY <1>2, <2>13 DEF ReadByte, ReadReturn, obj, HeapOK
  <2> QED BY <1>2, <2>1, <2>2, <2>3, <2>4, <2>5, <2>6, <2>7, <2>8, <2>9, <2>10, <2>11, <2>12, <2>13
          DEF Step, Peer, Setup, Python
<1> QED BY <1>1, <1>2 DEF Next, fixed
-----------------------------------------------------------------------------
(* The types.                                                              *)
SeqTypes ==
  /\ rb \in Seq(Bytes) /\ Len(rb) <= RxBuf /\ rxfifo \in Seq(Bytes) /\ got \in Seq(Bytes)
  /\ sent \in Bytes /\ taken \in Bytes

LEMMA TypesSplit ==
  ASSUME TypeOK
  PROVE  /\ HeapTypes /\ SeqTypes /\ Bytes \subseteq Nat /\ MaxSent \in Nat
         /\ rb \in Seq(Nat) /\ rxfifo \in Seq(Nat) /\ got \in Seq(Nat) /\ sent \in Nat /\ taken \in Nat
<1>1. HeapTypes BY DEF TypeOK, HeapTypes
<1>2. SeqTypes BY DEF TypeOK, SeqTypes, Bytes
<1>3. Bytes \subseteq Nat /\ MaxSent \in Nat BY UartRxAssumption DEF Bytes
<1>4. rb \in Seq(Nat) /\ rxfifo \in Seq(Nat) /\ got \in Seq(Nat) BY <1>2, <1>3, SeqMonotonic DEF SeqTypes
<1> QED BY <1>1, <1>2, <1>3, <1>4 DEF SeqTypes

LEMMA EnqueuesIs ==
  ASSUME NEW S, NEW s \in Seq(S)
  PROVE  Enqueues(s) \in Seq(S)
<1>1. CASE Contains(s, Brk)
  <2>1. s # <<>> BY <1>1 DEF Contains
  <2> QED BY <1>1, <2>1, FrontIs DEF Enqueues
<1> QED BY <1>1 DEF Enqueues

(* The sequences that a step leaves.                                       *)
LEMMA SeqTypesNext ==
  ASSUME SeqTypes, Step
  PROVE  SeqTypes'
<1>0. <<>> \in Seq(Bytes) /\ Len(<<>>) = 0 /\ RxBuf \in Nat /\ MaxSent \in Nat
  BY EmptySeq, UartRxAssumption
<1>1. CASE Receive
  <2>1. sent' = sent + 1 /\ sent + 1 \in Bytes /\ rxfifo' = Append(rxfifo, sent + 1) /\ UNCHANGED <<rb, got, taken>>
    BY <1>0, <1>1 DEF Receive, call, SeqTypes, Bytes
  <2>2. Append(rxfifo, sent + 1) \in Seq(Bytes) BY <2>1, AppendIs DEF SeqTypes
  <2>3. rxfifo' \in Seq(Bytes) /\ sent' \in Bytes BY <2>1, <2>2
  <2> QED BY <2>1, <2>3 DEF SeqTypes, Bytes
<1>2. CASE Break
  <2>1. Brk \in Bytes /\ rxfifo' = Append(rxfifo, Brk) /\ UNCHANGED <<rb, got, taken, sent>>
    BY <1>0, <1>2 DEF Break, call, Bytes, Brk
  <2>2. Append(rxfifo, Brk) \in Seq(Bytes) BY <2>1, AppendIs DEF SeqTypes
  <2>3. rxfifo' \in Seq(Bytes) BY <2>1, <2>2
  <2> QED BY <2>1, <2>3 DEF SeqTypes, Bytes
<1>3. CASE RxIrq
  <2>1. rb' = Puts(rb, Enqueues(rxfifo)) /\ rxfifo' = <<>> /\ UNCHANGED <<got, taken, sent>>
    BY <1>3 DEF RxIrq
  <2>2. Enqueues(rxfifo) \in Seq(Bytes) BY EnqueuesIs DEF SeqTypes
  <2>3. Puts(rb, Enqueues(rxfifo)) \in Seq(Bytes) /\ Len(Puts(rb, Enqueues(rxfifo))) <= RxBuf
    BY <2>2, PutsIs DEF SeqTypes
  <2>4. rb' \in Seq(Bytes) /\ Len(rb') <= RxBuf /\ rxfifo' \in Seq(Bytes) BY <1>0, <2>1, <2>3
  <2> QED BY <2>1, <2>4 DEF SeqTypes, Bytes
<1>4. CASE InitApply
  <2>1. rb' = <<>> /\ rxfifo' = <<>> /\ taken' = sent /\ UNCHANGED <<got, sent>> BY <1>4 DEF InitApply
  <2>2. rb' \in Seq(Bytes) /\ Len(rb') <= RxBuf /\ rxfifo' \in Seq(Bytes) BY <1>0, <2>1
  <2> QED BY <2>1, <2>2 DEF SeqTypes, Bytes
<1>5. CASE Deinit \/ DeinitAll
  <2>1. /\ rb' = <<>> \/ rb' = rb
        /\ rxfifo' = <<>> /\ UNCHANGED <<got, sent, taken>>
    BY <1>5 DEF Deinit, DeinitAll, Silenced, call
  <2>a. CASE rb' = <<>> BY <1>0, <2>1, <2>a DEF SeqTypes, Bytes
  <2>b. CASE rb' = rb BY <1>0, <2>1, <2>b DEF SeqTypes, Bytes
  <2> QED BY <2>1, <2>a, <2>b
<1>6. CASE ReadByte
  <2>1. /\ rb # <<>> /\ got' = Append(got, Head(rb)) /\ rb' = Tail(rb) /\ UNCHANGED <<taken, sent, rxfifo>>
    BY <1>6 DEF ReadByte, line
  <2>2. Tail(rb) \in Seq(Bytes) /\ Len(Tail(rb)) = Len(rb) - 1 /\ Head(rb) \in Bytes /\ Len(rb) \in Nat
    BY <2>1, TailIs DEF SeqTypes
  <2>3. Append(got, Head(rb)) \in Seq(Bytes) BY <2>2, AppendIs DEF SeqTypes
  <2>4. rb' \in Seq(Bytes) /\ Len(rb') <= RxBuf /\ got' \in Seq(Bytes) BY <1>0, <2>1, <2>2, <2>3 DEF SeqTypes
  <2> QED BY <2>1, <2>4 DEF SeqTypes, Bytes
<1>7. CASE ReadReturn
  <2>1. got' = <<>> /\ UNCHANGED <<rb, sent, rxfifo>> /\ (taken' = taken \/ (got # <<>> /\ taken' = Last(got)))
    BY <1>7 DEF ReadReturn, line, Returned
  <2>2. got # <<>> => Last(got) \in Bytes
    <3>1. got # <<>> => Len(got) \in 1 .. Len(got) BY EmptySeq DEF SeqTypes
    <3> QED BY <3>1, ElementOfSeq DEF SeqTypes, Last
  <2>3. got' \in Seq(Bytes) /\ taken' \in Bytes BY <1>0, <2>1, <2>2 DEF SeqTypes
  <2> QED BY <2>1, <2>3 DEF SeqTypes, Bytes
<1>8. CASE ReadEnter
  <2>1. got' = <<>> /\ UNCHANGED <<rb, sent, rxfifo, taken>> BY <1>8 DEF ReadEnter, line
  <2>2. got' \in Seq(Bytes) BY <1>0, <2>1
  <2> QED BY <2>1, <2>2 DEF SeqTypes, Bytes
<1>9. CASE InitArgs \/ InitAlloc \/ SweepAll \/ Irq \/ IrqTrigger \/ Forget \/ Collect
  <2>1. UNCHANGED <<rb, got, taken, sent, rxfifo>>
    BY <1>9 DEF InitArgs, InitAlloc, SweepAll, Irq, IrqTrigger, Forget, Collect, line, call
  <2> QED BY <2>1 DEF SeqTypes, Bytes
<1> QED BY <1>1, <1>2, <1>3, <1>4, <1>5, <1>6, <1>7, <1>8, <1>9 DEF Step, Peer, Setup, Python

OtherTypes ==
  /\ dropped \in BOOLEAN /\ masked \in BOOLEAN /\ trig \subseteq Triggers
  /\ pc \in {"idle", "alloc", "apply", "read", "swept"} /\ want \in 0 .. MaxRead

LEMMA TypesJoin == TypeOK <=> HeapTypes /\ SeqTypes /\ OtherTypes
BY DEF TypeOK, HeapTypes, SeqTypes, OtherTypes, Bytes

LEMMA HeapTypesNext ==
  ASSUME HeapTypes, Step, UNCHANGED forgets
  PROVE  HeapTypes'
<1>1. CASE RxIrq
  <2>1. fault' \in BOOLEAN BY <1>1 DEF RxIrq
  <2> QED BY <1>1, <2>1 DEF RxIrq, obj, HeapTypes
<1>2. CASE Peer \/ InitArgs \/ ReadEnter \/ ReadByte \/ ReadReturn
  BY <1>2 DEF Peer, Receive, Break, InitArgs, ReadEnter, ReadByte, ReadReturn, obj, HeapTypes
<1>3. CASE InitAlloc BY <1>3 DEF InitAlloc, Alloc, HeapTypes
<1>4. CASE InitApply BY <1>4 DEF InitApply, RegistrationAfterInit, HeapTypes
<1>5. CASE Deinit \/ DeinitAll \/ SweepAll BY <1>5 DEF Deinit, DeinitAll, Silenced, SweepAll, HeapTypes
<1>6. CASE Irq BY <1>6 DEF Irq, HeapTypes
<1>7. CASE IrqTrigger \/ Forget \/ Collect BY <1>7 DEF IrqTrigger, Forget, Collect, HeapTypes
<1> QED BY <1>1, <1>2, <1>3, <1>4, <1>5, <1>6, <1>7 DEF Step, Setup, Python

LEMMA OtherTypesNext ==
  ASSUME OtherTypes, Step, UNCHANGED masked
  PROVE  OtherTypes'
<1> USE UartRxAssumption
<1>1. CASE RxIrq
  <2>1. dropped' \in BOOLEAN BY <1>1 DEF RxIrq
  <2> QED BY <1>1, <2>1 DEF RxIrq, obj, OtherTypes
<1>2. CASE Peer \/ InitArgs BY <1>2 DEF Peer, Receive, Break, InitArgs, obj, call, OtherTypes
<1>3. CASE ReadEnter \/ ReadByte \/ ReadReturn BY <1>3 DEF ReadEnter, ReadByte, ReadReturn, obj, OtherTypes
<1>4. CASE InitAlloc \/ InitApply
  BY <1>4 DEF InitAlloc, InitApply, RegistrationAfterInit, call, OtherTypes
<1>5. CASE Deinit \/ DeinitAll \/ SweepAll BY <1>5 DEF Deinit, DeinitAll, SweepAll, call, OtherTypes
<1>6. CASE Irq \/ IrqTrigger \/ Forget \/ Collect
  BY <1>6 DEF Irq, IrqTrigger, Forget, Collect, call, OtherTypes
<1> QED BY <1>1, <1>2, <1>3, <1>4, <1>5, <1>6 DEF Step, Setup, Python

LEMMA QuietNext ==
  ASSUME Quiet, HeapOK, Step
  PROVE  Quiet'
<1>1. CASE Peer \/ RxIrq \/ InitArgs
  <2>1. UNCHANGED <<got, rxon>> /\ (pc' # "read" => pc # "read")
    BY <1>1 DEF Peer, Receive, Break, RxIrq, InitArgs, obj, call
  <2>2. rxon \/ rxfifo' = rxfifo BY <1>1 DEF Peer, Receive, Break, Arrives, RxIrq, InitArgs, line
  <2>3. pc' # "read" => got' = <<>> BY <2>1 DEF Quiet
  <2> QED BY <2>1, <2>2, <2>3 DEF Quiet
<1>2. CASE InitAlloc \/ InitApply \/ Deinit \/ DeinitAll \/ SweepAll
  BY <1>2 DEF InitAlloc, InitApply, Deinit, DeinitAll, Silenced, SweepAll, call, line, Quiet
<1>3. CASE Irq \/ IrqTrigger \/ Forget \/ Collect
  BY <1>3 DEF Irq, IrqTrigger, Forget, Collect, call, line, Quiet
<1>4. CASE ReadEnter \/ ReadByte \/ ReadReturn
  BY <1>4 DEF ReadEnter, ReadByte, ReadReturn, obj, line, Quiet
<1> QED BY <1>1, <1>2, <1>3, <1>4 DEF Step, Setup, Python
-----------------------------------------------------------------------------
(* The bytes.                                                              *)
LEMMA CountIs ==
  ASSUME NEW s \in Seq(Nat), ~Contains(s, Brk)
  PROVE  Count(s) = Len(s)
<1>1. s # <<>> => Len(s) \in 1 .. Len(s) BY EmptySeq
<1> QED BY <1>1 DEF Count, Contains

LEMMA CountRange ==
  ASSUME NEW s \in Seq(Nat)
  PROVE  Count(s) \in 0 .. Len(s) /\ Count(s) \in Nat /\ Len(s) \in Nat
<1>1. Len(s) \in Nat /\ (s # <<>> => Len(s) \in Nat \ {0}) BY EmptySeq
<1> QED BY <1>1 DEF Count

(* Without late interrupts the handler takes over exactly the peer's bytes.*)
LEMMA EnqueuesCount ==
  ASSUME NEW s \in Seq(Nat), \A i \in 1 .. Len(s) - 1 : s[i] # Brk
  PROVE  /\ Enqueues(s) \in Seq(Nat) /\ Len(Enqueues(s)) = Count(s)
         /\ \A i \in 1 .. Count(s) : Enqueues(s)[i] = s[i]
<1>1. CASE Contains(s, Brk)
  <2>1. PICK k \in 1 .. Len(s) : s[k] = Brk BY <1>1 DEF Contains
  <2>2. k = Len(s) /\ Len(s) \in Nat /\ s # <<>> BY <2>1
  <2>3. Count(s) = Len(s) - 1 BY <2>1, <2>2 DEF Count
  <2>4. Enqueues(s) = Front(s) BY <1>1 DEF Enqueues
  <2>5. /\ Front(s) \in Seq(Nat) /\ Len(Front(s)) = Len(s) - 1
        /\ \A i \in 1 .. Len(s) - 1 : Front(s)[i] = s[i]
    BY <2>2, FrontIs
  <2> QED BY ONLY <2>3, <2>4, <2>5
<1>2. CASE ~Contains(s, Brk)
  <2>1. Enqueues(s) = s BY <1>2 DEF Enqueues
  <2>2. Count(s) = Len(s) BY <1>2, CountIs
  <2> QED BY <2>1, <2>2
<1> QED BY <1>1, <1>2

LEMMA StreamNext ==
  ASSUME TypeOK, HeapOK, Quiet, Stream, Step, UNCHANGED masked
  PROVE  Stream'
<1>t. /\ rb \in Seq(Nat) /\ rxfifo \in Seq(Nat) /\ got \in Seq(Nat) /\ sent \in Nat /\ taken \in Nat
      /\ Len(rb) \in Nat /\ Len(got) \in Nat /\ Len(rxfifo) \in Nat
      /\ Count(rxfifo) \in 0 .. Len(rxfifo) /\ Count(rxfifo) \in Nat
  BY TypesSplit, CountRange
<1> SUFFICES ASSUME ~masked
             PROVE  BreakLast' /\ Ordered' /\ (inited' /\ ~dropped' => NoGap')
  BY DEF Stream
<1>s. BreakLast /\ Ordered /\ (inited /\ ~dropped => NoGap) BY DEF Stream
<1>e. Len(<<>>) = 0 /\ Count(<<>>) = 0 BY EmptySeq DEF Count
<1>1. CASE Receive
  <2>1. /\ ~Contains(rxfifo, Brk) /\ sent' = sent + 1 /\ rxfifo' = Append(rxfifo, sent + 1)
        /\ UNCHANGED <<rb, got, taken, dropped, inited>>
    BY <1>1 DEF Receive, Arrives, obj, call
  <2>a. rxfifo \in Seq(Nat) /\ sent + 1 \in Nat BY <1>t
  <2>b. PICK e \in Nat : e = sent + 1 BY ONLY <2>a
  <2>c. PICK d : d = Append(rxfifo, e) OBVIOUS
  <2>d. /\ d \in Seq(Nat) /\ Len(d) = Len(rxfifo) + 1 /\ d[Len(rxfifo) + 1] = e
        /\ \A i \in 1 .. Len(rxfifo) : d[i] = rxfifo[i]
    BY ONLY e \in Nat, <2>a, <2>c, AppendIs
  <2>2. /\ d \in Seq(Nat) /\ d = Append(rxfifo, sent + 1) /\ Len(d) = Len(rxfifo) + 1
        /\ d[Len(rxfifo) + 1] = sent + 1 /\ \A i \in 1 .. Len(rxfifo) : d[i] = rxfifo[i]
    BY ONLY <2>b, <2>c, <2>d
  <2>3. Count(rxfifo) = Len(rxfifo) BY <1>t, <2>1, CountIs
  <2>4. sent + 1 # Brk BY <1>t DEF Brk
  <2>5. Count(d) = Len(rxfifo) + 1 BY <1>t, <2>2, <2>4 DEF Count
  <2>6. \A i \in 1 .. Len(rxfifo) : rxfifo[i] # Brk BY <2>1 DEF Contains
  <2>7. BreakLast' BY <1>t, <2>1, <2>2, <2>6 DEF BreakLast
  <2>8. /\ Ordered => InOrder(taken, got, Len(got), rb, Len(rb), d, Len(rxfifo) + 1, sent + 1)
        /\ NoGap => Complete(taken, got, Len(got), rb, Len(rb), d, Len(rxfifo) + 1, sent + 1)
    BY ONLY <1>t, <2>2, <2>3, ByteArrives DEF Ordered, NoGap
  <2> QED BY ONLY <1>s, <2>1, <2>2, <2>5, <2>7, <2>8 DEF Ordered, NoGap
<1>2. CASE Break
  <2>1. /\ ~Contains(rxfifo, Brk) /\ rxfifo' = Append(rxfifo, Brk)
        /\ UNCHANGED <<rb, got, taken, dropped, inited, sent>>
    BY <1>2 DEF Break, obj, call
  <2>a. rxfifo \in Seq(Nat) /\ Brk \in Nat BY <1>t DEF Brk
  <2>2. PICK d \in Seq(Nat) : /\ d = Append(rxfifo, Brk) /\ Len(d) = Len(rxfifo) + 1
                              /\ d[Len(rxfifo) + 1] = Brk /\ \A i \in 1 .. Len(rxfifo) : d[i] = rxfifo[i]
    <3>1. /\ Append(rxfifo, Brk) \in Seq(Nat) /\ Len(Append(rxfifo, Brk)) = Len(rxfifo) + 1
          /\ Append(rxfifo, Brk)[Len(rxfifo) + 1] = Brk
          /\ \A i \in 1 .. Len(rxfifo) : Append(rxfifo, Brk)[i] = rxfifo[i]
      BY ONLY <2>a, AppendIs
    <3> QED BY ONLY <3>1
  <2>3. Count(rxfifo) = Len(rxfifo) BY <1>t, <2>1, CountIs
  <2>4. d # <<>>
    <3>1. Len(rxfifo) \in Nat BY <1>t
    <3> QED BY ONLY <1>e, <2>2, <3>1
  <2>5. Count(d) = Len(rxfifo) BY <1>t, <2>2, <2>4 DEF Count
  <2>6. \A i \in 1 .. Len(rxfifo) : rxfifo[i] # Brk BY <2>1 DEF Contains
  <2>7. BreakLast' BY <1>t, <2>1, <2>2, <2>6 DEF BreakLast
  <2>8. /\ Ordered => InOrder(taken, got, Len(got), rb, Len(rb), d, Len(rxfifo), sent)
        /\ NoGap => Complete(taken, got, Len(got), rb, Len(rb), d, Len(rxfifo), sent)
    BY ONLY <2>2, <2>3 DEF Ordered, NoGap, InOrder, Complete
  <2> QED BY ONLY <1>s, <2>1, <2>2, <2>5, <2>7, <2>8 DEF Ordered, NoGap
<1>3. CASE RxIrq
  <2>1. /\ rb' = Puts(rb, Enqueues(rxfifo)) /\ rxfifo' = <<>>
        /\ dropped' = (dropped \/ Len(rb) + Len(Enqueues(rxfifo)) > RxBuf)
        /\ UNCHANGED <<got, taken, sent, inited>>
    BY <1>3 DEF RxIrq, obj
  <2>2. PICK w \in Seq(Nat) : /\ w = Enqueues(rxfifo) /\ Len(w) = Count(rxfifo)
                              /\ \A i \in 1 .. Count(rxfifo) : w[i] = rxfifo[i]
    BY <1>t, <1>s, EnqueuesCount DEF BreakLast
  <2>3. PICK r \in Seq(Nat) : /\ r = Puts(rb, w) /\ Len(r) <= Len(rb) + Len(w)
                              /\ Len(rb) + Len(w) <= RxBuf => Len(r) = Len(rb) + Len(w)
                              /\ \A i \in 1 .. Len(r) : r[i] = IF i <= Len(rb) THEN rb[i] ELSE w[i - Len(rb)]
    BY <1>t, PutsIs
  <2>4. Len(r) \in 0 .. Len(rb) + Count(rxfifo)
    <3>1. Len(r) \in Nat OBVIOUS
    <3> QED BY <1>t, <2>2, <2>3, <3>1
  <2>5. ASSUME NEW i \in 1 .. Len(r) PROVE r[i] = IF i <= Len(rb) THEN rb[i] ELSE rxfifo[i - Len(rb)]
    <3>1. CASE i <= Len(rb) BY <2>3, <3>1
    <3>2. CASE i > Len(rb)
      <4>1. i - Len(rb) \in 1 .. Count(rxfifo) BY <1>t, <2>4, <3>2
      <4>2. r[i] = w[i - Len(rb)] BY <1>t, <2>3, <2>4, <3>2
      <4> QED BY <1>t, <2>2, <2>4, <3>2, <4>1, <4>2
    <3> QED BY <1>t, <2>4, <3>1, <3>2
  <2>6. /\ Ordered => InOrder(taken, got, Len(got), r, Len(r), <<>>, 0, sent)
        /\ NoGap /\ Len(r) = Len(rb) + Count(rxfifo) => Complete(taken, got, Len(got), r, Len(r), <<>>, 0, sent)
    BY ONLY <1>t, <2>4, <2>5, BytesMove DEF Ordered, NoGap
  <2>7. BreakLast' BY <1>e, <2>1 DEF BreakLast
  <2>8. ~dropped' => ~dropped /\ Len(r) = Len(rb) + Count(rxfifo)
    <3>1. RxBuf \in Nat BY UartRxAssumption
    <3>2. PICK lb \in Nat, n \in Nat : lb = Len(rb) /\ n = Count(rxfifo) BY <1>t
    <3>3. (dropped' <=> dropped \/ lb + n > RxBuf) /\ (lb + n <= RxBuf => Len(r) = lb + n)
      BY ONLY <2>1, <2>2, <2>3, <3>2
    <3> QED BY ONLY lb \in Nat, n \in Nat, <3>1, <3>2, <3>3
  <2> QED BY ONLY <1>s, <1>e, <2>1, <2>2, <2>3, <2>6, <2>7, <2>8 DEF Ordered, NoGap
<1>4. CASE InitApply
  <2>1. /\ rb' = <<>> /\ rxfifo' = <<>> /\ taken' = sent /\ sent' = sent /\ got' = <<>>
    BY <1>4 DEF InitApply, Quiet
  <2> QED BY ONLY <1>t, <1>e, <2>1 DEF BreakLast, Ordered, NoGap, InOrder, Complete
<1>5. CASE Deinit \/ DeinitAll
  <2>1. /\ rb' = <<>> \/ rb' = rb
        /\ ~inited' /\ rxfifo' = <<>> /\ UNCHANGED <<got, sent, taken>>
    BY <1>5 DEF Deinit, DeinitAll, Silenced, call
  <2>2. BreakLast' BY <1>e, <2>1 DEF BreakLast
  <2>3. Ordered' BY ONLY <1>t, <1>s, <1>e, <2>1 DEF Ordered, InOrder
  <2> QED BY <2>1, <2>2, <2>3
<1>6. CASE ReadEnter
  <2>1. got = <<>> /\ got' = <<>> /\ UNCHANGED <<rb, sent, rxfifo, taken, inited, dropped>>
    BY <1>6 DEF ReadEnter, obj, line, Quiet
  <2> QED BY ONLY <1>s, <2>1 DEF BreakLast, Ordered, NoGap
<1>7. CASE ReadByte
  <2>1. /\ rb # <<>> /\ got' = Append(got, Head(rb)) /\ rb' = Tail(rb)
        /\ UNCHANGED <<taken, sent, rxfifo, inited, dropped>>
    BY <1>7 DEF ReadByte, obj, line
  <2>2. PICK r \in Seq(Nat) : /\ r = Tail(rb) /\ Len(r) = Len(rb) - 1 /\ Head(rb) = rb[1] /\ rb[1] \in Nat
                              /\ Len(rb) \in Nat \ {0} /\ \A i \in 1 .. Len(rb) - 1 : r[i] = rb[i + 1]
    BY <1>t, <2>1, TailIs
  <2>3. PICK s \in Seq(Nat) : /\ s = Append(got, Head(rb)) /\ Len(s) = Len(got) + 1 /\ s[Len(got) + 1] = rb[1]
                              /\ \A i \in 1 .. Len(got) : s[i] = got[i]
    <3>1. got \in Seq(Nat) /\ Head(rb) \in Nat /\ Head(rb) = rb[1] BY <1>t, <2>2
    <3>2. /\ Append(got, Head(rb)) \in Seq(Nat) /\ Len(Append(got, Head(rb))) = Len(got) + 1
          /\ Append(got, Head(rb))[Len(got) + 1] = Head(rb)
          /\ \A i \in 1 .. Len(got) : Append(got, Head(rb))[i] = got[i]
      BY ONLY <3>1, AppendIs
    <3> QED BY ONLY <3>1, <3>2
  <2>4. /\ Ordered => InOrder(taken, s, Len(got) + 1, r, Len(rb) - 1, rxfifo, Count(rxfifo), sent)
        /\ NoGap => Complete(taken, s, Len(got) + 1, r, Len(rb) - 1, rxfifo, Count(rxfifo), sent)
    BY ONLY <1>t, <2>2, <2>3, ByteRead DEF Ordered, NoGap
  <2> QED BY ONLY <1>s, <2>1, <2>2, <2>3, <2>4 DEF BreakLast, Ordered, NoGap
<1>8. CASE ReadReturn
  <2>1. /\ got' = <<>> /\ UNCHANGED <<rb, sent, rxfifo, inited, dropped>>
        /\ taken' = IF got = <<>> THEN taken ELSE got[Len(got)]
    BY <1>8 DEF ReadReturn, obj, line, Returned, Last
  <2>2. CASE got = <<>> BY ONLY <1>s, <2>1, <2>2 DEF BreakLast, Ordered, NoGap
  <2>3. CASE got # <<>>
    <3>1. Len(got) \in Nat \ {0} BY <1>t, <2>3, EmptySeq
    <3>2. /\ Ordered => InOrder(got[Len(got)], <<>>, 0, rb, Len(rb), rxfifo, Count(rxfifo), sent)
          /\ NoGap => Complete(got[Len(got)], <<>>, 0, rb, Len(rb), rxfifo, Count(rxfifo), sent)
      BY ONLY <1>t, <3>1, BytesReturned DEF Ordered, NoGap
    <3> QED BY ONLY <1>s, <1>e, <2>1, <2>3, <3>2 DEF BreakLast, Ordered, NoGap
  <2> QED BY <2>2, <2>3
<1>9. CASE InitArgs \/ InitAlloc \/ SweepAll \/ Irq \/ IrqTrigger \/ Forget \/ Collect
  <2>1. UNCHANGED <<rb, got, taken, sent, rxfifo, inited, dropped>>
    BY <1>9 DEF InitArgs, InitAlloc, SweepAll, Irq, IrqTrigger, Forget, Collect, line, call, obj
  <2> QED BY ONLY <1>s, <2>1 DEF BreakLast, Ordered, NoGap
<1> QED BY <1>1, <1>2, <1>3, <1>4, <1>5, <1>6, <1>7, <1>8, <1>9 DEF Step, Peer, Setup, Python
-----------------------------------------------------------------------------
(* From entries to sequences.                                              *)
LEMMA IncreasingCat ==
  ASSUME NEW x \in Nat, NEW y \in Nat, NEW a \in Seq(Nat), NEW b \in Seq(Nat), NEW c, NEW n \in Nat,
         InOrder(x, a, Len(a), b, Len(b), c, n, y)
  PROVE  Increasing(<<x>> \o a \o b)
<1>1. <<x>> \in Seq(Nat) /\ Len(<<x>>) = 1 /\ <<x>>[1] = x OBVIOUS
<1>2. PICK la \in Nat, lb \in Nat : la = Len(a) /\ lb = Len(b) OBVIOUS
<1>3. PICK u \in Seq(Nat) : /\ u = <<x>> \o a /\ Len(u) = 1 + la
                            /\ \A i \in 1 .. 1 + la : u[i] = IF i <= 1 THEN <<x>>[i] ELSE a[i - 1]
  <2>1. /\ <<x>> \o a \in Seq(Nat) /\ Len(<<x>> \o a) = 1 + la
        /\ \A i \in 1 .. 1 + la : (<<x>> \o a)[i] = IF i <= 1 THEN <<x>>[i] ELSE a[i - 1]
    BY ONLY a \in Seq(Nat), <1>1, <1>2, CatIs
  <2> QED BY ONLY <2>1
<1>4. PICK v \in Seq(Nat) : /\ v = u \o b /\ Len(v) = 1 + la + lb
                            /\ \A i \in 1 .. 1 + la + lb : v[i] = IF i <= 1 + la THEN u[i] ELSE b[i - (1 + la)]
  <2>1. /\ u \o b \in Seq(Nat) /\ Len(u \o b) = 1 + la + lb
        /\ \A i \in 1 .. 1 + la + lb : (u \o b)[i] = IF i <= 1 + la THEN u[i] ELSE b[i - (1 + la)]
    BY ONLY u \in Seq(Nat), b \in Seq(Nat), <1>2, <1>3, CatIs
  <2> QED BY ONLY <2>1
<1>5. DOMAIN v = 1 .. 1 + la + lb BY <1>4, LenProperties
<1>6. /\ \A i \in 1 .. la : a[i] \in Nat /\ x < a[i]
      /\ \A i \in 1 .. lb : b[i] \in Nat /\ x < b[i]
      /\ \A i, j \in 1 .. la : i < j => a[i] < a[j]
      /\ \A i, j \in 1 .. lb : i < j => b[i] < b[j]
      /\ \A i \in 1 .. la, j \in 1 .. lb : a[i] < b[j]
  BY <1>2 DEF InOrder
<1>7. ASSUME NEW i \in 1 .. 1 + la + lb
      PROVE  \/ i = 1 /\ v[i] = x
             \/ \E k \in 1 .. la : i = 1 + k /\ v[i] = a[k]
             \/ \E k \in 1 .. lb : i = 1 + la + k /\ v[i] = b[k]
  <2>1. CASE i = 1
    <3>1. v[1] = u[1] /\ u[1] = <<x>>[1] BY ONLY la \in Nat, lb \in Nat, <1>3, <1>4
    <3> QED BY <1>1, <2>1, <3>1
  <2>2. CASE i > 1 /\ i <= 1 + la
    <3>1. i - 1 \in 1 .. la /\ i = 1 + (i - 1) /\ i \in 1 .. 1 + la BY <2>2
    <3>2. v[i] = a[i - 1] BY ONLY la \in Nat, lb \in Nat, i \in 1 .. 1 + la + lb, <1>3, <1>4, <2>2, <3>1
    <3> QED BY ONLY <3>1, <3>2
  <2>3. CASE i > 1 + la
    <3>1. i - (1 + la) \in 1 .. lb /\ i = 1 + la + (i - (1 + la)) BY <2>3
    <3>2. ~(i <= 1 + la) BY <2>3
    <3>3. v[i] = IF i <= 1 + la THEN u[i] ELSE b[i - (1 + la)] BY ONLY <1>4, i \in 1 .. 1 + la + lb
    <3>4. v[i] = b[i - (1 + la)] BY ONLY <3>2, <3>3
    <3> QED BY ONLY <3>1, <3>4
  <2> QED BY <2>1, <2>2, <2>3
<1>8. ASSUME NEW i \in 1 .. 1 + la + lb, NEW j \in 1 .. 1 + la + lb, i < j PROVE v[i] < v[j]
  <2>0. /\ \/ i = 1 /\ v[i] = x
           \/ \E k \in 1 .. la : i = 1 + k /\ v[i] = a[k]
           \/ \E k \in 1 .. lb : i = 1 + la + k /\ v[i] = b[k]
        /\ \/ j = 1 /\ v[j] = x
           \/ \E k \in 1 .. la : j = 1 + k /\ v[j] = a[k]
           \/ \E k \in 1 .. lb : j = 1 + la + k /\ v[j] = b[k]
    BY <1>7
  <2>1. CASE j = 1 /\ v[j] = x BY ONLY la \in Nat, lb \in Nat, i \in 1 .. 1 + la + lb, <1>8, <2>1
  <2>2. CASE \E k \in 1 .. la : j = 1 + k /\ v[j] = a[k]
    <3>1. PICK m \in 1 .. la : j = 1 + m /\ v[j] = a[m] BY <2>2
    <3>2. CASE i = 1 /\ v[i] = x BY ONLY <1>6, <3>1, <3>2
    <3>3. CASE \E k \in 1 .. la : i = 1 + k /\ v[i] = a[k]
      <4>1. PICK k \in 1 .. la : i = 1 + k /\ v[i] = a[k] BY <3>3
      <4>2. k < m BY ONLY la \in Nat, <1>8, <3>1, <4>1
      <4>3. a[k] < a[m] BY ONLY <1>6, <4>2, m \in 1 .. la, k \in 1 .. la
      <4> QED BY ONLY <3>1, <4>1, <4>3
    <3>4. CASE \E k \in 1 .. lb : i = 1 + la + k /\ v[i] = b[k]
      BY ONLY la \in Nat, lb \in Nat, <1>8, <3>1, <3>4
    <3> QED BY <2>0, <3>2, <3>3, <3>4
  <2>3. CASE \E k \in 1 .. lb : j = 1 + la + k /\ v[j] = b[k]
    <3>1. PICK m \in 1 .. lb : j = 1 + la + m /\ v[j] = b[m] BY <2>3
    <3>2. CASE i = 1 /\ v[i] = x BY ONLY <1>6, <3>1, <3>2
    <3>3. CASE \E k \in 1 .. la : i = 1 + k /\ v[i] = a[k]
      <4>1. PICK k \in 1 .. la : i = 1 + k /\ v[i] = a[k] BY <3>3
      <4>3. a[k] < b[m] BY ONLY <1>6, m \in 1 .. lb, k \in 1 .. la
      <4> QED BY ONLY <3>1, <4>1, <4>3
    <3>4. CASE \E k \in 1 .. lb : i = 1 + la + k /\ v[i] = b[k]
      <4>1. PICK k \in 1 .. lb : i = 1 + la + k /\ v[i] = b[k] BY <3>4
      <4>2. k < m BY ONLY la \in Nat, lb \in Nat, <1>8, <3>1, <4>1
      <4>3. b[k] < b[m] BY ONLY <1>6, <4>2, m \in 1 .. lb, k \in 1 .. lb
      <4> QED BY ONLY <3>1, <4>1, <4>3
    <3> QED BY <2>0, <3>2, <3>3, <3>4
  <2> QED BY <2>0, <2>1, <2>2, <2>3
<1>9. Increasing(v) BY ONLY <1>5, <1>8 DEF Increasing
<1> QED BY ONLY <1>3, <1>4, <1>9

LEMMA CompleteCat ==
  ASSUME NEW x \in Nat, NEW y \in Nat, NEW a \in Seq(Nat), NEW b \in Seq(Nat), NEW d \in Seq(Nat),
         Complete(x, a, Len(a), b, Len(b), d, Len(d), y)
  PROVE  a \o b \o d = [i \in 1 .. y - x |-> x + i]
<1>2. PICK la \in Nat, lb \in Nat, n \in Nat : la = Len(a) /\ lb = Len(b) /\ n = Len(d) OBVIOUS
<1>3. PICK u \in Seq(Nat) : /\ u = a \o b /\ Len(u) = la + lb
                            /\ \A i \in 1 .. la + lb : u[i] = IF i <= la THEN a[i] ELSE b[i - la]
  <2>1. /\ a \o b \in Seq(Nat) /\ Len(a \o b) = la + lb
        /\ \A i \in 1 .. la + lb : (a \o b)[i] = IF i <= la THEN a[i] ELSE b[i - la]
    BY ONLY a \in Seq(Nat), b \in Seq(Nat), <1>2, CatIs
  <2> QED BY ONLY <2>1
<1>4. PICK v \in Seq(Nat) : /\ v = u \o d /\ Len(v) = la + lb + n
                            /\ \A i \in 1 .. la + lb + n : v[i] = IF i <= la + lb THEN u[i] ELSE d[i - (la + lb)]
  <2>1. /\ u \o d \in Seq(Nat) /\ Len(u \o d) = la + lb + n
        /\ \A i \in 1 .. la + lb + n : (u \o d)[i] = IF i <= la + lb THEN u[i] ELSE d[i - (la + lb)]
    BY ONLY u \in Seq(Nat), d \in Seq(Nat), <1>2, <1>3, CatIs
  <2> QED BY ONLY <2>1
<1>5. /\ \A i \in 1 .. la : a[i] = x + i
      /\ \A i \in 1 .. lb : b[i] = x + la + i
      /\ \A i \in 1 .. n : d[i] = x + la + lb + i
      /\ y - x = la + lb + n
  BY <1>2 DEF Complete
<1>6. ASSUME NEW i \in 1 .. la + lb + n PROVE v[i] = x + i
  <2>1. CASE i <= la
    <3>1. i \in 1 .. la /\ i \in 1 .. la + lb BY <2>1
    <3> QED BY ONLY la \in Nat, lb \in Nat, n \in Nat, <1>3, <1>4, <1>5, <1>6, <2>1, <3>1
  <2>2. CASE i > la /\ i <= la + lb
    <3>1. i - la \in 1 .. lb /\ i \in 1 .. la + lb BY <2>2
    <3>a. i <= la + lb /\ ~(i <= la) BY <2>2
    <3>b. v[i] = IF i <= la + lb THEN u[i] ELSE d[i - (la + lb)] BY ONLY <1>4, i \in 1 .. la + lb + n
    <3>c. u[i] = IF i <= la THEN a[i] ELSE b[i - la] BY ONLY <1>3, <3>1
    <3>2. v[i] = b[i - la] BY ONLY <3>a, <3>b, <3>c
    <3>3. b[i - la] = x + la + (i - la) BY ONLY <1>5, <3>1
    <3> QED BY <3>2, <3>3
  <2>3. CASE i > la + lb
    <3>1. i - (la + lb) \in 1 .. n BY <2>3
    <3>a. ~(i <= la + lb) BY <2>3
    <3>b. v[i] = IF i <= la + lb THEN u[i] ELSE d[i - (la + lb)] BY ONLY <1>4, i \in 1 .. la + lb + n
    <3>2. v[i] = d[i - (la + lb)] BY ONLY <3>a, <3>b
    <3>3. d[i - (la + lb)] = x + la + lb + (i - (la + lb)) BY ONLY <1>5, <3>1
    <3> QED BY <3>2, <3>3
  <2> QED BY <2>1, <2>2, <2>3
<1>7. v \in [1 .. la + lb + n -> Nat] BY ONLY v \in Seq(Nat), <1>4, LenProperties
<1>8. v = [i \in 1 .. la + lb + n |-> x + i] BY ONLY <1>6, <1>7
<1> QED BY ONLY <1>3, <1>4, <1>5, <1>8

LEMMA DataIs ==
  ASSUME NEW s \in Seq(Nat)
  PROVE  /\ Data(s) \in Seq(Nat) /\ Len(Data(s)) = Count(s)
         /\ \A i \in 1 .. Count(s) : Data(s)[i] = s[i]
<1>1. CASE s # <<>> /\ s[Len(s)] = Brk
  <2>1. Data(s) = Front(s) /\ Count(s) = Len(s) - 1 BY <1>1 DEF Data, Count, Last
  <2>2. /\ Front(s) \in Seq(Nat) /\ Len(Front(s)) = Len(s) - 1
        /\ \A i \in 1 .. Len(s) - 1 : Front(s)[i] = s[i]
    BY <1>1, FrontIs
  <2> QED BY ONLY <2>1, <2>2
<1>2. CASE ~(s # <<>> /\ s[Len(s)] = Brk)
  <2>1. Data(s) = s /\ Count(s) = Len(s) BY <1>2 DEF Data, Count, Last
  <2> QED BY <2>1
<1> QED BY <1>1, <1>2

LEMMA RxInvNext ==
  ASSUME RxInv, [Next]_vars
  PROVE  RxInv'
<1>0. TypeOK /\ HeapOK /\ Quiet /\ Stream /\ HeapTypes /\ SeqTypes /\ OtherTypes BY TypesJoin DEF RxInv
<1>1. HeapOK' BY <1>0, HeapNext
<1>2. CASE UNCHANGED vars
  <2>1. UNCHANGED <<inited, rxon, rbuf, rb, irq, trig, kept, live, fresh, rxfifo, sent,
                    pc, got, want, taken, dropped, fault, masked, forgets>>
    BY <1>2 DEF vars, fixed
  <2>2. TypeOK' BY <1>0, <2>1 DEF TypeOK
  <2>3. Quiet' BY <1>0, <2>1 DEF Quiet
  <2>4. Stream' BY ONLY <1>0, <2>1 DEF Stream, BreakLast, Ordered, NoGap
  <2> QED BY <1>1, <2>2, <2>3, <2>4 DEF RxInv
<1>3. CASE Step /\ UNCHANGED <<masked, forgets>>
  <2>1. HeapTypes' BY <1>0, <1>3, HeapTypesNext
  <2>2. SeqTypes' BY <1>0, <1>3, SeqTypesNext
  <2>3. OtherTypes' BY <1>0, <1>3, OtherTypesNext
  <2>4. TypeOK' BY <2>1, <2>2, <2>3 DEF TypeOK, HeapTypes, SeqTypes, OtherTypes, Bytes
  <2>5. Quiet' BY <1>0, <1>3, QuietNext
  <2>6. Stream' BY <1>0, <1>3, StreamNext
  <2> QED BY <1>1, <2>4, <2>5, <2>6 DEF RxInv
<1> QED BY <1>2, <1>3 DEF Next, fixed

LEMMA RxInvAlways == Spec => []RxInv
BY RxInvInit, RxInvNext, PTL DEF Spec

LEMMA RxInvImplies == RxInv => NothingLost
<1> SUFFICES ASSUME RxInv PROVE NothingLost OBVIOUS
<1>t. /\ TypeOK /\ rb \in Seq(Nat) /\ rxfifo \in Seq(Nat) /\ got \in Seq(Nat) /\ sent \in Nat /\ taken \in Nat
      /\ Count(rxfifo) \in Nat
  BY TypesSplit, CountRange DEF RxInv
<1>1. ASSUME ~masked PROVE Increasing(<<taken>> \o got \o rb)
  <2>1. InOrder(taken, got, Len(got), rb, Len(rb), rxfifo, Count(rxfifo), sent)
    BY <1>1 DEF RxInv, Stream, Ordered
  <2> QED BY ONLY <1>t, <2>1, IncreasingCat
<1>2. ASSUME ~masked, inited, ~dropped
      PROVE  got \o rb \o Data(rxfifo) = [i \in 1 .. sent - taken |-> taken + i]
  <2>1. NoGap BY <1>2 DEF RxInv, Stream
  <2>2. PICK d \in Seq(Nat) : /\ d = Data(rxfifo) /\ Len(d) = Count(rxfifo)
                              /\ \A i \in 1 .. Count(rxfifo) : d[i] = rxfifo[i]
    BY <1>t, DataIs
  <2>3. Complete(taken, got, Len(got), rb, Len(rb), d, Len(d), sent)
    BY ONLY <2>1, <2>2 DEF NoGap, Complete
  <2>4. got \o rb \o d = [i \in 1 .. sent - taken |-> taken + i]
    BY ONLY d \in Seq(Nat), <1>t, <2>3, CompleteCat
  <2> QED BY ONLY <2>2, <2>4
<1> QED BY <1>t, <1>1, <1>2 DEF NothingLost

(* The interrupt never writes through a freed buffer nor calls a freed     *)
(* callback object as long as the program keeps what irq() returned        *)
(* (machine_uart_irq_handler, mp_machine_uart_init_helper,                 *)
(* machine_uart_deinit_all).                                               *)
THEOREM NoUseAfterFreeAlways == Spec => []NoUseAfterFree
<1>1. RxInv => NoUseAfterFree BY DEF RxInv, HeapOK, NoUseAfterFree
<1> QED BY <1>1, RxInvAlways, PTL

(* read() hands over the peer's bytes in order, without the spurious byte  *)
(* of a break, and none is lost unless read_buffer overflows               *)
(* (machine_uart_irq_handler, mp_machine_uart_read), for every size of the *)
(* buffer and of the reads.                                                *)
THEOREM NothingLostAlways == Spec => []NothingLost
<1>1. RxInv => NothingLost BY RxInvImplies
<1> QED BY <1>1, RxInvAlways, PTL
=============================================================================
