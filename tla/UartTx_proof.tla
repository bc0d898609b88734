---------------------------- MODULE UartTx_proof ----------------------------
(***************************************************************************)
(* The transmit path of machine.UART sends what Python wrote, in order,    *)
(* for every size of write_buffer and of the FIFO, as long as the program  *)
(* asks txdone() before it writes and writes no more than write_buffer     *)
(* holds (Apart); the buffers overflow in no program.                      *)
(***************************************************************************)
EXTENDS UartTx, SequenceTheorems, TLAPS

-----------------------------------------------------------------------------
(* Facts about sequences.                                                  *)

LEMMA AppendIs ==
  ASSUME NEW S, NEW s \in Seq(S), NEW e \in S
  PROVE  /\ Append(s, e) \in Seq(S) /\ Len(Append(s, e)) = Len(s) + 1 /\ Append(s, e)[Len(s) + 1] = e
         /\ \A i \in 1 .. Len(s) : Append(s, e)[i] = s[i]
BY AppendProperties

LEMMA TailIs ==
  ASSUME NEW S, NEW s \in Seq(S), s # <<>>
  PROVE  /\ Tail(s) \in Seq(S) /\ Len(Tail(s)) = Len(s) - 1 /\ Head(s) = s[1] /\ s[1] \in S
         /\ Len(s) \in Nat \ {0}
         /\ \A i \in 1 .. Len(s) - 1 : Tail(s)[i] = s[i + 1]
<1>1. Len(s) \in Nat \ {0} BY EmptySeq
<1>2. s[1] \in S BY <1>1
<1> QED BY <1>1, <1>2, HeadTailProperties

LEMMA CatIs ==
  ASSUME NEW S, NEW a \in Seq(S), NEW b \in Seq(S)
  PROVE  /\ a \o b \in Seq(S) /\ Len(a \o b) = Len(a) + Len(b)
         /\ \A i \in 1 .. Len(a) : (a \o b)[i] = a[i]
         /\ \A i \in 1 .. Len(b) : (a \o b)[Len(a) + i] = b[i]
<1>1. /\ a \o b \in Seq(S) /\ Len(a \o b) = Len(a) + Len(b) /\ Len(a) \in Nat /\ Len(b) \in Nat
      /\ \A i \in 1 .. Len(a) + Len(b) : (a \o b)[i] = IF i <= Len(a) THEN a[i] ELSE b[i - Len(a)]
  BY ConcatProperties
<1>2. PICK m \in Nat, n \in Nat : m = Len(a) /\ n = Len(b) BY <1>1
<1>3. ASSUME NEW i \in 1 .. n PROVE (a \o b)[m + i] = b[i]
  <2>1. m + i \in 1 .. m + n /\ ~(m + i <= m) /\ (m + i) - m = i OBVIOUS
  <2>2. (a \o b)[m + i] = IF m + i <= m THEN a[m + i] ELSE b[(m + i) - m] BY ONLY <1>1, <1>2, <2>1
  <2> QED BY ONLY <2>1, <2>2
<1>4. ASSUME NEW i \in 1 .. m PROVE (a \o b)[i] = a[i]
  <2>1. i \in 1 .. m + n /\ i <= m OBVIOUS
  <2> QED BY ONLY <1>1, <1>2, <2>1
<1> QED BY ONLY <1>1, <1>2, <1>3, <1>4

(* The first n bytes of s, and the others.                                 *)
LEMMA CutIs ==
  ASSUME NEW S, NEW s \in Seq(S), NEW n \in 0 .. Len(s)
  PROVE  /\ SubSeq(s, 1, n) \in Seq(S) /\ Len(SubSeq(s, 1, n)) = n
         /\ \A i \in 1 .. n : SubSeq(s, 1, n)[i] = s[i]
         /\ SubSeq(s, n + 1, Len(s)) \in Seq(S) /\ Len(SubSeq(s, n + 1, Len(s))) = Len(s) - n
         /\ \A i \in 1 .. Len(s) - n : SubSeq(s, n + 1, Len(s))[i] = s[n + i]
<1>1. PICK l \in Nat : l = Len(s) OBVIOUS
<1>2. \A i \in 1 .. l : s[i] \in S BY <1>1
<1>3. SubSeq(s, 1, n) \in Seq(S) BY <1>1, <1>2, SubSeqProperties
<1>4. Len(SubSeq(s, 1, n)) = n BY <1>1, <1>2, SubSeqProperties
<1>5. ASSUME NEW i \in 1 .. n PROVE SubSeq(s, 1, n)[i] = s[i]
  BY <1>1, <1>2, SubSeqProperties
<1>6. SubSeq(s, n + 1, l) \in Seq(S) BY <1>1, <1>2, SubSeqProperties
<1>7. Len(SubSeq(s, n + 1, l)) = l - n BY <1>1, <1>2, SubSeqProperties
<1>8. ASSUME NEW i \in 1 .. l - n PROVE SubSeq(s, n + 1, l)[i] = s[n + i]
  BY <1>1, <1>2, SubSeqProperties
<1> QED BY <1>1, <1>3, <1>4, <1>5, <1>6, <1>7, <1>8

LEMMA MinIs ==
  ASSUME NEW a \in Nat, NEW b \in Nat
  PROVE  /\ Min({a, b}) \in Nat /\ Min({a, b}) <= a /\ Min({a, b}) <= b
         /\ Min({a, b}) = a \/ Min({a, b}) = b
<1>1. \E x \in {a, b} : \A y \in {a, b} : x <= y BY a <= b \/ b <= a
<1>2. Min({a, b}) \in {a, b} /\ \A y \in {a, b} : Min({a, b}) <= y BY <1>1 DEF Min
<1> QED BY <1>2
-----------------------------------------------------------------------------
(* The way of a byte, entry by entry: the lw entries of w have left the    *)
(* pin, the lf entries of f are in the FIFO, the writer has h in its hand  *)
(* when lh is 1, and the lb entries of b are in write_buffer.  They are    *)
(* the numbers 1 to y, in order.                                           *)
Way(w, lw, f, lf, h, lh, b, lb, y) ==
  /\ \A i \in 1 .. lw : w[i] = i
  /\ \A i \in 1 .. lf : f[i] = lw + i
  /\ lh = 1 => h = lw + lf + 1
  /\ \A i \in 1 .. lb : b[i] = lw + lf + lh + i
  /\ y = lw + lf + lh + lb

(* The first n of b's lb entries were moved behind the lf of f, which gives *)
(* g; d is what b keeps.                                                   *)
Moved(f, lf, b, lb, g, d, n) ==
  /\ \A i \in 1 .. lf : g[i] = f[i]
  /\ \A i \in 1 .. n : g[lf + i] = b[i]
  /\ \A i \in 1 .. lb - n : d[i] = b[n + i]

(* ringbuf_put                                                             *)
LEMMA WayPut ==
  ASSUME NEW w, NEW lw \in Nat, NEW f, NEW lf \in Nat, NEW h, NEW lh \in {0, 1}, NEW b, NEW lb \in Nat,
         NEW y \in Nat, Way(w, lw, f, lf, h, lh, b, lb, y),
         NEW d, \A i \in 1 .. lb : d[i] = b[i], d[lb + 1] = y + 1
  PROVE  Way(w, lw, f, lf, h, lh, d, lb + 1, y + 1)
BY DEF Way

(* ringbuf_get                                                             *)
LEMMA WayGet ==
  ASSUME NEW w, NEW lw \in Nat, NEW f, NEW lf \in Nat, NEW h, NEW b, NEW lb \in Nat \ {0},
         NEW y \in Nat, Way(w, lw, f, lf, h, 0, b, lb, y),
         NEW d, \A i \in 1 .. lb - 1 : d[i] = b[i + 1]
  PROVE  Way(w, lw, f, lf, b[1], 1, d, lb - 1, y)
<1>1. b[1] = lw + lf + 1 BY DEF Way
<1>2. ASSUME NEW i \in 1 .. lb - 1 PROVE d[i] = lw + lf + 1 + i
  <2>1. i + 1 \in 1 .. lb OBVIOUS
  <2>2. b[i + 1] = lw + lf + 0 + (i + 1) BY ONLY <2>1, Way(w, lw, f, lf, h, 0, b, lb, y) DEF Way
  <2> QED BY <2>2
<1> QED BY <1>1, <1>2 DEF Way

(* serial_putc                                                             *)
LEMMA WaySend ==
  ASSUME NEW w, NEW lw \in Nat, NEW f, NEW lf \in Nat, NEW h, NEW b, NEW lb \in Nat,
         NEW y \in Nat, Way(w, lw, f, lf, h, 1, b, lb, y),
         NEW d, \A i \in 1 .. lf : d[i] = f[i], d[lf + 1] = h
  PROVE  Way(w, lw, d, lf + 1, h, 0, b, lb, y)
BY DEF Way

(* The hardware sends the oldest byte of the FIFO.                         *)
Sent(w, lw, v, f, lf, d) ==
  /\ \A i \in 1 .. lf - 1 : d[i] = f[i + 1]
  /\ \A i \in 1 .. lw : v[i] = w[i]
  /\ v[lw + 1] = f[1]

LEMMA WayShift ==
  ASSUME NEW w, NEW lw \in Nat, NEW f, NEW lf \in Nat \ {0}, NEW h, NEW lh \in {0, 1}, NEW b, NEW lb \in Nat,
         NEW y \in Nat, Way(w, lw, f, lf, h, lh, b, lb, y),
         NEW d, NEW v, Sent(w, lw, v, f, lf, d)
  PROVE  Way(v, lw + 1, d, lf - 1, h, lh, b, lb, y)
<1>0. /\ \A i \in 1 .. lf - 1 : d[i] = f[i + 1]
      /\ \A i \in 1 .. lw : v[i] = w[i]
      /\ v[lw + 1] = f[1]
  BY DEF Sent
<1>1. f[1] = lw + 1 BY DEF Way
<1>2. ASSUME NEW i \in 1 .. lf - 1 PROVE d[i] = lw + 1 + i
  <2>1. i + 1 \in 1 .. lf OBVIOUS
  <2>2. f[i + 1] = lw + (i + 1) BY ONLY <2>1, Way(w, lw, f, lf, h, lh, b, lb, y) DEF Way
  <2> QED BY <1>0, <2>2
<1>3. \A i \in 1 .. lw + 1 : v[i] = i BY <1>0, <1>1 DEF Way
<1>4. lh = 1 => h = (lw + 1) + (lf - 1) + 1 BY DEF Way
<1>5. \A i \in 1 .. lb : b[i] = (lw + 1) + (lf - 1) + lh + i BY DEF Way
<1>6. y = (lw + 1) + (lf - 1) + lh + lb BY DEF Way
<1> QED BY ONLY <1>2, <1>3, <1>4, <1>5, <1>6 DEF Way

(* The interrupt moves n bytes.                                            *)
LEMMA WayFill ==
  ASSUME NEW w, NEW lw \in Nat, NEW f, NEW lf \in Nat, NEW h, NEW b, NEW lb \in Nat,
         NEW y \in Nat, Way(w, lw, f, lf, h, 0, b, lb, y), NEW n \in 0 .. lb,
         NEW d, NEW g, Moved(f, lf, b, lb, g, d, n)
  PROVE  Way(w, lw, g, lf + n, h, 0, d, lb - n, y)
<1>0. /\ \A i \in 1 .. lb - n : d[i] = b[n + i]
      /\ \A i \in 1 .. lf : g[i] = f[i]
      /\ \A i \in 1 .. n : g[lf + i] = b[i]
  BY DEF Moved
<1>1. ASSUME NEW i \in 1 .. lf + n PROVE g[i] = lw + i
  <2>1. CASE i <= lf BY <1>0, <2>1 DEF Way
  <2>2. CASE i > lf
    <3>1. PICK k \in 1 .. n : i = lf + k BY <2>2, i - lf \in 1 .. n
    <3>2. k \in 1 .. lb OBVIOUS
    <3>3. b[k] = lw + lf + 0 + k BY ONLY <3>2, Way(w, lw, f, lf, h, 0, b, lb, y) DEF Way
    <3> QED BY <1>0, <3>1, <3>3
  <2> QED BY <2>1, <2>2
<1>2. ASSUME NEW i \in 1 .. lb - n PROVE d[i] = lw + (lf + n) + 0 + i
  <2>1. n + i \in 1 .. lb OBVIOUS
  <2>2. b[n + i] = lw + lf + 0 + (n + i) BY ONLY <2>1, Way(w, lw, f, lf, h, 0, b, lb, y) DEF Way
  <2> QED BY <1>0, <2>2
<1>3. y = lw + (lf + n) + 0 + (lb - n) BY DEF Way
<1>4. \A i \in 1 .. lw : w[i] = i BY DEF Way
<1> QED BY ONLY <1>1, <1>2, <1>3, <1>4 DEF Way

(* From entries to sequences.                                              *)
LEMMA WayIs ==
  ASSUME NEW w \in Seq(Nat), NEW f \in Seq(Nat), NEW g \in Seq(Nat), NEW b \in Seq(Nat), NEW h, NEW y,
         Len(g) \in {0, 1}, Len(g) = 1 => g[1] = h,
         Way(w, Len(w), f, Len(f), h, Len(g), b, Len(b), y)
  PROVE  w \o f \o g \o b = [i \in 1 .. y |-> i]
<1>1. PICK lw \in Nat, lf \in Nat, lg \in {0, 1}, lb \in Nat :
        lw = Len(w) /\ lf = Len(f) /\ lg = Len(g) /\ lb = Len(b)
  OBVIOUS
<1>2. PICK u \in Seq(Nat) : /\ u = w \o f /\ Len(u) = lw + lf
                            /\ \A i \in 1 .. lw : u[i] = w[i]
                            /\ \A i \in 1 .. lf : u[lw + i] = f[i]
  <2>1. /\ w \o f \in Seq(Nat) /\ Len(w \o f) = lw + lf
        /\ \A i \in 1 .. lw : (w \o f)[i] = w[i]
        /\ \A i \in 1 .. lf : (w \o f)[lw + i] = f[i]
    BY ONLY w \in Seq(Nat), f \in Seq(Nat), <1>1, CatIs
  <2> QED BY ONLY <2>1
<1>3. PICK v \in Seq(Nat) : /\ v = u \o g /\ Len(v) = lw + lf + lg
                            /\ \A i \in 1 .. lw + lf : v[i] = u[i]
                            /\ \A i \in 1 .. lg : v[lw + lf + i] = g[i]
  <2>1. /\ u \o g \in Seq(Nat) /\ Len(u \o g) = lw + lf + lg
        /\ \A i \in 1 .. lw + lf : (u \o g)[i] = u[i]
        /\ \A i \in 1 .. lg : (u \o g)[lw + lf + i] = g[i]
    BY ONLY u \in Seq(Nat), g \in Seq(Nat), <1>1, <1>2, CatIs
  <2> QED BY ONLY <2>1
<1>4. PICK z \in Seq(Nat) : /\ z = v \o b /\ Len(z) = lw + lf + lg + lb
                            /\ \A i \in 1 .. lw + lf + lg : z[i] = v[i]
                            /\ \A i \in 1 .. lb : z[lw + lf + lg + i] = b[i]
  <2>1. /\ v \o b \in Seq(Nat) /\ Len(v \o b) = lw + lf + lg + lb
        /\ \A i \in 1 .. lw + lf + lg : (v \o b)[i] = v[i]
        /\ \A i \in 1 .. lb : (v \o b)[lw + lf + lg + i] = b[i]
    <3>1. /\ v \o b \in Seq(Nat) /\ Len(v \o b) = Len(v) + Len(b)
          /\ \A i \in 1 .. Len(v) : (v \o b)[i] = v[i]
          /\ \A i \in 1 .. Len(b) : (v \o b)[Len(v) + i] = b[i]
      BY ONLY v \in Seq(Nat), b \in Seq(Nat), CatIs
    <3>2. Len(v) = lw + lf + lg /\ Len(b) = lb BY ONLY <1>1, <1>3
    <3> QED BY ONLY <3>1, <3>2
  <2> QED BY ONLY <2>1
<1>5. /\ \A i \in 1 .. lw : w[i] = i
      /\ \A i \in 1 .. lf : f[i] = lw + i
      /\ lg = 1 => g[1] = lw + lf + 1
      /\ \A i \in 1 .. lb : b[i] = lw + lf + lg + i
      /\ y = lw + lf + lg + lb
  BY <1>1 DEF Way
<1>6. ASSUME NEW i \in 1 .. lw + lf PROVE u[i] = i
  <2>1. CASE i <= lw BY ONLY lw \in Nat, lf \in Nat, i \in 1 .. lw + lf, <1>2, <1>5, <2>1
  <2>2. CASE i > lw
    <3>1. PICK k \in 1 .. lf : i = lw + k BY <2>2, i - lw \in 1 .. lf
    <3> QED BY ONLY <1>2, <1>5, <3>1
  <2> QED BY <2>1, <2>2
<1>7. ASSUME NEW i \in 1 .. lw + lf + lg PROVE v[i] = i
  <2>1. CASE i <= lw + lf
    <3>1. i \in 1 .. lw + lf BY <2>1
    <3> QED BY ONLY <1>3, <1>6, <3>1
  <2>2. CASE i > lw + lf
    <3>1. lg = 1 /\ i = lw + lf + 1 /\ 1 \in 1 .. lg BY <2>2
    <3>2. v[lw + lf + 1] = g[1] BY ONLY <1>3, <3>1
    <3> QED BY ONLY <1>5, <3>1, <3>2
  <2> QED BY <2>1, <2>2
<1>8. ASSUME NEW i \in 1 .. lw + lf + lg + lb PROVE z[i] = i
  <2>1. CASE i <= lw + lf + lg
    <3>1. i \in 1 .. lw + lf + lg BY <2>1
    <3> QED BY ONLY <1>4, <1>7, <3>1
  <2>2. CASE i > lw + lf + lg
    <3>1. PICK k \in 1 .. lb : i = lw + lf + lg + k BY <2>2, i - (lw + lf + lg) \in 1 .. lb
    <3> QED BY ONLY <1>4, <1>5, <3>1
  <2> QED BY <2>1, <2>2
<1>9. z \in [1 .. lw + lf + lg + lb -> Nat] BY ONLY <1>4, LenProperties
<1>10. z = [i \in 1 .. lw + lf + lg + lb |-> i] BY ONLY <1>8, <1>9
<1> QED BY ONLY <1>2, <1>3, <1>4, <1>5, <1>10
-----------------------------------------------------------------------------
(* The inductive invariant.  What the interrupt may find depends on where  *)
(* the writer is: it is armed only when the writer is out of write() or at *)
(* its end, so the two never take a byte from write_buffer at a time.      *)
Hand == IF pc = "put" THEN 1 ELSE 0

Turns ==
  /\ armed => busy /\ pc \in {"idle", "more"}
  /\ pending => armed /\ fifo = <<>>
  /\ pc \in {"queue", "busy"} => ~busy
  /\ pc \in {"test", "get", "put", "arm"} => busy
  /\ pc = "get" => wb # <<>>
  /\ last <= goal
  /\ pc = "queue" => goal + Len(wb) <= last + TxBuf
  /\ pc # "queue" => last = goal
  /\ ~busy /\ pc \in {"idle", "more"} => wb = <<>> /\ fifo = <<>>

Order == Way(wire, Len(wire), fifo, Len(fifo), held, Hand, wb, Len(wb), last)

TxInv == TypeOK /\ (Apart => Turns /\ Order)

LEMMA TxInvInit == ASSUME Init PROVE TxInv
<1>0. <<>> \in Seq(Nat) /\ Len(<<>>) = 0 OBVIOUS
<1>a. /\ wb \in Seq(Nat) /\ Len(wb) <= TxBuf /\ fifo \in Seq(Nat) /\ Len(fifo) <= FifoSize
      /\ wire \in Seq(Nat) /\ last \in Nat /\ goal \in Nat /\ held \in Nat
  BY <1>0, UartTxAssumption DEF Init, Junk
<1>b. /\ busy \in BOOLEAN /\ armed \in BOOLEAN /\ pending \in BOOLEAN
      /\ pc \in {"idle", "queue", "busy", "test", "get", "put", "arm", "more"}
      /\ waits \in BOOLEAN /\ most \in {TxBuf, Longest} /\ level \in BOOLEAN
  BY DEF Init
<1>1. TypeOK BY <1>a, <1>b DEF TypeOK
<1>2. Turns BY UartTxAssumption DEF Init, Turns
<1>4. Order BY <1>0 DEF Init, Order, Way, Hand
<1> QED BY <1>1, <1>2, <1>4 DEF TxInv

(* The sequences after a step that moves bytes, as new sequences.          *)
LEMMA PutIs ==
  ASSUME TypeOK, Put
  PROVE  /\ wb' \in Seq(Nat) /\ Len(wb') = Len(wb) + 1 /\ last' = last + 1
         /\ wb'[Len(wb) + 1] = last + 1 /\ \A i \in 1 .. Len(wb) : wb'[i] = wb[i]
<1>1. wb \in Seq(Nat) /\ last + 1 \in Nat BY DEF TypeOK
<1>2. wb' = Append(wb, last + 1) /\ last' = last + 1 BY DEF Put
<1> QED BY ONLY <1>1, <1>2, AppendIs

LEMMA GetIs ==
  ASSUME TypeOK, wb # <<>>, wb' = Tail(wb), held' = Head(wb)
  PROVE  /\ wb' \in Seq(Nat) /\ Len(wb') = Len(wb) - 1 /\ Len(wb) \in Nat \ {0}
         /\ held' = wb[1] /\ wb[1] \in Nat /\ \A i \in 1 .. Len(wb) - 1 : wb'[i] = wb[i + 1]
<1>1. wb \in Seq(Nat) BY DEF TypeOK
<1> QED BY ONLY <1>1, wb # <<>>, wb' = Tail(wb), held' = Head(wb), TailIs

LEMMA SendIs ==
  ASSUME TypeOK, fifo' = Append(fifo, held)
  PROVE  /\ fifo' \in Seq(Nat) /\ Len(fifo') = Len(fifo) + 1
         /\ fifo'[Len(fifo) + 1] = held /\ \A i \in 1 .. Len(fifo) : fifo'[i] = fifo[i]
<1>1. fifo \in Seq(Nat) /\ held \in Nat BY DEF TypeOK
<1> QED BY ONLY <1>1, fifo' = Append(fifo, held), AppendIs

LEMMA ShiftIs ==
  ASSUME TypeOK, Shift
  PROVE  /\ fifo' \in Seq(Nat) /\ Len(fifo') = Len(fifo) - 1 /\ Len(fifo) \in Nat \ {0}
         /\ \A i \in 1 .. Len(fifo) - 1 : fifo'[i] = fifo[i + 1]
         /\ wire' \in Seq(Nat) /\ Len(wire') = Len(wire) + 1
         /\ wire'[Len(wire) + 1] = fifo[1] /\ \A i \in 1 .. Len(wire) : wire'[i] = wire[i]
<1>1. wire \in Seq(Nat) /\ fifo \in Seq(Nat) BY DEF TypeOK
<1>2. fifo # <<>> /\ fifo' = Tail(fifo) /\ wire' = Append(wire, Head(fifo)) BY DEF Shift
<1>3. /\ fifo' \in Seq(Nat) /\ Len(fifo') = Len(fifo) - 1 /\ Len(fifo) \in Nat \ {0}
      /\ \A i \in 1 .. Len(fifo) - 1 : fifo'[i] = fifo[i + 1]
      /\ Head(fifo) = fifo[1] /\ fifo[1] \in Nat
  BY ONLY <1>1, <1>2, TailIs
<1>4. wire' = Append(wire, fifo[1]) BY <1>2, <1>3
<1>5. /\ wire' \in Seq(Nat) /\ Len(wire') = Len(wire) + 1
      /\ wire'[Len(wire) + 1] = fifo[1] /\ \A i \in 1 .. Len(wire) : wire'[i] = wire[i]
  BY ONLY <1>1, <1>3, <1>4, AppendIs
<1> QED BY <1>3, <1>5

LEMMA FillIs ==
  ASSUME TypeOK, FillInIrq
  PROVE  \E n \in 0 .. Len(wb) :
           /\ Len(fifo) + n <= FifoSize
           /\ fifo' \in Seq(Nat) /\ Len(fifo') = Len(fifo) + n
           /\ \A i \in 1 .. Len(fifo) : fifo'[i] = fifo[i]
           /\ \A i \in 1 .. n : fifo'[Len(fifo) + i] = wb[i]
           /\ wb' \in Seq(Nat) /\ Len(wb') = Len(wb) - n
           /\ \A i \in 1 .. Len(wb) - n : wb'[i] = wb[n + i]
<1>1. /\ wb \in Seq(Nat) /\ fifo \in Seq(Nat) /\ Len(fifo) <= FifoSize /\ Len(fifo) \in Nat
      /\ Len(wb) \in Nat /\ FifoSize \in Nat
  BY UartTxAssumption DEF TypeOK
<1>2. FifoSize - Len(fifo) \in Nat BY <1>1
<1>3. PICK n : n = Min({FifoSize - Len(fifo), Len(wb)}) OBVIOUS
<1>4. n \in Nat /\ n <= FifoSize - Len(fifo) /\ n <= Len(wb) BY ONLY <1>1, <1>2, <1>3, MinIs
<1>5. n \in 0 .. Len(wb) /\ Len(fifo) + n <= FifoSize BY <1>1, <1>4
<1>6. fifo' = fifo \o SubSeq(wb, 1, n) /\ wb' = SubSeq(wb, n + 1, Len(wb)) BY <1>3 DEF FillInIrq
<1>7. /\ SubSeq(wb, 1, n) \in Seq(Nat) /\ Len(SubSeq(wb, 1, n)) = n
      /\ \A i \in 1 .. n : SubSeq(wb, 1, n)[i] = wb[i]
      /\ wb' \in Seq(Nat) /\ Len(wb') = Len(wb) - n
      /\ \A i \in 1 .. Len(wb) - n : wb'[i] = wb[n + i]
  <2>1. wb \in Seq(Nat) /\ n \in 0 .. Len(wb) BY <1>1, <1>5
  <2>2. /\ SubSeq(wb, 1, n) \in Seq(Nat) /\ Len(SubSeq(wb, 1, n)) = n
        /\ \A i \in 1 .. n : SubSeq(wb, 1, n)[i] = wb[i]
    BY ONLY <2>1, CutIs
  <2>3. PICK r : r = SubSeq(wb, n + 1, Len(wb)) OBVIOUS
  <2>4. /\ r \in Seq(Nat) /\ Len(r) = Len(wb) - n
        /\ \A i \in 1 .. Len(wb) - n : r[i] = wb[n + i]
    BY ONLY <2>1, <2>3, CutIs
  <2> QED BY ONLY <1>6, <2>2, <2>3, <2>4
<1>8. PICK m \in Seq(Nat) : /\ m = SubSeq(wb, 1, n) /\ Len(m) = n /\ \A i \in 1 .. n : m[i] = wb[i]
  BY ONLY <1>7
<1>9. /\ fifo' \in Seq(Nat) /\ Len(fifo') = Len(fifo) + Len(m)
      /\ \A i \in 1 .. Len(fifo) : fifo'[i] = fifo[i]
      /\ \A i \in 1 .. Len(m) : fifo'[Len(fifo) + i] = m[i]
  BY ONLY <1>1, <1>6, <1>8, CatIs
<1> QED BY ONLY <1>5, <1>7, <1>8, <1>9
-----------------------------------------------------------------------------
(* One step: the types first.                                              *)
LEMMA TypeNext ==
  ASSUME TypeOK, Next
  PROVE  TypeOK'
<1>a. TxBuf \in Nat \ {0} /\ FifoSize \in Nat \ {0} BY UartTxAssumption
<1>b. /\ wb \in Seq(Nat) /\ Len(wb) <= TxBuf /\ fifo \in Seq(Nat) /\ Len(fifo) <= FifoSize
      /\ wire \in Seq(Nat) /\ last \in Nat /\ goal \in Nat /\ held \in Nat
      /\ Len(wb) \in Nat /\ Len(fifo) \in Nat
  BY DEF TypeOK
<1>c. waits' \in BOOLEAN /\ most' \in {TxBuf, Longest} /\ level' \in BOOLEAN BY Zenon DEF TypeOK, Next, fixed
<1>d. TypeOK' <=> /\ wb' \in Seq(Nat) /\ Len(wb') <= TxBuf
                  /\ fifo' \in Seq(Nat) /\ Len(fifo') <= FifoSize
                  /\ wire' \in Seq(Nat) /\ last' \in Nat /\ goal' \in Nat /\ held' \in Nat
                  /\ busy' \in BOOLEAN /\ armed' \in BOOLEAN /\ pending' \in BOOLEAN
                  /\ pc' \in {"idle", "queue", "busy", "test", "get", "put", "arm", "more"}
  BY <1>c DEF TypeOK, Longest
<1>e. busy \in BOOLEAN /\ armed \in BOOLEAN /\ pending \in BOOLEAN BY DEF TypeOK
<1>f. pc \in {"idle", "queue", "busy", "test", "get", "put", "arm", "more"} BY DEF TypeOK
<1>1. CASE WriteEnter
  <2>a. most \in Nat BY <1>a DEF TypeOK, Longest
  <2>b. PICK n \in 1 .. most : goal' = last + n BY <1>1 DEF WriteEnter
  <2>1. goal' \in Nat BY ONLY <1>b, <2>a, <2>b
  <2> QED BY <1>1, <1>b, <1>d, <1>e, <2>1 DEF WriteEnter, hw
<1>2. CASE Queue
  <2>1. CASE last < goal /\ Room
    <3>1. Put /\ UNCHANGED <<pc, busy, goal, held, fifo, wire, armed, pending>> BY <1>2, <2>1 DEF Queue, hw
    <3>2. Len(wb') <= TxBuf BY <1>a, <1>b, <2>1, <3>1, PutIs DEF Room
    <3> QED BY <1>b, <1>d, <1>e, <1>f, <3>1, <3>2, PutIs
  <2>2. CASE ~(last < goal /\ Room)
    <3>1. pc' = "busy" /\ UNCHANGED <<wb, last, busy, goal, held, fifo, wire, armed, pending>>
      BY <1>2, <2>2 DEF Queue, hw
    <3> QED BY <1>b, <1>d, <1>e, <3>1
  <2> QED BY <2>1, <2>2
<1>3. CASE SetBusy BY <1>3, <1>b, <1>d, <1>e DEF SetBusy, hw
<1>4. CASE Feed
  <2>1. Put /\ pc' = "test" /\ Room /\ UNCHANGED <<busy, goal, held, fifo, wire, armed, pending>>
    BY <1>4 DEF Feed, hw
  <2>2. Len(wb') <= TxBuf BY <1>a, <1>b, <2>1, PutIs DEF Room
  <2> QED BY <1>b, <1>d, <1>e, <2>1, <2>2, PutIs
<1>5. CASE WriteReturn BY <1>5, <1>b, <1>d, <1>e DEF WriteReturn, hw
<1>6. CASE FillTest BY <1>6, <1>b, <1>d, <1>e DEF FillTest, hw
<1>7. CASE FillGet
  <2>1. pc' = "put" /\ UNCHANGED <<busy, last, goal, fifo, wire, armed, pending>> BY <1>7 DEF FillGet, hw
  <2>2. CASE wb = <<>>
    <3>1. UNCHANGED wb /\ held' \in Nat BY <1>7, <2>2 DEF FillGet, Junk
    <3> QED BY <1>b, <1>d, <1>e, <2>1, <3>1
  <2>3. CASE wb # <<>>
    <3>1. wb' = Tail(wb) /\ held' = Head(wb) BY <1>7, <2>3 DEF FillGet
    <3>2. wb' \in Seq(Nat) /\ held' \in Nat /\ Len(wb') <= TxBuf BY <1>a, <1>b, <2>3, <3>1, GetIs
    <3> QED BY <1>b, <1>d, <1>e, <2>1, <3>2
  <2> QED BY <2>2, <2>3
<1>8. CASE FillPut
  <2>1. /\ pc' = "test" /\ fifo' = Append(fifo, held) /\ Len(fifo) < FifoSize
        /\ UNCHANGED <<wb, wire, busy, armed, pending, last, goal, held>>
    BY <1>8 DEF FillPut, Writable
  <2>2. fifo' \in Seq(Nat) /\ Len(fifo') <= FifoSize BY <1>a, <1>b, <2>1, SendIs
  <2> QED BY <1>b, <1>d, <1>e, <2>1, <2>2
<1>9. CASE FillArm
  <2>1. armed' \in BOOLEAN BY Zenon, <1>9, <1>e DEF FillArm, Arms
  <2> QED BY <1>9, <1>b, <1>d, <1>e, <2>1 DEF FillArm
<1>10. CASE Reinit
  <2>1. <<>> \in Seq(Nat) /\ Len(<<>>) = 0 OBVIOUS
  <2>2. wb' \in Seq(Nat) /\ fifo' \in Seq(Nat) /\ wire' \in Seq(Nat) /\ Len(wb') = 0 /\ Len(fifo') = 0
    BY <1>10, <2>1 DEF Reinit
  <2>3. last' \in Nat /\ goal' \in Nat /\ held' \in Nat BY <1>10 DEF Reinit, Junk
  <2>4. busy' \in BOOLEAN /\ armed' \in BOOLEAN /\ pending' \in BOOLEAN /\ UNCHANGED pc BY <1>10 DEF Reinit
  <2> QED BY ONLY <1>a, <1>d, <1>f, <2>2, <2>3, <2>4
<1>11. CASE Shift
  <2>1. pending' \in BOOLEAN BY Zenon, <1>11, <1>e DEF Shift
  <2>2. UNCHANGED <<wb, busy, armed, pc, last, goal, held>> BY <1>11 DEF Shift
  <2>3. fifo' \in Seq(Nat) /\ wire' \in Seq(Nat) /\ Len(fifo') <= FifoSize BY <1>11, <1>a, <1>b, ShiftIs
  <2> QED BY <1>b, <1>d, <1>e, <1>f, <2>1, <2>2, <2>3
<1>12. CASE TxIrq
  <2>1. pending' = FALSE /\ UNCHANGED <<wire, pc, last, goal, held>> BY <1>12 DEF TxIrq
  <2>2. CASE Finished
    <3>1. busy' = FALSE /\ armed' = FALSE /\ UNCHANGED <<wb, fifo>> BY <1>12, <2>2 DEF TxIrq
    <3> QED BY <1>b, <1>d, <1>f, <2>1, <3>1
  <2>3. CASE ~Finished
    <3>1. FillInIrq /\ UNCHANGED busy BY <1>12, <2>3 DEF TxIrq
    <3>2. armed' \in BOOLEAN BY Zenon, <1>e, <3>1 DEF FillInIrq, Arms
    <3>3. PICK n \in 0 .. Len(wb) : /\ Len(fifo) + n <= FifoSize
                                    /\ fifo' \in Seq(Nat) /\ Len(fifo') = Len(fifo) + n
                                    /\ wb' \in Seq(Nat) /\ Len(wb') = Len(wb) - n
      BY <3>1, FillIs
    <3>4. Len(wb') <= TxBuf /\ Len(fifo') <= FifoSize BY ONLY <1>a, <1>b, <3>3
    <3> QED BY ONLY <1>b, <1>d, <1>e, <1>f, <2>1, <3>1, <3>2, <3>3, <3>4
  <2> QED BY <2>2, <2>3
<1> QED BY <1>1, <1>2, <1>3, <1>4, <1>5, <1>6, <1>7, <1>8, <1>9, <1>10, <1>11, <1>12
        DEF Next, Step, Thread, Write, Fill
-----------------------------------------------------------------------------
(* Whose turn it is.                                                       *)
LEMMA TurnsNext ==
  ASSUME TypeOK, Apart, Turns, Next
  PROVE  Turns'
<1>a. TxBuf \in Nat \ {0} /\ FifoSize \in Nat \ {0} BY UartTxAssumption
<1>b. /\ wb \in Seq(Nat) /\ Len(wb) <= TxBuf /\ last \in Nat /\ goal \in Nat /\ Len(wb) \in Nat
      /\ most \in Nat
  BY <1>a DEF TypeOK, Longest
<1>1. CASE WriteEnter
  <2>1. PICK n \in 1 .. most : goal' = last + n BY <1>1 DEF WriteEnter
  <2>2. ~busy /\ wb = <<>> /\ ~armed /\ ~pending BY <1>1 DEF WriteEnter, Apart, Turns
  <2>3. last <= goal' /\ goal' + 0 <= last + TxBuf BY <1>a, <1>b, <2>1 DEF Apart
  <2>4. Len(wb) = 0 BY <2>2
  <2>5. pc' = "queue" /\ UNCHANGED <<wb, busy, last, held, fifo, wire, armed, pending>>
    BY <1>1 DEF WriteEnter, hw
  <2> QED BY ONLY <2>2, <2>3, <2>4, <2>5 DEF Turns
<1>2. CASE Queue
  <2>1. CASE last < goal /\ Room
    <3>1. Put /\ pc = "queue" /\ UNCHANGED <<pc, busy, goal, held, fifo, wire, armed, pending>>
      BY <1>2, <2>1 DEF Queue, hw
    <3>2. last' <= goal' /\ goal' + Len(wb') <= last' + TxBuf
      BY <1>a, <1>b, <2>1, <3>1, PutIs DEF Turns
    <3> QED BY ONLY Turns, <3>1, <3>2 DEF Turns
  <2>2. CASE ~(last < goal /\ Room)
    <3>1. pc = "queue" /\ pc' = "busy" /\ UNCHANGED <<wb, last, busy, goal, held, fifo, wire, armed, pending>>
      BY <1>2, <2>2 DEF Queue, hw
    <3>2. last = goal BY <1>a, <1>b, <2>2, <3>1 DEF Turns, Room
    <3> QED BY ONLY Turns, <3>1, <3>2 DEF Turns
  <2> QED BY <2>1, <2>2
<1>3. CASE SetBusy
  <2>1. /\ pc = "busy" /\ busy' /\ pc' = "test"
        /\ UNCHANGED <<wb, last, goal, held, fifo, wire, armed, pending>>
    BY <1>3 DEF SetBusy, hw
  <2> QED BY ONLY Turns, <2>1 DEF Turns
<1>4. CASE Feed BY <1>4, <1>b DEF Feed, Turns
<1>5. CASE WriteReturn
  <2>1. pc = "more" /\ pc' = "idle" /\ UNCHANGED <<wb, busy, last, goal, held, fifo, wire, armed, pending>>
    BY <1>5 DEF WriteReturn, hw
  <2> QED BY ONLY Turns, <2>1 DEF Turns
<1>6. CASE FillTest
  <2>1. /\ pc = "test" /\ pc' \in {"get", "arm"} /\ (pc' = "get" => wb # <<>>)
        /\ UNCHANGED <<wb, busy, last, goal, held, fifo, wire, armed, pending>>
    BY <1>6 DEF FillTest, hw
  <2> QED BY ONLY Turns, <2>1 DEF Turns
<1>7. CASE FillGet
  <2>1. pc = "get" /\ pc' = "put" /\ UNCHANGED <<busy, last, goal, fifo, wire, armed, pending>>
    BY <1>7 DEF FillGet, hw
  <2> QED BY ONLY Turns, <2>1 DEF Turns
<1>8. CASE FillPut
  <2>1. /\ pc = "put" /\ pc' = "test" /\ UNCHANGED <<wb, wire, busy, armed, pending, last, goal, held>>
    BY <1>8 DEF FillPut
  <2> QED BY ONLY Turns, <2>1 DEF Turns
<1>9. CASE FillArm
  <2>1. pc = "arm" /\ pc' = "more" /\ UNCHANGED <<wb, fifo, wire, busy, pending, last, goal, held>>
    BY <1>9 DEF FillArm
  <2>2. busy /\ ~pending BY <2>1 DEF Turns
  <2> QED BY ONLY Turns, <2>1, <2>2 DEF Turns
<1>10. CASE Reinit
  <2>1. /\ pc = "idle" /\ wb' = <<>> /\ fifo' = <<>> /\ last' = 0 /\ goal' = 0 /\ UNCHANGED pc
        /\ ~busy' /\ ~armed' /\ ~pending'
    BY <1>10 DEF Reinit
  <2> QED BY ONLY <2>1 DEF Turns
<1>11. CASE Shift
  <2>1. UNCHANGED <<wb, busy, armed, pc, last, goal, held>> /\ fifo # <<>> /\ fifo' = Tail(fifo) BY <1>11 DEF Shift
  <2>2. pending' => armed /\ fifo' = <<>> BY <1>11 DEF Shift, Turns
  <2>3. busy \/ pc \notin {"idle", "more"} BY <2>1 DEF Turns
  <2> QED BY ONLY Turns, <2>1, <2>2, <2>3 DEF Turns
<1>12. CASE TxIrq
  <2>1. ~pending' /\ UNCHANGED <<wire, pc, last, goal, held>> BY <1>12 DEF TxIrq
  <2>2. armed /\ busy /\ fifo = <<>> /\ pc \in {"idle", "more"} BY <1>12 DEF TxIrq, Interrupts, Turns
  <2>3. CASE Finished
    <3>1. ~busy' /\ ~armed' /\ UNCHANGED <<wb, fifo>> BY <1>12, <2>3 DEF TxIrq
    <3> QED BY ONLY Turns, <2>1, <2>2, <2>3, <3>1 DEF Turns, Finished
  <2>4. CASE ~Finished
    <3>1. UNCHANGED busy BY <1>12, <2>4 DEF TxIrq
    <3> QED BY ONLY Turns, <2>1, <2>2, <3>1 DEF Turns
  <2> QED BY <2>3, <2>4
<1> QED BY <1>1, <1>2, <1>3, <1>4, <1>5, <1>6, <1>7, <1>8, <1>9, <1>10, <1>11, <1>12
        DEF Next, Step, Thread, Write, Fill

-----------------------------------------------------------------------------
(* The bytes on their way.                                                 *)
LEMMA OrderNext ==
  ASSUME TypeOK, Apart, Turns, Order, Next
  PROVE  Order'
<1>a. PICK lw \in Nat, lf \in Nat, lb \in Nat, lh \in {0, 1} :
        lw = Len(wire) /\ lf = Len(fifo) /\ lb = Len(wb) /\ lh = Hand
  BY DEF TypeOK, Hand
<1>b. Way(wire, lw, fifo, lf, held, lh, wb, lb, last) /\ last \in Nat BY <1>a DEF Order, TypeOK
<1>s. ASSUME UNCHANGED <<wb, fifo, wire, last>>, pc # "put", pc' # "put" PROVE Order'
  <2>1. lh = 0 /\ Hand' = 0 BY <1>a, <1>s DEF Hand
  <2>2. /\ Len(wb') = lb /\ Len(fifo') = lf /\ Len(wire') = lw /\ wb' = wb /\ fifo' = fifo
        /\ wire' = wire /\ last' = last
    BY <1>a, <1>s
  <2>3. Way(wire, lw, fifo, lf, held', 0, wb, lb, last) BY ONLY <1>b, <2>1 DEF Way
  <2> QED BY ONLY <2>1, <2>2, <2>3 DEF Order
<1>p. ASSUME Put, UNCHANGED <<fifo, wire, held>>, Hand' = Hand PROVE Order'
  <2>1. /\ Len(wb') = lb + 1 /\ last' = last + 1 /\ wb'[lb + 1] = last + 1
        /\ \A i \in 1 .. lb : wb'[i] = wb[i]
    BY <1>a, <1>p, PutIs
  <2>2. PICK d : d = wb' /\ d[lb + 1] = last + 1 /\ \A i \in 1 .. lb : d[i] = wb[i] BY ONLY <2>1
  <2>3. Way(wire, lw, fifo, lf, held, lh, d, lb + 1, last + 1) BY ONLY <1>b, <2>2, WayPut,
        lw \in Nat, lf \in Nat, lb \in Nat, lh \in {0, 1}
  <2>4. /\ Len(fifo') = lf /\ Len(wire') = lw /\ fifo' = fifo /\ wire' = wire /\ held' = held /\ Hand' = lh
    BY <1>a, <1>p
  <2> QED BY ONLY <2>1, <2>2, <2>3, <2>4 DEF Order
<1>1. CASE WriteEnter BY <1>1, <1>s DEF WriteEnter, hw
<1>2. CASE Queue
  <2>1. CASE last < goal /\ Room BY <1>2, <2>1, <1>p DEF Queue, hw, Hand
  <2>2. CASE ~(last < goal /\ Room) BY <1>2, <2>2, <1>s DEF Queue, hw
  <2> QED BY <2>1, <2>2
<1>3. CASE SetBusy BY <1>3, <1>s DEF SetBusy, hw
<1>4. CASE Feed BY <1>4, <1>p DEF Feed, hw, Hand
<1>5. CASE WriteReturn BY <1>5, <1>s DEF WriteReturn, hw
<1>6. CASE FillTest BY <1>6, <1>s DEF FillTest, hw
<1>7. CASE FillGet
  <2>1. pc = "get" /\ pc' = "put" /\ UNCHANGED <<last, fifo, wire>> BY <1>7 DEF FillGet, hw
  <2>2. wb # <<>> BY <2>1 DEF Turns
  <2>3. wb' = Tail(wb) /\ held' = Head(wb) BY <1>7, <2>2 DEF FillGet
  <2>4. /\ Len(wb') = lb - 1 /\ lb \in Nat \ {0} /\ held' = wb[1]
        /\ \A i \in 1 .. lb - 1 : wb'[i] = wb[i + 1]
    BY <1>a, <2>2, <2>3, GetIs
  <2>5. lh = 0 /\ Hand' = 1 BY <1>a, <2>1 DEF Hand
  <2>6. PICK d : d = wb' /\ \A i \in 1 .. lb - 1 : d[i] = wb[i + 1] BY ONLY <2>4
  <2>7. Way(wire, lw, fifo, lf, held, 0, wb, lb, last) BY <1>b, <2>5
  <2>8. Way(wire, lw, fifo, lf, wb[1], 1, d, lb - 1, last)
    BY ONLY <1>b, <2>4, <2>6, <2>7, WayGet, lw \in Nat, lf \in Nat
  <2>9. Len(fifo') = lf /\ Len(wire') = lw /\ fifo' = fifo /\ wire' = wire /\ last' = last BY <1>a, <2>1
  <2> QED BY ONLY <2>4, <2>5, <2>6, <2>8, <2>9 DEF Order
<1>8. CASE FillPut
  <2>1. pc = "put" /\ pc' = "test" /\ fifo' = Append(fifo, held) /\ UNCHANGED <<wb, wire, last, held>>
    BY <1>8 DEF FillPut
  <2>2. Len(fifo') = lf + 1 /\ fifo'[lf + 1] = held /\ \A i \in 1 .. lf : fifo'[i] = fifo[i]
    BY <1>a, <2>1, SendIs
  <2>3. lh = 1 /\ Hand' = 0 BY <1>a, <2>1 DEF Hand
  <2>4. PICK d : d = fifo' /\ d[lf + 1] = held /\ \A i \in 1 .. lf : d[i] = fifo[i] BY ONLY <2>2
  <2>5. Way(wire, lw, fifo, lf, held, 1, wb, lb, last) BY <1>b, <2>3
  <2>6. Way(wire, lw, d, lf + 1, held, 0, wb, lb, last)
    BY ONLY <1>b, <2>4, <2>5, WaySend, lw \in Nat, lf \in Nat, lb \in Nat
  <2>7. Len(wb') = lb /\ Len(wire') = lw /\ wb' = wb /\ wire' = wire /\ last' = last /\ held' = held BY <1>a, <2>1
  <2> QED BY ONLY <2>2, <2>3, <2>4, <2>6, <2>7 DEF Order
<1>9. CASE FillArm BY <1>9, <1>s DEF FillArm
<1>10. CASE Reinit
  <2>1. /\ wb' = <<>> /\ fifo' = <<>> /\ wire' = <<>> /\ last' = 0 /\ pc' # "put" BY <1>10 DEF Reinit
  <2>2. Len(<<>>) = 0 OBVIOUS
  <2> QED BY ONLY <2>1, <2>2 DEF Order, Way, Hand
<1>11. CASE Shift
  <2>1. UNCHANGED <<wb, pc, last, held>> BY <1>11 DEF Shift
  <2>2. /\ Len(fifo') = lf - 1 /\ lf \in Nat \ {0} /\ \A i \in 1 .. lf - 1 : fifo'[i] = fifo[i + 1]
        /\ Len(wire') = lw + 1 /\ wire'[lw + 1] = fifo[1] /\ \A i \in 1 .. lw : wire'[i] = wire[i]
    BY <1>a, <1>11, ShiftIs
  <2>3. PICK d, v : /\ d = fifo' /\ \A i \in 1 .. lf - 1 : d[i] = fifo[i + 1]
                    /\ v = wire' /\ v[lw + 1] = fifo[1] /\ \A i \in 1 .. lw : v[i] = wire[i]
    BY ONLY <2>2
  <2>4. Way(v, lw + 1, d, lf - 1, held, lh, wb, lb, last)
    <3>1. Sent(wire, lw, v, fifo, lf, d) BY ONLY <2>3 DEF Sent
    <3>2. lf \in Nat \ {0} BY ONLY <2>2
    <3>3. Way(wire, lw, fifo, lf, held, lh, wb, lb, last) BY ONLY <1>b
    <3>4. last \in Nat BY ONLY <1>b
    <3> QED BY ONLY <3>1, <3>2, <3>3, <3>4, WayShift, lw \in Nat, lb \in Nat, lh \in {0, 1}
  <2>5. Len(wb') = lb /\ wb' = wb /\ last' = last /\ held' = held /\ Hand' = lh BY <1>a, <2>1 DEF Hand
  <2> QED BY ONLY <2>2, <2>3, <2>4, <2>5 DEF Order
<1>12. CASE TxIrq
  <2>1. UNCHANGED <<wire, pc, last, held>> BY <1>12 DEF TxIrq
  <2>2. pc # "put" BY <1>12 DEF TxIrq, Interrupts, Turns
  <2>3. CASE Finished
    <3>1. UNCHANGED <<wb, fifo>> BY <1>12, <2>3 DEF TxIrq
    <3> QED BY <1>s, <2>1, <2>2, <3>1
  <2>4. CASE ~Finished
    <3>1. FillInIrq BY <1>12, <2>4 DEF TxIrq
    <3>2. PICK n \in 0 .. lb : /\ Len(fifo') = lf + n
                               /\ \A i \in 1 .. lf : fifo'[i] = fifo[i]
                               /\ \A i \in 1 .. n : fifo'[lf + i] = wb[i]
                               /\ Len(wb') = lb - n
                               /\ \A i \in 1 .. lb - n : wb'[i] = wb[n + i]
      BY <1>a, <3>1, FillIs
    <3>3. lh = 0 /\ Hand' = 0 BY <1>a, <2>1, <2>2 DEF Hand
    <3>4. PICK g, d : /\ g = fifo' /\ \A i \in 1 .. lf : g[i] = fifo[i]
                      /\ \A i \in 1 .. n : g[lf + i] = wb[i]
                      /\ d = wb' /\ \A i \in 1 .. lb - n : d[i] = wb[n + i]
      BY ONLY <3>2
    <3>5. Way(wire, lw, fifo, lf, held, 0, wb, lb, last) BY <1>b, <3>3
    <3>6. Way(wire, lw, g, lf + n, held, 0, d, lb - n, last)
      <4>1. Moved(fifo, lf, wb, lb, g, d, n) BY ONLY <3>4 DEF Moved
      <4>2. last \in Nat BY <1>b
      <4> QED BY ONLY <3>5, <4>1, <4>2, WayFill, lw \in Nat, lf \in Nat, lb \in Nat, n \in 0 .. lb
    <3>7. Len(wire') = lw /\ wire' = wire /\ last' = last /\ held' = held BY <1>a, <2>1
    <3> QED BY ONLY <3>2, <3>3, <3>4, <3>6, <3>7 DEF Order
  <2> QED BY <2>3, <2>4
<1> QED BY <1>1, <1>2, <1>3, <1>4, <1>5, <1>6, <1>7, <1>8, <1>9, <1>10, <1>11, <1>12
        DEF Next, Step, Thread, Write, Fill
-----------------------------------------------------------------------------
LEMMA TxInvNext ==
  ASSUME TxInv, [Next]_vars
  PROVE  TxInv'
<1>1. CASE Next
  <2>1. TypeOK' BY <1>1, TypeNext DEF TxInv
  <2>2. ASSUME Apart' PROVE Apart BY <1>1, <2>2 DEF Next, fixed, Apart
  <2>3. Apart' => Turns' /\ Order' BY <1>1, <2>2, TurnsNext, OrderNext DEF TxInv
  <2> QED BY <2>1, <2>3 DEF TxInv
<1>2. CASE UNCHANGED vars
  <2>1. UNCHANGED <<wb, fifo, wire, busy, armed, pending, pc, last, goal, held, waits, most, level>>
    BY <1>2 DEF vars, uartVars, fixed
  <2>2. TypeOK' BY <2>1 DEF TxInv, TypeOK, Longest
  <2>3. Apart' <=> Apart BY <2>1 DEF Apart
  <2>4. Turns' <=> Turns BY <2>1 DEF Turns
  <2>5. Order' <=> Order BY <2>1 DEF Order, Hand
  <2> QED BY <2>2, <2>3, <2>4, <2>5 DEF TxInv
<1> QED BY <1>1, <1>2

LEMMA TxInvInOrder ==
  ASSUME TxInv
  PROVE  InOrder
<1>0. TypeOK BY DEF TxInv
<1>1. ASSUME Apart, NEW g, g = IF pc = "put" THEN <<held>> ELSE <<>>
      PROVE  wire \o fifo \o g \o wb = [i \in 1 .. last |-> i]
  <2>1. wire \in Seq(Nat) /\ fifo \in Seq(Nat) /\ wb \in Seq(Nat) /\ held \in Nat BY <1>0 DEF TypeOK
  <2>2. /\ <<held>> \in Seq(Nat) /\ Len(<<held>>) = 1 /\ <<held>>[1] = held
        /\ <<>> \in Seq(Nat) /\ Len(<<>>) = 0
    BY <2>1
  <2>3. g \in Seq(Nat) /\ Len(g) = Hand /\ Hand \in {0, 1} /\ (Len(g) = 1 => g[1] = held)
    BY ONLY <1>1, <2>2 DEF Hand
  <2>4. Way(wire, Len(wire), fifo, Len(fifo), held, Len(g), wb, Len(wb), last)
    BY <1>1, <2>3 DEF TxInv, Order
  <2>5. Len(g) \in {0, 1} /\ (Len(g) = 1 => g[1] = held) BY ONLY <2>3
  <2>6. g \in Seq(Nat) BY ONLY <2>3
  <2> QED BY ONLY SMTT(60), <2>1, <2>4, <2>5, <2>6, WayIs
<1>2. Apart /\ pc = "idle" /\ ~busy => wb = <<>> /\ fifo = <<>> BY DEF TxInv, Turns
<1> QED BY <1>0, <1>1, <1>2 DEF InOrder

(* The bytes of a program that keeps its writes apart leave the pin in the *)
(* order of the write() calls, none lost, doubled or invented, and         *)
(* txdone() is true only when nothing is left to send; the buffers never   *)
(* overflow, whatever the program does: mp_machine_uart_write and          *)
(* uart_fill_tx_fifo, interrupted between any two of their steps.          *)
THEOREM InOrderAlways == Spec => []InOrder
<1>1. Init => TxInv BY TxInvInit
<1>2. TxInv /\ [Next]_vars => TxInv' BY TxInvNext
<1>3. TxInv => InOrder BY TxInvInOrder
<1> QED BY <1>1, <1>2, <1>3, PTL DEF Spec

-----------------------------------------------------------------------------
(* The refinement of ByteChannel.                                          *)

Quiet == pc = "idle" /\ ~busy

LEMMA OrderLengths ==
  ASSUME TxInv, Apart
  PROVE  /\ Len(wire) \in Nat /\ Len(fifo) \in Nat /\ Len(wb) \in Nat
         /\ last = Len(wire) + Len(fifo) + Hand + Len(wb)
         /\ Quiet => Len(wire) = last
         /\ fifo # <<>> => Len(fifo) > 0 /\ fifo[1] = Len(wire) + 1
         /\ Turns
<1>1. wire \in Seq(Nat) /\ fifo \in Seq(Nat) /\ wb \in Seq(Nat) /\ Turns BY DEF TxInv, TypeOK
<1>2. Way(wire, Len(wire), fifo, Len(fifo), held, Hand, wb, Len(wb), last) BY DEF TxInv, Order
<1>3. last = Len(wire) + Len(fifo) + Hand + Len(wb) BY <1>2 DEF Way
<1>4. ASSUME Quiet PROVE Len(wire) = last
  <2>1. Len(wb) = 0 /\ Len(fifo) = 0 /\ Hand = 0 BY <1>1, <1>4 DEF Quiet, Turns, Hand
  <2>2. Len(wire) \in Nat BY <1>1
  <2> QED BY <1>3, <2>1, <2>2
<1>5. ASSUME fifo # <<>> PROVE Len(fifo) > 0 /\ fifo[1] = Len(wire) + 1
  <2>1. Len(fifo) \in Nat \ {0} BY <1>1, <1>5, EmptySeq
  <2> QED BY <1>2, <2>1 DEF Way
<1> QED BY <1>1, <1>3, <1>4, <1>5

(* Each step of the code is a step of the channel, or changes nothing of   *)
(* what the channel shows.                                                 *)
LEMMA ChannelStep ==
  ASSUME TxInv, TxInv', Apart, Apart', Next
  PROVE  \/ UNCHANGED <<last, wire, Quiet>>
         \/ Quiet /\ ~Quiet' /\ UNCHANGED <<last, wire>>
         \/ ~Quiet /\ ~Quiet' /\ last' = last + 1 /\ UNCHANGED wire
         \/ ~Quiet /\ ~Quiet' /\ Len(wire) < last /\ wire' = Append(wire, Len(wire) + 1) /\ UNCHANGED last
         \/ ~Quiet /\ Quiet' /\ Len(wire) = last /\ UNCHANGED <<last, wire>>
         \/ last' = 0 /\ wire' = <<>> /\ Quiet'
<1>0. /\ Len(wire) \in Nat /\ Len(fifo) \in Nat /\ Len(wb) \in Nat /\ Hand \in {0, 1}
      /\ last = Len(wire) + Len(fifo) + Hand + Len(wb)
      /\ fifo # <<>> => Len(fifo) > 0 /\ fifo[1] = Len(wire) + 1
      /\ Turns
  BY OrderLengths DEF Hand
<1>p. wb = <<>> /\ fifo = <<>> /\ pc \in {"idle", "more"} => Len(wire) = last BY <1>0 DEF Hand
<1>t. TypeOK BY DEF TxInv
<1>1. CASE WriteEnter BY <1>1 DEF WriteEnter, hw, Quiet
<1>2. CASE Queue BY <1>2 DEF Queue, Put, hw, Quiet
<1>3. CASE SetBusy BY <1>3 DEF SetBusy, hw, Quiet
<1>4. CASE Feed BY <1>4 DEF Feed, Put, hw, Quiet
<1>5. CASE WriteReturn
  <2>1. pc = "more" /\ pc' = "idle" /\ UNCHANGED <<last, wire, busy>> BY <1>5 DEF WriteReturn, hw
  <2>2. ~busy => wb = <<>> /\ fifo = <<>> BY <1>0, <2>1 DEF Turns
  <2> QED BY <1>p, <2>1, <2>2 DEF Quiet
<1>6. CASE Fill BY <1>6 DEF Fill, FillTest, FillGet, FillPut, FillArm, hw, Quiet
<1>7. CASE Reinit BY <1>7 DEF Reinit, Quiet
<1>8. CASE Shift
  <2>1. /\ fifo # <<>> /\ wire' = Append(wire, Head(fifo)) /\ UNCHANGED <<last, pc, busy>>
    BY <1>8 DEF Shift
  <2>2. Head(fifo) = Len(wire) + 1 BY <1>0, <1>t, <2>1, TailIs DEF TypeOK
  <2>3. Len(wire) < last BY <1>0, <2>1
  <2>4. ~Quiet BY <1>0, <2>1 DEF Quiet, Turns
  <2> QED BY <2>1, <2>2, <2>3, <2>4 DEF Quiet
<1>9. CASE TxIrq
  <2>1. UNCHANGED <<last, wire, pc>> /\ busy /\ fifo = <<>> /\ pc \in {"idle", "more"}
    BY <1>0, <1>9 DEF TxIrq, Interrupts, Turns
  <2>2. busy' = busy \/ (~busy' /\ wb = <<>>) BY <1>9 DEF TxIrq, Finished
  <2> QED BY <1>p, <2>1, <2>2 DEF Quiet
<1> QED BY <1>1, <1>2, <1>3, <1>4, <1>5, <1>6, <1>7, <1>8, <1>9 DEF Next, Step, Thread, Write

(* For a program that keeps its writes apart the UART is a channel: each   *)
(* byte comes out once and in its place, and txdone() is true exactly from *)
(* the last byte to the next write() (mp_machine_uart_write,               *)
(* machine_uart_irq_handler, mp_machine_uart_txdone).                      *)
THEOREM ImplementsChannelAlways == Spec => ImplementsChannel
<1>1. Init => Channel!ChannelInit BY DEF Init, Channel!ChannelInit, Apart, Quiet
<1>2. TxInv /\ TxInv' /\ [Next]_vars => [Channel!ChannelNext]_(Channel!channel)
  <2> SUFFICES ASSUME TxInv, TxInv', [Next]_vars PROVE [Channel!ChannelNext]_(Channel!channel)
    OBVIOUS
  <2>1. CASE UNCHANGED vars
    BY <2>1 DEF vars, uartVars, fixed, Channel!channel, Apart
  <2>2. CASE Next
    <3>1. UNCHANGED Apart BY <2>2 DEF Next, fixed, Apart
    <3>2. CASE ~Apart BY <3>1, <3>2 DEF Channel!ChannelNext
    <3>3. CASE Apart
      <4>1. \/ UNCHANGED <<last, wire, Quiet>>
            \/ Quiet /\ ~Quiet' /\ UNCHANGED <<last, wire>>
            \/ ~Quiet /\ ~Quiet' /\ last' = last + 1 /\ UNCHANGED wire
            \/ ~Quiet /\ ~Quiet' /\ Len(wire) < last /\ wire' = Append(wire, Len(wire) + 1) /\ UNCHANGED last
            \/ ~Quiet /\ Quiet' /\ Len(wire) = last /\ UNCHANGED <<last, wire>>
            \/ last' = 0 /\ wire' = <<>> /\ Quiet'
        BY <2>2, <3>1, <3>3, ChannelStep
      <4> QED
        BY <3>1, <4>1 DEF Quiet, Channel!ChannelNext, Channel!channel, Channel!Begin, Channel!Accept,
                          Channel!Deliver, Channel!Settle, Channel!Renew
    <3> QED BY <3>2, <3>3
  <2> QED BY <2>1, <2>2
<1>3. Init => TxInv BY TxInvInit
<1>4. TxInv /\ [Next]_vars => TxInv' BY TxInvNext
<1> QED BY <1>1, <1>2, <1>3, <1>4, PTL DEF Spec, ImplementsChannel, Channel!ChannelSpec
=============================================================================
