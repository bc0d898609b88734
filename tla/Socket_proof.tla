---------------------------- MODULE Socket_proof ----------------------------
(***************************************************************************)
(* Every descriptor belongs to the object that has it, connect() puts the  *)
(* blocking mode back, and the list of callbacks holds the registered      *)
(* sockets, for every number of sockets, of threads and of descriptors.    *)
(***************************************************************************)
EXTENDS Socket, SocketEvents, WellFoundedInduction, FiniteSetTheorems, TLAPS

(* A least number with a property, in place of induction.                  *)
LEMMA Least ==
  ASSUME NEW T \in SUBSET Nat, T # {}
  PROVE  \E m \in T : \A k \in T : m <= k
<1> DEFINE R == OpToRel(<, Nat)
<1>1. IsWellFoundedOn(R, Nat) BY NatLessThanWellFounded
<1>2. \A m, n \in Nat : (<<n, m>> \in R) <=> n < m BY DEF OpToRel
<1> HIDE DEF R
<1>3. PICK m \in T : \A n \in T : ~(<<n, m>> \in R) BY <1>1, WFMin
<1>4. ASSUME NEW n \in T PROVE m <= n
  <2>1. m \in Nat /\ n \in Nat OBVIOUS
  <2>2. ~(<<n, m>> \in R) BY <1>3, <1>4
  <2>3. ~(n < m) BY <1>2, <2>1, <2>2, Zenon
  <2> QED BY <2>1, <2>3
<1> QED BY <1>4

LEMMA MinIn ==
  ASSUME NEW T \in SUBSET Nat, T # {}
  PROVE  Min(T) \in T
<1>1. PICK m \in T : \A k \in T : m <= k BY Least
<1> QED BY <1>1 DEF Min

LEMMA FdsAreNumbers == Fds \subseteq Nat /\ None \notin Fds /\ 0 \in Fds
BY SocketAssumption DEF Fds

LEMMA FreshIsNew ==
  ASSUME NEW o, life \subseteq Objs, Fresh(o)
  PROVE  o \in Objs /\ o \notin life
<1>1. \E b \in Objs : b \notin life BY DEF Fresh
<1> QED BY <1>1, Zenon DEF Fresh

-----------------------------------------------------------------------------
(* The inductive invariant.                                                *)

(* Descriptors whose owner the properties speak of.                        *)
Sure == Fds \ Doubtful

HasFd(o) == o \in life /\ sfd[o] \in Sure

(* An accept() that lwIP has given a descriptor to.                        *)
Got(t) == at[t] = "accepted" /\ res[t] = "ok"

(* The descriptor of an object was opened for it.                          *)
OwnedByHolder == \A o \in life : sfd[o] \in Sure => owner[sfd[o]] = o

(* An open descriptor has an object, or a single accept() about to make    *)
(* one.                                                                    *)
NoneLost ==
  env.fault # "memory" =>
    \A f \in Sure : \/ owner[f] = None \/ (\E o \in life : sfd[o] = f)
                    \/ owner[f] = "accepting" /\ \E t \in Threads : Got(t) /\ lfd[t] = f
OneAccept ==
  /\ \A t \in Threads : Got(t) => lfd[t] \in Fds /\ (lfd[t] \in Sure => owner[lfd[t]] = "accepting")
  /\ \A t, u \in Threads : Got(t) /\ Got(u) /\ t # u /\ lfd[t] = lfd[u] => lfd[t] \notin Sure

(* A call keeps its object alive, and the descriptor it captured is that   *)
(* of the object unless another thread may close it.                       *)
InCall ==
  \A t \in Threads :
    /\ on[t] = None <=> at[t] = "idle"
    /\ on[t] # None => on[t] \in life
Captured ==
  env.sharing # "close" =>
    \A t \in Threads : at[t] # "idle" /\ ~Got(t) => lfd[t] = sfd[on[t]]
NoneForeign == env.sharing # "close" => foreign \subseteq Doubtful

(* Only the socket of an object with timeout 0 or in connect() does not    *)
(* block, and connect() does that to sockets with retries only, unless     *)
(* another thread sets the timeout meanwhile.                              *)
ClosedBlocks == \A f \in Sure : owner[f] \in {None, "accepting"} => ~nonblock[f]
Retrying(t) ==
  env.sharing # "timeout" /\ at[t] \in {"block", "connect", "restore"} => timeout[on[t]] # "zero"
ConnectRetries == \A t \in Threads : Retrying(t)

SkInv ==
  /\ SkTypeOK /\ OwnedByHolder /\ NoneLost /\ OneAccept /\ InCall /\ Captured /\ NoneForeign
  /\ ModeKept /\ ClosedBlocks /\ ConnectRetries

LEMMA SkInvInit == SkInit => SkInv
<1> SUFFICES ASSUME SkInit PROVE SkInv OBVIOUS
<1> USE SocketAssumption DEF SkInit
<1>1. SkTypeOK BY DEF SkTypeOK, Timeouts
<1>2. OwnedByHolder /\ ModeKept BY DEF OwnedByHolder, ModeKept
<1>3. NoneLost /\ ClosedBlocks BY DEF NoneLost, ClosedBlocks, Sure
<1>4. OneAccept /\ InCall /\ Captured /\ ConnectRetries
  BY DEF OneAccept, Got, InCall, Captured, ConnectRetries, Retrying
<1>5. NoneForeign BY DEF NoneForeign
<1> QED BY <1>1, <1>2, <1>3, <1>4, <1>5 DEF SkInv

-----------------------------------------------------------------------------
(* Steps of one thread.                                                    *)

LocalTypes ==
  /\ at \in [Threads -> Waits \cup Returned \cup {"idle"}] /\ on \in [Threads -> Objs \cup {None}]
  /\ lfd \in [Threads -> Fds \cup {None}] /\ tries \in [Threads -> 0 .. Polls]
  /\ res \in [Threads -> {"none", "ok", "eof", "again", "error"}]

(* What the calls do to the locals of thread t.                            *)
OthersStay(t) ==
  \A u \in Threads \ {t} :
    at'[u] = at[u] /\ on'[u] = on[u] /\ lfd'[u] = lfd[u] /\ res'[u] = res[u]

LEMMA LeaveIs ==
  ASSUME LocalTypes, NEW t \in Threads, Leave(t)
  PROVE  LocalTypes' /\ OthersStay(t) /\ at'[t] = "idle" /\ on'[t] = None /\ res'[t] = "none"
<1>1. None \in Objs \cup {None} /\ None \in Fds \cup {None} /\ 0 \in 0 .. Polls BY SocketAssumption
<1> QED BY <1>1 DEF LocalTypes, Leave, OthersStay

LEMMA WaitIs ==
  ASSUME LocalTypes, NEW t \in Threads, NEW w \in Waits, NEW o \in Objs, NEW i \in 0 .. Polls,
         sfd \in [Objs -> Fds \cup {None}], Wait(t, w, o, i)
  PROVE  /\ LocalTypes' /\ OthersStay(t)
         /\ at'[t] = w /\ on'[t] = o /\ lfd'[t] = sfd[o] /\ res'[t] = "none"
BY DEF LocalTypes, Wait, OthersStay

LEMMA BackIs ==
  ASSUME LocalTypes, NEW t \in Threads, NEW w \in Waits \cup Returned,
         NEW r \in {"none", "ok", "eof", "again", "error"}, Back(t, w, r)
  PROVE  /\ LocalTypes' /\ OthersStay(t)
         /\ at'[t] = w /\ on'[t] = on[t] /\ lfd'[t] = lfd[t] /\ res'[t] = r
BY DEF LocalTypes, Back, OthersStay

(* What a step may tell lwIP: descriptors that are in doubt at most.       *)
LEMMA NotWrong ==
  ASSUME SkInv, NEW o \in life
  PROVE  Wrong(o, sfd[o]) \subseteq Doubtful
BY DEF SkInv, OwnedByHolder, Sure, Wrong

(* The step of a thread that leaves the objects, the owners and the modes  *)
(* of the descriptors alone.                                               *)
NetTypes ==
  /\ state \in [Objs -> {"new", "connected", "peer_closed"}]
  /\ link \in [Fds -> {"none", "listen", "syn", "up", "refused"}]
  /\ rx \subseteq Fds /\ fin \in [Fds -> {"none", "sent", "told"}] /\ foreign \subseteq Fds

LEMMA LocalStep ==
  ASSUME SkInv, UNCHANGED <<life, held, sfd, timeout, owner, nonblock, env>>,
         NEW t \in Threads, LocalTypes', NetTypes', OthersStay(t), ~Got(t), ~Got(t)',
         at'[t] = "idle" <=> on'[t] = None,
         on'[t] # None => on'[t] \in life,
         at'[t] # "idle" => env.sharing = "close" \/ lfd'[t] = sfd[on'[t]],
         env.sharing = "close" \/ foreign' \subseteq Doubtful,
         at[t] \in {"connect", "restore"} => at'[t] \in {"connect", "restore"} /\ on'[t] = on[t],
         Retrying(t)'
  PROVE  SkInv'
<1>1. SkTypeOK' BY DEF SkInv, SkTypeOK, LocalTypes, NetTypes
<1>0. Doubtful' = Doubtful /\ Sure' = Sure BY DEF Doubtful, Sure, Fds
<1>2. OwnedByHolder' BY <1>0 DEF SkInv, OwnedByHolder
<1>g. \A u \in Threads : /\ Got(u)' <=> Got(u)
                         /\ Got(u) => lfd'[u] = lfd[u]
  BY DEF Got, OthersStay
<1>3. NoneLost'
  <2> SUFFICES ASSUME env.fault # "memory", NEW f \in Sure
               PROVE \/ owner[f] = None \/ (\E o \in life : sfd[o] = f)
                     \/ owner[f] = "accepting" /\ \E u \in Threads : Got(u)' /\ lfd'[u] = f
    BY <1>0 DEF NoneLost
  <2> QED BY <1>g DEF SkInv, NoneLost
<1>4. OneAccept'
  <2>1. \A u \in Threads : Got(u)' => lfd'[u] \in Fds /\ (lfd'[u] \in Sure => owner[lfd'[u]] = "accepting")
    BY <1>g DEF SkInv, OneAccept
  <2>2. \A u, v \in Threads : Got(u)' /\ Got(v)' /\ u # v /\ lfd'[u] = lfd'[v] => lfd'[u] \notin Sure
    BY <1>g DEF SkInv, OneAccept
  <2> QED BY <1>0, <2>1, <2>2 DEF OneAccept, Fds
<1>5. InCall' BY DEF SkInv, InCall, OthersStay
<1>6. Captured'
  <2> SUFFICES ASSUME env.sharing # "close", NEW u \in Threads, at'[u] # "idle", ~Got(u)'
               PROVE lfd'[u] = sfd[on'[u]]
    BY DEF Captured
  <2>1. CASE u = t BY <2>1
  <2>2. CASE u # t BY <2>2, <1>g DEF SkInv, Captured, OthersStay
  <2> QED BY <2>1, <2>2
<1>7. NoneForeign' BY <1>0 DEF NoneForeign
<1>8. ModeKept'
  <2> SUFFICES ASSUME env.sharing # "timeout", NEW o \in life, sfd[o] \in Fds \ Doubtful, ~InConnect(o)'
               PROVE nonblock[sfd[o]] <=> timeout[o] = "zero"
    BY <1>0 DEF ModeKept, Fds
  <2>1. ~InConnect(o) BY DEF InConnect, OthersStay
  <2> QED BY <2>1 DEF SkInv, ModeKept
<1>9. ClosedBlocks' BY <1>0 DEF SkInv, ClosedBlocks
<1>10. ConnectRetries' BY DEF SkInv, ConnectRetries, Retrying, OthersStay
<1> QED BY <1>1, <1>2, <1>3, <1>4, <1>5, <1>6, <1>7, <1>8, <1>9, <1>10 DEF SkInv
(* The loop variable stays below the number of retries.                    *)
LEMMA CountedIs ==
  ASSUME SkInv, NEW t \in Threads, on[t] \in Objs, More(t)
  PROVE  Counted(t) \in 0 .. Polls
<1>1. timeout[on[t]] \in Timeouts /\ tries[t] \in 0 .. Polls /\ Polls \in Nat
  BY SocketAssumption DEF SkInv, SkTypeOK
<1>2. CASE timeout[on[t]] = "forever" BY <1>1, <1>2 DEF Counted
<1>3. CASE timeout[on[t]] # "forever"
  <2>1. tries[t] < Retries(on[t]) BY <1>3 DEF More
  <2>2. CASE timeout[on[t]] = "long"
    <3>1. Retries(on[t]) = Polls BY <2>2 DEF Retries
    <3> QED BY <1>1, <1>3, <2>1, <3>1 DEF Counted
  <2>3. CASE timeout[on[t]] \in {"zero", "short"}
    <3>1. Retries(on[t]) = 0 BY <2>3 DEF Retries
    <3> QED BY <1>1, <2>1, <3>1
  <2> QED BY <1>1, <1>3, <2>2, <2>3 DEF Timeouts
<1> QED BY <1>2, <1>3

(* What the invariant says of a thread in a call.                          *)
LEMMA CallFacts ==
  ASSUME SkInv, NEW t \in Threads, at[t] # "idle", ~Got(t)
  PROVE  /\ on[t] \in life /\ on[t] \in Objs
         /\ env.sharing = "close" \/ lfd[t] = sfd[on[t]]
         /\ env.sharing = "close" \/ foreign \cup Wrong(on[t], lfd[t]) \subseteq Doubtful
         /\ env.sharing = "close" \/ foreign \cup Wrong(on[t], sfd[on[t]]) \subseteq Doubtful
<1>1. on[t] \in life /\ on[t] \in Objs BY DEF SkInv, SkTypeOK, InCall
<1>2. env.sharing = "close" \/ lfd[t] = sfd[on[t]] BY DEF SkInv, Captured
<1>3. env.sharing = "close" \/ foreign \subseteq Doubtful BY DEF SkInv, NoneForeign
<1>4. Wrong(on[t], sfd[on[t]]) \subseteq Doubtful BY <1>1, NotWrong
<1> QED BY <1>1, <1>2, <1>3, <1>4

LEMMA SmallTypes ==
  ASSUME SkInv
  PROVE  /\ LocalTypes /\ NetTypes /\ sfd \in [Objs -> Fds \cup {None}] /\ life \subseteq Objs
         /\ held \subseteq life /\ \A o, f : Wrong(o, f) \subseteq Fds
BY DEF SkInv, SkTypeOK, LocalTypes, NetTypes, Wrong

(* The end of a call that changes no local but those of its thread.        *)
LEMMA LeaveStep ==
  ASSUME SkInv, UNCHANGED <<life, held, sfd, timeout, owner, nonblock, env>>,
         NEW t \in Threads, NetTypes', Leave(t), ~Got(t),
         env.sharing = "close" \/ foreign' \subseteq Doubtful, at[t] \notin {"connect", "restore"}
  PROVE  SkInv'
<1>1. LocalTypes' /\ OthersStay(t) /\ at'[t] = "idle" /\ on'[t] = None /\ res'[t] = "none"
  BY SmallTypes, LeaveIs
<1>2. ~Got(t)' /\ Retrying(t)' BY <1>1 DEF Got, Retrying
<1> QED BY <1>1, <1>2, LocalStep

(* A call begins to wait, or waits again.                                  *)
LEMMA WaitStep ==
  ASSUME SkInv, UNCHANGED <<life, held, sfd, timeout, owner, nonblock, env>>,
         NEW t \in Threads, NetTypes', ~Got(t), NEW o \in life, NEW i \in 0 .. Polls,
         NEW w \in {"recv", "send", "accept", "resolve", "lookup", "select"}, Wait(t, w, o, i),
         env.sharing = "close" \/ foreign' \subseteq Doubtful, at[t] \notin {"connect", "restore"}
  PROVE  SkInv'
<1>1. w \in Waits /\ o \in Objs BY SmallTypes DEF Waits
<1>2. /\ LocalTypes' /\ OthersStay(t)
      /\ at'[t] = w /\ on'[t] = o /\ lfd'[t] = sfd[o] /\ res'[t] = "none"
  BY <1>1, SmallTypes, WaitIs
<1>3. ~Got(t)' /\ at'[t] # "idle" /\ on'[t] # None /\ at'[t] \notin {"connect", "restore"}
  BY <1>1, <1>2, SocketAssumption DEF Got
<1>4. (at'[t] = "idle" <=> on'[t] = None) /\ Retrying(t)' BY <1>2, <1>3 DEF Retrying
<1> QED BY <1>2, <1>3, <1>4, LocalStep

(* lwIP returns to a call.                                                 *)
LEMMA BackStep ==
  ASSUME SkInv, UNCHANGED <<life, held, sfd, timeout, owner, nonblock, env>>,
         NEW t \in Threads, NetTypes', at[t] # "idle", ~Got(t), NEW w \in Waits \cup Returned,
         NEW r \in {"none", "ok", "eof", "again", "error"}, Back(t, w, r),
         w = "accepted" => r # "ok", w # "block",
         w \in {"connect", "restore"} <=> at[t] \in {"connect", "restore"},
         env.sharing = "close" \/ foreign' \subseteq Doubtful
  PROVE  SkInv'
<1>1. /\ LocalTypes' /\ OthersStay(t)
      /\ at'[t] = w /\ on'[t] = on[t] /\ lfd'[t] = lfd[t] /\ res'[t] = r
  BY SmallTypes, BackIs
<1>2. ~Got(t)' BY <1>1 DEF Got
<1>3. w # "idle" /\ on[t] # None BY DEF SkInv, InCall, Waits, Returned
<1>4. Retrying(t)' BY <1>1 DEF SkInv, ConnectRetries, Retrying
<1>5. on[t] \in life /\ (env.sharing = "close" \/ lfd[t] = sfd[on[t]]) BY CallFacts
<1> QED BY <1>1, <1>2, <1>3, <1>4, <1>5, LocalStep

LEMMA FreshCaller ==
  ASSUME SkInv, NEW t \in Threads, Caller(t), NEW o \in held
  PROVE  /\ ~Got(t) /\ at[t] = "idle" /\ o \in life /\ 0 \in 0 .. Polls
         /\ env.sharing = "close" \/ foreign \subseteq Doubtful
         /\ env.sharing = "close" \/ foreign \cup Wrong(o, sfd[o]) \subseteq Doubtful
<1>1. o \in life /\ Wrong(o, sfd[o]) \subseteq Doubtful BY SmallTypes, NotWrong
<1> QED BY <1>1, SocketAssumption DEF Got, Caller, SkInv, NoneForeign
-----------------------------------------------------------------------------
(* recv and send                                                           *)

LEMMA TurnStep ==
  ASSUME SkInv, UNCHANGED <<life, held, sfd, timeout, owner, nonblock, link, env>>,
         NEW t \in Threads, ~Got(t), at[t] \notin {"connect", "restore"},
         NEW o \in life, NEW i \in 0 .. Polls, Turn(t, o, i)
  PROVE  SkInv'
<1>1. Wrong(o, sfd[o]) \subseteq Doubtful BY NotWrong
<1>2. env.sharing = "close" \/ foreign \subseteq Doubtful BY DEF SkInv, NoneForeign
<1>3. NetTypes /\ sfd \in [Objs -> Fds \cup {None}] /\ o \in Objs /\ Wrong(o, sfd[o]) \subseteq Fds
  BY SmallTypes
<1>4. CASE /\ Readable(sfd[o]) /\ Received(sfd[o])
           /\ state' = Noted(o, IF sfd[o] \in rx THEN "ok" ELSE "eof") /\ Leave(t)
           /\ foreign' = foreign \cup Wrong(o, sfd[o])
  <2>1. rx' \subseteq Fds /\ fin' \in [Fds -> {"none", "sent", "told"}]
    BY <1>3, <1>4 DEF NetTypes, Received
  <2>2. state' \in [Objs -> {"new", "connected", "peer_closed"}] BY <1>3, <1>4 DEF NetTypes, Noted
  <2>3. NetTypes' BY <1>3, <1>4, <2>1, <2>2 DEF NetTypes, Fds
  <2> QED BY <1>1, <1>2, <1>4, <2>3, LeaveStep
<1>5. CASE ~Readable(sfd[o]) /\ Wait(t, "recv", o, i) /\ UNCHANGED <<rx, fin, state, foreign>>
  <2>1. NetTypes' BY <1>3, <1>5 DEF NetTypes, Fds
  <2> QED BY <1>2, <1>5, <2>1, WaitStep
<1> QED BY <1>4, <1>5 DEF Turn

LEMMA RecvStep ==
  ASSUME SkInv, UNCHANGED env, NEW t \in Threads, NEW o \in Objs, Recv(t, o)
  PROVE  SkInv'
<1>1. o \in held /\ Caller(t) /\ Turn(t, o, 0) /\ UNCHANGED <<life, held, sfd, timeout, owner, nonblock, link>>
  BY DEF Recv
<1>2. ~Got(t) /\ at[t] = "idle" /\ o \in life /\ 0 \in 0 .. Polls BY <1>1, FreshCaller
<1> QED BY <1>1, <1>2, TurnStep

LEMMA LwipRecvStep ==
  ASSUME SkInv, UNCHANGED env, NEW t \in Threads, LwipRecv(t)
  PROVE  SkInv'
<1>1. /\ at[t] = "recv" /\ ~Got(t) /\ foreign' = foreign \cup Wrong(on[t], lfd[t])
      /\ UNCHANGED <<life, held, sfd, state, timeout, owner, nonblock, link>>
  BY DEF LwipRecv, objVars, Got
<1>2. NetTypes /\ Wrong(on[t], lfd[t]) \subseteq Fds BY SmallTypes
<1>3. rx' \subseteq Fds /\ fin' \in [Fds -> {"none", "sent", "told"}]
  BY <1>2 DEF LwipRecv, NetTypes, Received
<1>4. NetTypes' BY <1>1, <1>2, <1>3 DEF NetTypes, Fds
<1>5. env.sharing = "close" \/ foreign' \subseteq Doubtful BY <1>1, CallFacts
<1>6. PICK r \in {"none", "ok", "eof", "again", "error"} : Back(t, "recvd", r) BY DEF LwipRecv
<1>7. "recvd" \in Waits \cup Returned BY DEF Returned
<1> QED BY <1>1, <1>4, <1>5, <1>6, <1>7, BackStep

LEMMA RecvdStep ==
  ASSUME SkInv, UNCHANGED env, NEW t \in Threads, Recvd(t)
  PROVE  SkInv'
<1>1. /\ at[t] = "recvd" /\ ~Got(t) /\ at[t] # "idle" /\ at[t] \notin {"connect", "restore"}
      /\ UNCHANGED <<life, held, sfd, timeout, owner, nonblock, link>>
  BY DEF Recvd, Got
<1>2. NetTypes /\ on[t] \in life /\ on[t] \in Objs BY <1>1, CallFacts, SmallTypes
<1>3. env.sharing = "close" \/ foreign \subseteq Doubtful BY DEF SkInv, NoneForeign
<1>4. CASE res[t] # "again" /\ state' = Noted(on[t], res[t]) /\ Leave(t) /\ UNCHANGED <<rx, fin, foreign>>
  <2>1. state' \in [Objs -> {"new", "connected", "peer_closed"}] BY <1>2, <1>4 DEF NetTypes, Noted
  <2>2. NetTypes' BY <1>1, <1>2, <1>4, <2>1 DEF NetTypes, Fds
  <2> QED BY <1>1, <1>3, <1>4, <2>2, LeaveStep
<1>5. CASE More(t) /\ Turn(t, on[t], Counted(t))
  <2>1. Counted(t) \in 0 .. Polls BY <1>2, <1>5, CountedIs
  <2> QED BY <1>1, <1>2, <1>5, <2>1, TurnStep
<1>6. CASE Leave(t) /\ UNCHANGED <<rx, fin, state, foreign>>
  <2>1. NetTypes' BY <1>1, <1>2, <1>6 DEF NetTypes, Fds
  <2> QED BY <1>1, <1>3, <1>6, <2>1, LeaveStep
<1> QED BY <1>4, <1>5, <1>6 DEF Recvd

(* Calls that begin to wait and do nothing else.                           *)
LEMMA BeginStep ==
  ASSUME SkInv, UNCHANGED env, NEW t \in Threads, NEW o \in Objs,
         Send(t, o) \/ Accept(t, o) \/ Connect(t, o) \/ Bind(t, o)
  PROVE  SkInv'
<1>1. PICK w \in {"recv", "send", "accept", "resolve", "lookup", "select"} :
        /\ Caller(t) /\ o \in held /\ Wait(t, w, o, 0)
        /\ UNCHANGED objVars /\ UNCHANGED netVars /\ UNCHANGED foreign
  BY DEF Send, Accept, Connect, Bind
<1>2. UNCHANGED <<life, held, sfd, timeout, owner, nonblock, env>> BY <1>1 DEF objVars, netVars
<1>3. NetTypes' BY <1>1, SmallTypes DEF NetTypes, objVars, netVars, Fds
<1>4. /\ ~Got(t) /\ at[t] = "idle" /\ o \in life /\ 0 \in 0 .. Polls
      /\ env.sharing = "close" \/ foreign \subseteq Doubtful
  BY <1>1, FreshCaller
<1>5. at[t] \notin {"connect", "restore"} /\ (env.sharing = "close" \/ foreign' \subseteq Doubtful)
  BY <1>1, <1>4
<1> QED BY <1>1, <1>2, <1>3, <1>4, <1>5, WaitStep

LEMMA LwipSendStep ==
  ASSUME SkInv, UNCHANGED env, NEW t \in Threads, LwipSend(t)
  PROVE  SkInv'
<1>1. /\ at[t] = "send" /\ ~Got(t) /\ foreign' = foreign \cup Wrong(on[t], lfd[t])
      /\ UNCHANGED <<life, held, sfd, state, timeout, owner, nonblock, link, rx, fin>>
  BY DEF LwipSend, objVars, netVars, Got
<1>2. NetTypes' BY <1>1, SmallTypes DEF NetTypes, Fds
<1>3. env.sharing = "close" \/ foreign' \subseteq Doubtful BY <1>1, CallFacts
<1>4. PICK r \in {"none", "ok", "eof", "again", "error"} : Back(t, "sent", r)
  <2>1. PICK r \in CASE ~IsOpen(lfd[t]) -> {"error"}
                   [] link[lfd[t]] = "up" -> {"ok", "again"}
                   [] link[lfd[t]] = "syn" -> {"again"}
                   [] OTHER -> {"error"} : Back(t, "sent", r)
    BY DEF LwipSend
  <2>2. r \in {"error", "ok", "again"} BY <2>1
  <2> QED BY <2>1, <2>2
<1>5. "sent" \in Waits \cup Returned BY DEF Returned
<1> QED BY <1>1, <1>2, <1>3, <1>4, <1>5, BackStep

LEMMA SentStep ==
  ASSUME SkInv, UNCHANGED env, NEW t \in Threads, Sent(t)
  PROVE  SkInv'
<1>1. /\ at[t] = "sent" /\ ~Got(t) /\ at[t] # "idle" /\ at[t] \notin {"connect", "restore"}
      /\ UNCHANGED <<life, held, sfd, state, timeout, owner, nonblock, link, rx, fin, foreign>>
  BY DEF Sent, objVars, netVars, Got
<1>2. NetTypes' BY <1>1, SmallTypes DEF NetTypes, Fds
<1>3. env.sharing = "close" \/ foreign' \subseteq Doubtful BY <1>1 DEF SkInv, NoneForeign
<1>4. CASE Leave(t) BY <1>1, <1>2, <1>3, <1>4, LeaveStep
<1>5. CASE More(t) /\ Wait(t, "send", on[t], Counted(t))
  <2>1. on[t] \in life /\ Counted(t) \in 0 .. Polls BY <1>1, <1>5, CallFacts, CountedIs
  <2> QED BY <1>1, <1>2, <1>3, <1>5, <2>1, WaitStep
<1> QED BY <1>4, <1>5 DEF Sent
-----------------------------------------------------------------------------
(* bind and connect                                                        *)

LEMMA ResolveStep ==
  ASSUME SkInv, UNCHANGED env, NEW t \in Threads, Resolve(t)
  PROVE  SkInv'
<1>1. /\ at[t] \in {"resolve", "lookup"} /\ ~Got(t) /\ at[t] # "idle"
      /\ UNCHANGED <<life, held, sfd, state, timeout, owner, nonblock, link, rx, fin, foreign>>
  BY DEF Resolve, objVars, netVars, Got
<1>2. NetTypes' BY <1>1, SmallTypes DEF NetTypes, Fds
<1>3. env.sharing = "close" \/ foreign' \subseteq Doubtful BY <1>1 DEF SkInv, NoneForeign
<1>4. PICK w \in {"resolved", "looked_up"}, r \in {"none", "ok", "eof", "again", "error"} : Back(t, w, r)
  BY DEF Resolve
<1>5. w \in Waits \cup Returned /\ w \notin {"block", "connect", "restore", "accepted"} BY DEF Returned
<1> QED BY <1>1, <1>2, <1>3, <1>4, <1>5, BackStep

LEMMA ResolveFailsStep ==
  ASSUME SkInv, UNCHANGED env, NEW t \in Threads, ResolveFails(t)
  PROVE  SkInv'
<1>1. /\ at[t] \in {"resolved", "looked_up"} /\ ~Got(t) /\ Leave(t)
      /\ UNCHANGED <<life, held, sfd, state, timeout, owner, nonblock, link, rx, fin, foreign>>
  BY DEF ResolveFails, objVars, netVars, Got
<1>2. NetTypes' BY <1>1, SmallTypes DEF NetTypes, Fds
<1>3. env.sharing = "close" \/ foreign' \subseteq Doubtful BY <1>1 DEF SkInv, NoneForeign
<1> QED BY <1>1, <1>2, <1>3, LeaveStep

LEMMA BoundStep ==
  ASSUME SkInv, UNCHANGED env, NEW t \in Threads, Bound(t)
  PROVE  SkInv'
<1>1. /\ at[t] = "looked_up" /\ ~Got(t) /\ Leave(t) /\ at[t] # "idle"
      /\ state' = [state EXCEPT ![on[t]] = "connected"]
      /\ foreign' = foreign \cup Wrong(on[t], sfd[on[t]])
      /\ UNCHANGED <<life, held, sfd, timeout, owner, nonblock, link, rx, fin>>
  BY DEF Bound, netVars, Got
<1>2. NetTypes /\ Wrong(on[t], sfd[on[t]]) \subseteq Fds BY SmallTypes
<1>3. NetTypes' BY <1>1, <1>2 DEF NetTypes, Fds
<1>4. env.sharing = "close" \/ foreign' \subseteq Doubtful BY <1>1, CallFacts
<1> QED BY <1>1, <1>3, <1>4, LeaveStep

LEMMA CallingTypes ==
  ASSUME NetTypes, NEW f
  PROVE  Calling(f) \in [Fds -> {"none", "listen", "syn", "up", "refused"}]
BY DEF NetTypes, Calling

LEMMA LwipConnectStep ==
  ASSUME SkInv, UNCHANGED env, NEW t \in Threads, LwipConnect(t)
  PROVE  SkInv'
<1>1. /\ at[t] \in {"connect", "dial"} /\ at[t] # "idle" /\ ~Got(t)
      /\ foreign' = foreign \cup Wrong(on[t], lfd[t])
      /\ UNCHANGED <<life, held, sfd, state, timeout, owner, nonblock, rx, fin>>
  BY DEF LwipConnect, objVars, Got
<1>2. NetTypes /\ Wrong(on[t], lfd[t]) \subseteq Fds BY SmallTypes
<1>3. link' \in [Fds -> {"none", "listen", "syn", "up", "refused"}]
  <2>1. link' = Calling(lfd[t]) \/ link' = link BY DEF LwipConnect
  <2> QED BY <1>2, <2>1, CallingTypes DEF NetTypes
<1>4. NetTypes' BY <1>1, <1>2, <1>3 DEF NetTypes, Fds
<1>5. env.sharing = "close" \/ foreign' \subseteq Doubtful BY <1>1, CallFacts
<1>6. {"connect", "dial", "restore"} \subseteq Waits \cup Returned BY DEF Waits
<1>7. CASE \E r \in {"again", "error"} : Back(t, "restore", r) /\ at[t] = "connect"
  BY <1>1, <1>4, <1>5, <1>6, <1>7, BackStep
<1>8. CASE Back(t, at[t], "again")
  <2>1. /\ at[t] \in Waits \cup Returned /\ at[t] # "accepted" /\ at[t] # "block"
        /\ "again" \in {"none", "ok", "eof", "again", "error"}
    BY <1>1, <1>6
  <2> QED BY <1>1, <1>4, <1>5, <1>8, <2>1, BackStep
<1>9. CASE Leave(t) /\ at[t] = "dial" BY <1>1, <1>4, <1>5, <1>9, LeaveStep
<1> QED BY <1>1, <1>7, <1>8, <1>9 DEF LwipConnect, Answered

LEMMA SelectWritableStep ==
  ASSUME SkInv, UNCHANGED env, NEW t \in Threads, SelectWritable(t)
  PROVE  SkInv'
<1>1. /\ at[t] = "select" /\ ~Got(t) /\ foreign' = foreign \cup Wrong(on[t], lfd[t])
      /\ UNCHANGED <<life, held, sfd, state, timeout, owner, nonblock, link, rx, fin>>
  BY DEF SelectWritable, objVars, netVars, Got
<1>2. NetTypes /\ Wrong(on[t], lfd[t]) \subseteq Fds BY SmallTypes
<1>3. NetTypes' BY <1>1, <1>2 DEF NetTypes, Fds
<1>4. /\ env.sharing = "close" \/ foreign' \subseteq Doubtful
      /\ on[t] \in life /\ on[t] \in Objs
  BY <1>1, CallFacts
<1>5. CASE Leave(t) BY <1>1, <1>3, <1>4, <1>5, LeaveStep
<1>6. CASE More(t) /\ Wait(t, "select", on[t], Counted(t))
  <2>1. Counted(t) \in 0 .. Polls BY <1>4, <1>6, CountedIs
  <2> QED BY <1>1, <1>3, <1>4, <1>6, <2>1, WaitStep
<1> QED BY <1>5, <1>6 DEF SelectWritable

(* What Doubtful and the descriptors are does not change.                  *)
LEMMA SureStays ==
  ASSUME UNCHANGED env
  PROVE  Doubtful' = Doubtful /\ Sure' = Sure /\ Fds' = Fds
BY DEF Doubtful, Sure, Fds

(* Two objects never have the same descriptor.                             *)
LEMMA OneHolder ==
  ASSUME SkInv, NEW o \in life, NEW p \in life, sfd[o] = sfd[p], sfd[o] \in Sure
  PROVE  o = p
BY DEF SkInv, OwnedByHolder

(* A step of a thread in connect() that changes the mode of the descriptor *)
(* of its own object.                                                      *)
LEMMA ModeStep ==
  ASSUME SkInv, UNCHANGED <<life, held, sfd, timeout, owner, env>>,
         NEW t \in Threads, LocalTypes', NetTypes', OthersStay(t), ~Got(t), ~Got(t)',
         NEW o \in life, on[t] = o, on'[t] \in {o, None}, nonblock' \in [Fds -> BOOLEAN],
         \A f \in Fds : f # sfd[o] => nonblock'[f] = nonblock[f],
         at'[t] = "idle" <=> on'[t] = None,
         at'[t] # "idle" => lfd'[t] = sfd[o],
         env.sharing = "close" \/ foreign' \subseteq Doubtful,
         env.sharing # "timeout" /\ sfd[o] \in Sure /\ ~InConnect(o)'
           => (nonblock'[sfd[o]] <=> timeout[o] = "zero"),
         Retrying(t)'
  PROVE  SkInv'
<1>1. SkTypeOK' BY DEF SkInv, SkTypeOK, LocalTypes, NetTypes
<1>0. Doubtful' = Doubtful /\ Sure' = Sure BY DEF Doubtful, Sure, Fds
<1>i. o \in Objs /\ o # None BY SocketAssumption DEF SkInv, SkTypeOK
<1>2. OwnedByHolder' BY <1>0 DEF SkInv, OwnedByHolder
<1>g. \A u \in Threads : /\ Got(u)' <=> Got(u)
                         /\ Got(u) => lfd'[u] = lfd[u]
  BY DEF Got, OthersStay
<1>3. NoneLost'
  <2> SUFFICES ASSUME env.fault # "memory", NEW f \in Sure
               PROVE \/ owner[f] = None \/ (\E p \in life : sfd[p] = f)
                     \/ owner[f] = "accepting" /\ \E u \in Threads : Got(u)' /\ lfd'[u] = f
    BY <1>0 DEF NoneLost
  <2> QED BY <1>g DEF SkInv, NoneLost
<1>4. OneAccept'
  <2>1. \A u \in Threads : Got(u)' => lfd'[u] \in Fds /\ (lfd'[u] \in Sure => owner[lfd'[u]] = "accepting")
    BY <1>g DEF SkInv, OneAccept
  <2>2. \A u, v \in Threads : Got(u)' /\ Got(v)' /\ u # v /\ lfd'[u] = lfd'[v] => lfd'[u] \notin Sure
    BY <1>g DEF SkInv, OneAccept
  <2> QED BY <1>0, <2>1, <2>2 DEF OneAccept, Fds
<1>5. InCall' BY DEF SkInv, InCall, OthersStay
<1>6. Captured'
  <2> SUFFICES ASSUME env.sharing # "close", NEW u \in Threads, at'[u] # "idle", ~Got(u)'
               PROVE lfd'[u] = sfd[on'[u]]
    BY DEF Captured
  <2>1. CASE u = t BY <2>1
  <2>2. CASE u # t BY <2>2, <1>g DEF SkInv, Captured, OthersStay
  <2> QED BY <2>1, <2>2
<1>7. NoneForeign' BY <1>0 DEF NoneForeign
<1>8. ModeKept'
  <2> SUFFICES ASSUME env.sharing # "timeout", NEW p \in life, sfd[p] \in Fds \ Doubtful, ~InConnect(p)'
               PROVE nonblock'[sfd[p]] <=> timeout[p] = "zero"
    BY <1>0 DEF ModeKept, Fds
  <2>1. CASE p = o BY <2>1 DEF Sure
  <2>2. CASE p # o
    <3>1. sfd[p] # sfd[o] BY <2>2, OneHolder DEF Sure
    <3>2. ~InConnect(p) BY <2>2 DEF InConnect, OthersStay
    <3> QED BY <3>1, <3>2 DEF SkInv, ModeKept
  <2> QED BY <2>1, <2>2
<1>9. ClosedBlocks'
  <2> SUFFICES ASSUME NEW f \in Sure, owner[f] \in {None, "accepting"} PROVE ~nonblock'[f]
    BY <1>0 DEF ClosedBlocks
  <2>1. f # sfd[o] BY SocketAssumption, <1>i DEF SkInv, OwnedByHolder
  <2> QED BY <2>1 DEF SkInv, ClosedBlocks, Sure
<1>10. ConnectRetries' BY DEF SkInv, ConnectRetries, Retrying, OthersStay
<1> QED BY <1>1, <1>2, <1>3, <1>4, <1>5, <1>6, <1>7, <1>8, <1>9, <1>10 DEF SkInv

LEMMA ResolvedStep ==
  ASSUME SkInv, UNCHANGED env, NEW t \in Threads, Resolved(t)
  PROVE  SkInv'
<1>1. PICK w \in {"block", "dial"} : Wait(t, w, on[t], 0) /\ (w = "block" => Retries(on[t]) # 0)
  BY DEF Resolved
<1>2. /\ at[t] = "resolved" /\ at[t] # "idle" /\ ~Got(t)
      /\ state' = [state EXCEPT ![on[t]] = "connected"]
      /\ UNCHANGED <<life, held, sfd, timeout, owner, nonblock, link, rx, fin, foreign>>
  BY DEF Resolved, Got, netVars
<1>3. NetTypes /\ LocalTypes /\ sfd \in [Objs -> Fds \cup {None}] BY SmallTypes
<1>4. on[t] \in life /\ on[t] \in Objs BY <1>2, CallFacts
<1>5. NetTypes' BY <1>2, <1>3 DEF NetTypes, Fds
<1>6. w \in Waits /\ 0 \in 0 .. Polls BY SocketAssumption DEF Waits
<1>7. /\ LocalTypes' /\ OthersStay(t)
      /\ at'[t] = w /\ on'[t] = on[t] /\ lfd'[t] = sfd[on[t]] /\ res'[t] = "none"
  BY <1>1, <1>3, <1>4, <1>6, WaitIs
<1>8. ~Got(t)' /\ at'[t] # "idle" /\ on[t] # None BY <1>4, <1>7, SocketAssumption DEF Got
<1>9. Retrying(t)' BY <1>1, <1>2, <1>7 DEF Retrying, Retries
<1>10. env.sharing = "close" \/ foreign' \subseteq Doubtful BY <1>2 DEF SkInv, NoneForeign
<1>11. at'[t] = "idle" <=> on'[t] = None BY <1>7, <1>8
<1> QED BY <1>2, <1>4, <1>5, <1>7, <1>8, <1>9, <1>10, <1>11, LocalStep

LEMMA UnblockStep ==
  ASSUME SkInv, UNCHANGED env, NEW t \in Threads, Unblock(t)
  PROVE  SkInv'
<1>1. /\ at[t] = "block" /\ at[t] # "idle" /\ ~Got(t) /\ Wait(t, "connect", on[t], 0)
      /\ nonblock' = [f \in Fds |-> nonblock[f] \/ f = sfd[on[t]]]
      /\ foreign' = foreign \cup Wrong(on[t], sfd[on[t]])
      /\ UNCHANGED <<life, held, sfd, state, timeout, owner, link, rx, fin>>
  BY DEF Unblock, Got, objVars
<1>2. PICK o \in life : o = on[t] BY <1>1, CallFacts
<1>3. /\ NetTypes /\ LocalTypes /\ Wrong(o, sfd[o]) \subseteq Fds /\ sfd \in [Objs -> Fds \cup {None}]
      /\ o \in Objs /\ (env.sharing = "close" \/ foreign' \subseteq Doubtful)
  BY <1>1, <1>2, SmallTypes, CallFacts
<1>4. NetTypes' BY <1>1, <1>2, <1>3 DEF NetTypes, Fds
<1>5. "connect" \in Waits /\ 0 \in 0 .. Polls BY SocketAssumption DEF Waits
<1>6. /\ LocalTypes' /\ OthersStay(t)
      /\ at'[t] = "connect" /\ on'[t] = o /\ lfd'[t] = sfd[o] /\ res'[t] = "none"
  BY <1>1, <1>2, <1>3, <1>5, WaitIs
<1>7. ~Got(t)' /\ at'[t] # "idle" /\ o # None BY <1>3, <1>6, SocketAssumption DEF Got
<1>8. nonblock' \in [Fds -> BOOLEAN] BY <1>1
<1>9. \A f \in Fds : f # sfd[o] => nonblock'[f] = nonblock[f]
  <2>1. nonblock \in [Fds -> BOOLEAN] BY DEF SkInv, SkTypeOK
  <2> QED BY <1>1, <1>2, <2>1, Zenon
<1>10. InConnect(o)' BY <1>6 DEF InConnect
<1>11. Retrying(t)' BY <1>1, <1>2, <1>6 DEF SkInv, ConnectRetries, Retrying
<1>12. at'[t] = "idle" <=> on'[t] = None BY <1>6, <1>7
<1> QED BY <1>1, <1>2, <1>3, <1>4, <1>6, <1>7, <1>8, <1>9, <1>10, <1>11, <1>12, ModeStep

LEMMA RestoreStep ==
  ASSUME SkInv, UNCHANGED env, NEW t \in Threads, Restore(t)
  PROVE  SkInv'
<1> DEFINE o == on[t]
<1>1. /\ at[t] = "restore" /\ at[t] # "idle" /\ ~Got(t) /\ foreign' = foreign \cup Wrong(o, sfd[o])
      /\ IF sfd[o] = None THEN UNCHANGED nonblock ELSE nonblock' = BlockingAgain(sfd[o])
      /\ Wait(t, "select", o, 0) \/ Leave(t)
      /\ UNCHANGED <<life, held, sfd, state, timeout, owner, link, rx, fin>>
  BY DEF Restore, Got, objVars
<1>2. /\ NetTypes /\ LocalTypes /\ Wrong(o, sfd[o]) \subseteq Fds /\ sfd \in [Objs -> Fds \cup {None}]
  BY SmallTypes
<1>3. /\ o \in life /\ o \in Objs /\ (env.sharing = "close" \/ foreign' \subseteq Doubtful)
  BY <1>1, CallFacts
<1>4. NetTypes' BY <1>1, <1>2 DEF NetTypes, Fds
<1>5. /\ LocalTypes' /\ OthersStay(t) /\ res'[t] = "none"
      /\ \/ at'[t] = "select" /\ on'[t] = o /\ lfd'[t] = sfd[o]
         \/ at'[t] = "idle" /\ on'[t] = None
  <2>1. "select" \in Waits /\ 0 \in 0 .. Polls BY SocketAssumption DEF Waits
  <2>2. CASE Wait(t, "select", o, 0) BY <1>2, <1>3, <2>1, <2>2, WaitIs
  <2>3. CASE Leave(t) BY <1>2, <2>3, LeaveIs
  <2> QED BY <1>1, <2>2, <2>3
<1>6. ~Got(t)' /\ o # None /\ at'[t] \notin {"connect", "restore"}
  BY <1>3, <1>5, SocketAssumption DEF Got
<1>7. nonblock \in [Fds -> BOOLEAN] BY DEF SkInv, SkTypeOK
<1>8. nonblock' \in [Fds -> BOOLEAN] /\ \A f \in Fds : f # sfd[o] => nonblock'[f] = nonblock[f]
  BY <1>1, <1>7 DEF BlockingAgain
<1>9. ASSUME sfd[o] \in Sure, env.sharing # "timeout" PROVE nonblock'[sfd[o]] <=> timeout[o] = "zero"
  <2>1. sfd[o] \in Fds /\ sfd[o] # None BY <1>9, FdsAreNumbers DEF Sure
  <2>2. ~nonblock'[sfd[o]] BY <1>1, <1>7, <2>1 DEF BlockingAgain
  <2>3. timeout[o] # "zero" BY <1>1, <1>9 DEF SkInv, ConnectRetries, Retrying
  <2> QED BY <2>2, <2>3
<1>10. /\ at'[t] = "idle" <=> on'[t] = None
       /\ at'[t] # "idle" => lfd'[t] = sfd[o]
       /\ on'[t] \in {o, None}
  BY <1>5, <1>6
<1>11. UNCHANGED <<life, held, sfd, timeout, owner, env>> BY <1>1
<1>12. env.sharing # "timeout" /\ sfd[o] \in Sure => (nonblock'[sfd[o]] <=> timeout[o] = "zero") BY <1>9
<1>13. Retrying(t)' BY <1>5 DEF Retrying
<1>14. ~Got(t) /\ ~Got(t)' /\ LocalTypes' /\ OthersStay(t) BY <1>1, <1>5, <1>6
<1>15. PICK p \in life : p = on[t] BY <1>3
<1>16. /\ on[t] = p /\ on'[t] \in {p, None}
       /\ \A f \in Fds : f # sfd[p] => nonblock'[f] = nonblock[f]
       /\ at'[t] # "idle" => lfd'[t] = sfd[p]
       /\ env.sharing # "timeout" /\ sfd[p] \in Sure /\ ~InConnect(p)'
            => (nonblock'[sfd[p]] <=> timeout[p] = "zero")
  BY <1>8, <1>10, <1>12, <1>15
<1>17. at'[t] = "idle" <=> on'[t] = None BY <1>10
<1>18. nonblock' \in [Fds -> BOOLEAN] /\ (env.sharing = "close" \/ foreign' \subseteq Doubtful) BY <1>3, <1>8
<1> QED BY ONLY SkInv, t \in Threads, p \in life, <1>4, <1>11, <1>13, <1>14, <1>16, <1>17, <1>18, ModeStep

-----------------------------------------------------------------------------
(* Steps that leave the calls in progress alone.                           *)
LEMMA QuietStep ==
  ASSUME SkInv, SkTypeOK', UNCHANGED <<locVars, env>>, OwnedByHolder', ClosedBlocks',
         \A t \in Threads : on[t] # None => /\ on[t] \in life'
                                            /\ env.sharing = "timeout" \/ timeout'[on[t]] = timeout[on[t]]
                                            /\ env.sharing = "close" \/ sfd'[on[t]] = sfd[on[t]],
         \A f \in Sure : owner[f] = "accepting" => owner'[f] = "accepting",
         \A f \in Sure : \/ owner'[f] = None \/ \E o \in life' : sfd'[o] = f
                         \/ owner'[f] = owner[f] /\ \A o \in life : sfd[o] # f,
         env.sharing = "close" \/ foreign' \subseteq Doubtful,
         env.sharing # "timeout" =>
           \A o \in life' : sfd'[o] \in Sure /\ ~InConnect(o) => (nonblock'[sfd'[o]] <=> timeout'[o] = "zero")
  PROVE  SkInv'
<1>0. Doubtful' = Doubtful /\ Sure' = Sure /\ Fds' = Fds BY SureStays
<1>l. UNCHANGED <<at, on, lfd, tries, res>> BY DEF locVars
<1>g. \A t \in Threads : Got(t)' <=> Got(t) BY <1>l DEF Got
<1>1. NoneLost'
  <2> SUFFICES ASSUME env.fault # "memory", NEW f \in Sure
               PROVE \/ owner'[f] = None \/ (\E o \in life' : sfd'[o] = f)
                     \/ owner'[f] = "accepting" /\ \E u \in Threads : Got(u)' /\ lfd'[u] = f
    BY <1>0 DEF NoneLost
  <2>1. CASE owner'[f] = owner[f] /\ \A o \in life : sfd[o] # f
    <3>1. \/ owner[f] = None
          \/ owner[f] = "accepting" /\ \E t \in Threads : Got(t) /\ lfd[t] = f
      BY <2>1 DEF SkInv, NoneLost
    <3> QED BY <1>l, <1>g, <2>1, <3>1
  <2> QED BY <2>1
<1>2. OneAccept'
  <2>1. \A t \in Threads : Got(t)' => lfd'[t] \in Fds /\ (lfd'[t] \in Sure => owner'[lfd'[t]] = "accepting")
    BY <1>g, <1>l DEF SkInv, OneAccept
  <2>2. \A t, u \in Threads : Got(t)' /\ Got(u)' /\ t # u /\ lfd'[t] = lfd'[u] => lfd'[t] \notin Sure
    BY <1>g, <1>l DEF SkInv, OneAccept
  <2> QED BY <1>0, <2>1, <2>2 DEF OneAccept
<1>3. InCall' BY <1>l DEF SkInv, InCall
<1>4. Captured'
  <2> SUFFICES ASSUME env.sharing # "close", NEW t \in Threads, at[t] # "idle", ~Got(t)
               PROVE lfd[t] = sfd'[on[t]]
    BY <1>g, <1>l DEF Captured
  <2>1. on[t] # None BY DEF SkInv, InCall
  <2> QED BY <2>1 DEF SkInv, Captured
<1>5. NoneForeign' BY <1>0 DEF NoneForeign
<1>6. ModeKept'
  <2>1. \A o : InConnect(o)' <=> InConnect(o) BY <1>l DEF InConnect
  <2> QED BY <1>0, <2>1 DEF ModeKept, Sure
<1>7. ConnectRetries'
  <2> SUFFICES ASSUME env.sharing # "timeout", NEW t \in Threads, at[t] \in {"block", "connect", "restore"}
               PROVE timeout'[on[t]] # "zero"
    BY <1>l DEF ConnectRetries, Retrying
  <2>1. on[t] # None BY DEF SkInv, InCall
  <2> QED BY <2>1 DEF SkInv, ConnectRetries, Retrying
<1> QED BY <1>1, <1>2, <1>3, <1>4, <1>5, <1>6, <1>7 DEF SkInv
(* Closing the descriptors of some objects leaves those of the others      *)
(* alone, and those an accept() is about to take.                          *)
LEMMA ClosingFacts ==
  ASSUME SkInv, NEW os \in SUBSET life
  PROVE  /\ Closing(os) \subseteq Fds
         /\ \A o \in life \ os : sfd[o] \in Sure => sfd[o] \notin Closing(os)
         /\ \A f \in Sure : f \in Closing(os) => owner[f] \in os
         /\ \A f \in Sure : owner[f] = "accepting" => f \notin Closing(os)
         /\ UNION {Wrong(o, sfd[o]) : o \in os} \subseteq Doubtful
         /\ UNION {Wrong(o, sfd[o]) : o \in os} \subseteq Fds
<1>1. Closing(os) \subseteq Fds BY SmallTypes DEF Closing
<1>2. \A f \in Sure : f \in Closing(os) => owner[f] \in os
  <2> SUFFICES ASSUME NEW o \in os, sfd[o] \in Sure PROVE owner[sfd[o]] \in os BY DEF Closing
  <2> QED BY DEF SkInv, OwnedByHolder
<1>3. \A o \in life \ os : sfd[o] \in Sure => sfd[o] \notin Closing(os)
  BY <1>2 DEF SkInv, OwnedByHolder
<1>4. \A f \in Sure : owner[f] = "accepting" => f \notin Closing(os)
  BY <1>2, SmallTypes, SocketAssumption
<1>5. \A o \in os : Wrong(o, sfd[o]) \subseteq Doubtful BY NotWrong
<1>6. \A o \in os : Wrong(o, sfd[o]) \subseteq Fds BY SmallTypes
<1> QED BY <1>1, <1>2, <1>3, <1>4, <1>5, <1>6

LEMMA ReleasedStep ==
  ASSUME SkInv, NEW os \in SUBSET life, Released(os), UNCHANGED <<locVars, env, state, timeout>>,
         life' \subseteq life, life \ os \subseteq life', held' \subseteq life',
         sfd' \in [Objs -> Fds \cup {None}],
         \A o \in life' \ os : sfd'[o] = sfd[o],
         \A o \in os : sfd'[o] = None,
         \A t \in Threads : on[t] # None => on[t] \in life' /\ (env.sharing = "close" \/ on[t] \notin os)
  PROVE  SkInv'
<1>c. /\ Closing(os) \subseteq Fds
      /\ \A o \in life \ os : sfd[o] \in Sure => sfd[o] \notin Closing(os)
      /\ \A f \in Sure : f \in Closing(os) => owner[f] \in os
      /\ \A f \in Sure : owner[f] = "accepting" => f \notin Closing(os)
      /\ UNION {Wrong(o, sfd[o]) : o \in os} \subseteq Doubtful
      /\ UNION {Wrong(o, sfd[o]) : o \in os} \subseteq Fds
  BY ClosingFacts
<1>0. Doubtful' = Doubtful /\ Sure' = Sure /\ Fds' = Fds BY SureStays
<1>n. None \notin Sure /\ Sure \subseteq Fds BY FdsAreNumbers DEF Sure
<1>t. SkTypeOK BY DEF SkInv
<1>1. SkTypeOK'
  <2>1. UNCHANGED <<at, on, lfd, tries, res>> BY DEF locVars
  <2>2. /\ owner' \in [Fds -> Objs \cup {None, "accepting", "lost"}] /\ nonblock' \in [Fds -> BOOLEAN]
        /\ link' \in [Fds -> {"none", "listen", "syn", "up", "refused"}]
        /\ rx' \subseteq Fds /\ fin' \in [Fds -> {"none", "sent", "told"}]
    BY <1>t DEF SkTypeOK, Released
  <2>3. foreign' \subseteq Fds BY <1>c, <1>t DEF SkTypeOK, Released
  <2> QED BY <1>0, <1>t, <2>1, <2>2, <2>3 DEF SkTypeOK
<1>2. \A f \in Fds : owner'[f] = IF f \in Closing(os) THEN None ELSE owner[f] BY DEF Released
<1>3. \A f \in Fds : nonblock'[f] <=> nonblock[f] /\ f \notin Closing(os) BY DEF Released
<1>k. \A o \in life' : sfd'[o] \in Sure => o \notin os /\ sfd'[o] = sfd[o] /\ sfd[o] \notin Closing(os)
  BY <1>c, <1>n
<1>4. OwnedByHolder'
  <2> SUFFICES ASSUME NEW o \in life', sfd'[o] \in Sure PROVE owner'[sfd'[o]] = o
    BY <1>0 DEF OwnedByHolder
  <2> QED BY <1>k, <1>n, <1>2 DEF SkInv, OwnedByHolder
<1>5. ClosedBlocks'
  <2> SUFFICES ASSUME NEW f \in Sure, owner'[f] \in {None, "accepting"}, nonblock'[f] PROVE FALSE
    BY <1>0 DEF ClosedBlocks
  <2>1. f \notin Closing(os) /\ nonblock[f] BY <1>n, <1>3
  <2> QED BY <1>n, <1>2, <2>1 DEF SkInv, ClosedBlocks
<1>6. \A t \in Threads : on[t] # None => /\ on[t] \in life'
                                         /\ env.sharing = "timeout" \/ timeout'[on[t]] = timeout[on[t]]
                                         /\ env.sharing = "close" \/ sfd'[on[t]] = sfd[on[t]]
  OBVIOUS
<1>7. \A f \in Sure : owner[f] = "accepting" => owner'[f] = "accepting" BY <1>c, <1>n, <1>2
<1>8. \A f \in Sure : \/ owner'[f] = None \/ \E o \in life' : sfd'[o] = f
                      \/ owner'[f] = owner[f] /\ \A o \in life : sfd[o] # f
  <2> SUFFICES ASSUME NEW f \in Sure, owner'[f] # None, NEW o \in life, sfd[o] = f
               PROVE \E p \in life' : sfd'[p] = f
    BY <1>2, <1>n
  <2>1. f \notin Closing(os) BY <1>2, <1>n
  <2>2. o \notin os BY <1>n, <2>1 DEF Closing
  <2> QED BY <2>2
<1>9. env.sharing = "close" \/ foreign' \subseteq Doubtful BY <1>c DEF SkInv, NoneForeign, Released
<1>10. env.sharing # "timeout" =>
        \A o \in life' : sfd'[o] \in Sure /\ ~InConnect(o) => (nonblock'[sfd'[o]] <=> timeout'[o] = "zero")
  <2> SUFFICES ASSUME env.sharing # "timeout", NEW o \in life', sfd'[o] \in Sure, ~InConnect(o)
               PROVE nonblock'[sfd[o]] <=> timeout[o] = "zero"
    BY <1>k
  <2>1. sfd[o] \in Fds \ Doubtful /\ sfd[o] \notin Closing(os) BY <1>k DEF Sure
  <2>2. nonblock[sfd[o]] <=> timeout[o] = "zero" BY <2>1 DEF SkInv, ModeKept
  <2> QED BY <1>3, <2>1, <2>2
<1> QED BY <1>1, <1>4, <1>5, <1>6, <1>7, <1>8, <1>9, <1>10, QuietStep

LEMMA BusyIs ==
  ASSUME SkInv, NEW t \in Threads, on[t] # None
  PROVE  on[t] \in life /\ Busy(on[t]) /\ on[t] \notin Garbage
BY DEF SkInv, InCall, Busy, Garbage

LEMMA CollectStep ==
  ASSUME SkInv, UNCHANGED env, Collect
  PROVE  SkInv'
<1>1. /\ Released(Garbage) /\ life' = life \ Garbage
      /\ sfd' = [o \in Objs |-> IF o \in Garbage THEN None ELSE sfd[o]]
      /\ UNCHANGED <<held, state, timeout>> /\ UNCHANGED locVars
  BY DEF Collect
<1>2. Garbage \in SUBSET life /\ held \subseteq life \ Garbage BY SmallTypes DEF Garbage
<1>3. /\ sfd' \in [Objs -> Fds \cup {None}] /\ \A o \in life' \ Garbage : sfd'[o] = sfd[o]
      /\ \A o \in Garbage : sfd'[o] = None
  BY <1>1, <1>2, SmallTypes
<1>4. \A t \in Threads : on[t] # None => on[t] \in life' /\ on[t] \notin Garbage BY <1>1, BusyIs
<1>5. life' \subseteq life /\ life \ Garbage \subseteq life' /\ held' \subseteq life' BY <1>1, <1>2
<1> QED BY <1>1, <1>2, <1>3, <1>4, <1>5, ReleasedStep

LEMMA CloseSocketStep ==
  ASSUME SkInv, UNCHANGED env, NEW o \in Objs, CloseSocket(o)
  PROVE  SkInv'
<1>1. /\ o \in held /\ MayClose(o) /\ Released({o}) /\ sfd' = [sfd EXCEPT ![o] = None]
      /\ UNCHANGED <<life, held, state, timeout>> /\ UNCHANGED locVars
  BY DEF CloseSocket, ForgottenFd
<1>2. {o} \in SUBSET life /\ held \subseteq life BY <1>1, SmallTypes
<1>3. /\ sfd' \in [Objs -> Fds \cup {None}] /\ \A p \in life' \ {o} : sfd'[p] = sfd[p]
      /\ \A p \in {o} : sfd'[p] = None
  BY <1>1, SmallTypes
<1>4. \A t \in Threads : on[t] # None => on[t] \in life' /\ (env.sharing = "close" \/ on[t] \notin {o})
  BY <1>1, BusyIs DEF MayClose
<1>5. life' \subseteq life /\ life \ {o} \subseteq life' /\ held' \subseteq life' BY <1>1, <1>2
<1> QED BY <1>1, <1>2, <1>3, <1>4, <1>5, ReleasedStep
(* Steps that leave the descriptors of all objects as they are.            *)
LEMMA StillStep ==
  ASSUME SkInv, SkTypeOK', UNCHANGED <<locVars, env, life, sfd, timeout, owner, nonblock>>,
         env.sharing = "close" \/ foreign' \subseteq Doubtful
  PROVE  SkInv'
<1>0. Doubtful' = Doubtful /\ Sure' = Sure /\ Fds' = Fds BY SureStays
<1>1. OwnedByHolder' /\ ClosedBlocks' BY <1>0 DEF SkInv, OwnedByHolder, ClosedBlocks
<1>2. \A t \in Threads : on[t] # None => /\ on[t] \in life'
                                         /\ env.sharing = "timeout" \/ timeout'[on[t]] = timeout[on[t]]
                                         /\ env.sharing = "close" \/ sfd'[on[t]] = sfd[on[t]]
  BY DEF SkInv, InCall
<1>3. \A f \in Sure : owner[f] = "accepting" => owner'[f] = "accepting" OBVIOUS
<1>4. \A f \in Sure : \/ owner'[f] = None \/ \E o \in life' : sfd'[o] = f
                      \/ owner'[f] = owner[f] /\ \A o \in life : sfd[o] # f
  OBVIOUS
<1>5. env.sharing # "timeout" =>
        \A o \in life' : sfd'[o] \in Sure /\ ~InConnect(o) => (nonblock'[sfd'[o]] <=> timeout'[o] = "zero")
  BY DEF SkInv, ModeKept, Sure
<1> QED BY <1>1, <1>2, <1>3, <1>4, <1>5, QuietStep

LEMMA DropRefStep ==
  ASSUME SkInv, UNCHANGED env, NEW o \in Objs, DropRef(o)
  PROVE  SkInv'
<1>1. /\ UNCHANGED <<life, sfd, state, timeout, owner, nonblock, link, rx, fin, foreign, locVars>>
      /\ held' = held \ {o}
  BY DEF DropRef, netVars
<1>2. SkTypeOK' BY <1>1 DEF SkInv, SkTypeOK, locVars, Fds
<1>3. env.sharing = "close" \/ foreign' \subseteq Doubtful BY <1>1 DEF SkInv, NoneForeign
<1> QED BY <1>1, <1>2, <1>3, StillStep

LEMMA ListenStep ==
  ASSUME SkInv, UNCHANGED env, NEW o \in Objs, Listen(o)
  PROVE  SkInv'
<1>1. /\ UNCHANGED <<life, held, sfd, timeout, owner, nonblock, rx, fin, locVars>> /\ o \in held
      /\ state' = [state EXCEPT ![o] = "connected"] /\ link' = [link EXCEPT ![sfd[o]] = "listen"]
      /\ foreign' = foreign \cup Wrong(o, sfd[o])
  BY DEF Listen
<1>2. o \in life /\ Wrong(o, sfd[o]) \subseteq Fds BY <1>1, SmallTypes
<1>3. SkTypeOK' BY <1>1, <1>2 DEF SkInv, SkTypeOK, locVars, Fds
<1>4. env.sharing = "close" \/ foreign' \subseteq Doubtful BY <1>1, <1>2, NotWrong DEF SkInv, NoneForeign
<1> QED BY <1>1, <1>3, <1>4, StillStep

LEMMA NetworkStep ==
  ASSUME SkInv, UNCHANGED env, NEW f \in Fds, Network(f)
  PROVE  SkInv'
<1>1. UNCHANGED <<life, held, sfd, state, timeout, owner, nonblock, foreign, locVars>>
  BY DEF Network, objVars
<1>2. NetTypes BY SmallTypes
<1>3. /\ link' \in [Fds -> {"none", "listen", "syn", "up", "refused"}]
      /\ rx' \subseteq Fds /\ fin' \in [Fds -> {"none", "sent", "told"}]
  BY <1>2 DEF Network, NetTypes
<1>4. SkTypeOK' BY <1>1, <1>3 DEF SkInv, SkTypeOK, locVars, Fds
<1>5. env.sharing = "close" \/ foreign' \subseteq Doubtful BY <1>1 DEF SkInv, NoneForeign
<1> QED BY <1>1, <1>4, <1>5, StillStep

LEMMA SettimeoutStep ==
  ASSUME SkInv, UNCHANGED env, NEW o \in Objs, NEW v \in Timeouts, Settimeout(o, v)
  PROVE  SkInv'
<1>1. /\ o \in held /\ MaySet(o) /\ timeout' = [timeout EXCEPT ![o] = v]
      /\ nonblock' = [f \in Fds |-> IF f = sfd[o] THEN v = "zero" ELSE nonblock[f]]
      /\ foreign' = foreign \cup Wrong(o, sfd[o])
      /\ UNCHANGED <<life, held, sfd, state, owner, link, rx, fin, locVars>>
  BY DEF Settimeout
<1>0. Doubtful' = Doubtful /\ Sure' = Sure /\ Fds' = Fds BY SureStays
<1>2. o \in life /\ Wrong(o, sfd[o]) \subseteq Fds BY <1>1, SmallTypes
<1>t. timeout \in [Objs -> Timeouts] /\ nonblock \in [Fds -> BOOLEAN] BY DEF SkInv, SkTypeOK
<1>b. nonblock' \in [Fds -> BOOLEAN] BY <1>1, <1>t
<1>3. SkTypeOK' BY <1>0, <1>1, <1>2, <1>b DEF SkInv, SkTypeOK, locVars
<1>4. env.sharing = "close" \/ foreign' \subseteq Doubtful BY <1>1, <1>2, NotWrong DEF SkInv, NoneForeign
<1>5. OwnedByHolder' BY <1>0, <1>1 DEF SkInv, OwnedByHolder
<1>n. \A f \in Fds : f # sfd[o] => nonblock'[f] = nonblock[f] BY <1>1, <1>t, Zenon
<1>m. sfd[o] \in Fds => (nonblock'[sfd[o]] <=> v = "zero") BY <1>1, Zenon
<1>6. ClosedBlocks'
  <2> SUFFICES ASSUME NEW f \in Sure, owner[f] \in {None, "accepting"} PROVE ~nonblock'[f]
    BY <1>0, <1>1 DEF ClosedBlocks
  <2>1. f # sfd[o] BY <1>2, SocketAssumption DEF SkInv, OwnedByHolder
  <2> QED BY <1>n, <2>1 DEF SkInv, ClosedBlocks, Sure
<1>7. \A t \in Threads : on[t] # None => /\ on[t] \in life'
                                         /\ env.sharing = "timeout" \/ timeout'[on[t]] = timeout[on[t]]
                                         /\ env.sharing = "close" \/ sfd'[on[t]] = sfd[on[t]]
  <2> SUFFICES ASSUME NEW t \in Threads, on[t] # None
               PROVE on[t] \in life /\ (env.sharing = "timeout" \/ timeout'[on[t]] = timeout[on[t]])
    BY <1>1
  <2>1. on[t] \in life /\ on[t] \in Objs BY SmallTypes DEF SkInv, InCall
  <2>2. env.sharing # "timeout" => on[t] # o BY <1>1 DEF MaySet, Busy
  <2> QED BY <1>1, <1>t, <2>1, <2>2
<1>8. \A f \in Sure : owner[f] = "accepting" => owner'[f] = "accepting" BY <1>1
<1>9. \A f \in Sure : \/ owner'[f] = None \/ \E p \in life' : sfd'[p] = f
                      \/ owner'[f] = owner[f] /\ \A p \in life : sfd[p] # f
  BY <1>1
<1>10. env.sharing # "timeout" =>
        \A p \in life' : sfd'[p] \in Sure /\ ~InConnect(p) => (nonblock'[sfd'[p]] <=> timeout'[p] = "zero")
  <2> SUFFICES ASSUME env.sharing # "timeout", NEW p \in life, sfd[p] \in Sure, ~InConnect(p)
               PROVE nonblock'[sfd[p]] <=> timeout'[p] = "zero"
    BY <1>1
  <2>1. sfd[p] \in Fds /\ p \in Objs BY SmallTypes DEF Sure
  <2>2. CASE p = o
    <3>1. timeout'[o] = v BY <1>1, <1>t
    <3> QED BY <1>m, <2>1, <2>2, <3>1
  <2>3. CASE p # o
    <3>1. sfd[p] # sfd[o] BY <1>2, <2>3, OneHolder
    <3>2. timeout'[p] = timeout[p] BY <1>1, <1>t, <2>1, <2>3
    <3>3. nonblock'[sfd[p]] = nonblock[sfd[p]] BY <1>n, <2>1, <3>1
    <3> QED BY <3>2, <3>3 DEF SkInv, ModeKept, Sure
  <2> QED BY <2>2, <2>3
<1> QED BY <1>1, <1>3, <1>4, <1>5, <1>6, <1>7, <1>8, <1>9, <1>10, QuietStep
(* A new object, and its descriptor: one that was free, or that of an      *)
(* object collected in the same step.                                      *)
LEMMA NewObjectStep ==
  ASSUME SkInv, SkTypeOK', UNCHANGED <<locVars, env>>, NEW o \in Objs \ life, NEW f \in Fds,
         NEW gs \in SUBSET life, \A t \in Threads : on[t] \notin gs,
         life' = (life \ gs) \cup {o}, sfd' = [sfd EXCEPT ![o] = f],
         timeout' = [timeout EXCEPT ![o] = "forever"],
         f \in Sure => owner[f] = None \/ f \in Closing(gs),
         \A d \in Sure : owner'[d] = IF d = f THEN o ELSE IF d \in Closing(gs) THEN None ELSE owner[d],
         \A d \in Sure : nonblock'[d] <=> nonblock[d] /\ d \notin Closing(gs),
         env.sharing = "close" \/ foreign' \subseteq Doubtful
  PROVE  SkInv'
<1>c. /\ \A p \in life \ gs : sfd[p] \in Sure => sfd[p] \notin Closing(gs)
      /\ \A d \in Sure : owner[d] = "accepting" => d \notin Closing(gs)
      /\ \A d \in Sure : d \in Closing(gs) => owner[d] \in gs
  BY ClosingFacts
<1>0. Doubtful' = Doubtful /\ Sure' = Sure /\ Fds' = Fds BY SureStays
<1>t. sfd \in [Objs -> Fds \cup {None}] /\ timeout \in [Objs -> Timeouts] /\ life \subseteq Objs
  BY DEF SkInv, SkTypeOK
<1>n. None \notin Sure /\ Sure \subseteq Fds BY FdsAreNumbers DEF Sure
<1>1. sfd'[o] = f /\ timeout'[o] = "forever" BY <1>t
<1>2. \A p \in life' : p # o => /\ p \in life \ gs /\ sfd'[p] = sfd[p] /\ timeout'[p] = timeout[p]
  BY <1>t
<1>3. \A p \in life \ gs : sfd[p] \in Sure => sfd[p] # f
  <2> SUFFICES ASSUME NEW p \in life \ gs, sfd[p] \in Sure, sfd[p] = f PROVE FALSE OBVIOUS
  <2>1. owner[f] = p BY DEF SkInv, OwnedByHolder
  <2>2. p # None BY <1>t, SocketAssumption
  <2> QED BY <1>c, <2>1, <2>2
<1>4. OwnedByHolder'
  <2> SUFFICES ASSUME NEW p \in life', sfd'[p] \in Sure PROVE owner'[sfd'[p]] = p
    BY <1>0 DEF OwnedByHolder
  <2>1. CASE p = o BY <1>1, <2>1
  <2>2. CASE p # o
    <3>1. owner[sfd[p]] = p /\ sfd'[p] = sfd[p] BY <1>2, <2>2 DEF SkInv, OwnedByHolder
    <3> QED BY <1>c, <1>2, <1>3, <2>2, <3>1
  <2> QED BY <2>1, <2>2
<1>5. ClosedBlocks'
  <2> SUFFICES ASSUME NEW d \in Sure, owner'[d] \in {None, "accepting"}, nonblock'[d] PROVE FALSE
    BY <1>0 DEF ClosedBlocks
  <2>1. d # f /\ d \notin Closing(gs) /\ nonblock[d] BY SocketAssumption
  <2> QED BY <2>1 DEF SkInv, ClosedBlocks
<1>6. \A t \in Threads : on[t] # None => /\ on[t] \in life'
                                         /\ env.sharing = "timeout" \/ timeout'[on[t]] = timeout[on[t]]
                                         /\ env.sharing = "close" \/ sfd'[on[t]] = sfd[on[t]]
  <2> SUFFICES ASSUME NEW t \in Threads, on[t] # None
               PROVE on[t] \in life' /\ timeout'[on[t]] = timeout[on[t]] /\ sfd'[on[t]] = sfd[on[t]]
    OBVIOUS
  <2>1. on[t] \in life \ gs BY DEF SkInv, InCall
  <2> QED BY <1>2, <2>1
<1>7. \A d \in Sure : owner[d] = "accepting" => owner'[d] = "accepting" BY <1>c, SocketAssumption
<1>8. \A d \in Sure : \/ owner'[d] = None \/ \E p \in life' : sfd'[p] = d
                      \/ owner'[d] = owner[d] /\ \A p \in life : sfd[p] # d
  <2> SUFFICES ASSUME NEW d \in Sure, owner'[d] # None, d # f, NEW p \in life, sfd[p] = d
               PROVE \E q \in life' : sfd'[q] = d
    BY <1>1
  <2>1. d \notin Closing(gs) OBVIOUS
  <2>2. p \notin gs BY <1>n, <2>1 DEF Closing
  <2>3. p \in life' /\ p # o BY <2>2
  <2> QED BY <1>2, <2>3
<1>9. env.sharing # "timeout" =>
        \A p \in life' : sfd'[p] \in Sure /\ ~InConnect(p) => (nonblock'[sfd'[p]] <=> timeout'[p] = "zero")
  <2> SUFFICES ASSUME env.sharing # "timeout", NEW p \in life', sfd'[p] \in Sure, ~InConnect(p)
               PROVE nonblock'[sfd'[p]] <=> timeout'[p] = "zero"
    OBVIOUS
  <2>1. CASE p = o
    <3>1. f \in Sure BY <1>1, <2>1
    <3>2. ~nonblock'[f] BY <3>1 DEF SkInv, ClosedBlocks
    <3> QED BY <1>1, <2>1, <3>2
  <2>2. CASE p # o
    <3>1. /\ p \in life /\ sfd'[p] = sfd[p] /\ timeout'[p] = timeout[p] /\ sfd[p] \notin Closing(gs)
      BY <1>c, <1>2, <2>2
    <3>2. nonblock[sfd[p]] <=> timeout[p] = "zero" BY <3>1 DEF SkInv, ModeKept, Sure
    <3> QED BY <3>1, <3>2
  <2> QED BY <2>1, <2>2
<1> QED BY <1>4, <1>5, <1>6, <1>7, <1>8, <1>9, QuietStep

LEMMA MakeNewStep ==
  ASSUME SkInv, UNCHANGED env, NEW o \in Objs, MakeNew(o)
  PROVE  SkInv'
<1>f. PICK f \in Fds : f = Min(FreeOf(owner)) /\ owner[f] = None
  <2>1. FreeOf(owner) \in SUBSET Nat /\ FreeOf(owner) # {} BY FdsAreNumbers DEF FreeOf, MakeNew
  <2>2. Min(FreeOf(owner)) \in FreeOf(owner) BY <2>1, MinIn
  <2> QED BY <2>2 DEF FreeOf
<1>1. /\ life' = life \cup {o} /\ sfd' = [sfd EXCEPT ![o] = f]
      /\ state' = [state EXCEPT ![o] = "new"] /\ timeout' = [timeout EXCEPT ![o] = "forever"]
      /\ held' = held \cup {o} /\ owner' = [owner EXCEPT ![f] = o] /\ link' = [link EXCEPT ![f] = "none"]
      /\ UNCHANGED <<nonblock, rx, fin, foreign, locVars>>
  BY <1>f DEF MakeNew, Created, Opened
<1>2. o \in Objs \ life BY SmallTypes, FreshIsNew DEF MakeNew
<1>t. SkTypeOK BY DEF SkInv
<1>3. SkTypeOK' BY <1>t, <1>1 DEF SkTypeOK, locVars, Fds, Timeouts
<1>4. {} \in SUBSET life /\ (\A t \in Threads : on[t] \notin {}) /\ life' = (life \ {}) \cup {o} BY <1>1
<1>5. Closing({}) = {} BY DEF Closing
<1>6. \A d \in Sure : owner'[d] = IF d = f THEN o ELSE IF d \in Closing({}) THEN None ELSE owner[d]
  BY <1>t, <1>1, <1>5 DEF SkTypeOK, Sure
<1>7. \A d \in Sure : nonblock'[d] <=> nonblock[d] /\ d \notin Closing({}) BY <1>1, <1>5
<1>8. env.sharing = "close" \/ foreign' \subseteq Doubtful BY <1>1 DEF SkInv, NoneForeign
<1> QED BY <1>f, <1>1, <1>2, <1>3, <1>4, <1>6, <1>7, <1>8, NewObjectStep

LEMMA MakeNewRaisesStep ==
  ASSUME SkInv, UNCHANGED env, NEW o \in Objs, MakeNewRaises(o)
  PROVE  SkInv'
<1>1. /\ life' = life \cup {o} /\ sfd' = [sfd EXCEPT ![o] = 0]
      /\ state' = [state EXCEPT ![o] = "new"] /\ timeout' = [timeout EXCEPT ![o] = "forever"]
      /\ UNCHANGED <<held, owner, nonblock, link, rx, fin, foreign, locVars>> /\ env.fault = "argument"
  BY DEF MakeNewRaises, Created, netVars
<1>2. o \in Objs \ life BY SmallTypes, FreshIsNew DEF MakeNewRaises
<1>t. SkTypeOK /\ 0 \in Fds BY FdsAreNumbers DEF SkInv
<1>3. SkTypeOK' BY <1>t, <1>1 DEF SkTypeOK, locVars, Fds, Timeouts
<1>4. {} \in SUBSET life /\ (\A t \in Threads : on[t] \notin {}) /\ life' = (life \ {}) \cup {o} BY <1>1
<1>5. Closing({}) = {} BY DEF Closing
<1>s. 0 \notin Sure BY <1>1 DEF Sure, Doubtful
<1>6. \A d \in Sure : owner'[d] = IF d = 0 THEN o ELSE IF d \in Closing({}) THEN None ELSE owner[d]
  BY <1>1, <1>5, <1>s
<1>7. \A d \in Sure : nonblock'[d] <=> nonblock[d] /\ d \notin Closing({}) BY <1>1, <1>5
<1>8. env.sharing = "close" \/ foreign' \subseteq Doubtful BY <1>1 DEF SkInv, NoneForeign
<1> QED BY <1>1, <1>2, <1>t, <1>3, <1>4, <1>s, <1>6, <1>7, <1>8, NewObjectStep

LEMMA MakeNewCollectStep ==
  ASSUME SkInv, UNCHANGED env, NEW o \in Objs, MakeNewCollect(o)
  PROVE  SkInv'
<1>g. Garbage \in SUBSET life /\ held \subseteq life \ Garbage BY SmallTypes DEF Garbage
<1>c. /\ Closing(Garbage) \subseteq Fds
      /\ UNION {Wrong(p, sfd[p]) : p \in Garbage} \subseteq Doubtful
      /\ UNION {Wrong(p, sfd[p]) : p \in Garbage} \subseteq Fds
  BY <1>g, ClosingFacts
<1>f. PICK f \in Fds : f = Min(Closing(Garbage)) /\ f \in Closing(Garbage)
  <2>1. Closing(Garbage) \in SUBSET Nat /\ Closing(Garbage) # {}
    BY <1>c, FdsAreNumbers DEF MakeNewCollect
  <2>2. Min(Closing(Garbage)) \in Closing(Garbage) BY <2>1, MinIn
  <2> QED BY <1>c, <2>2
<1>1. /\ life' = (life \ Garbage) \cup {o} /\ sfd' = [sfd EXCEPT ![o] = f]
      /\ state' = [state EXCEPT ![o] = "new"] /\ timeout' = [timeout EXCEPT ![o] = "forever"]
      /\ owner' = [d \in Fds |-> IF d = f THEN o ELSE IF d \in Closing(Garbage) THEN None ELSE owner[d]]
      /\ link' = [d \in Fds |-> IF d \in Closing(Garbage) THEN "none" ELSE link[d]]
      /\ nonblock' = [d \in Fds |-> nonblock[d] /\ d \notin Closing(Garbage)]
      /\ rx' = rx \ Closing(Garbage)
      /\ fin' = [d \in Fds |-> IF d \in Closing(Garbage) THEN "none" ELSE fin[d]]
      /\ foreign' = foreign \cup UNION {Wrong(p, sfd[p]) : p \in Garbage}
      /\ held' = held \cup {o} /\ UNCHANGED locVars
  BY <1>f DEF MakeNewCollect
<1>2. o \in Objs \ life BY SmallTypes, FreshIsNew DEF MakeNewCollect
<1>t. SkTypeOK BY DEF SkInv
<1>3. SkTypeOK'
  <2>1. /\ owner' \in [Fds -> Objs \cup {None, "accepting", "lost"}] /\ nonblock' \in [Fds -> BOOLEAN]
        /\ link' \in [Fds -> {"none", "listen", "syn", "up", "refused"}]
        /\ rx' \subseteq Fds /\ fin' \in [Fds -> {"none", "sent", "told"}]
    BY <1>t, <1>1 DEF SkTypeOK
  <2>2. foreign' \subseteq Fds BY <1>t, <1>c, <1>1 DEF SkTypeOK
  <2>3. life' \subseteq Objs /\ held' \subseteq life' BY <1>t, <1>1, <1>g DEF SkTypeOK
  <2>4. /\ sfd' \in [Objs -> Fds \cup {None}] /\ state' \in [Objs -> {"new", "connected", "peer_closed"}]
        /\ timeout' \in [Objs -> Timeouts]
    BY <1>t, <1>1 DEF SkTypeOK, Timeouts
  <2>5. UNCHANGED <<at, on, lfd, tries, res>> BY <1>1 DEF locVars
  <2> QED BY <1>t, <2>1, <2>2, <2>3, <2>4, <2>5 DEF SkTypeOK, Fds
<1>4. \A t \in Threads : on[t] \notin Garbage BY DEF Garbage, Busy
<1>5. \A d \in Sure : owner'[d] = IF d = f THEN o ELSE IF d \in Closing(Garbage) THEN None ELSE owner[d]
  BY <1>1 DEF Sure
<1>6. \A d \in Sure : nonblock'[d] <=> nonblock[d] /\ d \notin Closing(Garbage) BY <1>1 DEF Sure
<1>7. env.sharing = "close" \/ foreign' \subseteq Doubtful BY <1>1, <1>c DEF SkInv, NoneForeign
<1> QED BY <1>f, <1>g, <1>1, <1>2, <1>3, <1>4, <1>5, <1>6, <1>7, NewObjectStep
-----------------------------------------------------------------------------
(* accept                                                                  *)

LEMMA LwipAcceptStep ==
  ASSUME SkInv, UNCHANGED env, NEW t \in Threads, LwipAccept(t)
  PROVE  SkInv'
<1>1. /\ at[t] = "accept" /\ at[t] # "idle" /\ ~Got(t) /\ foreign' = foreign \cup Wrong(on[t], lfd[t])
      /\ UNCHANGED <<life, held, sfd, state, timeout>>
  BY DEF LwipAccept, objVars, Got
<1>2. NetTypes /\ LocalTypes /\ Wrong(on[t], lfd[t]) \subseteq Fds /\ SkTypeOK BY SmallTypes DEF SkInv
<1>3. env.sharing = "close" \/ foreign' \subseteq Doubtful BY <1>1, CallFacts
<1>4. CASE /\ UNCHANGED <<owner, nonblock, link, fin>> /\ rx' \subseteq rx
           /\ \E r \in {"again", "error"} : Back(t, "accepted", r)
  <2>1. NetTypes' BY <1>1, <1>2, <1>4 DEF NetTypes, Fds
  <2>2. PICK r \in {"again", "error"} : Back(t, "accepted", r) BY <1>4
  <2>3. "accepted" \in Waits \cup Returned /\ r \in {"none", "ok", "eof", "again", "error"} BY DEF Returned
  <2> QED BY <1>1, <1>3, <1>4, <2>1, <2>2, <2>3, BackStep
<1>5. ASSUME FreeOf(owner) # {}, Opened(Min(FreeOf(owner)), "accepting", "up"), rx' = rx \ {lfd[t]},
             UNCHANGED <<nonblock, fin, on, tries>>, at' = [at EXCEPT ![t] = "accepted"],
             res' = [res EXCEPT ![t] = "ok"], lfd' = [lfd EXCEPT ![t] = Min(FreeOf(owner))]
      PROVE  SkInv'
  <2>f. PICK f \in Fds : f = Min(FreeOf(owner)) /\ owner[f] = None
    <3>1. FreeOf(owner) \in SUBSET Nat BY FdsAreNumbers DEF FreeOf
    <3>2. Min(FreeOf(owner)) \in FreeOf(owner) BY <1>5, <3>1, MinIn
    <3> QED BY <3>2 DEF FreeOf
  <2>1. /\ owner' = [owner EXCEPT ![f] = "accepting"] /\ link' = [link EXCEPT ![f] = "up"]
        /\ lfd' = [lfd EXCEPT ![t] = f]
    BY <1>5, <2>f DEF Opened
  <2>2. SkTypeOK' BY ZenonT(40), <1>1, <1>2, <1>5, <2>1 DEF SkTypeOK, Returned, Fds
  <2>0. Doubtful' = Doubtful /\ Sure' = Sure /\ Fds' = Fds BY SureStays
  <2>3. OthersStay(t) /\ Got(t)' /\ lfd'[t] = f /\ at'[t] = "accepted" /\ on'[t] = on[t]
    BY <1>2, <1>5, <2>1 DEF LocalTypes, OthersStay, Got
  <2>o. \A d \in Fds : owner'[d] = IF d = f THEN "accepting" ELSE owner[d] BY <1>2, <2>1 DEF SkTypeOK
  <2>n. None \notin Sure /\ Sure \subseteq Fds BY FdsAreNumbers DEF Sure
  <2>4. OwnedByHolder'
    <3> SUFFICES ASSUME NEW o \in life, sfd[o] \in Sure PROVE owner'[sfd[o]] = o
      BY <1>1, <2>0 DEF OwnedByHolder
    <3>1. owner[sfd[o]] = o /\ o # None BY SocketAssumption, SmallTypes DEF SkInv, OwnedByHolder
    <3> QED BY <2>f, <2>o, <2>n, <3>1
  <2>g. \A u \in Threads \ {t} : (Got(u)' <=> Got(u)) /\ lfd'[u] = lfd[u] BY <2>3 DEF Got, OthersStay
  <2>5. NoneLost'
    <3> SUFFICES ASSUME env.fault # "memory", NEW d \in Sure
                 PROVE \/ owner'[d] = None \/ (\E o \in life : sfd[o] = d)
                       \/ owner'[d] = "accepting" /\ \E u \in Threads : Got(u)' /\ lfd'[u] = d
      BY <1>1, <2>0 DEF NoneLost
    <3>1. CASE d = f BY <2>o, <2>3, <3>1
    <3>2. CASE d # f
      <4>1. owner'[d] = owner[d] BY <2>o, <2>n, <3>2
      <4>2. \/ owner[d] = None \/ (\E o \in life : sfd[o] = d)
            \/ owner[d] = "accepting" /\ \E u \in Threads : Got(u) /\ lfd[u] = d
        BY DEF SkInv, NoneLost
      <4> QED BY <1>1, <2>g, <4>1, <4>2
    <3> QED BY <3>1, <3>2
  <2>6. OneAccept'
    <3>1. ASSUME NEW u \in Threads, u # t, Got(u)
          PROVE lfd[u] \in Fds /\ (lfd[u] \in Sure => owner[lfd[u]] = "accepting" /\ lfd[u] # f)
      BY <2>f, <3>1, SocketAssumption DEF SkInv, OneAccept
    <3>2. \A u \in Threads : Got(u)' => lfd'[u] \in Fds /\ (lfd'[u] \in Sure => owner'[lfd'[u]] = "accepting")
      BY <2>o, <2>3, <2>g, <3>1
    <3>3. \A u, v \in Threads : Got(u)' /\ Got(v)' /\ u # v /\ lfd'[u] = lfd'[v] => lfd'[u] \notin Sure
      <4> SUFFICES ASSUME NEW u \in Threads, NEW v \in Threads, Got(u)', Got(v)', u # v, lfd'[u] = lfd'[v],
                          lfd'[u] \in Sure
                   PROVE FALSE
        OBVIOUS
      <4>1. u # t => Got(u) /\ lfd'[u] = lfd[u] BY <2>g
      <4>2. v # t => Got(v) /\ lfd'[v] = lfd[v] BY <2>g
      <4>3. CASE u = t BY <2>3, <3>1, <4>2, <4>3
      <4>4. CASE v = t BY <2>3, <3>1, <4>1, <4>4
      <4>5. CASE u # t /\ v # t BY <4>1, <4>2, <4>5 DEF SkInv, OneAccept
      <4> QED BY <4>3, <4>4, <4>5
    <3> QED BY <2>0, <3>2, <3>3 DEF OneAccept
  <2>7. InCall' BY <1>1, <2>3 DEF SkInv, InCall, OthersStay
  <2>8. Captured'
    <3> SUFFICES ASSUME env.sharing # "close", NEW u \in Threads, at'[u] # "idle", ~Got(u)'
                 PROVE lfd'[u] = sfd[on'[u]]
      BY <1>1 DEF Captured
    <3>1. u # t BY <2>3
    <3> QED BY <2>3, <2>g, <3>1 DEF SkInv, Captured, OthersStay
  <2>9. NoneForeign' BY <1>3, <2>0 DEF NoneForeign
  <2>10. ModeKept'
    <3> SUFFICES ASSUME env.sharing # "timeout", NEW o \in life, sfd[o] \in Fds \ Doubtful, ~InConnect(o)'
                 PROVE nonblock[sfd[o]] <=> timeout[o] = "zero"
      BY <1>1, <1>5, <2>0 DEF ModeKept
    <3>1. ~InConnect(o) BY <1>1, <2>3 DEF InConnect, OthersStay
    <3> QED BY <3>1 DEF SkInv, ModeKept
  <2>11. ClosedBlocks'
    <3> SUFFICES ASSUME NEW d \in Sure, owner'[d] \in {None, "accepting"} PROVE ~nonblock[d]
      BY <1>5, <2>0 DEF ClosedBlocks
    <3> QED BY <2>f, <2>o, <2>n DEF SkInv, ClosedBlocks
  <2>12. ConnectRetries' BY <1>1, <2>3 DEF SkInv, ConnectRetries, Retrying, OthersStay
  <2> QED BY <2>2, <2>4, <2>5, <2>6, <2>7, <2>8, <2>9, <2>10, <2>11, <2>12 DEF SkInv
<1> QED BY <1>4, <1>5 DEF LwipAccept, netVars
(* accept() ends with the descriptor lwIP has opened: it becomes that of   *)
(* the new object, or is lost.                                             *)
LEMMA HandedOver ==
  ASSUME SkInv, SkTypeOK', UNCHANGED <<env, nonblock, foreign>>, NEW t \in Threads, Got(t), Leave(t),
         NEW q \in Objs \cup {"lost"}, \A d \in Fds : owner'[d] = IF d = lfd[t] THEN q ELSE owner[d],
         life \subseteq life',
         \A p \in life : sfd'[p] = sfd[p] /\ timeout'[p] = timeout[p],
         \A p \in life' \ life : p = q /\ sfd'[p] = lfd[t] /\ timeout'[p] = "forever",
         env.fault = "memory" \/ \E p \in life' : sfd'[p] = lfd[t]
  PROVE  SkInv'
<1>0. Doubtful' = Doubtful /\ Sure' = Sure /\ Fds' = Fds BY SureStays
<1>l. LocalTypes' /\ OthersStay(t) /\ at'[t] = "idle" /\ on'[t] = None /\ res'[t] = "none"
  BY SmallTypes, LeaveIs
<1>t. owner \in [Fds -> Objs \cup {None, "accepting", "lost"}] /\ life \subseteq Objs BY DEF SkInv, SkTypeOK
<1>f. PICK f \in Fds : f = lfd[t] /\ (f \in Sure => owner[f] = "accepting" /\ ~nonblock[f])
  BY DEF SkInv, OneAccept, ClosedBlocks
<1>o. \A d \in Fds : owner'[d] = IF d = f THEN q ELSE owner[d] BY <1>f
<1>n. Sure \subseteq Fds BY DEF Sure
<1>g. /\ ~Got(t)'
      /\ \A u \in Threads \ {t} : (Got(u)' <=> Got(u)) /\ lfd'[u] = lfd[u] /\ on'[u] = on[u] /\ at'[u] = at[u]
  BY <1>l DEF Got, OthersStay
<1>1. OwnedByHolder'
  <2> SUFFICES ASSUME NEW p \in life', sfd'[p] \in Sure PROVE owner'[sfd'[p]] = p
    BY <1>0 DEF OwnedByHolder
  <2>1. CASE p \in life
    <3>1. owner[sfd[p]] = p /\ sfd[p] \in Sure BY <2>1 DEF SkInv, OwnedByHolder
    <3>2. p # "accepting" BY <1>t, <2>1, SocketAssumption
    <3>3. sfd[p] # f BY <1>f, <3>1, <3>2
    <3> QED BY <1>n, <1>o, <2>1, <3>1, <3>3
  <2>2. CASE p \notin life BY <1>f, <1>o, <2>2
  <2> QED BY <2>1, <2>2
<1>2. NoneLost'
  <2> SUFFICES ASSUME env.fault # "memory", NEW d \in Sure
               PROVE \/ owner'[d] = None \/ (\E p \in life' : sfd'[p] = d)
                     \/ owner'[d] = "accepting" /\ \E u \in Threads : Got(u)' /\ lfd'[u] = d
    BY <1>0 DEF NoneLost
  <2>1. CASE d = f BY <1>f, <2>1
  <2>2. CASE d # f
    <3>1. owner'[d] = owner[d] BY <1>o, <1>n, <2>2
    <3>2. \/ owner[d] = None \/ (\E p \in life : sfd[p] = d)
          \/ owner[d] = "accepting" /\ \E u \in Threads : Got(u) /\ lfd[u] = d
      BY DEF SkInv, NoneLost
    <3>3. ASSUME NEW u \in Threads, Got(u), lfd[u] = d PROVE Got(u)' /\ lfd'[u] = d
      BY <1>f, <1>g, <2>2, <3>3
    <3> QED BY <3>1, <3>2, <3>3
  <2> QED BY <2>1, <2>2
<1>3. OneAccept'
  <2>1. \A u \in Threads : Got(u)' => lfd'[u] \in Fds /\ (lfd'[u] \in Sure => owner'[lfd'[u]] = "accepting")
    <3> SUFFICES ASSUME NEW u \in Threads, Got(u)'
                 PROVE lfd'[u] \in Fds /\ (lfd'[u] \in Sure => owner'[lfd'[u]] = "accepting")
      OBVIOUS
    <3>1. u # t /\ Got(u) /\ lfd'[u] = lfd[u] BY <1>g
    <3>2. lfd[u] \in Fds /\ (lfd[u] \in Sure => owner[lfd[u]] = "accepting" /\ lfd[u] # f)
      BY <1>f, <3>1 DEF SkInv, OneAccept
    <3> QED BY <1>o, <3>1, <3>2
  <2>2. \A u, v \in Threads : Got(u)' /\ Got(v)' /\ u # v /\ lfd'[u] = lfd'[v] => lfd'[u] \notin Sure
    BY <1>g DEF SkInv, OneAccept
  <2> QED BY <1>0, <2>1, <2>2 DEF OneAccept
<1>4. InCall' BY <1>l, <1>g DEF SkInv, InCall
<1>5. Captured'
  <2> SUFFICES ASSUME env.sharing # "close", NEW u \in Threads, at'[u] # "idle", ~Got(u)'
               PROVE lfd'[u] = sfd'[on'[u]]
    BY DEF Captured
  <2>1. u # t BY <1>l
  <2>2. lfd[u] = sfd[on[u]] /\ on[u] \in life BY <1>g, <2>1 DEF SkInv, Captured, InCall
  <2> QED BY <1>g, <2>1, <2>2
<1>6. NoneForeign' BY <1>0 DEF SkInv, NoneForeign
<1>7. ModeKept'
  <2> SUFFICES ASSUME env.sharing # "timeout", NEW p \in life', sfd'[p] \in Fds \ Doubtful, ~InConnect(p)'
               PROVE nonblock[sfd'[p]] <=> timeout'[p] = "zero"
    BY <1>0 DEF ModeKept
  <2>1. CASE p \in life
    <3>1. ~InConnect(p)
      <4> SUFFICES ASSUME NEW u \in Threads, on[u] = p, at[u] \in {"connect", "restore"} PROVE FALSE
        BY DEF InConnect
      <4>1. u # t BY DEF Got
      <4> QED BY <1>g, <4>1 DEF InConnect
    <3> QED BY <2>1, <3>1 DEF SkInv, ModeKept
  <2>2. CASE p \notin life BY <1>f, <2>2 DEF Sure
  <2> QED BY <2>1, <2>2
<1>8. ClosedBlocks'
  <2> SUFFICES ASSUME NEW d \in Sure, owner'[d] \in {None, "accepting"} PROVE ~nonblock[d]
    BY <1>0 DEF ClosedBlocks
  <2> QED BY <1>f, <1>o, <1>n DEF SkInv, ClosedBlocks
<1>9. ConnectRetries'
  <2> SUFFICES ASSUME env.sharing # "timeout", NEW u \in Threads, at'[u] \in {"block", "connect", "restore"}
               PROVE timeout'[on'[u]] # "zero"
    BY DEF ConnectRetries, Retrying
  <2>1. u # t BY <1>l
  <2>2. timeout[on[u]] # "zero" /\ on[u] \in life
    BY <1>g, <2>1 DEF SkInv, ConnectRetries, Retrying, InCall
  <2> QED BY <1>g, <2>1, <2>2
<1> QED BY <1>1, <1>2, <1>3, <1>4, <1>5, <1>6, <1>7, <1>8, <1>9 DEF SkInv

LEMMA AcceptedStep ==
  ASSUME SkInv, UNCHANGED env, NEW t \in Threads, Accepted(t)
  PROVE  SkInv'
<1>1. at[t] = "accepted" /\ UNCHANGED <<foreign, nonblock, link, rx, fin>> BY DEF Accepted
<1>t. SkTypeOK /\ LocalTypes /\ NetTypes BY SmallTypes DEF SkInv
<1>2. CASE res[t] = "again" /\ More(t) /\ Wait(t, "accept", on[t], Counted(t)) /\ UNCHANGED objVars /\ UNCHANGED owner
  <2>1. ~Got(t) /\ UNCHANGED <<life, held, sfd, state, timeout>> BY <1>2 DEF Got, objVars
  <2>2. NetTypes' BY <1>1, <1>t, <2>1 DEF NetTypes, Fds
  <2>3. on[t] \in life /\ on[t] \in Objs /\ (env.sharing = "close" \/ foreign' \subseteq Doubtful)
    BY <1>1, <2>1, CallFacts
  <2>4. Counted(t) \in 0 .. Polls BY <1>2, <2>3, CountedIs
  <2> QED BY <1>1, <1>2, <2>1, <2>2, <2>3, <2>4, WaitStep
<1>3. CASE res[t] \in {"again", "error"} /\ Leave(t) /\ UNCHANGED objVars /\ UNCHANGED owner
  <2>1. ~Got(t) /\ UNCHANGED <<life, held, sfd, state, timeout>> BY <1>3 DEF Got, objVars
  <2>2. NetTypes' BY <1>1, <1>t, <2>1 DEF NetTypes, Fds
  <2>3. env.sharing = "close" \/ foreign' \subseteq Doubtful BY <1>1 DEF SkInv, NoneForeign
  <2> QED BY <1>1, <1>3, <2>1, <2>2, <2>3, LeaveStep
<1>4. ASSUME res[t] = "ok", Leave(t), NEW o \in Objs, Fresh(o), Created(o, lfd[t], "connected"),
             held' = held \cup {o}, owner' = [owner EXCEPT ![lfd[t]] = o]
      PROVE  SkInv'
  <2>1. Got(t) /\ LocalTypes' BY <1>1, <1>4, <1>t, LeaveIs DEF Got
  <2>2. o \notin life /\ lfd[t] \in Fds BY <1>4, <1>t, <2>1, FreshIsNew DEF SkTypeOK, SkInv, OneAccept
  <2>3. /\ life' = life \cup {o} /\ sfd' = [sfd EXCEPT ![o] = lfd[t]]
        /\ state' = [state EXCEPT ![o] = "connected"] /\ timeout' = [timeout EXCEPT ![o] = "forever"]
    BY <1>4 DEF Created
  <2>4. SkTypeOK' BY <1>1, <1>4, <1>t, <2>1, <2>2, <2>3 DEF SkTypeOK, LocalTypes, Timeouts, Fds
  <2>5. \A p \in life : sfd'[p] = sfd[p] /\ timeout'[p] = timeout[p] BY <1>t, <2>2, <2>3 DEF SkTypeOK
  <2>6. sfd'[o] = lfd[t] /\ timeout'[o] = "forever" BY <1>t, <2>3 DEF SkTypeOK
  <2>7. \A p \in life' \ life : p = o /\ sfd'[p] = lfd[t] /\ timeout'[p] = "forever" BY <2>3, <2>6
  <2>8. life \subseteq life' /\ o \in life' BY <2>3
  <2>9. env.fault = "memory" \/ \E p \in life' : sfd'[p] = lfd[t] BY <2>6, <2>8
  <2>10. /\ UNCHANGED <<env, nonblock, foreign>> /\ Got(t) /\ Leave(t) /\ life \subseteq life'
         /\ \A d \in Fds : owner'[d] = IF d = lfd[t] THEN o ELSE owner[d]
    BY <1>1, <1>4, <1>t, <2>1, <2>8 DEF SkTypeOK
  <2>11. PICK q \in Objs \cup {"lost"} : q = o OBVIOUS
  <2>12. /\ \A p \in life' \ life : p = q /\ sfd'[p] = lfd[t] /\ timeout'[p] = "forever"
         /\ \A d \in Fds : owner'[d] = IF d = lfd[t] THEN q ELSE owner[d]
    BY <2>7, <2>10, <2>11
  <2> QED BY ONLY SkInv, t \in Threads, q \in Objs \cup {"lost"}, <2>4, <2>5, <2>9, <2>10, <2>12, HandedOver
<1>5. CASE /\ res[t] = "ok" /\ env.fault = "memory" /\ Leave(t)
           /\ owner' = [owner EXCEPT ![lfd[t]] = "lost"] /\ UNCHANGED objVars
  <2>1. Got(t) /\ LocalTypes' /\ UNCHANGED <<life, held, sfd, state, timeout>>
    BY <1>1, <1>5, <1>t, LeaveIs DEF Got, objVars
  <2>2. SkTypeOK' BY <1>1, <1>5, <1>t, <2>1 DEF SkTypeOK, LocalTypes, Fds
  <2>3. \A d \in Fds : owner'[d] = IF d = lfd[t] THEN "lost" ELSE owner[d] BY <1>5, <1>t DEF SkTypeOK
  <2> QED BY <1>1, <1>5, <2>1, <2>2, <2>3, HandedOver
<1> QED BY <1>2, <1>3, <1>4, <1>5 DEF Accepted

-----------------------------------------------------------------------------
(* Every step keeps the invariant.                                         *)
LEMMA SkInvNext ==
  ASSUME SkInv, [SkNext]_<<skVars, env>>
  PROVE  SkInv'
<1>1. CASE UNCHANGED <<skVars, env>>
  <2>1. UNCHANGED <<life, held, sfd, state, timeout, owner, nonblock, link, rx, fin, locVars, foreign, env>>
    BY <1>1 DEF skVars, objVars, netVars
  <2>2. SkTypeOK' BY <2>1 DEF SkInv, SkTypeOK, locVars, Fds
  <2>3. env.sharing = "close" \/ foreign' \subseteq Doubtful BY <2>1 DEF SkInv, NoneForeign
  <2> QED BY <2>1, <2>2, <2>3, StillStep
<1>2. ASSUME SkStep, UNCHANGED env PROVE SkInv'
  <2>1. CASE Collect BY <1>2, <2>1, CollectStep
  <2>2. ASSUME NEW o \in Objs,
               MakeNew(o) \/ MakeNewRaises(o) \/ MakeNewCollect(o) \/ CloseSocket(o) \/ DropRef(o) \/ Listen(o)
        PROVE  SkInv'
    BY <1>2, <2>2, MakeNewStep, MakeNewRaisesStep, MakeNewCollectStep, CloseSocketStep, DropRefStep, ListenStep
  <2>3. ASSUME NEW o \in Objs, NEW v \in {env.chosen, "forever"}, Settimeout(o, v) PROVE SkInv'
    <3>1. env \in Environment BY EnvironmentAssumption DEF SkInv, SkTypeOK
    <3>2. v \in Timeouts BY <3>1 DEF Environment, Timeouts
    <3> QED BY <1>2, <2>3, <3>2, SettimeoutStep
  <2>4. ASSUME NEW o \in Objs, NEW t \in Threads,
               Recv(t, o) \/ Send(t, o) \/ Accept(t, o) \/ Connect(t, o) \/ Bind(t, o)
        PROVE  SkInv'
    BY <1>2, <2>4, RecvStep, BeginStep
  <2>5. ASSUME NEW t \in Threads, Progress(t) PROVE SkInv'
    <3>1. CASE LwipRecv(t) \/ Recvd(t) \/ LwipSend(t) \/ Sent(t) \/ LwipAccept(t) \/ Accepted(t)
      BY <1>2, <3>1, LwipRecvStep, RecvdStep, LwipSendStep, SentStep, LwipAcceptStep, AcceptedStep
    <3>2. CASE Resolve(t) \/ Resolved(t) \/ ResolveFails(t) \/ Bound(t)
      BY <1>2, <3>2, ResolveStep, ResolvedStep, ResolveFailsStep, BoundStep
    <3>3. CASE Unblock(t) \/ LwipConnect(t) \/ Restore(t) \/ SelectWritable(t)
      BY <1>2, <3>3, UnblockStep, LwipConnectStep, RestoreStep, SelectWritableStep
    <3> QED BY <2>5, <3>1, <3>2, <3>3 DEF Progress
  <2>6. ASSUME NEW f \in Fds, Network(f) PROVE SkInv' BY <1>2, <2>6, NetworkStep
  <2> QED BY <1>2, <2>1, <2>2, <2>3, <2>4, <2>5, <2>6 DEF SkStep
<1> QED BY <1>1, <1>2 DEF SkNext

LEMMA SkInvImplies == SkInv => FdOwned
<1> SUFFICES ASSUME SkInv PROVE FdOwned OBVIOUS
<1>1. \A f \in Fds \ Doubtful :
        env.fault # "memory" =>
          \/ owner[f] = None \/ (\E o \in life : sfd[o] = f)
          \/ owner[f] = "accepting" /\ \E t \in Threads : at[t] = "accepted" /\ lfd[t] = f
  BY DEF SkInv, NoneLost, Sure, Got
<1> QED BY <1>1 DEF SkInv, FdOwned, OwnedByHolder, NoneForeign, Sure

(* The descriptor of a socket object is open and its own, no open          *)
(* descriptor is without an object, and lwIP is never given one that has   *)
(* passed on to another socket (socket_make_new, socket_accept,            *)
(* socket_stream_ioctl), for every number of objects, threads and          *)
(* descriptors.                                                            *)
THEOREM FdOwnedAlways == SkSpec => []FdOwned
<1>1. SkInit => SkInv BY SkInvInit
<1>2. SkInv /\ [SkNext]_<<skVars, env>> => SkInv' BY SkInvNext
<1>3. SkInv => FdOwned BY SkInvImplies
<1> QED BY <1>1, <1>2, <1>3, PTL DEF SkSpec

(* Outside connect() a descriptor is non-blocking exactly when the timeout *)
(* of its socket is 0 (socket_connect, _socket_settimeout), unless another *)
(* thread calls settimeout() on the socket while connect() waits.          *)
THEOREM ModeKeptAlways == SkSpec => []ModeKept
<1>1. SkInit => SkInv BY SkInvInit
<1>2. SkInv /\ [SkNext]_<<skVars, env>> => SkInv' BY SkInvNext
<1>3. SkInv => ModeKept BY DEF SkInv
<1> QED BY <1>1, <1>2, <1>3, PTL DEF SkSpec

(***************************************************************************)
(* The callbacks of the sockets.                                           *)
(***************************************************************************)
(* q is the list of n nodes that starts at head.                           *)
Chain(n, q) ==
  /\ n \in Nat /\ q \in [1 .. n -> Socks]
  /\ \A i, j \in 1 .. n : q[i] = q[j] => i = j
  /\ head = IF n = 0 THEN Nil ELSE q[1]
  /\ \A i \in 1 .. n : next[q[i]] = IF i = n THEN Nil ELSE q[i + 1]

(* What the walk of the list meets: its nodes, and then Nil for ever.      *)
LEMMA StepsAlong ==
  ASSUME NEW n, NEW q, Chain(n, q), NEW N \in Nat, next \in [Socks -> Ptrs]
  PROVE  \A i \in 0 .. N : Steps(head, N)[i] = IF i < n THEN q[i + 1] ELSE Nil
<1> DEFINE W == [i \in 0 .. N |-> IF i < n THEN q[i + 1] ELSE Nil]
           G(f) == [i \in 0 .. N |-> IF i = 0 THEN head
                                     ELSE IF f[i - 1] = Nil THEN Nil ELSE next[f[i - 1]]]
           S == Steps(head, N)
<1>0. n \in Nat /\ Nil \notin Socks BY SocketEventsAssumption DEF Chain
<1>1. S = CHOOSE f : f = G(f) BY DEF Steps
<1>2. ASSUME NEW i \in 0 .. N PROVE W[i] = G(W)[i]
  <2>1. CASE i = 0 BY <1>0, <2>1 DEF Chain
  <2>2. CASE i # 0 /\ i - 1 < n
    <3>1. i - 1 \in 0 .. N /\ i \in 1 .. n BY <1>0, <2>2
    <3>2. W[i - 1] = q[i] BY <1>0, <2>2, <3>1
    <3>3. q[i] \in Socks /\ next[q[i]] = IF i = n THEN Nil ELSE q[i + 1] BY <3>1 DEF Chain
    <3>4. G(W)[i] = next[q[i]] BY <1>0, <2>2, <3>2, <3>3
    <3> QED BY <1>0, <2>2, <3>1, <3>3, <3>4
  <2>3. CASE i # 0 /\ ~(i - 1 < n)
    <3>1. i - 1 \in 0 .. N BY <2>3
    <3>2. W[i - 1] = Nil /\ W[i] = Nil BY <1>0, <2>3, <3>1
    <3> QED BY <2>3, <3>2
  <2> QED BY <2>1, <2>2, <2>3
<1>3. W = G(W) BY <1>2
<1> HIDE DEF W, G
<1>4. S = G(S) BY <1>1, <1>3
<1> HIDE DEF S
<1>5. \A i \in 0 .. N : S[i] = IF i = 0 THEN head ELSE IF S[i - 1] = Nil THEN Nil ELSE next[S[i - 1]]
  BY <1>4 DEF G
<1>6. \A i \in 0 .. N : W[i] = IF i = 0 THEN head ELSE IF W[i - 1] = Nil THEN Nil ELSE next[W[i - 1]]
  BY <1>3 DEF G
<1>7. \A i \in 0 .. N : S[i] = W[i]
  <2> DEFINE T == {i \in 0 .. N : S[i] # W[i]}
  <2> SUFFICES ASSUME T # {} PROVE FALSE
    OBVIOUS
  <2>0. T \in SUBSET Nat OBVIOUS
  <2>1. PICK m \in T : \A k \in T : m <= k
    <3> HIDE DEF T
    <3> QED BY <2>0, Least
  <2>2. m \in 0 .. N /\ S[m] # W[m] OBVIOUS
  <2>3. m # 0 BY <1>5, <1>6, <2>2
  <2>4. m - 1 \in 0 .. N /\ ~(m <= m - 1) BY <2>2, <2>3
  <2>5. S[m - 1] = W[m - 1] BY <2>1, <2>4
  <2> QED BY <1>5, <1>6, <2>2, <2>3, <2>5
<1> QED BY <1>7 DEF W, S

(* The list fits into the walk, and the walk meets its nodes and no other. *)
LEMMA WalkAlong ==
  ASSUME NEW n, NEW q, Chain(n, q), next \in [Socks -> Ptrs]
  PROVE  /\ Steps(head, Cardinality(Socks))[Cardinality(Socks)] = Nil
         /\ \A s \in Socks : s \in Walk(head) <=> \E i \in 1 .. n : q[i] = s
<1> DEFINE N == Cardinality(Socks)
<1>0. n \in Nat /\ Nil \notin Socks /\ IsFiniteSet(Socks) BY SocketEventsAssumption DEF Chain
<1>1. N \in Nat BY <1>0, FS_CardinalityType
<1>2. n <= N
  <2>1. q \in Injection(1 .. n, Socks) BY DEF Chain, Injection, IsInjective
  <2>2. Cardinality(1 .. n) = n BY <1>0, FS_Interval
  <2>3. Cardinality(1 .. n) <= Cardinality(Socks) BY ONLY <1>0, <2>1, FS_Injection
  <2> QED BY <2>2, <2>3
<1>3. \A i \in 0 .. N : Steps(head, N)[i] = IF i < n THEN q[i + 1] ELSE Nil
  BY <1>1, StepsAlong
<1>4. Walk(head) = {Steps(head, N)[i] : i \in 0 .. N} \ {Nil} BY DEF Walk
<1> HIDE DEF N
<1>5. Steps(head, N)[N] = Nil BY <1>0, <1>1, <1>2, <1>3
<1>6. ASSUME NEW s \in Socks PROVE s \in Walk(head) <=> \E i \in 1 .. n : q[i] = s
  <2>1. s \in Walk(head) <=> \E i \in 0 .. N : s = Steps(head, N)[i] BY <1>0, <1>4
  <2>2. ASSUME NEW i \in 0 .. N, s = Steps(head, N)[i] PROVE \E j \in 1 .. n : q[j] = s
    <3>1. i < n /\ s = q[i + 1] BY <1>0, <1>3, <2>2
    <3>2. i + 1 \in 1 .. n BY <1>0, <3>1
    <3> QED BY <3>1, <3>2
  <2>3. ASSUME NEW j \in 1 .. n, q[j] = s PROVE \E i \in 0 .. N : s = Steps(head, N)[i]
    <3>1. j - 1 \in 0 .. N /\ j - 1 < n /\ (j - 1) + 1 = j BY <1>0, <1>1, <1>2
    <3>2. Steps(head, N)[j - 1] = q[j] BY <1>3, <3>1
    <3> QED BY <2>3, <3>1, <3>2
  <2> QED BY <2>1, <2>2, <2>3
<1> QED BY <1>5, <1>6 DEF N

(* The list is some chain of the registered sockets.                       *)
List(n, q) == Chain(n, q) /\ \A s \in Socks : reg[s] <=> \E i \in 1 .. n : q[i] = s

Listed == \E n, q : List(n, q)

RegisteredOpen == \A s \in Socks : reg[s] => open[s]

(* What the walk stands on.  With polite callbacks the node after the one  *)
(* whose callback runs stays registered, though that one may leave the     *)
(* list.                                                                   *)
Standing ==
  /\ pc = "call" => cur \in Socks
  /\ polite => /\ ~null
               /\ pc = "walk" /\ cur # Nil => reg[cur]
               /\ pc = "call" => next[cur] = Nil \/ reg[next[cur]]

(* ListIsRegistry speaks of what a walk from head meets; a step changes    *)
(* one node, and what it does to every later node follows from the chain.  *)
EventsInv == TypeOK /\ Listed /\ RegisteredOpen /\ Standing

ListTypes ==
  /\ head \in Ptrs /\ next \in [Socks -> Ptrs]
  /\ reg \in [Socks -> BOOLEAN] /\ open \in [Socks -> BOOLEAN]

LEMMA SameList == ASSUME Listed, UNCHANGED <<head, next, reg>> PROVE Listed'
<1>1. PICK n, q : List(n, q) BY DEF Listed
<1>2. List(n, q)' BY <1>1 DEF List, Chain
<1> QED BY <1>2 DEF Listed

LEMMA AddKeeps ==
  ASSUME ListTypes, Listed, NEW s \in Socks, ~reg[s], Add(s), reg' = [reg EXCEPT ![s] = TRUE]
  PROVE  Listed'
<1>1. PICK n, q : List(n, q) BY DEF Listed
<1>2. /\ n \in Nat /\ q \in [1 .. n -> Socks] /\ (\A i, j \in 1 .. n : q[i] = q[j] => i = j)
      /\ head = (IF n = 0 THEN Nil ELSE q[1])
      /\ (\A i \in 1 .. n : next[q[i]] = IF i = n THEN Nil ELSE q[i + 1])
      /\ (\A t \in Socks : reg[t] <=> \E i \in 1 .. n : q[i] = t)
  BY <1>1 DEF List, Chain
<1> DEFINE r == [i \in 1 .. n + 1 |-> IF i = 1 THEN s ELSE q[i - 1]]
<1>3. \A i \in 1 .. n : q[i] # s BY <1>2
<1>4. \A i \in 2 .. n + 1 : i - 1 \in 1 .. n /\ r[i] = q[i - 1] BY <1>2
<1>5. r[1] = s /\ r \in [1 .. n + 1 -> Socks] BY <1>2, <1>4
<1> HIDE DEF r
<1>6. \A i, j \in 1 .. n + 1 : r[i] = r[j] => i = j
  <2> SUFFICES ASSUME NEW i \in 1 .. n + 1, NEW j \in 1 .. n + 1, r[i] = r[j] PROVE i = j
    OBVIOUS
  <2>1. CASE i = 1 /\ j = 1 BY <2>1
  <2>2. CASE i # 1 /\ j = 1
    <3>1. i \in 2 .. n + 1 BY <1>2, <2>2
    <3> QED BY <1>3, <1>4, <1>5, <2>2, <3>1
  <2>3. CASE i = 1 /\ j # 1
    <3>1. j \in 2 .. n + 1 BY <1>2, <2>3
    <3> QED BY <1>3, <1>4, <1>5, <2>3, <3>1
  <2>4. CASE i # 1 /\ j # 1
    <3>1. i \in 2 .. n + 1 /\ j \in 2 .. n + 1 BY <1>2, <2>4
    <3>2. i - 1 \in 1 .. n /\ j - 1 \in 1 .. n /\ q[i - 1] = q[j - 1] BY <1>4, <3>1
    <3>3. i - 1 = j - 1 BY <1>2, <3>2
    <3> QED BY <3>1, <3>3
  <2> QED BY <2>1, <2>2, <2>3, <2>4
<1>7. head' = r[1] BY <1>5 DEF Add
<1>8. next' = [next EXCEPT ![s] = head] BY DEF Add
<1>9. ASSUME NEW i \in 1 .. n + 1 PROVE next'[r[i]] = IF i = n + 1 THEN Nil ELSE r[i + 1]
  <2>1. CASE i = 1
    <3>1. next'[s] = head BY <1>8 DEF ListTypes
    <3>2. CASE n = 0 BY <1>2, <1>5, <2>1, <3>1, <3>2
    <3>3. CASE n # 0
      <4>1. 2 \in 2 .. n + 1 BY <1>2, <3>3
      <4>2. r[2] = q[1] BY <1>4, <4>1
      <4> QED BY <1>2, <1>5, <2>1, <3>1, <3>3, <4>2
    <3> QED BY <3>2, <3>3
  <2>2. CASE i # 1
    <3>1. i \in 2 .. n + 1 BY <1>2, <2>2
    <3>2. i - 1 \in 1 .. n /\ r[i] = q[i - 1] BY <1>4, <3>1
    <3>3. q[i - 1] \in Socks /\ q[i - 1] # s BY <1>2, <1>3, <3>2
    <3>4. next'[r[i]] = next[q[i - 1]] BY <1>8, <3>2, <3>3 DEF ListTypes
    <3>5. next[q[i - 1]] = IF i - 1 = n THEN Nil ELSE q[(i - 1) + 1] BY <1>2, <3>2
    <3>6. (i - 1) + 1 = i /\ (i - 1 = n <=> i = n + 1) BY <1>2, <3>1
    <3>7. i # n + 1 => r[i + 1] = q[i]
      <4> SUFFICES ASSUME i # n + 1 PROVE r[i + 1] = q[i]
        OBVIOUS
      <4>1. i + 1 \in 2 .. n + 1 /\ (i + 1) - 1 = i BY <1>2, <3>1
      <4> QED BY <1>4, <4>1
    <3> QED BY <3>4, <3>5, <3>6, <3>7
  <2> QED BY <2>1, <2>2
<1>10. ASSUME NEW t \in Socks PROVE reg'[t] <=> \E i \in 1 .. n + 1 : r[i] = t
  <2>1. CASE t = s
    <3>1. 1 \in 1 .. n + 1 BY <1>2
    <3> QED BY <1>5, <2>1, <3>1 DEF ListTypes
  <2>2. CASE t # s
    <3>1. reg'[t] = reg[t] BY <2>2 DEF ListTypes
    <3>2. ASSUME NEW i \in 1 .. n + 1, r[i] = t PROVE reg[t]
      <4>1. i \in 2 .. n + 1 BY <1>2, <1>5, <2>2, <3>2
      <4> QED BY <1>2, <1>4, <3>2, <4>1
    <3>3. ASSUME NEW i \in 1 .. n, q[i] = t PROVE \E j \in 1 .. n + 1 : r[j] = t
      <4>1. i + 1 \in 2 .. n + 1 /\ (i + 1) - 1 = i /\ i + 1 \in 1 .. n + 1 BY <1>2
      <4> QED BY <1>4, <3>3, <4>1
    <3> QED BY <1>2, <3>1, <3>2, <3>3
  <2> QED BY <2>1, <2>2
<1>11. n + 1 \in Nat /\ n + 1 # 0 BY <1>2
<1>12. List(n + 1, r)' BY <1>5, <1>6, <1>7, <1>9, <1>10, <1>11 DEF List, Chain
<1> QED BY <1>12 DEF Listed

LEMMA RemoveKeeps ==
  ASSUME ListTypes, Listed, NEW s \in Socks, reg[s], Remove(s), reg' = [reg EXCEPT ![s] = FALSE]
  PROVE  Listed' /\ next'[s] = next[s] /\ next[s] # s
<1>1. PICK n, q : List(n, q) BY DEF Listed
<1>2. /\ n \in Nat /\ q \in [1 .. n -> Socks] /\ (\A i, j \in 1 .. n : q[i] = q[j] => i = j)
      /\ head = (IF n = 0 THEN Nil ELSE q[1])
      /\ (\A i \in 1 .. n : next[q[i]] = IF i = n THEN Nil ELSE q[i + 1])
      /\ (\A t \in Socks : reg[t] <=> \E i \in 1 .. n : q[i] = t)
  BY <1>1 DEF List, Chain
<1>3. \A t \in Socks : t \in Walk(head) <=> \E i \in 1 .. n : q[i] = t
  BY <1>1, WalkAlong DEF List, ListTypes
<1>4. PICK k \in 1 .. n : q[k] = s BY <1>2
<1>n. Nil \notin Socks BY SocketEventsAssumption
<1>5. next[s] # s
  <2>1. CASE k = n BY <1>2, <1>4, <1>n, <2>1
  <2>2. CASE k # n
    <3>1. k + 1 \in 1 .. n /\ k + 1 # k BY <1>2, <2>2
    <3> QED BY <1>2, <1>4, <2>2, <3>1
  <2> QED BY <2>1, <2>2
<1>6. \A i \in 1 .. n : next'[q[i]] = IF next[q[i]] = s THEN next[s] ELSE next[q[i]]
  BY <1>2, <1>3 DEF Remove
<1>7. next'[s] = next[s] BY <1>4, <1>5, <1>6
<1>8. \A i \in 1 .. n : next[q[i]] = s <=> i + 1 = k
  <2> SUFFICES ASSUME NEW i \in 1 .. n PROVE next[q[i]] = s <=> i + 1 = k
    OBVIOUS
  <2>1. CASE i = n BY <1>2, <1>n, <2>1
  <2>2. CASE i # n
    <3>1. i + 1 \in 1 .. n BY <1>2, <2>2
    <3> QED BY <1>2, <1>4, <2>2, <3>1
  <2> QED BY <2>1, <2>2
<1> DEFINE r == [i \in 1 .. n - 1 |-> IF i < k THEN q[i] ELSE q[i + 1]]
<1>9. \A i \in 1 .. n - 1 : /\ i \in 1 .. n /\ i + 1 \in 1 .. n
                            /\ r[i] = (IF i < k THEN q[i] ELSE q[i + 1]) BY <1>2
<1>10. n - 1 \in Nat /\ r \in [1 .. n - 1 -> Socks] BY <1>2, <1>9
<1> HIDE DEF r
<1>11. \A i, j \in 1 .. n - 1 : r[i] = r[j] => i = j
  <2> SUFFICES ASSUME NEW i \in 1 .. n - 1, NEW j \in 1 .. n - 1, r[i] = r[j] PROVE i = j
    OBVIOUS
  <2>1. i \in 1 .. n /\ i + 1 \in 1 .. n /\ j \in 1 .. n /\ j + 1 \in 1 .. n BY <1>9
  <2>2. CASE i < k /\ j < k BY <1>2, <1>9, <2>1, <2>2
  <2>3. CASE i < k /\ ~(j < k)
    <3>1. q[i] = q[j + 1] BY <1>9, <2>3
    <3>2. i = j + 1 BY <1>2, <2>1, <3>1
    <3> QED BY <2>1, <2>3, <3>2
  <2>4. CASE ~(i < k) /\ j < k
    <3>1. q[i + 1] = q[j] BY <1>9, <2>4
    <3>2. i + 1 = j BY <1>2, <2>1, <3>1
    <3> QED BY <2>1, <2>4, <3>2
  <2>5. CASE ~(i < k) /\ ~(j < k)
    <3>1. q[i + 1] = q[j + 1] BY <1>9, <2>5
    <3>2. i + 1 = j + 1 BY <1>2, <2>1, <3>1
    <3> QED BY <2>1, <3>2
  <2> QED BY <2>2, <2>3, <2>4, <2>5
<1>12. head' = IF n - 1 = 0 THEN Nil ELSE r[1]
  <2>0. n # 0 /\ head = q[1] /\ 1 \in 1 .. n BY <1>2
  <2>1. head' = IF head = s THEN next[s] ELSE head BY DEF Remove
  <2>2. CASE k = 1
    <3>1. head' = next[s] BY <1>4, <2>0, <2>1, <2>2
    <3>2. CASE n = 1 BY <1>2, <1>4, <2>2, <3>1, <3>2
    <3>3. CASE n # 1
      <4>1. 1 \in 1 .. n - 1 BY <1>2, <2>0, <3>3
      <4>2. r[1] = q[2] BY <1>9, <2>2, <4>1
      <4>3. next[s] = q[2] BY <1>2, <1>4, <2>2, <3>3
      <4> QED BY <3>1, <3>3, <4>2, <4>3, <1>10
    <3> QED BY <3>2, <3>3
  <2>3. CASE k # 1
    <3>1. head # s BY <1>2, <1>4, <2>0, <2>3
    <3>2. 1 \in 1 .. n - 1 /\ 1 < k /\ n - 1 # 0 BY <1>2, <2>3
    <3>3. r[1] = q[1] BY <1>9, <3>2
    <3> QED BY <2>0, <2>1, <3>1, <3>2, <3>3
  <2> QED BY <2>2, <2>3
<1>13. ASSUME NEW i \in 1 .. n - 1 PROVE next'[r[i]] = IF i = n - 1 THEN Nil ELSE r[i + 1]
  <2>1. i \in 1 .. n /\ i + 1 \in 1 .. n BY <1>9
  <2>e. i # n - 1 => i + 1 \in 1 .. n - 1 /\ (i + 1) + 1 \in 1 .. n BY <1>2, <2>1
  <2>2. CASE i + 1 < k
    <3>1. r[i] = q[i] /\ i # n - 1 /\ i # n BY <1>2, <1>9, <2>1, <2>2
    <3>2. r[i + 1] = q[i + 1] BY <1>9, <2>2, <2>e, <3>1
    <3>3. next'[q[i]] = next[q[i]] BY <1>6, <1>8, <2>1, <2>2
    <3>4. next[q[i]] = q[i + 1] BY <1>2, <2>1, <3>1
    <3> QED BY <3>1, <3>2, <3>3, <3>4
  <2>3. CASE i + 1 = k
    <3>1. r[i] = q[i] BY <1>9, <2>3
    <3>2. next'[q[i]] = next[s] BY <1>6, <1>8, <2>1, <2>3
    <3>3. next[s] = IF k = n THEN Nil ELSE q[k + 1] BY <1>2, <1>4
    <3>4. k = n <=> i = n - 1 BY <1>2, <2>1, <2>3
    <3>5. i # n - 1 => r[i + 1] = q[k + 1] BY <1>9, <2>3, <2>e
    <3> QED BY <3>1, <3>2, <3>3, <3>4, <3>5
  <2>4. CASE k < i + 1
    <3>1. r[i] = q[i + 1] BY <1>9, <2>1, <2>4
    <3>2. next'[q[i + 1]] = next[q[i + 1]] BY <1>6, <1>8, <2>1, <2>4
    <3>3. next[q[i + 1]] = IF i + 1 = n THEN Nil ELSE q[(i + 1) + 1] BY <1>2, <2>1
    <3>4. i + 1 = n <=> i = n - 1 BY <1>2, <2>1
    <3>5. i # n - 1 => r[i + 1] = q[(i + 1) + 1] BY <1>9, <2>4, <2>e
    <3> QED BY <3>1, <3>2, <3>3, <3>4, <3>5
  <2> QED BY <1>2, <2>1, <2>2, <2>3, <2>4
<1>14. ASSUME NEW t \in Socks PROVE reg'[t] <=> \E i \in 1 .. n - 1 : r[i] = t
  <2>1. reg'[t] <=> t # s /\ reg[t] BY DEF ListTypes
  <2>2. ASSUME NEW i \in 1 .. n - 1, r[i] = t PROVE t # s /\ reg[t]
    <3>1. i \in 1 .. n /\ i + 1 \in 1 .. n BY <1>9
    <3>2. PICK j \in 1 .. n : j # k /\ r[i] = q[j]
      <4>1. CASE i < k BY <1>9, <3>1, <4>1
      <4>2. CASE ~(i < k) BY <1>9, <3>1, <4>2
      <4> QED BY <4>1, <4>2
    <3> QED BY <1>2, <1>4, <2>2, <3>2
  <2>3. ASSUME t # s, NEW j \in 1 .. n, q[j] = t PROVE \E i \in 1 .. n - 1 : r[i] = t
    <3>1. j # k BY <1>4, <2>3
    <3>2. CASE j < k
      <4>1. j \in 1 .. n - 1 BY <1>2, <3>2
      <4> QED BY <1>9, <2>3, <3>2, <4>1
    <3>3. CASE k < j
      <4>1. j - 1 \in 1 .. n - 1 /\ ~(j - 1 < k) /\ (j - 1) + 1 = j BY <1>2, <3>3
      <4> QED BY <1>9, <2>3, <4>1
    <3> QED BY <1>2, <3>1, <3>2, <3>3
  <2> QED BY <1>2, <2>1, <2>2, <2>3
<1>15. List(n - 1, r)' BY <1>10, <1>11, <1>12, <1>13, <1>14 DEF List, Chain
<1>16. Listed' BY <1>15 DEF Listed
<1> QED BY <1>5, <1>7, <1>16

(* setsockopt(SOL_SOCKET, 20, ...) and close(), by whoever.                *)
LEMMA CallKeeps ==
  ASSUME ListTypes, Listed, RegisteredOpen, NEW s \in Socks, Call(s)
  PROVE  ListTypes' /\ Listed' /\ RegisteredOpen'
<1>1. CASE Register(s)
  <2>1. reg' = [reg EXCEPT ![s] = TRUE] /\ open' = open /\ open[s] BY <1>1 DEF Register
  <2>2. ListTypes' BY <1>1 DEF Register, Add, ListTypes, Ptrs
  <2>3. RegisteredOpen' BY <2>1 DEF RegisteredOpen, ListTypes
  <2>4. CASE reg[s]
    <3>1. UNCHANGED <<head, next, reg>> BY <1>1, <2>4 DEF Register, ListTypes
    <3>2. Listed' BY <3>1, SameList
    <3> QED BY <2>2, <2>3, <3>2
  <2>5. CASE ~reg[s] BY <1>1, <2>1, <2>2, <2>3, <2>5, AddKeeps DEF Register
  <2> QED BY <2>4, <2>5
<1>2. CASE Unregister(s) \/ Close(s)
  <2>1. reg' = [reg EXCEPT ![s] = FALSE] /\ open' \in {open, [open EXCEPT ![s] = FALSE]}
    BY <1>2 DEF Unregister, Close
  <2>2. RegisteredOpen' BY <2>1 DEF RegisteredOpen, ListTypes
  <2>3. CASE reg[s]
    <3>1. Remove(s) BY <1>2, <2>3 DEF Unregister, Close
    <3>2. Listed' BY <2>1, <2>3, <3>1, RemoveKeeps
    <3>3. ListTypes' BY <2>1, <3>1 DEF Remove, ListTypes, Ptrs
    <3> QED BY <2>2, <3>2, <3>3
  <2>4. CASE ~reg[s]
    <3>1. UNCHANGED <<head, next>> BY <1>2, <2>4 DEF Unregister, Close
    <3>2. UNCHANGED reg BY <2>1, <2>4 DEF ListTypes
    <3>3. Listed' BY <3>1, <3>2, SameList
    <3>4. ListTypes' BY <2>1, <3>1 DEF ListTypes
    <3> QED BY <2>2, <3>3, <3>4
  <2> QED BY <2>3, <2>4
<1> QED BY <1>1, <1>2 DEF Call

(* The node after a registered one is registered too.                      *)
LEMMA NextRegistered ==
  ASSUME Listed, NEW s \in Socks, reg[s]
  PROVE  next[s] = Nil \/ (next[s] \in Socks /\ reg[next[s]])
<1>1. PICK n, q : List(n, q) BY DEF Listed
<1>2. n \in Nat /\ q \in [1 .. n -> Socks] BY <1>1 DEF List, Chain
<1>3. PICK k \in 1 .. n : q[k] = s BY <1>1 DEF List
<1>4. next[s] = IF k = n THEN Nil ELSE q[k + 1] BY <1>1, <1>3 DEF List, Chain
<1>5. k # n => k + 1 \in 1 .. n BY <1>2
<1>6. k # n => q[k + 1] \in Socks /\ reg[q[k + 1]] BY <1>1, <1>2, <1>5 DEF List
<1> QED BY <1>4, <1>6

LEMMA HeadRegistered ==
  ASSUME Listed PROVE head = Nil \/ reg[head]
<1>1. PICK n, q : List(n, q) BY DEF Listed
<1>2. n \in Nat /\ q \in [1 .. n -> Socks] /\ head = IF n = 0 THEN Nil ELSE q[1] BY <1>1 DEF List, Chain
<1>3. n # 0 => 1 \in 1 .. n BY <1>2
<1>4. n # 0 => q[1] \in Socks /\ reg[q[1]] BY <1>1, <1>2, <1>3 DEF List
<1> QED BY <1>2, <1>4

LEMMA EventsInitInv == Init => EventsInv
<1> SUFFICES ASSUME Init PROVE EventsInv
  OBVIOUS
<1>1. 0 \in 0 .. Wrap - 1 /\ 0 \in 0 .. MaxOps BY SocketEventsAssumption
<1>2. TypeOK BY <1>1 DEF Init, TypeOK, Ptrs
<1>3. PICK q : q = [i \in 1 .. 0 |-> Nil] OBVIOUS
<1>4. 1 .. 0 = {} OBVIOUS
<1>5. q \in [1 .. 0 -> Socks] BY <1>3, <1>4
<1>6. List(0, q) BY <1>4, <1>5 DEF List, Chain, Init
<1>7. Listed BY <1>6 DEF Listed
<1> QED BY <1>2, <1>7 DEF EventsInv, RegisteredOpen, Standing, Init

LEMMA EventsStepInv == EventsInv /\ [Next]_vars => EventsInv'
<1> SUFFICES ASSUME EventsInv, [Next]_vars PROVE EventsInv'
  OBVIOUS
<1>a. TypeOK /\ Listed /\ RegisteredOpen /\ Standing BY DEF EventsInv
<1>b. ListTypes BY <1>a DEF TypeOK, ListTypes
<1>k. ASSUME UNCHANGED lst PROVE Listed' /\ RegisteredOpen'
  BY <1>a, <1>k, SameList DEF lst, RegisteredOpen
<1>0. CASE UNCHANGED vars
  <2>1. UNCHANGED lst BY <1>0 DEF vars, sockVars, lst
  <2>2. TypeOK' BY <1>0, <1>a DEF vars, sockVars, TypeOK
  <2>3. Standing' BY <1>0, <1>a DEF vars, sockVars, Standing
  <2> QED BY <1>k, <2>1, <2>2, <2>3 DEF EventsInv
<1>1. ASSUME NEW s \in Socks, Program(s), UNCHANGED polite PROVE EventsInv'
  <2>1. pc = "idle" /\ Call(s) /\ UNCHANGED <<ready, hnd, polite>> BY <1>1 DEF Program
  <2>2. ListTypes' /\ Listed' /\ RegisteredOpen' BY <1>a, <1>b, <2>1, CallKeeps
  <2>3. TypeOK' BY <1>a, <2>1, <2>2 DEF TypeOK, ListTypes, hnd
  <2>4. Standing' BY <1>a, <2>1 DEF Standing, hnd
  <2> QED BY <2>2, <2>3, <2>4 DEF EventsInv
<1>2. ASSUME NEW s \in Socks, Reopen(s), UNCHANGED polite PROVE EventsInv'
  <2>1. TypeOK' BY <1>a, <1>2 DEF Reopen, TypeOK, hnd
  <2>2. Listed' BY <1>a, <1>2, SameList DEF Reopen
  <2>3. RegisteredOpen' BY <1>a, <1>2 DEF Reopen, RegisteredOpen, TypeOK
  <2>4. Standing' BY <1>a, <1>2 DEF Reopen, Standing, hnd
  <2> QED BY <2>1, <2>2, <2>3, <2>4 DEF EventsInv
<1>3. ASSUME NEW s \in Socks, Arrive(s) \/ Read(s), UNCHANGED polite PROVE EventsInv'
  <2>1. UNCHANGED lst /\ UNCHANGED hnd /\ ready' \subseteq Socks
    BY <1>a, <1>3 DEF Arrive, Read, TypeOK
  <2>2. TypeOK' BY <1>a, <1>3, <2>1 DEF TypeOK, lst, hnd
  <2>3. Standing' BY <1>a, <1>3, <2>1 DEF Standing, lst, hnd
  <2> QED BY <1>k, <2>1, <2>2, <2>3 DEF EventsInv
<1>4. CASE Hook /\ UNCHANGED polite
  <2>1. divisor' \in 0 .. Wrap - 1
    <3>1. Wrap \in Nat /\ Divisor \in 1 .. Wrap - 1 /\ divisor \in 0 .. Wrap - 1
      BY <1>a, SocketEventsAssumption DEF TypeOK
    <3>2. Decremented \in 0 .. Wrap - 1 BY <3>1 DEF Decremented
    <3> QED BY <1>4, <3>1, <3>2 DEF Hook
  <2>2. TypeOK' BY <1>a, <1>4, <2>1 DEF Hook, TypeOK, lst
  <2>3. Standing' BY <1>a, <1>4 DEF Hook, Standing, lst
  <2>4. UNCHANGED lst BY <1>4 DEF Hook
  <2> QED BY <1>k, <2>2, <2>3, <2>4 DEF EventsInv
<1>5. CASE Select /\ UNCHANGED polite
  <2>1. TypeOK' BY <1>a, <1>5 DEF Select, Polled, TypeOK, lst
  <2>2. Standing' BY <1>a, <1>5, HeadRegistered DEF Select, Standing, lst
  <2>3. UNCHANGED lst BY <1>5 DEF Select
  <2> QED BY <1>k, <2>1, <2>2, <2>3 DEF EventsInv
<1>6. CASE Skip /\ UNCHANGED polite
  <2>1. cur \in Socks /\ UNCHANGED lst BY <1>a, <1>6 DEF Skip, TypeOK, Ptrs
  <2>2. TypeOK' BY <1>a, <1>6, <2>1 DEF Skip, TypeOK, lst
  <2>3. Standing' BY <1>a, <1>6, <2>1, NextRegistered DEF Skip, Standing, lst
  <2> QED BY <1>k, <2>1, <2>2, <2>3 DEF EventsInv
<1>7. CASE Enter /\ UNCHANGED polite
  <2>1. cur \in Socks /\ UNCHANGED lst /\ 0 \in 0 .. MaxOps
    BY <1>a, <1>7, SocketEventsAssumption DEF Enter, TypeOK, Ptrs
  <2>2. TypeOK' BY <1>a, <1>7, <2>1 DEF Enter, TypeOK, lst
  <2>3. Standing' BY <1>a, <1>7, <2>1, NextRegistered DEF Enter, Standing, lst, TypeOK
  <2> QED BY <1>k, <2>1, <2>2, <2>3 DEF EventsInv
<1>8. CASE Return /\ UNCHANGED polite
  <2>1. cur \in Socks /\ UNCHANGED lst /\ 0 \in 0 .. MaxOps
    BY <1>a, <1>8, SocketEventsAssumption DEF Return, Standing
  <2>2. TypeOK' BY <1>a, <1>8, <2>1 DEF Return, Followed, TypeOK, lst
  <2>3. Standing' BY <1>a, <1>8, <2>1 DEF Return, Followed, Standing, lst
  <2> QED BY <1>k, <2>1, <2>2, <2>3 DEF EventsInv
<1>9. CASE End /\ UNCHANGED polite
  <2>1. UNCHANGED lst BY <1>9 DEF End
  <2>2. TypeOK' BY <1>a, <1>9, <2>1 DEF End, TypeOK, lst
  <2>3. Standing' BY <1>a, <1>9, <2>1 DEF End, Standing, lst
  <2> QED BY <1>k, <2>1, <2>2, <2>3 DEF EventsInv
<1>10. CASE InCallback /\ UNCHANGED polite
  <2>1. /\ pc = "call" /\ cur \in Socks /\ ops' \in 0 .. MaxOps
        /\ UNCHANGED <<ready, divisor, pc, rfds, cur, null, polite>>
    BY <1>a, <1>10, SocketEventsAssumption DEF InCallback, Standing, TypeOK
  <2>2. \E s \in Socks : Call(s) BY <1>10, <2>1 DEF InCallback, Call
  <2>3. ListTypes' /\ Listed' /\ RegisteredOpen' BY <1>a, <1>b, <2>2, CallKeeps
  <2>4. TypeOK' BY <1>a, <2>1, <2>3 DEF TypeOK, ListTypes
  <2>5. ASSUME polite PROVE next'[cur] = Nil \/ reg'[next'[cur]]
    <3>1. Unregister(cur) \/ Close(cur) BY <1>10, <2>5 DEF InCallback
    <3>2. reg' = [reg EXCEPT ![cur] = FALSE] BY <3>1 DEF Unregister, Close
    <3>3. next[cur] = Nil \/ reg[next[cur]] BY <1>a, <2>1, <2>5 DEF Standing
    <3>4. next[cur] \in Ptrs BY <1>b, <2>1 DEF ListTypes
    <3>5. CASE reg[cur]
      <4>1. Remove(cur) BY <3>1, <3>5 DEF Unregister, Close
      <4>2. next'[cur] = next[cur] /\ next[cur] # cur BY <1>a, <1>b, <2>1, <3>2, <3>5, <4>1, RemoveKeeps
      <4> QED BY <1>b, <3>2, <3>3, <3>4, <4>2 DEF ListTypes, Ptrs
    <3>6. CASE ~reg[cur]
      <4>1. UNCHANGED next BY <3>1, <3>6 DEF Unregister, Close
      <4> QED BY <1>b, <3>2, <3>3, <3>4, <3>6, <4>1 DEF ListTypes, Ptrs
    <3> QED BY <3>5, <3>6
  <2>6. Standing' BY <1>a, <2>1, <2>5 DEF Standing
  <2> QED BY <2>3, <2>4, <2>6 DEF EventsInv
<1> QED BY <1>0, <1>1, <1>2, <1>3, <1>4, <1>5, <1>6, <1>7, <1>8, <1>9, <1>10 DEF Next, Step, Handler

(* The list of socket_events_add and socket_events_remove ends, and holds  *)
(* the registered sockets and no other, whatever the callbacks change      *)
(* while socket_events_handler walks it; polite callbacks never make it    *)
(* call a null callback.                                                   *)
THEOREM ListIsRegistryAlways == Spec => []ListIsRegistry
<1>1. EventsInv => ListIsRegistry
  <2> SUFFICES ASSUME EventsInv PROVE ListIsRegistry
    OBVIOUS
  <2>1. PICK n, q : List(n, q) BY DEF EventsInv, Listed
  <2>2. /\ Steps(head, Cardinality(Socks))[Cardinality(Socks)] = Nil
        /\ \A s \in Socks : s \in Walk(head) <=> \E i \in 1 .. n : q[i] = s
    BY <2>1, WalkAlong DEF List, EventsInv, TypeOK
  <2>3. \A s \in Socks : s \in Walk(head) <=> reg[s] BY <2>1, <2>2 DEF List
  <2> QED BY <2>2, <2>3 DEF EventsInv, ListIsRegistry, RegisteredOpen, Standing
<1> QED BY <1>1, EventsInitInv, EventsStepInv, PTL DEF Spec
=============================================================================
