------------------------------- MODULE Socket -------------------------------
(***************************************************************************)
(* Stream sockets (modsocket.c): the descriptors that socket objects hold, *)
(* socket(), close() and the finaliser, settimeout(), and the calls that   *)
(* wait without the GIL: recv(), send(), accept() and connect().           *)
(*                                                                         *)
(* Whatever a call does under the GIL is one step.  lwIP is external: it   *)
(* has NFds descriptors and gives out the lowest free one; a wait ends     *)
(* after SOCKET_POLL_US at the latest; it reports the end of a stream      *)
(* once, and a reader that comes later waits (comment at modsocket.c:623). *)
(***************************************************************************)
EXTENDS Naturals, FiniteSets, FiniteSetsExt

CONSTANTS
  Objs,     \* heap blocks for socket objects
  Threads,  \* threads that run Python code
  NFds,     \* the descriptors lwIP has
  Polls,    \* the retries of a socket with a long timeout
  Environments, \* what programs do and what goes wrong; a subset of Environment
  None      \* no object, no descriptor (fd -1)

ASSUME SocketAssumption ==
  /\ None \notin Objs /\ None \notin Nat /\ NFds \in Nat \ {0} /\ Polls \in Nat \ {0}
  /\ "accepting" \notin Objs \cup {None}

Fds == 0 .. NFds - 1

VARIABLES
  life,     \* the socket objects that exist
  held,     \* those the program refers to
  sfd,      \* fd of each object
  state,    \* state of each object: "new", "connected" or "peer_closed"
  timeout,  \* the last timeout of each object
  owner,    \* the object lwIP opened each descriptor for
  nonblock, \* O_NONBLOCK of each descriptor
  link,     \* the connection of each descriptor
  rx,       \* descriptors with data, or a peer to accept
  fin,      \* the end of the stream: "none", "sent" or "told"
  at,       \* where each thread is
  on,       \* the object of its call
  lfd,      \* the descriptor its lwIP call was given
  tries,    \* the loop variable i
  res,      \* what the lwIP call has returned
  foreign,  \* history: descriptors lwIP was given that were open for another object
  env       \* fixed: the environment

objVars == <<life, held, sfd, state, timeout>>
netVars == <<owner, nonblock, link, rx, fin>>
locVars == <<at, on, lfd, tries, res>>
skVars  == <<objVars, netVars, locVars, foreign>>

(* The calls a program makes; the argument it gives settimeout(); what a   *)
(* thread may do to a socket another one is using; an error that occurs.   *)
Environment ==
  [calls : SUBSET {"recv", "send", "accept", "connect", "bind"}, chosen : {"zero", "short", "long"},
   sharing : {"nothing", "recv", "timeout", "close"}, fault : {"none", "argument", "memory"}]

ASSUME EnvironmentAssumption == Environments \subseteq Environment

Timeouts == {"zero", "short", "long", "forever"}
Waits    == {"recv", "send", "accept", "resolve", "lookup", "block", "connect", "dial", "restore", "select"}
Returned == {"recvd", "sent", "accepted", "resolved", "looked_up"}

SkTypeOK ==
  /\ life \subseteq Objs /\ held \subseteq life
  /\ sfd \in [Objs -> Fds \cup {None}]
  /\ state \in [Objs -> {"new", "connected", "peer_closed"}]
  /\ timeout \in [Objs -> Timeouts]
  /\ owner \in [Fds -> Objs \cup {None, "accepting", "lost"}] /\ nonblock \in [Fds -> BOOLEAN]
  /\ link \in [Fds -> {"none", "listen", "syn", "up", "refused"}]
  /\ rx \subseteq Fds /\ fin \in [Fds -> {"none", "sent", "told"}]
  /\ at \in [Threads -> Waits \cup Returned \cup {"idle"}] /\ on \in [Threads -> Objs \cup {None}]
  /\ lfd \in [Threads -> Fds \cup {None}] /\ tries \in [Threads -> 0 .. Polls]
  /\ res \in [Threads -> {"none", "ok", "eof", "again", "error"}]
  /\ foreign \subseteq Fds
  /\ env \in Environments

SkInit ==
  /\ life = {} /\ held = {} /\ sfd = [o \in Objs |-> None]
  /\ state = [o \in Objs |-> "new"] /\ timeout = [o \in Objs |-> "forever"]
  /\ owner = [f \in Fds |-> None] /\ nonblock = [f \in Fds |-> FALSE]
  /\ link = [f \in Fds |-> "none"] /\ rx = {} /\ fin = [f \in Fds |-> "none"]
  /\ at = [t \in Threads |-> "idle"] /\ on = [t \in Threads |-> None]
  /\ lfd = [t \in Threads |-> None] /\ tries = [t \in Threads |-> 0]
  /\ res = [t \in Threads |-> "none"] /\ foreign = {}
  /\ env \in Environments

(* The threads are alike: the first idle one makes the next call.          *)
Caller(t) == at[t] = "idle" /\ t = CHOOSE u \in Threads : at[u] = "idle"

Busy(o) == \E t \in Threads : on[t] = o

(* What a thread may do to a socket another thread is using.               *)
MayUse(o)   == ~Busy(o)
MaySet(o)   == Busy(o) => env.sharing = "timeout"
MayClose(o) == Busy(o) => env.sharing = "close"
MayRecv(o)  ==
  Busy(o) => env.sharing = "recv" /\ \A t \in Threads : on[t] = o => at[t] \in {"recv", "recvd"}

IsOpen(f) == f # None /\ owner[f] # None

(* The descriptor f, if it is open for another object than o.              *)
Wrong(o, f) == {d \in Fds : d = f /\ owner[d] \notin {o, None}}

-----------------------------------------------------------------------------
(* Descriptors.                                                            *)

(* lwip_socket and lwip_accept: the lowest free descriptor.                *)
Opened(f, o, l) ==
  owner' = [owner EXCEPT ![f] = o] /\ link' = [link EXCEPT ![f] = l]

FreeOf(own) == {f \in Fds : own[f] = None}

(* The block a new object gets.                                            *)
Fresh(o) == life # Objs /\ o = CHOOSE b \in Objs : b \notin life

(* A new object: state, an infinite timeout, and its descriptor.           *)
Created(o, f, st) ==
  /\ life' = life \cup {o} /\ sfd' = [sfd EXCEPT ![o] = f]
  /\ state' = [state EXCEPT ![o] = st] /\ timeout' = [timeout EXCEPT ![o] = "forever"]

(* socket_make_new with a descriptor to be had.                            *)
MakeNew(o) ==
  /\ Fresh(o) /\ FreeOf(owner) # {}
  /\ Created(o, Min(FreeOf(owner)), "new") /\ held' = held \cup {o}
  /\ Opened(Min(FreeOf(owner)), o, "none")
  /\ UNCHANGED locVars /\ UNCHANGED <<nonblock, rx, fin, foreign>>

(* socket_make_new raises for an argument that is not an integer: the      *)
(* object, which nothing refers to, keeps the descriptor 0 of fresh memory.*)
MakeNewRaises(o) ==
  /\ env.fault = "argument" /\ Fresh(o)
  /\ Created(o, 0, "new") /\ UNCHANGED held
  /\ UNCHANGED netVars /\ UNCHANGED locVars /\ UNCHANGED foreign

Garbage == {o \in life \ held : ~Busy(o)}

(* Mutant: the finaliser forgets the descriptor without closing it.        *)
ClosingNot(os) == {sfd[o] : o \in os \cap held} \ {None}

(* lwip_close of the descriptors of some objects.                          *)
Closing(os) == {sfd[o] : o \in os} \ {None}
Released(os) ==
  /\ owner' = [f \in Fds |-> IF f \in Closing(os) THEN None ELSE owner[f]]
  /\ nonblock' = [f \in Fds |-> nonblock[f] /\ f \notin Closing(os)]
  /\ link' = [f \in Fds |-> IF f \in Closing(os) THEN "none" ELSE link[f]]
  /\ rx' = rx \ Closing(os)
  /\ fin' = [f \in Fds |-> IF f \in Closing(os) THEN "none" ELSE fin[f]]
  /\ foreign' = foreign \cup UNION {Wrong(o, sfd[o]) : o \in os}

(* gc_collect: the finaliser of every socket nothing refers to closes it.  *)
Collect ==
  /\ Garbage # {} /\ Released(Garbage) /\ life' = life \ Garbage
  /\ sfd' = [o \in Objs |-> IF o \in Garbage THEN None ELSE sfd[o]]
  /\ UNCHANGED <<held, state, timeout>> /\ UNCHANGED locVars

(* socket_make_new on ENFILE: gc_collect, then a second attempt.  When it  *)
(* fails too, the object with fd -1 is garbage itself.                     *)
MakeNewCollect(o) ==
  /\ Fresh(o) /\ FreeOf(owner) = {} /\ Closing(Garbage) # {}
  /\ LET f == Min(Closing(Garbage)) IN
       /\ life' = (life \ Garbage) \cup {o} /\ sfd' = [sfd EXCEPT ![o] = f]
       /\ state' = [state EXCEPT ![o] = "new"] /\ timeout' = [timeout EXCEPT ![o] = "forever"]
       /\ owner' = [d \in Fds |-> IF d = f THEN o ELSE IF d \in Closing(Garbage) THEN None ELSE owner[d]]
       /\ link' = [d \in Fds |-> IF d \in Closing(Garbage) THEN "none" ELSE link[d]]
       /\ nonblock' = [d \in Fds |-> nonblock[d] /\ d \notin Closing(Garbage)]
       /\ rx' = rx \ Closing(Garbage)
       /\ fin' = [d \in Fds |-> IF d \in Closing(Garbage) THEN "none" ELSE fin[d]]
  /\ foreign' = foreign \cup UNION {Wrong(g, sfd[g]) : g \in Garbage}
  /\ held' = held \cup {o} /\ UNCHANGED locVars

(* socket->fd = -1                                                         *)
ForgottenFd(o) == [sfd EXCEPT ![o] = None]

(* socket_stream_ioctl, MP_STREAM_CLOSE.  When lwip_close fails fd stays.  *)
CloseSocket(o) ==
  /\ o \in held /\ sfd[o] # None /\ MayClose(o)
  /\ Released({o}) /\ sfd' = ForgottenFd(o)
  /\ UNCHANGED <<life, held, state, timeout>> /\ UNCHANGED locVars

DropRef(o) ==
  /\ o \in held /\ held' = held \ {o}
  /\ UNCHANGED <<life, sfd, state, timeout>> /\ UNCHANGED netVars /\ UNCHANGED locVars
  /\ UNCHANGED foreign

-----------------------------------------------------------------------------
(* Timeouts.                                                               *)

(* The field retries: a timeout below SOCKET_POLL_US gives 0.              *)
Retries(o) == CASE timeout[o] \in {"zero", "short"} -> 0 [] timeout[o] = "long" -> Polls
                [] OTHER -> Polls + 1

(* i <= self->retries, for the next i.                                     *)
More(t) == timeout[on[t]] = "forever" \/ tries[t] < Retries(on[t])

Counted(t) == IF timeout[on[t]] = "forever" THEN 0 ELSE tries[t] + 1

(* socket_settimeout, socket_setblocking: _socket_settimeout.              *)
Settimeout(o, v) ==
  /\ o \in held /\ MaySet(o) /\ timeout' = [timeout EXCEPT ![o] = v]
  /\ nonblock' = [f \in Fds |-> IF f = sfd[o] THEN v = "zero" ELSE nonblock[f]]
  /\ foreign' = foreign \cup Wrong(o, sfd[o])
  /\ UNCHANGED <<life, held, sfd, state, owner, link, rx, fin>> /\ UNCHANGED locVars

-----------------------------------------------------------------------------
Leave(t) ==
  /\ at' = [at EXCEPT ![t] = "idle"] /\ on' = [on EXCEPT ![t] = None]
  /\ lfd' = [lfd EXCEPT ![t] = None] /\ tries' = [tries EXCEPT ![t] = 0]
  /\ res' = [res EXCEPT ![t] = "none"]

(* The GIL is released and lwIP called.                                    *)
Wait(t, where, o, i) ==
  /\ at' = [at EXCEPT ![t] = where] /\ on' = [on EXCEPT ![t] = o]
  /\ lfd' = [lfd EXCEPT ![t] = sfd[o]] /\ tries' = [tries EXCEPT ![t] = i]
  /\ res' = [res EXCEPT ![t] = "none"]

(* lwIP returns r; the thread waits for the GIL.                           *)
Back(t, where, r) ==
  /\ at' = [at EXCEPT ![t] = where] /\ res' = [res EXCEPT ![t] = r]
  /\ UNCHANGED <<on, lfd, tries>>

(* recv                                                                    *)
Readable(f) == IsOpen(f) /\ (f \in rx \/ fin[f] = "sent")

(* Mutant: the end of the stream is not remembered.                        *)
NotedNot(o, r) == state

(* if (r == 0) sock->state = SOCKET_STATE_PEER_CLOSED                      *)
Noted(o, r) == IF r = "eof" THEN [state EXCEPT ![o] = "peer_closed"] ELSE state

(* lwip_recvfrom: data before the end of the stream, which is told once.   *)
Received(f) ==
  IF f \in rx THEN rx' = rx \ {f} /\ UNCHANGED fin
              ELSE fin' = [fin EXCEPT ![f] = "told"] /\ UNCHANGED rx

(* One turn of the loop of _socket_read_data: a select, and lwip_recvfrom  *)
(* with the GIL when there is something to read, without it otherwise.     *)
Turn(t, o, i) ==
  \/ /\ Readable(sfd[o]) /\ Received(sfd[o])
     /\ state' = Noted(o, IF sfd[o] \in rx THEN "ok" ELSE "eof") /\ Leave(t)
     /\ foreign' = foreign \cup Wrong(o, sfd[o])
  \/ ~Readable(sfd[o]) /\ Wait(t, "recv", o, i) /\ UNCHANGED <<rx, fin, state, foreign>>

(* socket_recv, socket_recvfrom, socket_stream_read.  On a new socket, one *)
(* its peer has closed or one that listens they return at once.            *)
Recv(t, o) ==
  /\ "recv" \in env.calls /\ Caller(t) /\ o \in held /\ MayRecv(o)
  /\ sfd[o] # None /\ link[sfd[o]] # "listen" /\ state[o] = "connected"
  /\ Turn(t, o, 0)
  /\ UNCHANGED <<life, held, sfd, timeout, owner, nonblock, link>>

LwipRecv(t) ==
  /\ at[t] = "recv" /\ foreign' = foreign \cup Wrong(on[t], lfd[t])
  /\ \/ /\ Readable(lfd[t]) /\ Received(lfd[t])
        /\ Back(t, "recvd", IF lfd[t] \in rx THEN "ok" ELSE "eof")
     \/ ~Readable(lfd[t]) /\ UNCHANGED <<rx, fin>>
        /\ Back(t, "recvd", IF IsOpen(lfd[t]) /\ link[lfd[t]] \in {"up", "syn"} THEN "again" ELSE "error")
  /\ UNCHANGED objVars /\ UNCHANGED <<owner, nonblock, link>>

(* The GIL again.  check_for_exceptions may raise after a wait in vain.    *)
Recvd(t) ==
  /\ at[t] = "recvd"
  /\ \/ /\ res[t] # "again" /\ state' = Noted(on[t], res[t]) /\ Leave(t)
        /\ UNCHANGED <<rx, fin, foreign>>
     \/ res[t] = "again" /\ More(t) /\ Turn(t, on[t], Counted(t))
     \/ res[t] = "again" /\ Leave(t) /\ UNCHANGED <<rx, fin, state, foreign>>
  /\ UNCHANGED <<life, held, sfd, timeout, owner, nonblock, link>>

(* _socket_send, socket_sendto, socket_stream_write: lwIP takes all of the *)
(* data, a part of it, or none.                                            *)
Send(t, o) ==
  /\ "send" \in env.calls /\ Caller(t) /\ o \in held /\ sfd[o] # None /\ MayUse(o) /\ Wait(t, "send", o, 0)
  /\ UNCHANGED objVars /\ UNCHANGED netVars /\ UNCHANGED foreign

LwipSend(t) ==
  /\ at[t] = "send" /\ foreign' = foreign \cup Wrong(on[t], lfd[t])
  /\ \E r \in CASE ~IsOpen(lfd[t]) -> {"error"}
              [] link[lfd[t]] = "up" -> {"ok", "again"}
              [] link[lfd[t]] = "syn" -> {"again"}
              [] OTHER -> {"error"} : Back(t, "sent", r)
  /\ UNCHANGED objVars /\ UNCHANGED netVars

Sent(t) ==
  /\ at[t] = "sent"
  /\ \/ Leave(t)
     \/ res[t] = "again" /\ More(t) /\ Wait(t, "send", on[t], Counted(t))
  /\ UNCHANGED objVars /\ UNCHANGED netVars /\ UNCHANGED foreign

-----------------------------------------------------------------------------
(* socket_listen                                                           *)
Listen(o) ==
  /\ "accept" \in env.calls /\ o \in held /\ sfd[o] # None /\ MayUse(o) /\ link[sfd[o]] = "none"
  /\ state' = [state EXCEPT ![o] = "connected"] /\ link' = [link EXCEPT ![sfd[o]] = "listen"]
  /\ foreign' = foreign \cup Wrong(o, sfd[o])
  /\ UNCHANGED <<life, held, sfd, timeout, owner, nonblock, rx, fin>> /\ UNCHANGED locVars

Accept(t, o) ==
  /\ "accept" \in env.calls /\ Caller(t) /\ o \in held /\ sfd[o] # None /\ MayUse(o)
  /\ link[sfd[o]] = "listen" /\ Wait(t, "accept", o, 0)
  /\ UNCHANGED objVars /\ UNCHANGED netVars /\ UNCHANGED foreign

LwipAccept(t) ==
  /\ at[t] = "accept" /\ foreign' = foreign \cup Wrong(on[t], lfd[t])
  /\ IF lfd[t] # None /\ lfd[t] \in rx /\ link[lfd[t]] = "listen"
     THEN IF FreeOf(owner) # {}
          THEN LET f == Min(FreeOf(owner)) IN
               /\ Opened(f, "accepting", "up") /\ rx' = rx \ {lfd[t]}
               /\ UNCHANGED <<nonblock, fin>>
               /\ at' = [at EXCEPT ![t] = "accepted"] /\ res' = [res EXCEPT ![t] = "ok"]
               /\ lfd' = [lfd EXCEPT ![t] = f] /\ UNCHANGED <<on, tries>>
          ELSE /\ Back(t, "accepted", "error") /\ rx' = rx \ {lfd[t]}
               /\ UNCHANGED <<owner, nonblock, link, fin>>
     ELSE UNCHANGED netVars
          /\ Back(t, "accepted", IF lfd[t] # None /\ link[lfd[t]] = "listen" THEN "again" ELSE "error")
  /\ UNCHANGED objVars

(* The object for the new descriptor.  When there is no memory for it, the *)
(* exception loses the descriptor.                                         *)
Accepted(t) ==
  /\ at[t] = "accepted" /\ UNCHANGED foreign
  /\ \/ /\ res[t] = "ok" /\ Leave(t)
        /\ \E o \in Objs :
             /\ Fresh(o) /\ Created(o, lfd[t], "connected") /\ held' = held \cup {o}
             /\ owner' = [owner EXCEPT ![lfd[t]] = o]
     \/ /\ res[t] = "ok" /\ env.fault = "memory" /\ Leave(t)
        /\ owner' = [owner EXCEPT ![lfd[t]] = "lost"] /\ UNCHANGED objVars
     \/ res[t] = "again" /\ More(t) /\ Wait(t, "accept", on[t], Counted(t))
        /\ UNCHANGED objVars /\ UNCHANGED owner
     \/ res[t] \in {"again", "error"} /\ Leave(t) /\ UNCHANGED objVars /\ UNCHANGED owner
  /\ UNCHANGED <<nonblock, link, rx, fin>>

-----------------------------------------------------------------------------
(* socket_connect: the name is resolved without the GIL.                   *)
Connect(t, o) ==
  /\ "connect" \in env.calls /\ Caller(t) /\ o \in held /\ sfd[o] # None /\ MayUse(o)
  /\ link[sfd[o]] = "none" /\ Wait(t, "resolve", o, 0)
  /\ UNCHANGED objVars /\ UNCHANGED netVars /\ UNCHANGED foreign

(* _getaddrinfo_inner                                                      *)
Resolve(t) ==
  /\ at[t] \in {"resolve", "lookup"}
  /\ \E r \in {"ok", "error"} : Back(t, IF at[t] = "resolve" THEN "resolved" ELSE "looked_up", r)
  /\ UNCHANGED objVars /\ UNCHANGED netVars /\ UNCHANGED foreign

(* blocking is retries != 0, read without the GIL.                         *)
Resolved(t) ==
  /\ at[t] = "resolved" /\ res[t] = "ok"
  /\ state' = [state EXCEPT ![on[t]] = "connected"]
  /\ Wait(t, IF Retries(on[t]) # 0 THEN "block" ELSE "dial", on[t], 0)
  /\ UNCHANGED <<life, held, sfd, timeout, foreign>> /\ UNCHANGED netVars

(* A blocking socket is made non-blocking for the time of lwip_connect.    *)
Unblock(t) ==
  /\ at[t] = "block" /\ Wait(t, "connect", on[t], 0)
  /\ nonblock' = [f \in Fds |-> nonblock[f] \/ f = sfd[on[t]]]
  /\ foreign' = foreign \cup Wrong(on[t], sfd[on[t]])
  /\ UNCHANGED objVars /\ UNCHANGED <<owner, link, rx, fin>>

ResolveFails(t) ==
  /\ at[t] \in {"resolved", "looked_up"} /\ res[t] = "error" /\ Leave(t)
  /\ UNCHANGED objVars /\ UNCHANGED netVars /\ UNCHANGED foreign

(* socket_bind, which lwIP may refuse.                                     *)
Bind(t, o) ==
  /\ "bind" \in env.calls /\ Caller(t) /\ o \in held /\ sfd[o] # None /\ MayUse(o)
  /\ Wait(t, "lookup", o, 0)
  /\ UNCHANGED objVars /\ UNCHANGED netVars /\ UNCHANGED foreign

Bound(t) ==
  /\ at[t] = "looked_up" /\ res[t] = "ok" /\ Leave(t)
  /\ state' = [state EXCEPT ![on[t]] = "connected"]
  /\ foreign' = foreign \cup Wrong(on[t], sfd[on[t]])
  /\ UNCHANGED <<life, held, sfd, timeout>> /\ UNCHANGED netVars

Calling(f) == [link EXCEPT ![f] = "syn"]

(* lwip_connect returns at once if the descriptor is non-blocking, and     *)
(* otherwise when the handshake has ended.                                 *)
Answered(t, r) == IF at[t] = "dial" THEN Leave(t) ELSE Back(t, "restore", r)

LwipConnect(t) ==
  /\ at[t] \in {"connect", "dial"} /\ foreign' = foreign \cup Wrong(on[t], lfd[t])
  /\ LET f == lfd[t] IN
       \/ /\ IsOpen(f) /\ link[f] = "none" /\ link' = Calling(f)
          /\ IF nonblock[f] THEN Answered(t, "again") ELSE Back(t, at[t], "again")
       \/ /\ ~(IsOpen(f) /\ (link[f] = "none" \/ (link[f] = "syn" /\ res[t] = "again")))
          /\ Answered(t, "error") /\ UNCHANGED link
  /\ UNCHANGED objVars /\ UNCHANGED <<owner, nonblock, rx, fin>>

(* Mutant: the descriptor is made blocking again only when the connection  *)
(* is made.                                                                *)
BlockingAgainLate(f) == [nonblock EXCEPT ![f] = link[f] # "up"]

BlockingAgain(f) == [nonblock EXCEPT ![f] = FALSE]

Restore(t) ==
  /\ at[t] = "restore" /\ foreign' = foreign \cup Wrong(on[t], sfd[on[t]])
  /\ IF sfd[on[t]] = None THEN UNCHANGED nonblock ELSE nonblock' = BlockingAgain(sfd[on[t]])
  /\ IF res[t] = "again" THEN Wait(t, "select", on[t], 0) ELSE Leave(t)
  /\ UNCHANGED objVars /\ UNCHANGED <<owner, link, rx, fin>>

(* The loop around lwip_select: connected or refused, or another round     *)
(* after a time out, when an exception may be raised, or while lwIP calls  *)
(* a connecting socket writable.                                           *)
SelectWritable(t) ==
  /\ at[t] = "select"
  /\ LET f == lfd[t] IN
       \/ ~(IsOpen(f) /\ link[f] = "syn") /\ Leave(t)
       \/ IsOpen(f) /\ link[f] = "syn" /\ More(t) /\ Wait(t, "select", on[t], Counted(t))
       \/ IsOpen(f) /\ link[f] = "syn" /\ Leave(t)
  /\ foreign' = foreign \cup Wrong(on[t], lfd[t])
  /\ UNCHANGED objVars /\ UNCHANGED netVars

-----------------------------------------------------------------------------
(* The network: a handshake ends; a peer arrives, or data, or the end of   *)
(* the stream.                                                             *)
Network(f) ==
  /\ owner[f] # None
  /\ \/ /\ link[f] = "syn" /\ UNCHANGED <<rx, fin>>
        /\ \E l \in {"up", "refused"} : link' = [link EXCEPT ![f] = l]
     \/ /\ link[f] = "listen" \/ (link[f] = "up" /\ fin[f] = "none" /\ "recv" \in env.calls)
        /\ f \notin rx /\ rx' = rx \cup {f} /\ UNCHANGED <<link, fin>>
     \/ /\ link[f] = "up" /\ fin[f] = "none" /\ "recv" \in env.calls
        /\ fin' = [fin EXCEPT ![f] = "sent"] /\ UNCHANGED <<link, rx>>
  /\ UNCHANGED objVars /\ UNCHANGED locVars /\ UNCHANGED <<owner, nonblock, foreign>>

(* A step of the call thread t is in.                                      *)
Progress(t) ==
  \/ LwipRecv(t) \/ Recvd(t) \/ LwipSend(t) \/ Sent(t) \/ LwipAccept(t) \/ Accepted(t)
  \/ Resolve(t) \/ Resolved(t) \/ ResolveFails(t) \/ Bound(t)
  \/ Unblock(t) \/ LwipConnect(t) \/ Restore(t) \/ SelectWritable(t)

SkStep ==
  \/ Collect
  \/ \E o \in Objs :
       \/ MakeNew(o) \/ MakeNewRaises(o) \/ MakeNewCollect(o) \/ CloseSocket(o) \/ DropRef(o)
       \/ Listen(o) \/ \E v \in {env.chosen, "forever"} : Settimeout(o, v)
       \/ \E t \in Threads : Recv(t, o) \/ Send(t, o) \/ Accept(t, o) \/ Connect(t, o) \/ Bind(t, o)
  \/ \E t \in Threads : Progress(t)
  \/ \E f \in Fds : Network(f)

SkNext == SkStep /\ UNCHANGED env

SkSpec == SkInit /\ [][SkNext]_<<skVars, env>>

(* A recv() that has begun goes on: lwIP returns from every wait within    *)
(* SOCKET_POLL_US, and the thread gets the GIL back.                       *)
SkFairness == \A t \in Threads : WF_skVars(LwipRecv(t) \/ Recvd(t))

SkFairSpec == SkSpec /\ SkFairness

-----------------------------------------------------------------------------
(* Descriptors in doubt: a constructor that raises leaves an object with   *)
(* descriptor 0, whose finaliser closes that of another socket.            *)
Doubtful == IF env.fault = "argument" THEN {0} ELSE {}

(* The state is well typed; the descriptor of an object is open and was    *)
(* opened for it, so no two objects share one and none is closed under     *)
(* its object; an open descriptor is that of an object, or of an accept()  *)
(* in progress, so none is lost, unless accept() had no memory for the     *)
(* object; and lwIP is never given a descriptor that has passed on to      *)
(* another socket, be it by a waiting call that captured it before the GIL *)
(* was released, as long as no thread closes a socket that another is      *)
(* using, or by the finaliser of a socket that was closed.                 *)
FdOwned ==
  /\ SkTypeOK
  /\ \A o \in life : sfd[o] \in Fds \ Doubtful => owner[sfd[o]] = o
  /\ env.fault # "memory" =>
       \A f \in Fds \ Doubtful :
         \/ owner[f] = None \/ (\E o \in life : sfd[o] = f)
         \/ owner[f] = "accepting" /\ \E t \in Threads : at[t] = "accepted" /\ lfd[t] = f
  /\ env.sharing # "close" => foreign \subseteq Doubtful

InConnect(o) == \E t \in Threads : on[t] = o /\ at[t] \in {"connect", "restore"}

(* Outside connect() the descriptor is non-blocking if and only if the     *)
(* timeout is 0: connect() puts O_NONBLOCK back whatever its outcome, and  *)
(* whatever the collector and other sockets do in between; unless another  *)
(* thread sets the timeout of the socket while connect() has released the  *)
(* GIL (lines 393-477): line 426 then puts back what it had before.  The   *)
(* comment at lines 396-397 says more (retries is 0 if and only if         *)
(* O_NONBLOCK is set) and does not hold: a timeout below SOCKET_POLL_US    *)
(* gives retries 0 with O_NONBLOCK clear.                                  *)
ModeKept ==
  env.sharing # "timeout" =>
    \A o \in life : sfd[o] \in Fds \ Doubtful /\ ~InConnect(o)
                   => (nonblock[sfd[o]] <=> timeout[o] = "zero")

InRecv(t) == at[t] \in {"recv", "recvd"}
PeerClosed(t) == InRecv(t) /\ lfd[t] # None /\ owner[lfd[t]] = on[t] /\ fin[lfd[t]] # "none"

(* recv() on a socket whose peer has closed returns, as often as it is     *)
(* called (comment at modsocket.c:623-626).                                *)
RecvReturns ==
  \A t \in Threads :
    (env.sharing = "nothing" /\ env.fault = "none" /\ PeerClosed(t)) ~> ~InRecv(t)

(* recv() on a socket whose peer has closed returns also when several      *)
(* threads read that socket (the same comment).                            *)
EveryRecvReturns ==
  \A t \in Threads :
    (env.sharing # "close" /\ env.fault = "none" /\ PeerClosed(t)) ~> ~InRecv(t)
=============================================================================
