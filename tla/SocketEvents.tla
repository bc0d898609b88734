---------------------------- MODULE SocketEvents ----------------------------
(***************************************************************************)
(* Callbacks on readable sockets (modsocket.c): the linked list of         *)
(* registered sockets, setsockopt(SOL_SOCKET, 20, callback), close(), and  *)
(* socket_events_handler, which polls the list with one select and calls   *)
(* the callbacks of the readable sockets.                                  *)
(*                                                                         *)
(* All of it runs under the GIL.  The callbacks are Python code: between   *)
(* the call of a callback and its return the program may register,         *)
(* unregister and close sockets, that is, change the list the handler is   *)
(* walking.                                                                *)
(***************************************************************************)
EXTENDS Naturals, FiniteSets

CONSTANTS
  Socks,    \* sockets
  Nil,      \* the null pointer
  Divisor,  \* USOCKET_EVENTS_DIVISOR
  Wrap,     \* the number of values of the counter (uint8_t: 256)
  MaxOps    \* bound on the calls one callback makes

ASSUME SocketEventsAssumption ==
  /\ IsFiniteSet(Socks) /\ Nil \notin Socks /\ Wrap \in Nat /\ Divisor \in 1 .. Wrap - 1 /\ MaxOps \in Nat

VARIABLES
  head,     \* socket_events_head
  next,     \* events_next of each socket
  reg,      \* events_callback of each socket is not MP_OBJ_NULL
  open,     \* the fd of each socket is not -1
  ready,    \* sockets with something to read
  divisor,  \* socket_events_divisor
  pc,       \* "idle", or in the handler: "select", "walk", "call"
  rfds,     \* the result of the select
  cur,      \* the loop variable s
  ops,      \* calls made by the callback in progress
  null,     \* history: a null callback was called
  polite    \* fixed: a callback only unregisters or closes its own socket

sockVars == <<head, next, reg, open, ready, divisor, pc, rfds, cur, ops, null>>
vars == <<sockVars, polite>>
lst  == <<head, next, reg, open>>
hnd  == <<divisor, pc, rfds, cur, ops, null>>

Ptrs == Socks \cup {Nil}

TypeOK ==
  /\ head \in Ptrs /\ cur \in Ptrs /\ next \in [Socks -> Ptrs]
  /\ reg \in [Socks -> BOOLEAN] /\ open \in [Socks -> BOOLEAN]
  /\ ready \subseteq Socks /\ rfds \subseteq Socks
  /\ divisor \in 0 .. Wrap - 1
  /\ pc \in {"idle", "select", "walk", "call"}
  /\ ops \in 0 .. MaxOps /\ null \in BOOLEAN /\ polite \in BOOLEAN

Init ==
  /\ head = Nil /\ next = [s \in Socks |-> Nil]
  /\ reg = [s \in Socks |-> FALSE] /\ open = [s \in Socks |-> TRUE]
  /\ ready = {} /\ divisor = 0
  /\ pc = "idle" /\ rfds = {} /\ cur = Nil /\ ops = 0 /\ null = FALSE
  /\ polite \in BOOLEAN

-----------------------------------------------------------------------------
(* The list: the nodes met from p on, n steps far.                         *)
Steps(p, n) ==
  LET at[i \in 0 .. n] == IF i = 0 THEN p ELSE IF at[i - 1] = Nil THEN Nil ELSE next[at[i - 1]]
  IN  at

Walk(p) == LET at == Steps(p, Cardinality(Socks))
           IN  {at[i] : i \in 0 .. Cardinality(Socks)} \ {Nil}

(* socket_events_add                                                       *)
Add(s) == next' = [next EXCEPT ![s] = head] /\ head' = s

(* socket_events_remove                                                    *)
Remove(s) ==
  /\ head' = IF head = s THEN next[s] ELSE head
  /\ next' = [p \in Socks |-> IF p \in Walk(head) /\ next[p] = s THEN next[s] ELSE next[p]]

-----------------------------------------------------------------------------
(* setsockopt(SOL_SOCKET, 20, callback)                                    *)
Register(s) ==
  /\ open[s]
  /\ IF reg[s] THEN UNCHANGED <<head, next>> ELSE Add(s)
  /\ reg' = [reg EXCEPT ![s] = TRUE]
  /\ UNCHANGED open

(* setsockopt(SOL_SOCKET, 20, None)                                        *)
Unregister(s) ==
  /\ open[s] /\ reg[s]
  /\ Remove(s) /\ reg' = [reg EXCEPT ![s] = FALSE]
  /\ UNCHANGED open

(* Mutant: close() leaves a registered socket in the list.                 *)
CloseKeeps(s) == open[s] /\ open' = [open EXCEPT ![s] = FALSE] /\ UNCHANGED <<head, next, reg>>

(* MP_STREAM_CLOSE, by close() or by the finaliser.  When lwip_close fails *)
(* the socket keeps its fd.                                                *)
Close(s) ==
  /\ open[s]
  /\ IF reg[s] THEN Remove(s) ELSE UNCHANGED <<head, next>>
  /\ reg' = [reg EXCEPT ![s] = FALSE]
  /\ open' \in {open, [open EXCEPT ![s] = FALSE]}

Call(s) == Register(s) \/ Unregister(s) \/ Close(s)

(* A socket object is created in place of a closed one.                    *)
Reopen(s) ==
  /\ pc = "idle" /\ ~open[s] /\ open' = [open EXCEPT ![s] = TRUE]
  /\ ready' = ready \ {s}
  /\ UNCHANGED <<head, next, reg>> /\ UNCHANGED hnd

(* The program, outside the handler.                                       *)
Program(s) ==
  /\ pc = "idle" /\ Call(s)
  /\ UNCHANGED ready /\ UNCHANGED hnd

(* Data arrives for a socket; the program reads it.                        *)
Arrive(s) ==
  /\ open[s] /\ s \notin ready /\ ready' = ready \cup {s}
  /\ UNCHANGED lst /\ UNCHANGED hnd

Read(s) ==
  /\ pc \in {"idle", "call"} /\ s \in ready /\ ready' = ready \ {s}
  /\ UNCHANGED lst /\ UNCHANGED hnd

-----------------------------------------------------------------------------
(* socket_events_handler: the poll hook calls it; it polls on one call in  *)
(* Divisor.  The static counter starts at 0, so the first --counter wraps. *)
Decremented == (divisor + Wrap - 1) % Wrap

Hook ==
  /\ pc = "idle" /\ head # Nil
  /\ divisor' = IF Decremented > 0 THEN Decremented ELSE Divisor
  /\ pc' = IF Decremented > 0 THEN "idle" ELSE "select"
  /\ UNCHANGED <<ready, rfds, cur, ops, null>> /\ UNCHANGED lst

(* Mutant: max_fd is that of the first socket.                             *)
PolledFirst == ready \cap {head}

(* What lwip_select finds among the registered sockets.                    *)
Polled == ready \cap Walk(head)

Select ==
  /\ pc = "select"
  /\ rfds' = Polled
  /\ cur' = head
  /\ pc' = IF rfds' = {} THEN "idle" ELSE "walk"
  /\ UNCHANGED <<ready, divisor, ops, null>> /\ UNCHANGED lst

Followed(s) == next[s]

(* A socket of the list is not readable, or was closed by a callback while *)
(* the loop stood on it: FD_ISSET of the fd -1 is false in lwIP.           *)
Skip ==
  /\ pc = "walk" /\ cur # Nil /\ ~(open[cur] /\ cur \in rfds)
  /\ cur' = next[cur]
  /\ UNCHANGED <<ready, divisor, pc, rfds, ops, null>> /\ UNCHANGED lst

Enter ==
  /\ pc = "walk" /\ cur # Nil /\ open[cur] /\ cur \in rfds
  /\ pc' = "call" /\ ops' = 0
  /\ null' = (null \/ ~reg[cur])
  /\ UNCHANGED <<ready, divisor, rfds, cur>> /\ UNCHANGED lst

(* What the callback does.  A polite one only gives up its own socket.     *)
InCallback ==
  /\ pc = "call" /\ ops < MaxOps /\ ops' = ops + 1
  /\ IF polite THEN Unregister(cur) \/ Close(cur) ELSE \E s \in Socks : Call(s)
  /\ UNCHANGED <<ready, divisor, pc, rfds, cur, null>>

Return ==
  /\ pc = "call" /\ pc' = "walk" /\ cur' = Followed(cur) /\ ops' = 0
  /\ UNCHANGED <<ready, divisor, rfds, null>> /\ UNCHANGED lst

End ==
  /\ pc = "walk" /\ cur = Nil /\ pc' = "idle" /\ rfds' = {}
  /\ UNCHANGED <<ready, divisor, cur, ops, null>> /\ UNCHANGED lst

Handler == Select \/ Skip \/ Enter \/ Return \/ End

Step ==
  \/ \E s \in Socks : Program(s) \/ Reopen(s) \/ Arrive(s) \/ Read(s)
  \/ Hook \/ Handler \/ InCallback

Next == Step /\ UNCHANGED polite

Spec == Init /\ [][Next]_vars

(* The interpreter keeps calling the poll hook, the handler goes on, and   *)
(* each callback returns: a statement about the Python program, which any  *)
(* blocking primitive of the port serves by polling (MICROPY_EVENT_POLL_   *)
(* HOOK).                                                                  *)
Fairness == WF_sockVars(Hook) /\ WF_sockVars(Handler)

-----------------------------------------------------------------------------
(* The state is well typed; the list ends, and holds exactly the           *)
(* registered sockets, all of them open: what socket_events_add and        *)
(* socket_events_remove assume.  As long as callbacks give up only their   *)
(* own socket, the handler never calls the null callback of one that was   *)
(* unregistered in the meantime.  (A callback that unregisters its own     *)
(* socket and then the following one makes the loop of                     *)
(* socket_events_handler stand on the latter.)                             *)
ListIsRegistry ==
  /\ TypeOK
  /\ Steps(head, Cardinality(Socks))[Cardinality(Socks)] = Nil
  /\ \A s \in Socks : s \in Walk(head) <=> reg[s]
  /\ \A s \in Socks : reg[s] => open[s]
  /\ polite => ~null

(* With such callbacks a registered socket that stays readable and         *)
(* registered is called: every poll of socket_events_handler ends and      *)
(* the next one comes, also when the 8-bit counter has to wrap first.      *)
(* (Callbacks that unregister and register their sockets keep one poll     *)
(* going.)                                                                 *)
ReadableIsCalled ==
  \A s \in Socks : (polite /\ reg[s] /\ s \in ready)
                      ~> (~reg[s] \/ s \notin ready \/ (pc = "call" /\ cur = s))
=============================================================================
