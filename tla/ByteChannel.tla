---------------------------- MODULE ByteChannel ----------------------------
(***************************************************************************)
(* What a UART promises to a program that waits for txdone() before each   *)
(* write(): a channel of numbered bytes.  A write() puts its bytes in; the *)
(* other end gets them one by one in that order; and from the moment that  *)
(* txdone() is true nothing moves until the next write().                  *)
(***************************************************************************)
EXTENDS Naturals, Sequences

VARIABLES
  accepted, \* how many bytes the program has put in
  sent,     \* what the other end has got
  done,     \* what txdone() says
  kept      \* fixed: the program waits for txdone(); promised to no other

channel == <<accepted, sent, done, kept>>

ChannelInit == accepted = 0 /\ sent = <<>> /\ done = TRUE /\ kept \in BOOLEAN

Begin == done /\ done' = FALSE /\ UNCHANGED <<accepted, sent>>

Accept == ~done /\ accepted' = accepted + 1 /\ UNCHANGED <<sent, done>>

Deliver ==
  /\ ~done /\ Len(sent) < accepted
  /\ sent' = Append(sent, Len(sent) + 1) /\ UNCHANGED <<accepted, done>>

Settle == ~done /\ Len(sent) = accepted /\ done' = TRUE /\ UNCHANGED <<accepted, sent>>

(* A new UART(id): the bytes under way are lost.                           *)
Renew == accepted' = 0 /\ sent' = <<>> /\ done' = TRUE

ChannelNext ==
  /\ kept => Begin \/ Accept \/ Deliver \/ Settle \/ Renew
  /\ UNCHANGED kept

ChannelSpec == ChannelInit /\ [][ChannelNext]_channel
=============================================================================
