---------------------------- MODULE EventChannel ----------------------------
(***************************************************************************)
(* What a monitor driver promises the client: the events it accepts reach  *)
(* the reader in the order of acceptance, none twice; an event that is not *)
(* delivered was dropped.                                                  *)
(***************************************************************************)
EXTENDS Naturals, Sequences

CONSTANT Event

VARIABLES
  pending,    \* accepted and not yet delivered, oldest first
  delivered   \* handed to the reader, oldest first

chan == <<pending, delivered>>

ChannelInit == pending = <<>> /\ delivered = <<>>

Accept == \E e \in Event :
  /\ pending' = Append(pending, e)
  /\ UNCHANGED delivered

Deliver == \E k \in 1..Len(pending) :
  /\ delivered' = delivered \o SubSeq(pending, 1, k)
  /\ pending' = SubSeq(pending, k + 1, Len(pending))

(* t is s without some of its elements: place[i] is where t[i] is in s.    *)
Remains(s, t) == \E place \in [1..Len(t) -> 1..Len(s)] :
  /\ \A i, j \in 1..Len(t) : i < j => place[i] < place[j]
  /\ \A i \in 1..Len(t) : t[i] = s[place[i]]

(* Any events may be dropped, the others keep their order.                 *)
Drop ==
  /\ pending' \in Seq(Event) /\ Remains(pending, pending')
  /\ UNCHANGED delivered

ChannelNext == Accept \/ Deliver \/ Drop

ChannelSpec == ChannelInit /\ [][ChannelNext]_chan
=============================================================================
