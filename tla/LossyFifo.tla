------------------------------ MODULE LossyFifo ------------------------------
(***************************************************************************)
(* What the cloud link promises about the messages handed to it: a message *)
(* is delivered at most once, and in the order of acceptance.  It may be   *)
(* lost at any time before.                                                *)
(***************************************************************************)
EXTENDS Naturals, Sequences

CONSTANT Msg

VARIABLES
  pending,    \* accepted, neither delivered nor lost
  delivered

vars == <<pending, delivered>>

Elements(s) == {s[i] : i \in DOMAIN s}

Init == pending = <<>> /\ delivered = <<>>

Accept(m) ==
  /\ m \in Msg
  /\ m \notin Elements(pending) \cup Elements(delivered)
  /\ pending' = Append(pending, m)
  /\ UNCHANGED delivered

Deliver ==
  /\ pending # <<>>
  /\ delivered' = Append(delivered, Head(pending))
  /\ pending' = Tail(pending)

(* Consecutive messages are lost: those between the first i and the j-th.  *)
Cut(s, i, j) == SubSeq(s, 1, i) \o SubSeq(s, j, Len(s))

Lose ==
  /\ \E i \in 0..Len(pending) : \E j \in i + 1 .. Len(pending) + 1 :
       pending' = Cut(pending, i, j)
  /\ UNCHANGED delivered

(* The message accepted is the one that is new at the end of pending.      *)
AcceptNew == pending' # <<>> /\ Accept(pending'[Len(pending')])

Next == AcceptNew \/ Deliver \/ Lose

Spec == Init /\ [][Next]_vars

=============================================================================
