------------------------------ MODULE ByteFifo ------------------------------
(***************************************************************************)
(* What a receive pool promises: a byte queue of bounded capacity.  Bytes  *)
(* leave in the order they arrived and none is lost or invented.           *)
(***************************************************************************)
EXTENDS Naturals, Sequences

CONSTANTS Bytes, Capacity

VARIABLE q

FifoInit == q = <<>>

Arrive(x) ==
  /\ Len(q) + Len(x) <= Capacity
  /\ q' = q \o x

Leave(n) == q' = SubSeq(q, n + 1, Len(q))

FifoNext == \/ \E n \in 1..Capacity : \E x \in [1..n -> Bytes] : Arrive(x)
            \/ \E n \in 1..Len(q) : Leave(n)

FifoSpec == FifoInit /\ [][FifoNext]_q
=============================================================================
