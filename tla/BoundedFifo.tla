---------------------------- MODULE BoundedFifo ----------------------------
(***************************************************************************)
(* What Buf (src/src/buf.h) promises: a first-in first-out queue of bounded *)
(* capacity that refuses an element when it is full and loses none.         *)
(***************************************************************************)
EXTENDS Naturals, Sequences

CONSTANTS Data, Capacity

VARIABLE q

Init == q = <<>>

\* Mutant: one element too few leaves.
take_less(k) == k \in 1..Len(q) /\ q' = SubSeq(q, k, Len(q))

\* push() returns true.
Put(v) == Len(q) < Capacity /\ q' = Append(q, v)

\* pop() and clear(): some elements leave at the front.
Take(k) == k \in 1..Len(q) /\ q' = SubSeq(q, k + 1, Len(q))

Next == (\E v \in Data : Put(v)) \/ (\E k \in 1..Len(q) : Take(k))

Spec == Init /\ [][Next]_q
=============================================================================
