------------------------------ MODULE RingBuf ------------------------------
(***************************************************************************)
(* Buf of src/src/buf.h: a ring of N slots with one producer (an interrupt  *)
(* handler) and one consumer (the main loop) that share it without a lock.  *)
(* _head is written by the producer only, _tail by the consumer only; every *)
(* volatile access to the other side's index is a step of its own, so the   *)
(* other side may run between any two of them.                              *)
(*                                                                          *)
(* The producer is modelled at the same grain as the consumer, which covers *)
(* an interrupt (its push runs to completion) and a second thread alike.    *)
(***************************************************************************)
EXTENDS Integers, Sequences

CONSTANTS
    Data,      \* the elements pushed
    NoData,    \* what an unwritten slot holds
    N,         \* _buf_size
    MaxAsk     \* bound on the n that callers give to copy_to and pop

ASSUME SizeAssumption == N \in Nat /\ N > 1     \* assert(buf_size > 1)
ASSUME AskAssumption == MaxAsk \in Nat
ASSUME DataAssumption == NoData \notin Data

VARIABLES
    buf, head, tail,   \* _buf, _head, _tail
    ppc, pval,         \* the producer: where it is in push(v), and v
    cpc,               \* the consumer: where it is in its operation
    want,              \* n in copy_to and pop
    cont,              \* what is_continuous() returned
    dest,              \* what has been copied out so far
    seen               \* the _head that clear() has read

vars == <<buf, head, tail, ppc, pval, cpc, want, cont, dest, seen>>
prodVars == <<ppc, pval>>
consVars == <<cpc, want, cont, dest, seen>>

Index == 0..(N - 1)
succ(x) == (x + 1) % N

\* size() as the consumer reads it: its own _tail and one read of _head.
size == IF head >= tail THEN head - tail ELSE N - tail + head
is_empty == tail = head

\* The ring's contents, front first, and the slot of the i-th of them.
slot(i) == (tail + i - 1) % N
contents == [i \in 1..size |-> buf[slot(i)]]

Init ==
    /\ buf = [i \in Index |-> NoData]
    /\ head = 0 /\ tail = 0
    /\ ppc = "idle" /\ pval = NoData
    /\ cpc = "idle" /\ want = 0 /\ cont = FALSE
    /\ dest = <<>> /\ seen = 0

-----------------------------------------------------------------------------
(***************************************************************************)
(* The producer: push(v).                                                   *)
(***************************************************************************)
\* Mutant: the test is missing.
never_full == FALSE

\* next == _tail: the buffer is full, push returns false, v is dropped.
full == succ(head) = tail

push(v) ==
    /\ ppc = "idle" /\ ~full
    /\ ppc' = "write" /\ pval' = v
    /\ UNCHANGED <<buf, head, tail, consVars>>

push_write ==
    /\ ppc = "write"
    /\ buf' = [buf EXCEPT ![head] = pval]
    /\ ppc' = "publish"
    /\ UNCHANGED <<head, tail, pval, consVars>>

push_publish ==
    /\ ppc = "publish"
    /\ head' = succ(head)
    /\ ppc' = "idle" /\ pval' = NoData
    /\ UNCHANGED <<buf, tail, consVars>>

Producer == (\E v \in Data : push(v)) \/ push_write \/ push_publish

-----------------------------------------------------------------------------
(***************************************************************************)
(* The consumer.  A getc is front() then pop(); a flush is size(), copy_to  *)
(* of that many, pop of what was copied; copy_to and pop also take any n.   *)
(***************************************************************************)
idle == /\ cpc' = "idle" /\ want' = 0 /\ cont' = FALSE
        /\ dest' = <<>> /\ seen' = 0

getc ==
    /\ cpc = "idle" /\ ~is_empty
    /\ cpc' = "front"
    /\ UNCHANGED <<buf, head, tail, prodVars, want, cont, dest, seen>>

front ==
    /\ cpc = "front"
    /\ dest' = <<buf[tail]>>
    /\ want' = 1
    /\ cpc' = "pop"
    /\ UNCHANGED <<buf, head, tail, prodVars, cont, seen>>

\* pop(n) tests is_empty() before each step of _tail.
discard(n) ==
    /\ cpc = "idle"
    /\ cpc' = "pop" /\ want' = n
    /\ UNCHANGED <<buf, head, tail, prodVars, cont, dest, seen>>

pop ==
    /\ cpc = "pop"
    /\ IF want = 0 \/ is_empty
       THEN idle /\ UNCHANGED tail
       ELSE /\ tail' = succ(tail)
            /\ want' = want - 1
            /\ UNCHANGED <<cpc, cont, dest, seen>>
    /\ UNCHANGED <<buf, head, prodVars>>

clear ==
    /\ cpc = "idle"
    /\ cpc' = "clear" /\ seen' = head
    /\ UNCHANGED <<buf, head, tail, prodVars, want, cont, dest>>

clear_write ==
    /\ cpc = "clear"
    /\ tail' = seen
    /\ idle
    /\ UNCHANGED <<buf, head, prodVars>>

copy_to(n) ==
    /\ cpc = "idle"
    /\ cpc' = "copy" /\ want' = n
    /\ UNCHANGED <<buf, head, tail, prodVars, cont, dest, seen>>

flush == size > 0 /\ copy_to(size)

\* Mutant: n is not clamped.
never_exceeds(n) == FALSE

\* if (n > size()) ... the first call of size()
exceeds(n) == n > size
copy_check ==
    /\ cpc = "copy"
    /\ cpc' = IF exceeds(want) THEN "clamp" ELSE "branch"
    /\ UNCHANGED <<buf, head, tail, prodVars, want, cont, dest, seen>>

\* ... n = size(); the second call, with a _head that may have moved on
copy_clamp ==
    /\ cpc = "clamp"
    /\ want' = size
    /\ cpc' = "branch"
    /\ UNCHANGED <<buf, head, tail, prodVars, cont, dest, seen>>

is_continuous == is_empty \/ tail < head
copy_branch ==
    /\ cpc = "branch"
    /\ IF want = 0
       THEN idle
       ELSE /\ cont' = is_continuous
            /\ cpc' = "memcpy"
            /\ UNCHANGED <<want, dest, seen>>
    /\ UNCHANGED <<buf, head, tail, prodVars>>

\* Mutants: the first block is one too long, or one too short.
first_long == N - tail + 1
first_short == N - tail - 1

\* The slot that memcpy reads for element i (from 0): one block from _tail, or
\* the `first` slots up to the end of the ring and then from its start.
first == N - tail
source(i) == IF cont \/ i < first THEN tail + i ELSE i - first

copy_step ==
    /\ cpc = "memcpy" /\ Len(dest) < want
    /\ dest' = Append(dest, buf[source(Len(dest))])
    /\ UNCHANGED <<buf, head, tail, prodVars, cpc, want, cont, seen>>

\* copy_to returns; its caller pops what it got, or leaves it in the ring.
copy_done(popped) ==
    /\ cpc = "memcpy" /\ Len(dest) = want
    /\ IF popped
       THEN cpc' = "pop" /\ UNCHANGED <<want, cont, dest, seen>>
       ELSE idle
    /\ UNCHANGED <<buf, head, tail, prodVars>>

Consumer ==
    \/ getc \/ front \/ pop \/ clear \/ clear_write \/ flush
    \/ \E n \in 1..MaxAsk : discard(n) \/ copy_to(n)
    \/ copy_check \/ copy_clamp \/ copy_branch \/ copy_step
    \/ \E popped \in BOOLEAN : copy_done(popped)

Next == Producer \/ Consumer

Spec == Init /\ [][Next]_vars

-----------------------------------------------------------------------------
TypeOK ==
    /\ buf \in [Index -> Data \cup {NoData}]
    /\ head \in Index /\ tail \in Index
    /\ ppc \in {"idle", "write", "publish"} /\ pval \in Data \cup {NoData}
    /\ cpc \in {"idle", "front", "pop", "clear", "copy", "clamp", "branch", "memcpy"}
    /\ want \in Nat
    /\ cont \in BOOLEAN
    /\ dest \in Seq(Data \cup {NoData})
    /\ seen \in Index

\* memcpy reads inside the ring, whatever was pushed between the reads of _head
\* that chose the number of elements and the branch (buf.h:116-134).
CopyInBounds == cpc = "memcpy" /\ Len(dest) < want => source(Len(dest)) \in Index

\* What copy_to and front() hand out is the front of the queue, and pop() then
\* removes just that: the part of it not yet popped is still the queue's front,
\* while the producer keeps pushing.  Nothing is lost, repeated or reordered.
Unpopped == IF cpc = "pop" THEN SubSeq(dest, Len(dest) - want + 1, Len(dest)) ELSE dest
DeliveredInOrder ==
    dest # <<>> => /\ Len(Unpopped) <= size
                   /\ Unpopped = SubSeq(contents, 1, Len(Unpopped))

(***************************************************************************)
(* The inductive invariant behind these.                                    *)
(***************************************************************************)
\* While push() is under way there stays room for it, and what it publishes
\* has been written.
ProducerInv == /\ ppc # "idle" => ~full /\ pval \in Data
               /\ ppc = "publish" => buf[head] = pval

Filled == \A i \in 1..size : buf[slot(i)] \in Data

\* What the consumer has read of _head stays within the queue until it is used.
offset(x) == IF x >= tail THEN x - tail ELSE N - tail + x
ConsumerInv ==
    /\ cpc = "front" => size >= 1
    /\ cpc = "clear" => offset(seen) <= size
    /\ cpc \in {"branch", "memcpy"} => want <= size
    /\ cpc = "memcpy" => /\ want >= 1 /\ Len(dest) <= want
                         /\ cont => tail + want <= N
    /\ cpc = "pop" /\ dest # <<>> => want <= Len(dest) /\ want <= size
    /\ cpc \notin {"memcpy", "pop"} => dest = <<>>

InOrder ==
    /\ cpc = "memcpy" => \A i \in 1..Len(dest) : dest[i] = buf[slot(i)]
    /\ cpc = "pop" /\ dest # <<>> =>
          \A i \in 1..want : dest[Len(dest) - want + i] = buf[slot(i)]

\* Indices, slots and what each side has read of the other's index agree.
RingInv == TypeOK /\ ProducerInv /\ Filled /\ ConsumerInv /\ InOrder

Fifo == INSTANCE BoundedFifo WITH q <- contents, Capacity <- N - 1

\* The ring is a bounded queue: an element becomes visible only when it has
\* been written, a slot is reused only when its element has been taken, and the
\* producer and the consumer never disagree on what is in between.
IsFifo == Fifo!Spec
=============================================================================
