------------------------------- MODULE Stream -------------------------------
(***************************************************************************)
(* Stream (src/src/stream.h): a ring shared by a producer and by any number  *)
(* of receivers.  recv() registers a poll that calls back in every pass      *)
(* while there is something in the ring, and removes itself once the stream  *)
(* is finished; the producer holds the shared part weakly.                  *)
(*                                                                          *)
(* All of it runs in the main loop, so the ring is the bounded queue that    *)
(* RingBuf implements.  Receivers are numbered in the order of recv().       *)
(***************************************************************************)
EXTENDS Naturals, Sequences, FiniteSets

CONSTANTS
    Cap,           \* what the ring holds: size - 1
    Echo,          \* may a receiver's callback send or finish?
    MaxReceivers,  \* bound on the calls of recv()
    MaxSent        \* bound on the calls of send()

ASSUME CapAssumption == Cap \in Nat \ {0}
ASSUME EchoAssumption == Echo \in BOOLEAN
ASSUME BoundAssumption == MaxReceivers \in Nat /\ MaxSent \in Nat

VARIABLES
    buf,        \* the ring's contents; values are numbered as they are sent
    finished,
    kept,       \* the program holds a Stream object
    count,      \* receivers 1..count are registered
    state,      \* "waiting", "flagged" (PF_DELETE) or "erased"
    it, pc,     \* poll()'s position; "cb", and "rest" when it has taken something,
                \* in a callback of recv(), else "loop"
    sent,       \* ghost: how many values have been sent ...
    lost,       \* ghost: ... which of them were dropped ...
    taken,      \* ghost: ... and taken by all the receivers, in order
    cut         \* ghost: the receivers that the program has terminated

vars == <<buf, finished, kept, count, state, it, pc, sent, lost, taken, cut>>
producer == <<finished, kept, sent, lost>>
loop == <<it, pc>>

Receivers == 1..MaxReceivers
Registered == 1..count

Ring == INSTANCE BoundedFifo WITH q <- buf, Data <- 1..MaxSent, Capacity <- Cap

Init ==
    /\ buf = <<>> /\ finished = FALSE /\ kept = TRUE
    /\ count = 0 /\ state = [i \in Receivers |-> "waiting"]
    /\ it = 1 /\ pc = "loop"
    /\ sent = 0 /\ lost = {} /\ taken = <<>> /\ cut = {}

\* The producer's weak pointer can still be locked.
Alive == kept \/ \E i \in Registered : state[i] # "erased"

-----------------------------------------------------------------------------
(***************************************************************************)
(* User code: main() and all callbacks, in any order.                       *)
(***************************************************************************)
MayProduce == pc = "loop" \/ Echo

\* The result of push is ignored.
send ==
    /\ MayProduce /\ sent < MaxSent
    /\ sent' = sent + 1
    /\ \/ Alive /\ Ring!Put(sent') /\ UNCHANGED lost
       \/ ~(Alive /\ Len(buf) < Cap) /\ UNCHANGED buf /\ lost' = lost \cup {sent'}
    /\ UNCHANGED <<finished, kept, count, state, loop, taken, cut>>

finish ==
    /\ MayProduce /\ Alive /\ ~finished
    /\ finished' = TRUE
    /\ UNCHANGED <<buf, kept, count, state, loop, sent, lost, taken, cut>>

recv ==
    /\ kept /\ count < MaxReceivers
    /\ count' = count + 1
    /\ UNCHANGED <<buf, producer, state, loop, taken, cut>>

forget ==
    /\ kept
    /\ kept' = FALSE
    /\ UNCHANGED <<buf, finished, count, state, loop, sent, lost, taken, cut>>

terminal(i) ==
    /\ state[i] = "waiting"
    /\ state' = [state EXCEPT ![i] = "flagged"] /\ cut' = cut \cup {i}
    /\ UNCHANGED <<buf, producer, count, loop, taken>>

\* A receiver's callback takes, as in stream.cpp, what the ring holds: size, copy_to
\* and pop.
receive ==
    /\ pc = "cb"
    /\ Ring!Take(Len(buf))
    /\ taken' = taken \o buf
    /\ pc' = "rest"
    /\ UNCHANGED <<producer, count, state, it, cut>>

UserNext ==
    \/ send \/ finish \/ recv \/ forget
    \/ \E i \in Registered : terminal(i)
    \/ receive

(***************************************************************************)
(* The polls of recv().                                                     *)
(***************************************************************************)
AtReceiver == pc = "loop" /\ it \in Registered

\* Mutants: finished is looked at first; the poll is never removed.
until_finished == buf # <<>> /\ ~finished
stay(i) == state[i]

ready == buf # <<>>
after_visit(i) == IF finished THEN "flagged" ELSE state[i]

call ==
    /\ AtReceiver /\ state[it] = "waiting" /\ ready
    /\ pc' = "cb"
    /\ UNCHANGED <<buf, producer, count, state, it, taken, cut>>

return_cb ==
    /\ pc = "rest"
    /\ state' = [state EXCEPT ![it] = after_visit(it)]
    /\ pc' = "loop" /\ it' = it + 1
    /\ UNCHANGED <<buf, producer, count, taken, cut>>

no_call ==
    /\ AtReceiver /\ state[it] = "waiting" /\ ~ready
    /\ state' = [state EXCEPT ![it] = after_visit(it)]
    /\ it' = it + 1
    /\ UNCHANGED <<buf, producer, count, pc, taken, cut>>

\* poll() erases a flagged node; an erased one is not met again.
erase ==
    /\ AtReceiver /\ state[it] # "waiting"
    /\ state' = [state EXCEPT ![it] = "erased"]
    /\ it' = it + 1
    /\ UNCHANGED <<buf, producer, count, pc, taken, cut>>

next_pass ==
    /\ pc = "loop" /\ it > count
    /\ it' = 1
    /\ UNCHANGED <<buf, producer, count, state, pc, taken, cut>>

LoopNext == call \/ receive \/ return_cb \/ no_call \/ erase \/ next_pass

Next == UserNext \/ LoopNext

Spec == Init /\ [][Next]_vars

\* poll() never returns; a receiver's callback takes what there is, and returns.
FairSpec == Spec /\ WF_vars(LoopNext)

-----------------------------------------------------------------------------
(***************************************************************************)
(* Properties.                                                              *)
(***************************************************************************)
SetOf(s) == {s[k] : k \in 1..Len(s)}

TypeOK ==
    /\ buf \in Seq(1..sent) /\ Len(buf) <= Cap /\ taken \in Seq(1..sent)
    /\ finished \in BOOLEAN /\ kept \in BOOLEAN /\ cut \subseteq Registered
    /\ count \in 0..MaxReceivers
    /\ state \in [Receivers -> {"waiting", "flagged", "erased"}]
    /\ it \in 1..(count + 1) /\ pc \in {"loop", "cb", "rest"}
    /\ sent \in 0..MaxSent /\ lost \subseteq 1..sent

\* A receiver is only called while it is registered and when there is something to take,
\* whatever the other receivers did earlier in the pass: its callback may call front().
CalledWithData ==
    /\ pc # "loop" => it \in Registered
    /\ pc = "cb" => buf # <<>>

\* Together the receivers get what was sent, in order, nothing twice, and nothing
\* missing but what found the ring full or nobody listening.
Shared ==
    LET seen == taken \o buf
    IN  /\ \A i, j \in 1..Len(seen) : i < j => seen[i] < seen[j]
        /\ SetOf(seen) = (1..sent) \ lost

\* finish() strands nothing: what is in the ring while a receiver listens is taken,
\* by it or by another one, although they remove themselves, unless the program
\* terminates that receiver.
Delivered ==
    \A v \in 1..MaxSent, i \in Receivers :
        (v \in SetOf(buf) /\ i <= count /\ state[i] = "waiting") ~> (v \in SetOf(taken) \/ i \in cut)

\* The polls of a finished stream go away, and with the last Stream object the ring.
Released == (finished /\ ~kept) ~> ~Alive
=============================================================================
