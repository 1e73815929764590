------------------------------- MODULE Promise -------------------------------
(***************************************************************************)
(* Promise, then and promise_all of src/src/promise.h.  A promise is a       *)
(* shared Future; then() registers a poll that looks at it in every pass of  *)
(* poll() and calls back once it is resolved; resolve() holds the Future     *)
(* only weakly.  promise_all resolves a promise of its own when it has       *)
(* collected the result of each member.                                     *)
(*                                                                          *)
(* Promises and waiters, the polls of then(), are numbered in the order in    *)
(* which they are made, which is that in which poll() visits (PollLoop).    *)
(***************************************************************************)
EXTENDS Naturals, Sequences, FiniteSets

CONSTANTS
    MaxPromises,   \* bound on the number of promises
    MaxWaiters,    \* bound on the number of calls of then()
    MaxMembers     \* bound on the number of promises given to promise_all

ASSUME BoundAssumption == MaxPromises \in Nat /\ MaxWaiters \in Nat /\ MaxMembers \in Nat

VARIABLES
    made,        \* promises 1..made have been constructed
    kept,        \* those of which the program still holds a Promise object
    resolved, result,   \* the Future of every promise
    members,     \* of a promise of promise_all: its arguments, else <<>>
    results, resolved_count,   \* what promise_all's callbacks share
    count,       \* waiters 1..count have been registered
    waiter,      \* their closures: the promise, and its place in which promise_all
    state,       \* "waiting", "flagged" (PF_DELETE) or "erased"
    it, pc,      \* poll()'s position; "cb" in a callback of then(), else "loop"
    called,      \* ghost: the waiters whose callback has been called
    asked        \* ghost: the promises whose resolve() has been called

vars == <<made, kept, resolved, result, members, results, resolved_count, count,
          waiter, state, it, pc, called, asked>>
futures == <<resolved, result, asked>>
collected == <<members, results, resolved_count>>
loop == <<it, pc>>

Promises == 1..MaxPromises
Made == 1..made
NoPromise == 0

\* The values of a promise are told apart from those of other promises and from the
\* default-constructed Result, not from each other.
Value(p) == <<p>>
NoValue == <<>>

Waiters == 1..MaxWaiters
Registered == 1..count
NoWaiter == [on |-> NoPromise, into |-> NoPromise, at |-> 0]

\* Mutant: then() keeps the Future weakly, too.
kept_only(p) == p \in kept

\* The Future lives as long as a Promise object or the closure of a then() does;
\* afterwards resolve() finds its weak pointer expired.
Observable(p) ==
    \/ p \in kept
    \/ \E i \in Registered : waiter[i].on = p /\ state[i] # "erased"

Init ==
    /\ made = 0 /\ kept = {}
    /\ resolved = [p \in Promises |-> FALSE]
    /\ result = [p \in Promises |-> NoValue]
    /\ members = [p \in Promises |-> <<>>]
    /\ results = [p \in Promises |-> <<>>]
    /\ resolved_count = [p \in Promises |-> 0]
    /\ count = 0
    /\ waiter = [i \in Waiters |-> NoWaiter]
    /\ state = [i \in Waiters |-> "waiting"]
    /\ it = 1 /\ pc = "loop"
    /\ called = {}
    /\ asked = {}

\* The effect of calling p's resolve function.
settle(p, v) ==
    /\ resolved' = [resolved EXCEPT ![p] = @ \/ Observable(p)]
    /\ result' = IF Observable(p) THEN [result EXCEPT ![p] = v] ELSE result
    /\ asked' = asked \cup {p}

-----------------------------------------------------------------------------
(***************************************************************************)
(* User code: main(), the callbacks given to then(), and those of all the    *)
(* other polls, timers among them, which poll() calls between two waiters.  *)
(***************************************************************************)
construct ==
    /\ made < MaxPromises
    /\ made' = made + 1 /\ kept' = kept \cup {made'}
    /\ UNCHANGED <<futures, collected, count, waiter, state, loop, called>>

\* Any code may hold the resolve function, and call it more than once.
resolve(p) ==
    /\ p \in Made /\ members[p] = <<>>
    /\ settle(p, Value(p))
    /\ UNCHANGED <<made, kept, collected, count, waiter, state, loop, called>>

\* The last Promise object of p goes out of scope.
forget(p) ==
    /\ p \in kept
    /\ kept' = kept \ {p}
    /\ UNCHANGED <<made, futures, collected, count, waiter, state, loop, called>>

then(p) ==
    /\ p \in kept /\ count < MaxWaiters
    /\ count' = count + 1
    /\ waiter' = [waiter EXCEPT ![count + 1] = [on |-> p, into |-> NoPromise, at |-> 0]]
    /\ UNCHANGED <<made, kept, futures, collected, state, loop, called>>

\* A coroutine awaits p: its awaiter registers the resumption like a then().  When p
\* is resolved already there is no suspension and nothing changes; the coroutine then
\* goes on with T(), not with the result of p (await_resume returns _result, which
\* only the callback sets).
co_await(p) ==
    \/ ~resolved[p] /\ then(p)
    \/ p \in kept /\ resolved[p] /\ UNCHANGED vars

promise_all(c, ps) ==
    /\ c \in Promises /\ c = made + 1 /\ count + Len(ps) <= MaxWaiters
    /\ \A k \in 1..Len(ps) : ps[k] \in kept
    /\ made' = c /\ kept' = kept \cup {c}
    /\ members' = [members EXCEPT ![c] = ps]
    /\ results' = [results EXCEPT ![c] = [k \in 1..Len(ps) |-> NoValue]]
    /\ count' = count + Len(ps)
    /\ waiter' = [i \in Waiters |->
                    IF i \in (count + 1)..(count + Len(ps))
                    THEN [on |-> ps[i - count], into |-> c, at |-> i - count]
                    ELSE waiter[i]]
    /\ UNCHANGED <<futures, resolved_count, state, loop, called>>

\* The task that called then() or promise_all() is terminated; with it all the
\* waiters of one promise_all.
Together(i) == {i} \cup {j \in Registered : waiter[i].into # NoPromise /\ waiter[j].into = waiter[i].into}
terminal(i) ==
    /\ state[i] = "waiting"
    /\ state' = [j \in Waiters |-> IF j \in Together(i) /\ state[j] = "waiting"
                                  THEN "flagged" ELSE state[j]]
    /\ UNCHANGED <<made, kept, futures, collected, count, waiter, loop, called>>

Lists == UNION {[1..n -> kept] : n \in 1..MaxMembers}
UserNext ==
    \/ construct
    \/ \E p \in Promises : resolve(p) \/ forget(p) \/ then(p) \/ co_await(p)
    \/ \E c \in Promises, ps \in Lists : promise_all(c, ps)
    \/ \E i \in Registered : terminal(i)

(***************************************************************************)
(* The polls.                                                               *)
(***************************************************************************)
AtWaiter == pc = "loop" /\ it \in Registered
Ready == AtWaiter /\ state[it] = "waiting" /\ resolved[waiter[it].on]

\* poll() erases a flagged node; an erased one is not met again.
erase ==
    /\ AtWaiter /\ state[it] # "waiting"
    /\ state' = [state EXCEPT ![it] = "erased"]
    /\ it' = it + 1
    /\ UNCHANGED <<made, kept, futures, collected, count, waiter, pc, called>>

unresolved ==
    /\ AtWaiter /\ state[it] = "waiting" /\ ~resolved[waiter[it].on]
    /\ it' = it + 1
    /\ UNCHANGED <<made, kept, futures, collected, count, waiter, state, pc, called>>

\* result_cb(future->result) of a program's own then().
call ==
    /\ Ready /\ waiter[it].into = NoPromise
    /\ called' = called \cup {it}
    /\ pc' = "cb"
    /\ UNCHANGED <<made, kept, futures, collected, count, waiter, state, it>>

\* Mutants: the poll is not removed; the last member is not awaited.
leave(i) == state[i]
all_but_one(c) == resolved_count[c] + 2 = Len(members[c])

removed(i) == "flagged"
return_cb ==
    /\ pc = "cb"
    /\ state' = [state EXCEPT ![it] = removed(it)]
    /\ pc' = "loop" /\ it' = it + 1
    /\ UNCHANGED <<made, kept, futures, collected, count, waiter, called>>

\* The callback of promise_all on one member: store the result, count it, and
\* resolve the promise with all of them when it is the last.
complete(c) == resolved_count[c] + 1 = Len(members[c])

gather ==
    /\ Ready /\ waiter[it].into # NoPromise
    /\ called' = called \cup {it}
    /\ LET c == waiter[it].into
           v == result[waiter[it].on]
       IN  /\ results' = [results EXCEPT ![c][waiter[it].at] = v]
           /\ resolved_count' = [resolved_count EXCEPT ![c] = @ + 1]
           /\ IF complete(c) THEN settle(c, results'[c]) ELSE UNCHANGED futures
    /\ state' = [state EXCEPT ![it] = removed(it)]
    /\ it' = it + 1
    /\ UNCHANGED <<made, kept, members, count, waiter, pc>>

next_pass ==
    /\ pc = "loop" /\ it > count
    /\ it' = 1
    /\ UNCHANGED <<made, kept, futures, collected, count, waiter, state, pc, called>>

LoopNext == erase \/ unresolved \/ call \/ return_cb \/ gather \/ next_pass

Next == UserNext \/ LoopNext

Spec == Init /\ [][Next]_vars

\* poll() never returns and callbacks do.
FairSpec == Spec /\ WF_vars(LoopNext)

-----------------------------------------------------------------------------
(***************************************************************************)
(* Properties.                                                              *)
(***************************************************************************)
AllPromises == {c \in Made : members[c] # <<>>}
Into(c) == {i \in Registered : waiter[i].into = c}

TypeOK ==
    /\ made \in 0..MaxPromises /\ kept \subseteq Made
    /\ resolved \in [Promises -> BOOLEAN]
    /\ \A p \in Promises : /\ members[p] \in Seq(Made)
                           /\ Len(results[p]) = Len(members[p])
                           /\ resolved_count[p] \in 0..Len(members[p])
    /\ count \in 0..MaxWaiters
    /\ \A i \in Registered : waiter[i].on \in Made
    /\ state \in [Waiters -> {"waiting", "flagged", "erased"}]
    /\ it \in 1..(count + 1) /\ pc \in {"loop", "cb"}
    /\ called \subseteq Registered /\ asked \subseteq Made

\* A resolve() is never lost on a poll that waits: then() keeps the Future alive
\* also when every Promise object is gone, and the weak pointer of resolve() finds it.
AwaitedResolves ==
    \A i \in Registered :
        LET p == waiter[i].on
        IN  state[i] = "waiting" /\ p \in asked => resolved[p] /\ result[p] # NoValue

\* A promise_all that somebody can still look at is resolved exactly when the callback
\* of each member has run, and then to one value of each, in the order of the
\* arguments: no default of the initial tuple is left and no result is misplaced.
AllComplete ==
    \A c \in AllPromises :
        Observable(c) =>
            /\ resolved[c] <=> Into(c) \subseteq called
            /\ resolved[c] => \A k \in 1..Len(members[c]) : result[c][k] = result[members[c][k]]

\* A callback given to then() is called at most once, however often its promise
\* is resolved and whatever callbacks do to the list of polls.
CalledOnce == [][call \/ gather => it \notin called]_vars

\* A poll whose promise is resolved is called, unless its task is terminated.  With
\* AllComplete: a promise_all is resolved after all its members are.
ResolvedServed ==
    \A i \in Waiters :
        (i <= count /\ state[i] = "waiting" /\ resolved[waiter[i].on]) ~> (state[i] # "waiting")
=============================================================================
