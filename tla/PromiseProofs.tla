--------------------------- MODULE PromiseProofs ---------------------------
(***************************************************************************)
(* The safety of Promise, for any number of promises and waiters.           *)
(***************************************************************************)
EXTENDS Promise, Integers, SequenceTheorems, FiniteSetTheorems, TLAPS

USE BoundAssumption

Shape ==
    /\ TypeOK
    /\ result = [p \in Promises |-> result[p]]
    /\ members = [p \in Promises |-> members[p]]
    /\ results = [p \in Promises |-> results[p]]
    /\ \A p \in Promises : results[p] = [k \in 1..Len(members[p]) |-> results[p][k]]
    /\ resolved_count \in [Promises -> Nat]
    /\ waiter \in [Waiters -> [on : 0..MaxPromises, into : 0..MaxPromises, at : Nat]]
    /\ pc = "cb" => it \in Registered /\ state[it] # "erased"

\* Nothing is known of a promise that is not made.
FreshInv ==
    \A p \in Promises \ Made : ~resolved[p] /\ result[p] = NoValue /\ members[p] = <<>>

\* The waiters of a promise_all have successive numbers, one for each member; the
\* members are older than it.
PlaceOf(c) ==
    \E b \in 0..count :
        /\ Into(c) = (b + 1)..(b + Len(members[c]))
        /\ \A i \in Into(c) : waiter[i].at = i - b /\ waiter[i].on = members[c][i - b]
PlaceInv ==
    /\ \A i \in Registered :
        LET w == waiter[i]
        IN  w.on \in Made /\ (w.into # NoPromise => w.into \in AllPromises /\ w.on < w.into)
    /\ \A c \in AllPromises : PlaceOf(c)

\* A waiter that was called does not wait, but for the one whose callback runs.
CalledInv ==
    \A i \in called : /\ state[i] = "waiting" => pc = "cb" /\ it = i
                      /\ resolved[waiter[i].on]

\* What resolve() has left where somebody can look.
AskedInv == \A p \in asked : Observable(p) => resolved[p] /\ result[p] # NoValue
ValueInv == \A p \in Made : members[p] = <<>> /\ resolved[p] => result[p] = Value(p)

\* What a promise_all has collected.
Heard(c) == Into(c) \cap called
CollectOf(c) ==
    /\ resolved_count[c] = Cardinality(Heard(c))
    /\ \A i \in Heard(c) : results[c][waiter[i].at] = result[waiter[i].on]
DoneOf(c) ==
    /\ resolved[c] => Into(c) \subseteq called /\ result[c] = results[c]
    /\ Observable(c) /\ Into(c) \subseteq called => resolved[c]
DoneInv == \A c \in AllPromises : CollectOf(c) /\ DoneOf(c)

Facts == FreshInv /\ PlaceInv /\ AskedInv /\ ValueInv /\ DoneInv
IInv == Shape /\ Facts /\ CalledInv

-----------------------------------------------------------------------------
LEMMA Basics ==
    ASSUME IInv
    PROVE  /\ TypeOK /\ made \in 0..MaxPromises /\ count \in 0..MaxWaiters /\ made \in Nat /\ count \in Nat
           /\ called \subseteq Registered /\ Registered \subseteq Waiters /\ Registered \subseteq Nat
           /\ Made \subseteq Promises /\ NoPromise \notin Made
           /\ \A i \in Registered : waiter[i].on \in Made
<1>1. TypeOK /\ made \in 0..MaxPromises /\ count \in 0..MaxWaiters /\ called \subseteq Registered
  BY DEF IInv, Shape, TypeOK
<1>2. \A i \in Registered : waiter[i].on \in Made
  BY <1>1 DEF TypeOK
<1>3. Registered \subseteq Waiters /\ Registered \subseteq Nat
  BY <1>1, BoundAssumption DEF Registered, Waiters
<1>4. Made \subseteq Promises /\ NoPromise \notin Made
  BY <1>1, BoundAssumption DEF Made, Promises, NoPromise
<1> QED BY <1>1, <1>2, <1>3, <1>4, BoundAssumption

LEMMA Sequence ==
    ASSUME NEW n \in Nat, NEW f, f = [k \in 1..n |-> f[k]]
    PROVE  Len(f) = n /\ (f = <<>> => n = 0)
<1>1. f \in [1..n -> {f[k] : k \in 1..n}]
  OBVIOUS
<1>2. f \in Seq({f[k] : k \in 1..n})
  BY <1>1, SeqDef
<1>3. DOMAIN f = 1..Len(f) /\ Len(f) \in Nat /\ DOMAIN f = 1..n
  BY <1>1, <1>2, LenProperties
<1>4. Len(f) = n
  BY <1>3
<1> QED BY <1>4

\* Most steps resolve nothing: they add promises and waiters, call a then() of the
\* program, let go of promises or move on in the list.
LEMMA Grows ==
    ASSUME IInv, made' \in Nat, count' \in Nat, made <= made', count <= count',
           \A p \in Made : /\ members'[p] = members[p] /\ results'[p] = results[p]
                           /\ resolved_count'[p] = resolved_count[p],
           UNCHANGED futures, kept' \cap Made \subseteq kept,
           \A i \in Registered : waiter'[i] = waiter[i] /\ (state[i] = "erased" => state'[i] = "erased"),
           \A i \in Registered' \ Registered :
               waiter'[i].on \in kept \cup (Made' \ Made) /\ waiter'[i].into \notin Made,
           called \subseteq called', called' \subseteq Registered,
           \A i \in called' \ called : waiter[i].into = NoPromise
    PROVE  AskedInv' /\ \A c \in AllPromises : PlaceOf(c)' /\ CollectOf(c)' /\ DoneOf(c)'
<1>1. TypeOK /\ made \in Nat /\ count \in Nat /\ asked \subseteq Made /\ called \subseteq Registered
  BY DEF IInv, Shape, TypeOK
<1>2. Made \subseteq Made' /\ Registered \subseteq Registered'
  BY <1>1 DEF Made, Registered
<1>3. resolved' = resolved /\ result' = result /\ asked' = asked
  BY DEF futures
<1>4. ASSUME NEW p \in Made, Observable(p)' PROVE Observable(p)
  <2>1. CASE p \in kept'
    BY <2>1 DEF Observable
  <2>2. CASE \E i \in Registered' : waiter'[i].on = p /\ state'[i] # "erased"
    <3>1. PICK i \in Registered' : waiter'[i].on = p /\ state'[i] # "erased"
      BY <2>2
    <3>2. CASE i \in Registered
      BY <3>1, <3>2 DEF Observable
    <3>3. CASE i \notin Registered
      BY <3>1, <3>3 DEF Observable
    <3> QED BY <3>2, <3>3
  <2> QED BY <1>4, <2>1, <2>2 DEF Observable
<1>5. AskedInv'
  BY <1>1, <1>3, <1>4 DEF IInv, Facts, AskedInv
<1>6. ASSUME NEW c \in AllPromises PROVE PlaceOf(c)' /\ CollectOf(c)' /\ DoneOf(c)'
  <2>1. c \in Made /\ c # NoPromise
    BY <1>1 DEF AllPromises, Made, NoPromise
  <2>2. Into(c)' = Into(c)
    BY <1>2, <2>1 DEF Into
  <2>3. Heard(c)' = Heard(c)
    BY <2>1, <2>2 DEF Heard, Into
  <2>4. members'[c] = members[c] /\ results'[c] = results[c] /\ resolved_count'[c] = resolved_count[c]
    BY <2>1
  <2>5. \A i \in Into(c) : waiter'[i] = waiter[i]
    BY DEF Into
  <2>6. PlaceOf(c) /\ CollectOf(c) /\ DoneOf(c)
    BY DEF IInv, Facts, PlaceInv, DoneInv
  <2>7. PlaceOf(c)'
    <3>1. PICK b \in 0..count : /\ Into(c) = (b + 1)..(b + Len(members[c]))
                               /\ \A i \in Into(c) : waiter[i].at = i - b /\ waiter[i].on = members[c][i - b]
      BY <2>6 DEF PlaceOf
    <3>2. b \in 0..count'
      BY <1>1
    <3>3. Into(c)' = (b + 1)..(b + Len(members'[c]))
      BY <2>2, <2>4, <3>1
    <3>4. \A i \in Into(c)' : waiter'[i].at = i - b /\ waiter'[i].on = members'[c][i - b]
      BY <2>2, <2>4, <2>5, <3>1
    <3> QED BY <3>2, <3>3, <3>4 DEF PlaceOf
  <2>8. CollectOf(c)'
    <3>1. \A i \in Heard(c) : waiter'[i] = waiter[i]
      BY <2>5 DEF Heard
    <3> QED BY <1>3, <2>3, <2>4, <2>6, <3>1 DEF CollectOf
  <2>9. Into(c) \subseteq called' <=> Into(c) \subseteq called
    BY <2>1 DEF Into
  <2>10. DoneOf(c)'
    BY <1>3, <1>4, <2>1, <2>2, <2>4, <2>6, <2>9 DEF DoneOf
  <2> QED BY <2>7, <2>8, <2>10
<1> QED BY <1>5, <1>6

\* Those of them that add nothing.
LEMMA Quiet ==
    ASSUME IInv, UNCHANGED <<made, futures, collected, count, waiter>>, kept' \subseteq kept,
           \A i \in Registered : state[i] = "erased" => state'[i] = "erased",
           called \subseteq called', called' \subseteq Registered,
           \A i \in called' \ called : waiter[i].into = NoPromise
    PROVE  Facts'
<1>1. made \in Nat /\ count \in Nat
  BY DEF IInv, Shape, TypeOK
<1>2. /\ UNCHANGED <<members, results, resolved_count>> /\ UNCHANGED <<resolved, result>>
      /\ Made' = Made /\ Registered' = Registered /\ AllPromises' = AllPromises
  BY DEF futures, collected, Made, Registered, AllPromises
<1>3. AskedInv' /\ \A c \in AllPromises : PlaceOf(c)' /\ CollectOf(c)' /\ DoneOf(c)'
  <2>1. made' \in Nat /\ count' \in Nat /\ made <= made' /\ count <= count'
    BY <1>1
  <2>2. \A p \in Made : /\ members'[p] = members[p] /\ results'[p] = results[p]
                        /\ resolved_count'[p] = resolved_count[p]
    BY <1>2
  <2>3. \A i \in Registered : waiter'[i] = waiter[i] /\ (state[i] = "erased" => state'[i] = "erased")
    OBVIOUS
  <2>4. \A i \in Registered' \ Registered :
               waiter'[i].on \in kept \cup (Made' \ Made) /\ waiter'[i].into \notin Made
    BY <1>2
  <2>5. kept' \cap Made \subseteq kept
    OBVIOUS
  <2> QED BY <2>1, <2>2, <2>3, <2>4, <2>5, Grows
<1>4. FreshInv' /\ ValueInv'
  BY <1>2 DEF IInv, Facts, FreshInv, ValueInv
<1>5. PlaceInv' /\ DoneInv'
  BY <1>2, <1>3 DEF IInv, Facts, PlaceInv, DoneInv
<1> QED BY <1>3, <1>4, <1>5 DEF Facts
-----------------------------------------------------------------------------
LEMMA InitPromise == Init => IInv
<1> SUFFICES ASSUME Init PROVE IInv
  OBVIOUS
<1>1. made = 0 /\ count = 0 /\ called = {} /\ asked = {} /\ kept = {} /\ Made = {} /\ Registered = {}
  BY DEF Init, Made, Registered
<1>2. \A p \in Promises : members[p] = <<>> /\ results[p] = <<>> /\ Len(members[p]) = 0 /\ members[p] \in Seq(Made)
  BY EmptySeq DEF Init
<1>3. TypeOK
  BY <1>1, <1>2 DEF Init, TypeOK
<1>4. \A p \in Promises : results[p] = [k \in 1..Len(members[p]) |-> results[p][k]]
  <2> SUFFICES ASSUME NEW p \in Promises PROVE results[p] = [k \in 1..0 |-> results[p][k]]
    BY <1>2
  <2>1. results[p] = <<>>
    BY <1>2
  <2>2. <<>> \in Seq({}) /\ DOMAIN <<>> = 1..Len(<<>>)
    BY EmptySeq, LenProperties
  <2> QED BY <2>1, <2>2
<1>5. Shape
  BY <1>1, <1>3, <1>4 DEF Init, Shape, NoWaiter, NoPromise
<1>6. Facts
  BY <1>1 DEF Init, Facts, FreshInv, PlaceInv, AskedInv, ValueInv, DoneInv, AllPromises, Made, Registered
<1> QED BY <1>1, <1>5, <1>6 DEF IInv, CalledInv

\* The steps of poll(), and of callbacks, that only move on.
LEMMA QuietShape ==
    ASSUME IInv, UNCHANGED <<made, futures, collected, count, waiter>>, kept' \subseteq kept,
           state' \in [Waiters -> {"waiting", "flagged", "erased"}],
           it' \in 1..(count + 1), pc' \in {"loop", "cb"}, pc' = "cb" => it' \in Registered /\ state'[it'] # "erased",
           called' \subseteq Registered
    PROVE  Shape'
<1>1. UNCHANGED <<members, results, resolved_count, resolved, result, asked>> /\ Made' = Made /\ Registered' = Registered
  BY DEF futures, collected, Made, Registered
<1>2. TypeOK'
  BY <1>1 DEF IInv, Shape, TypeOK
<1> QED BY <1>1, <1>2 DEF IInv, Shape

LEMMA ForgetPromise == ASSUME IInv, NEW p \in Promises, forget(p) PROVE IInv'
<1>1. /\ kept' = kept \ {p}
      /\ UNCHANGED <<made, futures, collected, count, waiter, state, it, pc, called>>
  BY DEF forget, loop
<1>2. called \subseteq Registered /\ UNCHANGED resolved
  BY <1>1 DEF IInv, Shape, TypeOK, futures
<1>3. Shape'
  BY <1>1, <1>2, QuietShape DEF IInv, Shape, TypeOK
<1>4. Facts'
  BY <1>1, <1>2, Quiet
<1>5. CalledInv'
  BY <1>1, <1>2 DEF IInv, CalledInv
<1> QED BY <1>3, <1>4, <1>5 DEF IInv

LEMMA TerminalPromise == ASSUME IInv, NEW i \in Registered, terminal(i) PROVE IInv'
<1>1. /\ state' = [j \in Waiters |-> IF j \in Together(i) /\ state[j] = "waiting" THEN "flagged" ELSE state[j]]
      /\ UNCHANGED <<made, kept, futures, collected, count, waiter, it, pc, called>>
  BY DEF terminal, loop
<1>2. called \subseteq Registered /\ UNCHANGED resolved /\ Registered \subseteq Waiters
  BY <1>1 DEF IInv, Shape, TypeOK, futures, Registered, Waiters
<1>3. state' \in [Waiters -> {"waiting", "flagged", "erased"}]
  BY <1>1 DEF IInv, Shape, TypeOK
<1>4. \A j \in Waiters : (state[j] = "erased" => state'[j] = "erased") /\ (state'[j] = "waiting" => state[j] = "waiting")
  BY <1>1
<1>5. Shape'
  BY <1>1, <1>2, <1>3, <1>4, QuietShape DEF IInv, Shape, TypeOK
<1>6. Facts'
  BY <1>1, <1>2, <1>4, Quiet
<1>7. CalledInv'
  BY <1>1, <1>2, <1>4 DEF IInv, CalledInv
<1> QED BY <1>5, <1>6, <1>7 DEF IInv

LEMMA WalkPromise == ASSUME IInv, erase \/ unresolved \/ next_pass \/ call \/ return_cb PROVE IInv'
<1>1. /\ TypeOK /\ called \subseteq Registered /\ Registered \subseteq Waiters /\ count \in Nat
      /\ it \in 1..(count + 1) /\ pc \in {"loop", "cb"} /\ (pc = "cb" => it \in Registered /\ state[it] # "erased")
  BY DEF IInv, Shape, TypeOK, Registered, Waiters
<1>2. \A i \in Registered : i + 1 \in 1..(count + 1)
  BY <1>1 DEF Registered
<1>3. CASE erase
  <2>1. /\ pc = "loop" /\ it \in Registered /\ state[it] # "waiting" /\ state' = [state EXCEPT ![it] = "erased"] /\ it' = it + 1
        /\ UNCHANGED <<made, kept, futures, collected, count, waiter, pc, called>>
    BY <1>3 DEF erase, AtWaiter
  <2>2. state' \in [Waiters -> {"waiting", "flagged", "erased"}] /\ UNCHANGED resolved
    BY <1>1, <2>1 DEF TypeOK, futures
  <2>3. \A j \in Waiters : (state[j] = "erased" => state'[j] = "erased") /\ (state'[j] = "waiting" => state[j] = "waiting")
    BY <1>1, <2>1 DEF TypeOK
  <2>4. Shape'
    BY <1>1, <1>2, <2>1, <2>2, QuietShape
  <2>5. Facts'
    BY <1>1, <2>1, <2>3, Quiet
  <2>6. CalledInv'
    BY <1>1, <2>1, <2>2, <2>3 DEF IInv, CalledInv
  <2> QED BY <2>4, <2>5, <2>6 DEF IInv
<1>4. CASE unresolved \/ next_pass
  <2>1. /\ pc = "loop" /\ it' \in 1..(count + 1)
        /\ UNCHANGED <<made, kept, futures, collected, count, waiter, state, pc, called>>
    BY <1>1, <1>2, <1>4 DEF unresolved, next_pass, AtWaiter
  <2>2. UNCHANGED resolved /\ state' \in [Waiters -> {"waiting", "flagged", "erased"}]
    BY <1>1, <2>1 DEF futures, TypeOK
  <2>3. Shape'
    BY <1>1, <2>1, <2>2, QuietShape
  <2>4. Facts'
    BY <1>1, <2>1, Quiet
  <2>5. CalledInv'
    BY <2>1, <2>2 DEF IInv, CalledInv
  <2> QED BY <2>3, <2>4, <2>5 DEF IInv
<1>5. CASE call
  <2>1. /\ pc = "loop" /\ it \in Registered /\ state[it] = "waiting" /\ resolved[waiter[it].on] /\ waiter[it].into = NoPromise
        /\ called' = called \cup {it} /\ pc' = "cb"
        /\ UNCHANGED <<made, kept, futures, collected, count, waiter, state, it>>
    BY <1>5 DEF call, Ready, AtWaiter
  <2>2. UNCHANGED resolved /\ state' \in [Waiters -> {"waiting", "flagged", "erased"}]
    BY <1>1, <2>1 DEF futures, TypeOK
  <2>3. Shape'
    BY <1>1, <2>1, <2>2, QuietShape
  <2>4. Facts'
    BY <1>1, <2>1, Quiet
  <2>5. CalledInv'
    BY <2>1, <2>2 DEF IInv, CalledInv
  <2> QED BY <2>3, <2>4, <2>5 DEF IInv
<1>6. CASE return_cb
  <2>1. /\ pc = "cb" /\ it \in Registered /\ state' = [state EXCEPT ![it] = "flagged"] /\ pc' = "loop" /\ it' = it + 1
        /\ UNCHANGED <<made, kept, futures, collected, count, waiter, called>>
    BY <1>1, <1>6 DEF return_cb, removed
  <2>2. UNCHANGED resolved /\ state' \in [Waiters -> {"waiting", "flagged", "erased"}]
    BY <1>1, <2>1 DEF futures, TypeOK
  <2>3. \A j \in Waiters : j # it => state'[j] = state[j]
    BY <1>1, <2>1 DEF TypeOK
  <2>4. state'[it] = "flagged"
    BY <1>1, <2>1 DEF TypeOK
  <2>5. Shape'
    BY <1>1, <1>2, <2>1, <2>2, QuietShape
  <2>6. Facts'
    <3>1. state[it] # "erased"
      BY <1>1, <2>1
    <3> QED BY <1>1, <2>1, <2>3, <3>1, Quiet
  <2>7. CalledInv'
    BY <1>1, <2>1, <2>2, <2>3, <2>4 DEF IInv, CalledInv
  <2> QED BY <2>5, <2>6, <2>7 DEF IInv
<1> QED BY <1>3, <1>4, <1>5, <1>6
-----------------------------------------------------------------------------
LEMMA ConstructPromise == IInv /\ construct => IInv'
<1> SUFFICES ASSUME IInv, construct PROVE IInv'
  OBVIOUS
<1>1. /\ made < MaxPromises /\ made' = made + 1 /\ kept' = kept \cup {made + 1}
      /\ UNCHANGED <<resolved, result, asked, members, results, resolved_count, count, waiter, state, it, pc, called>>
      /\ UNCHANGED futures
  BY DEF construct, futures, collected, loop
<1>2. /\ TypeOK /\ made \in 0..MaxPromises /\ count \in Nat /\ called \subseteq Registered
      /\ Made' = Made \cup {made + 1} /\ made + 1 \in Promises /\ Registered' = Registered
  BY <1>1 DEF IInv, Shape, TypeOK, Made, Registered, Promises
<1>3. Seq(Made) \subseteq Seq(Made')
  <2>1. Made \subseteq Made'
    BY <1>2
  <2> QED BY <2>1, SeqMonotonic
<1>4. TypeOK'
  <2>1. \A p \in Promises : members'[p] \in Seq(Made')
    BY <1>1, <1>2, <1>3 DEF TypeOK
  <2> QED BY <1>1, <1>2, <2>1 DEF TypeOK
<1>5. Shape'
  BY <1>1, <1>2, <1>4 DEF IInv, Shape
<1>6. members[made + 1] = <<>> /\ AllPromises' = AllPromises /\ ~resolved[made + 1]
  <2>1. made + 1 \in Promises \ Made
    BY <1>2 DEF Made
  <2>2. members[made + 1] = <<>> /\ ~resolved[made + 1]
    BY <2>1 DEF IInv, Facts, FreshInv
  <2> QED BY <1>1, <1>2, <2>2 DEF AllPromises
<1>7. AskedInv' /\ \A c \in AllPromises : PlaceOf(c)' /\ CollectOf(c)' /\ DoneOf(c)'
  <2>1. made' \in Nat /\ count' \in Nat /\ made <= made' /\ count <= count'
    BY <1>1, <1>2
  <2>2. kept' \cap Made \subseteq kept
    BY <1>1, <1>2 DEF Made
  <2> QED BY <1>1, <1>2, <2>1, <2>2, Grows
<1>8. FreshInv' /\ ValueInv'
  BY <1>1, <1>2, <1>6 DEF IInv, Facts, FreshInv, ValueInv
<1>9. PlaceInv' /\ DoneInv' /\ CalledInv'
  BY <1>1, <1>2, <1>6, <1>7 DEF IInv, Facts, PlaceInv, DoneInv, CalledInv
<1> QED BY <1>5, <1>7, <1>8, <1>9 DEF IInv, Facts

LEMMA ThenPromise == ASSUME IInv, NEW p \in Promises, then(p) PROVE IInv'
<1>1. /\ p \in kept /\ count < MaxWaiters /\ count' = count + 1
      /\ waiter' = [waiter EXCEPT ![count + 1] = [on |-> p, into |-> NoPromise, at |-> 0]]
      /\ UNCHANGED <<made, kept, resolved, result, asked, members, results, resolved_count, state, it, pc, called>>
      /\ UNCHANGED futures
  BY DEF then, futures, collected, loop
<1>2. /\ TypeOK /\ made \in Nat /\ count \in Nat /\ called \subseteq Registered /\ p \in Made
      /\ Made' = Made /\ Registered' = Registered \cup {count + 1} /\ count + 1 \in Waiters \ Registered
  <2>1. TypeOK /\ made \in Nat /\ count \in Nat /\ called \subseteq Registered
    BY Basics
  <2>2. p \in Made /\ Made' = Made
    BY <1>1, <2>1 DEF TypeOK, Made
  <2>3. Registered' = Registered \cup {count + 1} /\ count + 1 \in Waiters \ Registered
    BY <1>1, <2>1, BoundAssumption DEF Registered, Waiters
  <2> QED BY <2>1, <2>2, <2>3
<1>3. /\ waiter \in [Waiters -> [on : 0..MaxPromises, into : 0..MaxPromises, at : Nat]]
      /\ [on |-> p, into |-> NoPromise, at |-> 0] \in [on : 0..MaxPromises, into : 0..MaxPromises, at : Nat]
      /\ Registered \subseteq Waiters
  BY <1>2 DEF IInv, Shape, Promises, NoPromise, Registered, Waiters, TypeOK
<1>4. /\ \A i \in Registered : waiter'[i] = waiter[i]
      /\ waiter'[count + 1] = [on |-> p, into |-> NoPromise, at |-> 0]
      /\ waiter' \in [Waiters -> [on : 0..MaxPromises, into : 0..MaxPromises, at : Nat]]
  BY <1>1, <1>2, <1>3
<1>5. TypeOK'
  <2>1. it' \in 1..(count' + 1) /\ count' \in 0..MaxWaiters
    BY <1>1, <1>2 DEF TypeOK
  <2>2. \A i \in Registered' : waiter'[i].on \in Made'
    <3>1. \A i \in Registered : waiter[i].on \in Made
      BY Basics
    <3> QED BY <1>2, <1>4, <3>1
  <2>3. called' \subseteq Registered'
    BY <1>1, <1>2
  <2> QED BY <1>1, <1>2, <2>1, <2>2, <2>3 DEF TypeOK
<1>6. Shape'
  BY <1>1, <1>2, <1>4, <1>5 DEF IInv, Shape
<1>7. AllPromises' = AllPromises /\ NoPromise \notin Made
  BY <1>1, <1>2 DEF AllPromises, Made, NoPromise
<1>8. AskedInv' /\ \A c \in AllPromises : PlaceOf(c)' /\ CollectOf(c)' /\ DoneOf(c)'
  <2>1. made' \in Nat /\ count' \in Nat /\ made <= made' /\ count <= count'
    BY <1>1, <1>2
  <2>2. \A i \in Registered' \ Registered :
           waiter'[i].on \in kept \cup (Made' \ Made) /\ waiter'[i].into \notin Made
    BY <1>1, <1>2, <1>4, <1>7
  <2> QED BY <1>1, <1>2, <1>4, <2>1, <2>2, Grows
<1>9. FreshInv' /\ ValueInv' /\ DoneInv'
  BY <1>1, <1>2, <1>7, <1>8 DEF IInv, Facts, FreshInv, ValueInv, DoneInv
<1>10. PlaceInv' /\ CalledInv'
  BY <1>1, <1>2, <1>4, <1>7, <1>8 DEF IInv, Facts, PlaceInv, CalledInv
<1> QED BY <1>6, <1>8, <1>9, <1>10 DEF IInv, Facts

LEMMA AllPromise == ASSUME IInv, NEW c \in Promises, NEW ps \in Lists, promise_all(c, ps) PROVE IInv'
<1> DEFINE n == Len(ps)
<1>1. n \in Nat \ {0} /\ ps \in [1..n -> kept] /\ ps \in Seq(kept) /\ ps # <<>>
  <2>1. PICK m \in 1..MaxMembers : ps \in [1..m -> kept]
    BY DEF Lists
  <2>2. ps \in Seq(kept) /\ m \in Nat \ {0}
    <3>1. m \in Nat \ {0}
      OBVIOUS
    <3> QED BY <2>1, <3>1, SeqDef
  <2>3. ps = [k \in 1..m |-> ps[k]]
    BY <2>1
  <2>4. Len(ps) = m
    BY <2>2, <2>3, Sequence
  <2>5. m # 0 /\ Len(<<>>) = 0
    BY EmptySeq
  <2> QED BY <2>1, <2>2, <2>4, <2>5
<1>2. /\ c = made + 1 /\ count + n <= MaxWaiters /\ made' = c /\ kept' = kept \cup {c}
      /\ members' = [members EXCEPT ![c] = ps]
      /\ results' = [results EXCEPT ![c] = [k \in 1..n |-> NoValue]]
      /\ count' = count + n
      /\ waiter' = [i \in Waiters |-> IF i \in (count + 1)..(count + n)
                                     THEN [on |-> ps[i - count], into |-> c, at |-> i - count] ELSE waiter[i]]
      /\ UNCHANGED <<resolved, result, asked, resolved_count, state, it, pc, called>>
      /\ UNCHANGED futures
  BY DEF promise_all, futures, loop
<1> HIDE DEF n
<1>3. /\ TypeOK /\ made \in Nat /\ count \in Nat /\ called \subseteq Registered /\ kept \subseteq Made
      /\ Made' = Made \cup {c} /\ c \in Promises \ Made /\ c # NoPromise
      /\ Registered' = Registered \cup ((count + 1)..(count + n))
      /\ \A i \in (count + 1)..(count + n) : i \in Waiters /\ i \notin Registered /\ i - count \in 1..n
  <2>1. /\ TypeOK /\ made \in 0..MaxPromises /\ count \in 0..MaxWaiters /\ called \subseteq Registered /\ kept \subseteq Made
    BY DEF IInv, Shape, TypeOK
  <2>2. Made' = Made \cup {c} /\ c \in Promises \ Made /\ c # NoPromise
    BY <1>2, <2>1 DEF Made, NoPromise, Promises
  <2>3. Registered' = Registered \cup ((count + 1)..(count + n))
    BY <1>1, <1>2, <2>1 DEF Registered
  <2>4. \A i \in (count + 1)..(count + n) : i \in Waiters /\ i \notin Registered /\ i - count \in 1..n
    BY <1>1, <1>2, <2>1 DEF Registered, Waiters
  <2> QED BY <2>1, <2>2, <2>3, <2>4
<1>4. ~resolved[c] /\ members[c] = <<>> /\ Len(members[c]) = 0
  BY <1>3, EmptySeq DEF IInv, Facts, FreshInv
<1>5. resolved_count[c] = 0
  BY <1>3, <1>4 DEF TypeOK
<1>6. /\ members = [p \in Promises |-> members[p]] /\ results = [p \in Promises |-> results[p]]
      /\ \A p \in Promises : results[p] = [k \in 1..Len(members[p]) |-> results[p][k]]
      /\ waiter \in [Waiters -> [on : 0..MaxPromises, into : 0..MaxPromises, at : Nat]]
  BY DEF IInv, Shape
<1>7. /\ members'[c] = ps /\ results'[c] = [k \in 1..n |-> NoValue]
      /\ \A p \in Promises : p # c => members'[p] = members[p] /\ results'[p] = results[p]
      /\ members' = [p \in Promises |-> members'[p]] /\ results' = [p \in Promises |-> results'[p]]
  BY <1>2, <1>6
<1>8. \A i \in (count + 1)..(count + n) :
         waiter'[i].on = ps[i - count] /\ waiter'[i].into = c /\ waiter'[i].at = i - count
  BY <1>2, <1>3
<1>9. \A i \in Registered : waiter'[i] = waiter[i]
  BY <1>2, <1>3, <1>6 DEF Registered, Waiters, IInv, Shape, TypeOK
<1>10. waiter' \in [Waiters -> [on : 0..MaxPromises, into : 0..MaxPromises, at : Nat]]
  <2>0. Made \subseteq 0..MaxPromises /\ c \in 0..MaxPromises
    BY <1>3 DEF Made, Promises, TypeOK
  <2>1. ASSUME NEW i \in (count + 1)..(count + n)
        PROVE  ps[i - count] \in 0..MaxPromises /\ i - count \in Nat
    <3>1. i - count \in 1..n /\ i - count \in Nat
      BY <1>3
    <3>2. ps[i - count] \in Made
      BY <1>1, <1>3, <3>1
    <3> QED BY <2>0, <3>1, <3>2
  <2>2. \A i \in (count + 1)..(count + n) : [on |-> ps[i - count], into |-> c, at |-> i - count]
              \in [on : 0..MaxPromises, into : 0..MaxPromises, at : Nat]
    BY <2>0, <2>1
  <2> QED BY <1>2, <1>6, <2>2
<1>11. Len(results'[c]) = n /\ results'[c] = [k \in 1..n |-> results'[c][k]]
  BY <1>1, <1>7, Sequence
<1>12. TypeOK'
  <2>1. \A p \in Promises : members'[p] \in Seq(Made')
    <3>1. kept \subseteq Made' /\ Made \subseteq Made'
      BY <1>3
    <3> QED BY <1>1, <1>3, <1>7, <3>1 DEF TypeOK
  <2>2. \A p \in Promises : Len(results'[p]) = Len(members'[p]) /\ resolved_count'[p] \in 0..Len(members'[p])
    BY <1>1, <1>2, <1>3, <1>5, <1>7, <1>11 DEF TypeOK, n
  <2>3. made' \in 0..MaxPromises /\ kept' \subseteq Made' /\ count' \in 0..MaxWaiters /\ it' \in 1..(count' + 1)
    BY <1>1, <1>2, <1>3 DEF TypeOK, Promises
  <2>4. \A i \in Registered' : waiter'[i].on \in Made'
    BY <1>1, <1>3, <1>8, <1>9 DEF TypeOK
  <2>5. called' \subseteq Registered' /\ asked' \subseteq Made'
    BY <1>2, <1>3 DEF TypeOK
  <2> QED BY <1>2, <1>3, <2>1, <2>2, <2>3, <2>4, <2>5 DEF TypeOK
<1>13. Shape'
  <2>1. \A p \in Promises : results'[p] = [k \in 1..Len(members'[p]) |-> results'[p][k]]
    BY <1>6, <1>7, <1>11 DEF n
  <2>2. pc' = "cb" => it' \in Registered' /\ state'[it'] # "erased"
    BY <1>2, <1>3 DEF IInv, Shape
  <2> QED BY <1>2, <1>7, <1>10, <1>12, <2>1, <2>2 DEF IInv, Shape
<1>14. AllPromises' = AllPromises \cup {c} /\ c \notin AllPromises
  <2>1. \A p \in Made : p \in Promises /\ p # c
    BY <1>3 DEF Made, Promises, TypeOK
  <2>2. \A p \in Made : members'[p] = members[p]
    BY <1>7, <2>1
  <2> QED BY <1>1, <1>3, <1>7, <2>1, <2>2 DEF AllPromises
<1>15. AskedInv' /\ \A d \in AllPromises : PlaceOf(d)' /\ CollectOf(d)' /\ DoneOf(d)'
  <2>1. made' \in Nat /\ count' \in Nat /\ made <= made' /\ count <= count'
    BY <1>1, <1>2, <1>3
  <2>2. \A i \in Registered' \ Registered :
           waiter'[i].on \in kept \cup (Made' \ Made) /\ waiter'[i].into \notin Made
    BY <1>1, <1>3, <1>8
  <2>3. \A p \in Made : /\ members'[p] = members[p] /\ results'[p] = results[p]
                        /\ resolved_count'[p] = resolved_count[p]
    BY <1>2, <1>3, <1>7 DEF Made, Promises, TypeOK
  <2>4. kept' \cap Made \subseteq kept
    BY <1>2, <1>3
  <2> QED BY <1>2, <1>3, <1>9, <2>1, <2>2, <2>3, <2>4, Grows
<1>16. Into(c)' = (count + 1)..(count + n)
  <2>1. \A i \in Registered : waiter[i].into # c
    BY <1>3 DEF IInv, Facts, PlaceInv, AllPromises
  <2> QED BY <1>3, <1>8, <1>9, <2>1 DEF Into
<1>17. PlaceOf(c)'
  <2>1. count \in 0..count' /\ Into(c)' = (count + 1)..(count + Len(members'[c]))
    BY <1>1, <1>2, <1>3, <1>7, <1>16 DEF n
  <2>2. \A i \in Into(c)' : waiter'[i].at = i - count /\ waiter'[i].on = members'[c][i - count]
    BY <1>7, <1>8, <1>16
  <2> QED BY <2>1, <2>2 DEF PlaceOf
<1>18. CollectOf(c)' /\ DoneOf(c)'
  <2>1. Heard(c)' = {}
    BY <1>2, <1>3, <1>16 DEF Heard
  <2>2. ~(Into(c)' \subseteq called') /\ ~resolved'[c]
    <3>1. count + 1 \in Into(c)' /\ count + 1 \notin called
      BY <1>1, <1>3, <1>16
    <3> QED BY <1>2, <1>4, <3>1
  <2> QED BY <1>2, <1>5, <2>1, <2>2, FS_EmptySet DEF CollectOf, DoneOf
<1>19. DoneInv'
  BY <1>14, <1>15, <1>18 DEF DoneInv
<1>20. PlaceInv'
  <2>1. ASSUME NEW i \in Registered'
        PROVE  waiter'[i].on \in Made' /\ (waiter'[i].into # NoPromise => waiter'[i].into \in AllPromises' /\ waiter'[i].on < waiter'[i].into)
    <3>1. CASE i \in Registered
      BY <1>3, <1>9, <1>14, <3>1 DEF IInv, Facts, PlaceInv
    <3>2. CASE i \in (count + 1)..(count + n)
      <4>1. ps[i - count] \in Made
        BY <1>1, <1>3, <3>2
      <4> QED BY <1>2, <1>3, <1>8, <1>14, <3>2, <4>1 DEF Made
    <3> QED BY <1>3, <2>1, <3>1, <3>2
  <2> QED BY <1>14, <1>15, <1>17, <2>1 DEF PlaceInv
<1>21. FreshInv'
  BY <1>2, <1>3, <1>7 DEF IInv, Facts, FreshInv
<1>22. ValueInv'
  BY <1>1, <1>2, <1>3, <1>7 DEF IInv, Facts, ValueInv, Made, Promises, TypeOK
<1>23. CalledInv'
  BY <1>2, <1>3, <1>9 DEF IInv, CalledInv
<1> QED BY <1>13, <1>15, <1>19, <1>20, <1>21, <1>22, <1>23 DEF IInv, Facts
-----------------------------------------------------------------------------
LEMMA Settles ==
    ASSUME IInv, NEW p \in Made, NEW v, settle(p, v)
    PROVE  /\ resolved' \in [Promises -> BOOLEAN] /\ result' = [q \in Promises |-> result'[q]]
           /\ \A q \in Promises : q # p => resolved'[q] = resolved[q] /\ result'[q] = result[q]
           /\ resolved'[p] <=> resolved[p] \/ Observable(p)
           /\ Observable(p) => result'[p] = v
           /\ ~Observable(p) => result'[p] = result[p]
           /\ asked' = asked \cup {p} /\ asked' \subseteq Made /\ p \in Promises
<1>1. /\ resolved' = [resolved EXCEPT ![p] = @ \/ Observable(p)]
      /\ result' = IF Observable(p) THEN [result EXCEPT ![p] = v] ELSE result
      /\ asked' = asked \cup {p}
  BY DEF settle
<1>2. /\ resolved \in [Promises -> BOOLEAN] /\ result = [q \in Promises |-> result[q]] /\ asked \subseteq Made
      /\ p \in Promises /\ Observable(p) \in BOOLEAN
  BY DEF IInv, Shape, TypeOK, Made, Promises, Observable
<1>3. /\ resolved' \in [Promises -> BOOLEAN] /\ (resolved'[p] <=> resolved[p] \/ Observable(p))
      /\ \A q \in Promises : q # p => resolved'[q] = resolved[q]
  BY <1>1, <1>2
<1>4. CASE Observable(p)
  <2>1. result' = [q \in Promises |-> IF q = p THEN v ELSE result[q]]
    BY <1>1, <1>2, <1>4
  <2> QED BY <1>1, <1>2, <1>3, <1>4, <2>1
<1>5. CASE ~Observable(p)
  BY <1>1, <1>2, <1>3, <1>5
<1> QED BY <1>4, <1>5

LEMMA ResolvePromise == ASSUME IInv, NEW p \in Promises, resolve(p) PROVE IInv'
<1>1. /\ p \in Made /\ members[p] = <<>> /\ settle(p, Value(p))
      /\ UNCHANGED <<made, kept, members, results, resolved_count, count, waiter, state, it, pc, called>>
  BY DEF resolve, collected, loop
<1>2. /\ resolved' \in [Promises -> BOOLEAN] /\ result' = [q \in Promises |-> result'[q]]
      /\ \A q \in Promises : q # p => resolved'[q] = resolved[q] /\ result'[q] = result[q]
      /\ resolved'[p] <=> resolved[p] \/ Observable(p)
      /\ Observable(p) => result'[p] = Value(p)
      /\ ~Observable(p) => result'[p] = result[p]
      /\ asked' = asked \cup {p} /\ asked' \subseteq Made
  BY <1>1, Settles
<1>3. resolved[p] => result[p] = Value(p)
  BY <1>1 DEF IInv, Facts, ValueInv
<1>4. \A q \in Promises : resolved[q] => resolved'[q] /\ result'[q] = result[q]
  BY <1>2, <1>3
<1>5. /\ TypeOK /\ Made \subseteq Promises /\ Registered \subseteq Waiters /\ called \subseteq Registered
      /\ \A i \in called : waiter[i].on \in Promises /\ resolved[waiter[i].on]
  <2>1. /\ TypeOK /\ Made \subseteq Promises /\ Registered \subseteq Waiters /\ called \subseteq Registered
        /\ \A i \in Registered : waiter[i].on \in Made
    BY Basics
  <2> QED BY <2>1 DEF IInv, CalledInv
<1>6. Shape'
  <2>1. TypeOK'
    BY <1>1, <1>2 DEF IInv, Shape, TypeOK, Made, Registered
  <2> QED BY <1>1, <1>2, <2>1 DEF IInv, Shape, Registered
<1>7. /\ Made' = Made /\ Registered' = Registered /\ AllPromises' = AllPromises
      /\ \A q \in Promises : (Observable(q)' <=> Observable(q)) /\ Into(q)' = Into(q) /\ Heard(q)' = Heard(q)
  BY <1>1 DEF Made, Registered, AllPromises, Observable, Into, Heard
<1>8. FreshInv' /\ PlaceInv' /\ ValueInv'
  <2>1. PlaceInv'
    BY <1>1, <1>7 DEF IInv, Facts, PlaceInv, PlaceOf, Into, Registered
  <2>2. FreshInv'
    BY <1>1, <1>2, <1>7 DEF IInv, Facts, FreshInv
  <2>3. ValueInv'
    BY <1>1, <1>2, <1>3, <1>5, <1>7 DEF IInv, Facts, ValueInv
  <2> QED BY <2>1, <2>2, <2>3
<1>9. AskedInv'
  <2>1. Value(p) # NoValue
    <3>1. Len(<<p>>) = 1 /\ Len(<<>>) = 0
      BY EmptySeq
    <3> QED BY <3>1 DEF Value, NoValue
  <2> QED BY <1>2, <1>5, <1>7, <2>1 DEF IInv, Facts, AskedInv
<1>10. DoneInv'
  <2> SUFFICES ASSUME NEW c \in AllPromises PROVE CollectOf(c)' /\ DoneOf(c)'
    BY <1>7 DEF DoneInv
  <2>1. c \in Promises /\ c # p /\ CollectOf(c) /\ DoneOf(c)
    BY <1>1, <1>5 DEF AllPromises, IInv, Facts, DoneInv
  <2>2. \A i \in Heard(c) : result'[waiter[i].on] = result[waiter[i].on]
    BY <1>4, <1>5 DEF Heard
  <2>3. CollectOf(c)'
    BY <1>1, <1>7, <2>1, <2>2 DEF CollectOf
  <2>4. DoneOf(c)'
    BY <1>1, <1>2, <1>7, <2>1 DEF DoneOf
  <2> QED BY <2>3, <2>4
<1>11. CalledInv'
  BY <1>1, <1>4, <1>5 DEF IInv, CalledInv
<1> QED BY <1>6, <1>8, <1>9, <1>10, <1>11 DEF IInv, Facts
LEMMA GatherPromise == IInv /\ gather => IInv'
<1> SUFFICES ASSUME IInv, gather PROVE IInv'
  OBVIOUS
<1>1. PICK i \in Registered : i = it
  BY DEF gather, Ready, AtWaiter
<1>2. PICK c : c = waiter[i].into
  OBVIOUS
<1>3. PICK p : p = waiter[i].on
  OBVIOUS
<1>4. PICK at : at = waiter[i].at
  OBVIOUS
<1>5. /\ pc = "loop" /\ state[i] = "waiting" /\ resolved[p] /\ c # NoPromise
      /\ called' = called \cup {i}
      /\ results' = [results EXCEPT ![c][at] = result[p]]
      /\ resolved_count' = [resolved_count EXCEPT ![c] = @ + 1]
      /\ complete(c) => settle(c, results'[c])
      /\ ~complete(c) => UNCHANGED <<resolved, result, asked>>
      /\ state' = [state EXCEPT ![i] = "flagged"] /\ it' = i + 1
      /\ UNCHANGED <<made, kept, members, count, waiter, pc>>
  BY <1>1, <1>2, <1>3, <1>4 DEF gather, Ready, AtWaiter, removed, futures
<1>6. /\ TypeOK /\ made \in Nat /\ count \in Nat /\ called \subseteq Registered /\ Registered \subseteq Waiters
      /\ Made \subseteq Promises /\ NoPromise \notin Made /\ Registered \subseteq Nat
  BY Basics
<1>7. /\ p \in Made /\ c \in AllPromises /\ c \in Made /\ p < c /\ c \in Promises /\ p \in Promises
      /\ PlaceOf(c) /\ CollectOf(c) /\ DoneOf(c)
  BY <1>1, <1>2, <1>3, <1>5, <1>6 DEF IInv, Facts, PlaceInv, DoneInv, AllPromises
<1>8. i \notin called
  BY <1>1, <1>5 DEF IInv, CalledInv
<1>9. PICK n \in Nat : n = Len(members[c])
  BY <1>6, <1>7 DEF TypeOK
<1>10. PICK b \in 0..count : /\ Into(c) = (b + 1)..(b + n)
                             /\ \A j \in Into(c) : waiter[j].at = j - b /\ waiter[j].on = members[c][j - b]
  BY <1>7, <1>9 DEF PlaceOf
<1>11. i \in Into(c) /\ at = i - b /\ at \in 1..n /\ n # 0
  <2>1. i \in Into(c)
    BY <1>1, <1>2 DEF Into
  <2>2. at = i - b
    BY <1>4, <1>10, <2>1
  <2> QED BY <1>6, <1>10, <2>1, <2>2
<1>12. ~resolved[c] /\ p # c
  BY <1>7, <1>8, <1>11, <1>6 DEF DoneOf, Made
<1>13. \A j \in called : /\ waiter[j].on # c /\ resolved[waiter[j].on] /\ state[j] # "waiting"
                         /\ waiter[j].on \in Promises
  <2>1. \A j \in called : waiter[j].on \in Made
    BY <1>6 DEF IInv, Facts, PlaceInv
  <2> QED BY <1>5, <1>6, <1>12, <2>1 DEF IInv, CalledInv
<1>14. /\ resolved' \in [Promises -> BOOLEAN] /\ result' = [q \in Promises |-> result'[q]]
       /\ \A q \in Promises : q # c => resolved'[q] = resolved[q] /\ result'[q] = result[q]
       /\ resolved'[c] <=> complete(c) /\ Observable(c)
       /\ resolved'[c] => result'[c] = results'[c]
       /\ asked' = asked \/ (asked' = asked \cup {c} /\ complete(c))
       /\ asked' \subseteq Made
  <2>1. CASE complete(c)
    <3>1. settle(c, results'[c])
      BY <1>5, <2>1
    <3> QED BY <1>7, <1>12, <2>1, <3>1, Settles
  <2>2. CASE ~complete(c)
    <3>1. UNCHANGED <<resolved, result, asked>>
      BY <1>5, <2>2
    <3> QED BY <1>6, <1>7, <1>12, <2>2, <3>1 DEF IInv, Shape, TypeOK
  <2> QED BY <2>1, <2>2
<1>15. /\ results = [q \in Promises |-> results[q]] /\ results[c] = [k \in 1..n |-> results[c][k]]
       /\ \A q \in Promises : results[q] = [k \in 1..Len(members[q]) |-> results[q][k]]
  BY <1>7, <1>9 DEF IInv, Shape
<1>16. /\ results' = [q \in Promises |-> results'[q]]
       /\ \A q \in Promises : q # c => results'[q] = results[q]
       /\ results'[c] = [results[c] EXCEPT ![at] = result[p]]
  BY <1>5, <1>7, <1>15
<1>17. /\ results'[c] = [k \in 1..n |-> results'[c][k]] /\ results'[c][at] = result[p]
       /\ \A k \in 1..n : k # at => results'[c][k] = results[c][k]
  BY <1>11, <1>15, <1>16
<1>18. Len(results'[c]) = n /\ results'[c] # NoValue
  BY <1>9, <1>11, <1>17, Sequence DEF NoValue
<1>19. /\ Made' = Made /\ Registered' = Registered /\ AllPromises' = AllPromises
       /\ \A q : Into(q)' = Into(q)
  BY <1>5 DEF Made, Registered, AllPromises, Into
<1>20. \A q \in Promises : Observable(q)' => Observable(q)
  <2>1. \A j \in Registered : state'[j] # "erased" => state[j] # "erased"
    BY <1>5, <1>6 DEF TypeOK
  <2> QED BY <1>5, <1>19, <2>1 DEF Observable
<1>21. Heard(c)' = Heard(c) \cup {i} /\ i \notin Heard(c)
       /\ \A d \in AllPromises : d # c => Heard(d)' = Heard(d)
  BY <1>2, <1>5, <1>8, <1>11, <1>19 DEF Heard, Into
<1>22. IsFiniteSet(Into(c)) /\ Cardinality(Into(c)) = n
  <2>1. IsFiniteSet((b + 1)..(b + n)) /\ Cardinality((b + 1)..(b + n)) = n
    BY <1>6, <1>11, FS_Interval
  <2> QED BY <1>10, <2>1
<1>23. /\ IsFiniteSet(Heard(c)) /\ Cardinality(Heard(c)) \in Nat
       /\ Cardinality(Heard(c)') = Cardinality(Heard(c)) + 1
       /\ Cardinality(Heard(c)') <= n
       /\ Cardinality(Heard(c)') = n <=> Heard(c)' = Into(c)
  <2>1. Heard(c) \in SUBSET Into(c) /\ Heard(c)' \in SUBSET Into(c)
    BY <1>19 DEF Heard
  <2>2. IsFiniteSet(Heard(c)) /\ Cardinality(Heard(c)) \in Nat
    BY <1>22, <2>1, FS_Subset, FS_CardinalityType
  <2>3. Cardinality(Heard(c) \cup {i}) = Cardinality(Heard(c)) + 1
    BY <1>21, <2>2, FS_AddElement
  <2>4. /\ Cardinality(Heard(c)') <= Cardinality(Into(c))
        /\ Cardinality(Into(c)) = Cardinality(Heard(c)') => Into(c) = Heard(c)'
    BY <1>22, <2>1, FS_Subset
  <2> QED BY <1>21, <1>22, <2>2, <2>3, <2>4
<1>24. /\ resolved_count'[c] = resolved_count[c] + 1 /\ resolved_count[c] = Cardinality(Heard(c))
       /\ \A q \in Promises : q # c => resolved_count'[q] = resolved_count[q]
       /\ resolved_count' \in [Promises -> Nat]
  <2>1. resolved_count \in [Promises -> Nat]
    BY DEF IInv, Shape
  <2>2. resolved_count[c] = Cardinality(Heard(c))
    BY <1>7 DEF CollectOf
  <2> QED BY <1>5, <1>7, <2>1, <2>2
<1>25. complete(c) <=> Into(c) \subseteq called'
  <2>1. complete(c) <=> Cardinality(Heard(c)') = n
    BY <1>9, <1>23, <1>24 DEF complete
  <2>2. Heard(c)' = Into(c) <=> Into(c) \subseteq called'
    BY <1>19 DEF Heard
  <2> QED BY <1>23, <2>1, <2>2
<1>26. TypeOK'
  <2>1. \A q \in Promises : Len(results'[q]) = Len(members'[q]) /\ resolved_count'[q] \in 0..Len(members'[q])
    <3>1. Len(results'[c]) = Len(members'[c]) /\ resolved_count'[c] \in 0..Len(members'[c])
      BY <1>5, <1>9, <1>18, <1>23, <1>24
    <3>2. ASSUME NEW q \in Promises, q # c PROVE Len(results'[q]) = Len(members'[q]) /\ resolved_count'[q] \in 0..Len(members'[q])
      BY <1>5, <1>6, <1>16, <1>24, <3>2 DEF TypeOK
    <3> QED BY <3>1, <3>2
  <2>2. it' \in 1..(count + 1)
    BY <1>5, <1>6 DEF Registered
  <2>3. state' \in [Waiters -> {"waiting", "flagged", "erased"}] /\ called' \subseteq Registered
    BY <1>5, <1>6 DEF TypeOK
  <2> QED BY <1>5, <1>6, <1>14, <1>19, <2>1, <2>2, <2>3 DEF TypeOK
<1>27. Shape'
  <2>1. \A q \in Promises : results'[q] = [k \in 1..Len(members'[q]) |-> results'[q][k]]
    BY <1>5, <1>9, <1>15, <1>16, <1>17
  <2>2. /\ members' = [q \in Promises |-> members'[q]] /\ pc' # "cb"
        /\ waiter' \in [Waiters -> [on : 0..MaxPromises, into : 0..MaxPromises, at : Nat]]
    BY <1>5 DEF IInv, Shape
  <2>3. result' = [q \in Promises |-> result'[q]]
    BY ONLY <1>14
  <2>4. results' = [q \in Promises |-> results'[q]]
    BY ONLY <1>16
  <2>5. resolved_count' \in [Promises -> Nat]
    BY ONLY <1>24
  <2> QED BY <1>26, <2>1, <2>2, <2>3, <2>4, <2>5 DEF Shape
<1>28. FreshInv' /\ PlaceInv' /\ ValueInv'
  <2>1. FreshInv'
    BY <1>5, <1>7, <1>14, <1>19 DEF IInv, Facts, FreshInv
  <2>2. PlaceInv'
    BY <1>5, <1>19 DEF IInv, Facts, PlaceInv, PlaceOf
  <2>3. members[c] # <<>>
    BY <1>7 DEF AllPromises
  <2>4. ValueInv'
    BY <1>5, <1>6, <1>14, <1>19, <2>3 DEF IInv, Facts, ValueInv
  <2> QED BY <2>1, <2>2, <2>4
<1>29. AskedInv'
  <2> SUFFICES ASSUME NEW q \in asked', Observable(q)' PROVE resolved'[q] /\ result'[q] # NoValue
    BY DEF AskedInv
  <2>1. q \in Promises /\ Observable(q)
    BY <1>6, <1>14, <1>20
  <2>2. CASE q = c
    <3>1. c \notin asked
      BY <1>12, <2>1, <2>2 DEF IInv, Facts, AskedInv
    <3>2. complete(c)
      BY <1>14, <2>2, <3>1
    <3> QED BY <1>14, <1>18, <2>1, <2>2, <3>2
  <2>3. CASE q # c
    BY <1>14, <2>1, <2>3 DEF IInv, Facts, AskedInv
  <2> QED BY <2>2, <2>3
<1>30. DoneInv'
  <2>1. CollectOf(c)'
    <3>1. ASSUME NEW j \in Heard(c)' PROVE results'[c][waiter[j].at] = result'[waiter[j].on]
      <4>1. CASE j = i
        BY <1>3, <1>4, <1>7, <1>12, <1>14, <1>17, <4>1
      <4>2. CASE j # i
        <5>1. j \in Heard(c) /\ j \in Into(c) /\ j \in called
          BY <1>21, <3>1, <4>2 DEF Heard
        <5>2. waiter[j].at = j - b /\ j - b \in 1..n /\ j - b # at
          BY <1>6, <1>10, <1>11, <4>2, <5>1
        <5>3. results'[c][waiter[j].at] = results[c][waiter[j].at]
          BY <1>17, <5>2
        <5>4. result'[waiter[j].on] = result[waiter[j].on]
          BY <1>13, <1>14, <5>1
        <5> QED BY <1>7, <5>1, <5>3, <5>4 DEF CollectOf
      <4> QED BY <4>1, <4>2
    <3> QED BY <1>5, <1>23, <1>24, <3>1 DEF CollectOf
  <2>2. DoneOf(c)'
    BY <1>7, <1>14, <1>19, <1>20, <1>25 DEF DoneOf
  <2>3. ASSUME NEW d \in AllPromises, d # c PROVE CollectOf(d)' /\ DoneOf(d)'
    <3>1. d \in Promises /\ CollectOf(d) /\ DoneOf(d)
      BY <1>6 DEF AllPromises, IInv, Facts, DoneInv
    <3>2. \A j \in Heard(d) : result'[waiter[j].on] = result[waiter[j].on]
      BY <1>13, <1>14 DEF Heard
    <3>3. CollectOf(d)'
      BY <1>5, <1>16, <1>21, <1>24, <2>3, <3>1, <3>2 DEF CollectOf
    <3>4. Into(d) \subseteq called' <=> Into(d) \subseteq called
      BY <1>2, <1>5, <2>3 DEF Into
    <3>5. DoneOf(d)'
      BY <1>14, <1>16, <1>19, <1>20, <2>3, <3>1, <3>4 DEF DoneOf
    <3> QED BY <3>3, <3>5
  <2> QED BY <1>19, <2>1, <2>2, <2>3 DEF DoneInv
<1>31. CalledInv'
  <2>1. \A j \in called : state'[j] # "waiting"
    BY <1>5, <1>6, <1>13 DEF TypeOK
  <2>2. state'[i] = "flagged"
    BY <1>5, <1>6 DEF TypeOK
  <2>3. resolved'[p] /\ \A j \in called : resolved'[waiter[j].on]
    BY <1>5, <1>7, <1>12, <1>13, <1>14
  <2> QED BY <1>3, <1>5, <2>1, <2>2, <2>3 DEF CalledInv
<1> QED BY <1>27, <1>28, <1>29, <1>30, <1>31 DEF IInv, Facts

LEMMA NextPromise == IInv /\ [Next]_vars => IInv'
<1> SUFFICES ASSUME IInv, [Next]_vars PROVE IInv'
  OBVIOUS
<1>1. CASE UNCHANGED vars
  <2>1. Shape'
    BY <1>1 DEF vars, IInv, Shape, TypeOK, Made, Registered
  <2>2. CalledInv'
    BY <1>1 DEF vars, IInv, CalledInv
  <2>3. Facts'
    BY <1>1, Quiet DEF vars, futures, collected, IInv, Shape, TypeOK
  <2> QED BY <2>1, <2>2, <2>3 DEF IInv
<1>2. CASE UserNext
  <2>1. ASSUME NEW p \in Promises, co_await(p) PROVE then(p) \/ UNCHANGED vars
    BY <2>1 DEF co_await
  <2> QED BY <1>1, <1>2, <2>1, ConstructPromise, ResolvePromise, ForgetPromise, ThenPromise, AllPromise, TerminalPromise DEF UserNext
<1>3. CASE LoopNext
  BY <1>3, WalkPromise, GatherPromise DEF LoopNext
<1> QED BY <1>1, <1>2, <1>3 DEF Next

LEMMA AlwaysIInv == Spec => []IInv
  BY InitPromise, NextPromise, PTL DEF Spec

-----------------------------------------------------------------------------
\* However promises are made, resolved, let go and combined (promise.h:11-159), the
\* futures, the waiters and what promise_all collects keep their types.
THEOREM TypeCorrect == Spec => []TypeOK
  BY AlwaysIInv, PTL DEF IInv, Shape

\* The shared pointer in the closure of then() keeps the Future alive for the weak one of
\* resolve (promise.h:22-42).
THEOREM ResolveReaches == Spec => []AwaitedResolves
<1>1. IInv => AwaitedResolves
  <2> SUFFICES ASSUME IInv, NEW i \in Registered, state[i] = "waiting", waiter[i].on \in asked
      PROVE  resolved[waiter[i].on] /\ result[waiter[i].on] # NoValue
    BY DEF AwaitedResolves
  <2> QED BY DEF IInv, Facts, AskedInv, Observable
<1> QED BY <1>1, AlwaysIInv, PTL

\* promise_all counts each member once and stores its result at its place, however many
\* are shared with others or combined themselves (promise.h:133-159).
THEOREM AllResolvesComplete == Spec => []AllComplete
<1>1. IInv => AllComplete
  <2> SUFFICES ASSUME IInv, NEW c \in AllPromises, Observable(c)
      PROVE  /\ resolved[c] <=> Into(c) \subseteq called
             /\ resolved[c] => \A k \in 1..Len(members[c]) : result[c][k] = result[members[c][k]]
    BY DEF AllComplete
  <2>1. CollectOf(c) /\ DoneOf(c) /\ PlaceOf(c)
    BY DEF IInv, Facts, DoneInv, PlaceInv
  <2>2. ASSUME resolved[c], NEW k \in 1..Len(members[c]) PROVE result[c][k] = result[members[c][k]]
    <3>1. PICK b \in 0..count : /\ Into(c) = (b + 1)..(b + Len(members[c]))
                                /\ \A i \in Into(c) : waiter[i].at = i - b /\ waiter[i].on = members[c][i - b]
      BY <2>1 DEF PlaceOf
    <3>2. count \in Nat /\ Len(members[c]) \in Nat
      BY DEF IInv, Shape, TypeOK, AllPromises, Made, Promises
    <3>3. b + k \in Into(c) /\ (b + k) - b = k
      BY <3>1, <3>2
    <3>4. waiter[b + k].at = k /\ waiter[b + k].on = members[c][k]
      BY <3>1, <3>3
    <3>5. b + k \in Heard(c)
      BY <2>1, <2>2, <3>3 DEF DoneOf, Heard
    <3> QED BY <2>1, <2>2, <3>4, <3>5 DEF CollectOf, DoneOf
  <2> QED BY <2>1, <2>2 DEF DoneOf
<1> QED BY <1>1, AlwaysIInv, PTL

\* The poll of then() is removed behind its callback and that of promise_all at once
\* (promise.h:35-41): poll() calls neither again.
THEOREM CallsBackOnce == Spec => CalledOnce
<1>1. IInv /\ [Next]_vars => [call \/ gather => it \notin called]_vars
  BY DEF IInv, CalledInv, call, gather, Ready, AtWaiter
<1> QED BY <1>1, AlwaysIInv, PTL DEF Spec, CalledOnce
=============================================================================
