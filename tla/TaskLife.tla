------------------------------ MODULE TaskLife ------------------------------
(***************************************************************************)
(* What the task layer of src/src/poll.cpp promises, with no list, no       *)
(* iterator and no flags: a task is idle, started (queued, its init() not   *)
(* yet called) or running, and it owns a set of outstanding callbacks.      *)
(* Its lifetime is that of its work: it cannot end while work is left, it   *)
(* gets work only while it runs, and identifiers are never used twice.      *)
(* PollLoop implements this specification (PollLoopRefinement).             *)
(***************************************************************************)
EXTENDS Integers

CONSTANT Tasks

VARIABLES
    issued,     \* the identifiers 1..issued have been given out
    phase,      \* "idle", "started" or "running", for every task
    main_of,    \* the identifier of the task's main node (task_id())
    work        \* the identifiers of its outstanding callbacks

vars == <<issued, phase, main_of, work>>

Init ==
    /\ issued = 0
    /\ phase = [t \in Tasks |-> "idle"]
    /\ main_of = [t \in Tasks |-> 0]
    /\ work = [t \in Tasks |-> {}]

fresh == issued + 1

Start(t) ==
    /\ phase[t] = "idle"
    /\ issued' = fresh
    /\ phase' = [phase EXCEPT ![t] = "started"]
    /\ main_of' = [main_of EXCEPT ![t] = fresh]
    /\ UNCHANGED work

\* start_task on a task that has not ended: it has a new main node from then
\* on, and the old one becomes a callback like any other.
Restart(t) ==
    /\ phase[t] # "idle"
    /\ issued' = fresh
    /\ main_of' = [main_of EXCEPT ![t] = fresh]
    /\ work' = [work EXCEPT ![t] = @ \cup {main_of[t]}]
    /\ UNCHANGED phase

Begin(t) ==
    /\ phase[t] = "started"
    /\ phase' = [phase EXCEPT ![t] = "running"]
    /\ UNCHANGED <<issued, main_of, work>>

Spawn(t) ==
    /\ phase[t] = "running"
    /\ issued' = fresh
    /\ work' = [work EXCEPT ![t] = @ \cup {fresh}]
    /\ UNCHANGED <<phase, main_of>>

\* A callback of no task, registered by main().
SpawnRoot ==
    /\ issued' = fresh
    /\ UNCHANGED <<phase, main_of, work>>

\* Callbacks are removed, expire, or are terminated together.
Drop(S) ==
    /\ work' = [t \in Tasks |-> work[t] \ S]
    /\ UNCHANGED <<issued, phase, main_of>>

End(t) ==
    /\ phase[t] = "running"
    /\ work[t] = {}
    /\ phase' = [phase EXCEPT ![t] = "idle"]
    /\ UNCHANGED <<issued, main_of, work>>

Next ==
    \/ SpawnRoot
    \/ \E t \in Tasks : Start(t) \/ Restart(t) \/ Begin(t) \/ Spawn(t) \/ End(t)
    \/ \E S \in SUBSET UNION {work[t] : t \in Tasks} : Drop(S)

Spec == Init /\ [][Next]_vars
=============================================================================
