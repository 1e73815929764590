------------------------- MODULE PollLoopRefinement -------------------------
(***************************************************************************)
(* PollLoop implements TaskLife: the phase of a task and its outstanding    *)
(* work are functions of the poll list.                                     *)
(***************************************************************************)
EXTENDS PollLoop

phase == [t \in Tasks |-> IF ~HasMain(t) THEN "idle"
                          ELSE IF run[t] THEN "running" ELSE "started"]

work == [t \in Tasks |->
           {poll_list[i].id : i \in {j \in Positions :
              /\ LiveAt(j)
              /\ poll_list[j].task = t
              /\ poll_list[j].id # task_id[t]}}]

Life == INSTANCE TaskLife WITH issued <- next_id, main_of <- task_id

\* Every step of the scheduler is a step of the tasks' life cycle or leaves it
\* alone: no task ends (main_scan) while one of its callbacks is outstanding,
\* none gets a callback before its init() or after its end, whatever the
\* callbacks do to the list while poll() is walking it.
Implements == Life!Spec
=============================================================================
