----------------------------- MODULE MCPollLoop -----------------------------
(* Instances of PollLoop for TLC. *)
EXTENDS PollLoopRefinement

\* Tasks are interchangeable; used by the runs that check safety only.
TaskSymmetry == Permutations(Tasks)
=============================================================================
