------------------------------- MODULE Async -------------------------------
(***************************************************************************)
(* Coroutines (src/src/async.h) of one task.  Calling one makes a frame and  *)
(* runs it to its first co_await; there it registers a poll that will resume *)
(* it, and control returns to who called or resumed it.  The frames belong   *)
(* to the task: its destructor frees them all, when the last node of the     *)
(* poll list that was registered by the task has been erased and nobody else *)
(* holds it.                                                                *)
(*                                                                          *)
(* A coroutine waits in one node at a time, wait[f].  Of the nodes that are  *)
(* flagged PF_DELETE only matters that some are not erased yet: stale.       *)
(***************************************************************************)
EXTENDS Integers, SequencesExt

CONSTANT MaxCoros \* bound: the coroutines called

ASSUME CorosAssumption == MaxCoros \in Nat \ {0}

VARIABLES
    flat,    \* the program keeps to FlatUse
    frame,   \* "unborn", "running" or calling one that runs, "suspended", "done", "destroyed"
    wait,    \* what the poll of a suspended coroutine looks at: Event, Once, or
             \* another coroutine; None if it has no poll that is not flagged
    hold,    \* the Async objects a coroutine has not awaited yet
    stack,   \* the coroutines that run, each called by the one before
    main,    \* the task's main node: "starting", "scanning", "flagged", "erased"
    stale,   \* flagged nodes of coroutines are still in the list
    held,    \* a Shared<Task> besides those of the nodes
    ended    \* the task was terminated, by another task or by Env::exit

vars == <<flat, frame, wait, hold, stack, main, stale, held, ended>>

Coros == 1..MaxCoros
None == 0
Event == -1 \* a timer of sleep_ms, the condition of loop_when, a Promise
Once == -2
NoWaits == [f \in Coros |-> None]

Idle == stack = <<>>
Top == Last(stack)
Runs(f) == ~Idle /\ Top = f

\* Coroutine 1 is the only one called without being awaited, and awaits each coroutine
\* it calls at once; those call none.
FlatUse(f) == flat => f = 1 /\ hold[1] = {}
FlatWait(f) == flat => hold[f] = {}

Init ==
    /\ flat \in BOOLEAN
    /\ frame = [f \in Coros |-> "unborn"] /\ wait = NoWaits /\ hold = [f \in Coros |-> {}]
    /\ stack = <<>> /\ main = "starting" /\ stale = FALSE /\ held = TRUE /\ ended = FALSE

-----------------------------------------------------------------------------
(***************************************************************************)
(* What a coroutine that runs may do.                                       *)
(***************************************************************************)
Unborn(c) == frame[c] = "unborn" /\ wait[c] = None

\* initial_suspend is suspend_never: the body begins within the call.
call(f, c) ==
    /\ Runs(f) /\ Unborn(c) /\ FlatUse(f)
    /\ frame' = [frame EXCEPT ![c] = "running"] /\ stack' = Append(stack, c)
    /\ hold' = [hold EXCEPT ![f] = @ \cup {c}]
    /\ UNCHANGED <<flat, wait, main, stale, held, ended>>

set_once_async(f, c) ==
    /\ Runs(f) /\ Unborn(c) /\ ~flat
    /\ wait' = [wait EXCEPT ![c] = Once]
    /\ UNCHANGED <<flat, frame, hold, stack, main, stale, held, ended>>

suspends(f, on) ==
    /\ frame' = [frame EXCEPT ![f] = "suspended"] /\ stack' = Front(stack)
    /\ wait' = [wait EXCEPT ![f] = on]

\* co_await of sleep_ms, loop_when or a Promise.
await_event(f) ==
    /\ Runs(f) /\ FlatWait(f)
    /\ suspends(f, Event)
    /\ UNCHANGED <<flat, hold, main, stale, held, ended>>

\* Task::terminal flags the nodes of all coroutines of the task.
terminal ==
    /\ wait' = NoWaits
    /\ stale' = (stale \/ wait # NoWaits)

\* co_await of an Async.  Of one that is done the result is taken at once, and await_resume
\* terminates the task.
await_ready(c) == frame[c] = "done"

await_suspend(f, c) ==
    /\ Runs(f) /\ c \in hold[f] /\ ~await_ready(c)
    /\ suspends(f, c)
    /\ hold' = [hold EXCEPT ![f] = @ \ {c}]
    /\ UNCHANGED <<flat, main, stale, held, ended>>

await_result(f, c) ==
    /\ Runs(f) /\ c \in hold[f] /\ await_ready(c)
    /\ terminal
    /\ hold' = [hold EXCEPT ![f] = @ \ {c}]
    /\ UNCHANGED <<flat, frame, stack, main, held, ended>>

\* co_return, or an exception; final_suspend keeps the frame.
co_return(f) ==
    /\ Runs(f) /\ FlatWait(f)
    /\ frame' = [frame EXCEPT ![f] = "done"] /\ stack' = Front(stack)
    /\ UNCHANGED <<flat, wait, hold, main, stale, held, ended>>

\* Env::exit.
exit(f) ==
    /\ Runs(f)
    /\ terminal /\ ended' = TRUE
    /\ UNCHANGED <<flat, frame, hold, stack, main, held>>

Body(f) ==
    \/ await_event(f) \/ co_return(f) \/ exit(f)
    \/ \E c \in Coros : call(f, c) \/ set_once_async(f, c) \/ await_suspend(f, c) \/ await_result(f, c)

-----------------------------------------------------------------------------
(***************************************************************************)
(* What poll() does with the nodes of the task.                             *)
(***************************************************************************)
\* start_task_async; or a start_task whose function calls set_once_async.
init ==
    /\ Idle /\ main = "starting" /\ main' = "scanning"
    /\ \/ frame' = [frame EXCEPT ![1] = "running"] /\ stack' = <<1>> /\ UNCHANGED wait
       \/ wait' = [wait EXCEPT ![1] = Once] /\ UNCHANGED <<frame, stack>>
    /\ UNCHANGED <<flat, hold, stale, held, ended>>

resumes(f) == frame' = [frame EXCEPT ![f] = "running"] /\ stack' = <<f>>

\* Mutant: await_resume of any co_await terminates the task.
removes_all(f) == terminal
removes(f) == wait' = [wait EXCEPT ![f] = None] /\ stale' = TRUE

\* A timer that is due, a condition that is false, a Promise that is resolved, or a
\* call of set_once_async: the node removes itself behind the callback.
visit_event(f) ==
    /\ Idle /\ wait[f] \in {Event, Once}
    /\ resumes(f)
    /\ removes(f)
    /\ UNCHANGED <<flat, hold, main, held, ended>>

\* The awaited coroutine is done: await_resume terminates the task of the one that
\* awaited, then this goes on.
visit_awaiting(f) ==
    /\ Idle /\ wait[f] \in Coros /\ await_ready(wait[f])
    /\ resumes(f)
    /\ terminal
    /\ UNCHANGED <<flat, hold, main, held, ended>>

\* Mutant: what waits for a coroutine does not keep the task alive.
only_events == \A f \in Coros : wait[f] \notin {Event, Once}
no_subs == wait = NoWaits

main_scan ==
    /\ Idle /\ main = "scanning" /\ no_subs
    /\ main' = "flagged"
    /\ UNCHANGED <<flat, frame, wait, hold, stack, stale, held, ended>>

\* Mutant: the nodes of coroutines do not hold the task.
weak_nodes(m, s, h) == ~h
\* Mutant: a frame that was never resumed holds it.
unused_with_frames(m, s, h) ==
    m = "erased" /\ ~s /\ ~h /\ wait = NoWaits /\ \A f \in Coros : frame[f] # "suspended"
unused(m, s, h) == m = "erased" /\ ~s /\ ~h /\ wait = NoWaits

\* ~Task runs the deletors that get_return_object has installed.
release(m, s, h) ==
    frame' = IF unused(m, s, h)
             THEN [f \in Coros |-> IF frame[f] = "unborn" THEN "unborn" ELSE "destroyed"]
             ELSE frame

erase_subs ==
    /\ Idle /\ stale /\ stale' = FALSE
    /\ release(main, FALSE, held)
    /\ UNCHANGED <<flat, wait, hold, stack, main, held, ended>>

erase_main ==
    /\ Idle /\ main = "flagged" /\ main' = "erased"
    /\ release("erased", stale, held)
    /\ UNCHANGED <<flat, wait, hold, stack, stale, held, ended>>

\* The other holder lets go, or terminates the task before.
let_go ==
    /\ Idle /\ held /\ held' = FALSE
    /\ release(main, stale, FALSE)
    /\ UNCHANGED <<flat, wait, hold, stack, main, stale, ended>>

terminate ==
    /\ Idle /\ held /\ main # "starting"
    /\ terminal /\ ended' = TRUE
    /\ UNCHANGED <<flat, frame, hold, stack, main, held>>

poll(f) == visit_event(f) \/ visit_awaiting(f)

Next ==
    \/ \E f \in Coros : Body(f) \/ poll(f)
    \/ init \/ main_scan \/ erase_subs \/ erase_main \/ let_go \/ terminate

\* poll() visits every node in each pass.
Fairness ==
    WF_vars(main_scan) /\ WF_vars(erase_subs) /\ WF_vars(erase_main)
Spec == Init /\ [][Next]_vars /\ Fairness

-----------------------------------------------------------------------------
(***************************************************************************)
(* Properties.                                                              *)
(***************************************************************************)
TypeOK ==
    /\ flat \in BOOLEAN /\ stale \in BOOLEAN /\ held \in BOOLEAN /\ ended \in BOOLEAN
    /\ frame \in [Coros -> {"unborn", "running", "suspended", "done", "destroyed"}]
    /\ wait \in [Coros -> Coros \cup {None, Event, Once}]
    /\ hold \in [Coros -> SUBSET Coros] /\ stack \in Seq(Coros)
    /\ main \in {"starting", "scanning", "flagged", "erased"}

\* No frame is freed while it runs, while a poll would resume it, or while a poll looks
\* at whether it is done.
NoUseAfterFree ==
    \A f \in Coros :
        /\ f \in ToSet(stack) => frame[f] = "running"
        /\ wait[f] # None => frame[f] # "destroyed"
        /\ wait[f] \in Coros => frame[wait[f]] # "destroyed"

\* As long as a coroutine runs or waits, the task reports that it is running.
RunningWhileWaiting ==
    (~Idle \/ wait # NoWaits) /\ main # "starting" => main = "scanning"

\* In a program that awaits one coroutine at a time from one other, each coroutine that
\* waits has the poll that resumes it, until the task is terminated.  (With a third
\* level it does not: what resumes the second one flags the poll of the first.)
AwaitedResumes ==
    flat /\ ~ended => \A f \in Coros : frame[f] = "suspended" => wait[f] # None

\* When no coroutine of a task waits and nobody holds it, the task ends and all of its
\* frames are freed, also those that were never resumed.
QuietFreed ==
    (Idle /\ main # "starting" /\ wait = NoWaits /\ ~held)
        ~> (\A f \in Coros : frame[f] \in {"unborn", "destroyed"})
=============================================================================
