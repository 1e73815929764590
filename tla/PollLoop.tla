------------------------------ MODULE PollLoop ------------------------------
(***************************************************************************)
(* The cooperative scheduler of src/src/poll.cpp: the global list of       *)
(* callbacks (_poll_list), the endless loop poll() that walks it, and the   *)
(* tasks whose lifetime is derived from the callbacks they own.             *)
(*                                                                          *)
(* Everything runs on one thread.  What makes the module interesting is     *)
(* that a callback may change the list that poll() is in the middle of      *)
(* walking: register, remove, start and terminate are steps taken between   *)
(* the call of a callback and its return.                                   *)
(***************************************************************************)
EXTENDS Integers, Sequences, SequencesExt

CONSTANTS
    Tasks,           \* the Task objects of the program
    NoTask,          \* the null Shared<Task>
    MaxId,           \* bound on new_id(): a 64-bit counter in the code
    RootPolls,       \* may main() register callbacks before it calls poll()?
    RestartRunning   \* may start_task be given a task that is still running?

ASSUME TaskAssumption == NoTask \notin Tasks
ASSUME MaxIdAssumption == MaxId \in Nat
ASSUME ModeAssumption == RootPolls \in BOOLEAN /\ RestartRunning \in BOOLEAN

VARIABLES
    poll_list,       \* _poll_list: sequence of PollNode
    next_id,         \* new_id()::_next_id
    it,              \* position of poll()'s iterator
    pc,              \* "main" before poll(), "loop" in poll(), "cb" in a
                     \* callback that runs user code, "fault" after a crash
    current_task,    \* _current_task
    task_id,         \* Task::_task_id of every task
    run,             \* Task::_run of every task
    served           \* ghost: ids whose callback was called in this pass

vars == <<poll_list, next_id, it, pc, current_task, task_id, run, served>>
loopVars == <<it, pc, current_task, served>>
taskVars == <<task_id, run>>

-----------------------------------------------------------------------------
PollNode == [id : 1..MaxId, task : Tasks \cup {NoTask},
             once : BOOLEAN, del : BOOLEAN, main : BOOLEAN]

node(id, task, once, main) ==
    [id |-> id, task |-> task, once |-> once, del |-> FALSE, main |-> main]

Positions == 1..Len(poll_list)
Listed == {poll_list[i].id : i \in Positions}

\* Poll::is_active: the id is in the list, whatever its flags.
is_active(id) == id # 0 /\ id \in Listed

\* A node that poll() will call: in the list and not flagged PF_DELETE.
LiveAt(i) == ~poll_list[i].del
Live(id) == \E i \in Positions : poll_list[i].id = id /\ LiveAt(i)

\* The test the task code applies to every node of the list: it belongs to t
\* and it is not t's main node.
\* Mutant: the main node is not left out.
is_sub_or_main(n, t) == n.task # NoTask /\ task_id[n.task] = task_id[t]

is_sub(n, t) == /\ n.task # NoTask
                /\ task_id[n.task] = task_id[t]
                /\ n.id # task_id[n.task]

\* The main node that task_id names is in the list and not flagged.
MainAt(i, t) == /\ poll_list[i].main
                /\ poll_list[i].task = t
                /\ poll_list[i].id = task_id[t]
                /\ LiveAt(i)
HasMain(t) == \E i \in Positions : MainAt(i, t)

\* The list with PF_DELETE set on the nodes at positions I.
flag(I) == [i \in Positions |->
              [poll_list[i] EXCEPT !.del = @ \/ i \in I]]

-----------------------------------------------------------------------------
Init ==
    /\ poll_list = <<>>
    /\ next_id = 0
    /\ it = 1
    /\ pc = "main"
    /\ current_task = NoTask
    /\ task_id = [t \in Tasks |-> 0]
    /\ run = [t \in Tasks |-> FALSE]
    /\ served = {}

(***************************************************************************)
(* What user code may do, in main() or in a callback.                       *)
(***************************************************************************)
UserCode == pc \in {"main", "cb"}

new_id == next_id + 1

register(once) ==
    /\ UserCode /\ next_id < MaxId
    /\ pc = "main" => RootPolls
    /\ poll_list' = Append(poll_list, node(new_id, current_task, once, FALSE))
    /\ next_id' = new_id
    /\ UNCHANGED <<loopVars, taskVars>>

set_poll == register(FALSE)
set_once == register(TRUE)

\* Mutant: start_task hands out the Poll of the main node.
is_any_poll(n) == ~n.once

\* Poll::remove on a handle that set_poll returned.  set_once returns none,
\* and nobody is handed the Poll of a main node.
is_handle(n) == ~n.once /\ ~n.main

remove(id) ==
    /\ UserCode
    /\ \E i \in Positions : poll_list[i].id = id /\ is_handle(poll_list[i])
    /\ poll_list' = flag({i \in Positions : poll_list[i].id = id})
    /\ UNCHANGED <<next_id, loopVars, taskVars>>

start_task(t) ==
    /\ UserCode /\ next_id < MaxId
    /\ HasMain(t) => RestartRunning
    /\ poll_list' = Append(poll_list, node(new_id, t, FALSE, TRUE))
    /\ next_id' = new_id
    /\ task_id' = [task_id EXCEPT ![t] = new_id]
    /\ UNCHANGED <<run, loopVars>>

\* Task::terminal flags every node of the task but its main node.
terminal(t) ==
    /\ UserCode
    /\ poll_list' = flag({i \in Positions : is_sub(poll_list[i], t)})
    /\ UNCHANGED <<next_id, loopVars, taskVars>>

(***************************************************************************)
(* The shell commands over tasks run in the callback of a command's task.   *)
(***************************************************************************)
\* Mutant: the argument that was typed, rather than the command's own name.
typed_id(typed) == typed

\* cmd_kill takes args[0], the word "kill", which to_int makes 0: an identifier
\* that no task in the list has.
killed_id(typed) == 0

\* terminal_task_by_id flags every node of the task, its main node too.
cmd_kill(typed) ==
    /\ pc = "cb"
    /\ poll_list' = flag({i \in Positions :
          /\ poll_list[i].task # NoTask
          /\ task_id[poll_list[i].task] = killed_id(typed)})
    /\ UNCHANGED <<next_id, loopVars, taskVars>>

\* cmd_killall flags the nodes, but for their main nodes, of all the tasks of
\* one name; set_name gives any tasks the same name.
cmd_killall(named) ==
    /\ pc = "cb"
    /\ poll_list' = flag({i \in Positions :
          /\ poll_list[i].task \in named
          /\ poll_list[i].id # task_id[poll_list[i].task]})
    /\ UNCHANGED <<next_id, loopVars, taskVars>>

UserNext ==
    \/ set_poll
    \/ set_once
    \/ \E id \in 1..MaxId : remove(id)
    \/ \E t \in Tasks : start_task(t) \/ terminal(t)
    \/ \E typed \in 1..MaxId : cmd_kill(typed)
    \/ \E named \in SUBSET Tasks : cmd_killall(named)

(***************************************************************************)
(* poll(): one action per thing the loop does at its iterator.              *)
(***************************************************************************)
AtNode == pc = "loop" /\ it \in Positions
Item == poll_list[it]

\* Mutants: the successor is skipped after an erase; ++it is forgotten.
advance_too == it + 1
stay == it

next_after_erase == it
next_after_call == it + 1

poll ==
    /\ pc = "main"
    /\ pc' = "loop"
    /\ UNCHANGED <<poll_list, next_id, it, current_task, taskVars, served>>

erase ==
    /\ AtNode /\ Item.del
    /\ poll_list' = RemoveAt(poll_list, it)
    /\ it' = next_after_erase
    /\ UNCHANGED <<next_id, pc, current_task, taskVars, served>>

\* The owner a callback runs as, and whose task the nodes it registers join.
owner(n) == n.task

call_user ==
    /\ AtNode /\ ~Item.del /\ ~Item.main
    /\ pc' = "cb"
    /\ current_task' = owner(Item)
    /\ served' = served \cup {Item.id}
    /\ UNCHANGED <<poll_list, next_id, it, taskVars>>

\* First visit of a main node: _run is set and Task::init, user code, is called.
main_init ==
    /\ AtNode /\ ~Item.del /\ Item.main /\ ~run[Item.task]
    /\ run' = [run EXCEPT ![Item.task] = TRUE]
    /\ pc' = "cb"
    /\ current_task' = owner(Item)
    /\ served' = served \cup {Item.id}
    /\ UNCHANGED <<poll_list, next_id, it, task_id>>

\* Mutant: the test of PF_DELETE is the wrong way round.
flagged_keeps_alive(n, t) == n.del /\ is_sub(n, t)

\* A later visit of a main node scans the list for a node that keeps the task
\* alive; if there is none the main node removes itself and clears _run.
keeps_alive(n, t) == ~n.del /\ is_sub(n, t)

MainVisit == AtNode /\ ~Item.del /\ Item.main /\ run[Item.task]

main_scan ==
    /\ MainVisit
    /\ LET t == Item.task
       IN  IF \E i \in Positions : keeps_alive(poll_list[i], t)
           THEN UNCHANGED <<poll_list, run>>
           ELSE /\ poll_list' = flag({it})
                /\ run' = [run EXCEPT ![t] = FALSE]
    /\ it' = next_after_call
    /\ served' = served \cup {Item.id}
    /\ UNCHANGED <<next_id, pc, current_task, task_id>>

\* A callback returns; a PF_ONCE node is flagged now, not before the call.
expires(n) == n.once
return_cb ==
    /\ pc = "cb"
    /\ poll_list' = flag(IF expires(Item) THEN {it} ELSE {})
    /\ pc' = "loop"
    /\ current_task' = NoTask
    /\ it' = next_after_call
    /\ UNCHANGED <<next_id, taskVars, served>>

next_pass ==
    /\ pc = "loop" /\ it > Len(poll_list)
    /\ it' = 1
    /\ served' = {}
    /\ UNCHANGED <<poll_list, next_id, pc, current_task, taskVars>>

(***************************************************************************)
(* A callback registered by main() itself has a null _task, and every scan  *)
(* of the list reads item._task->_task_id without a test: terminal() and  *)
(* the commands read all nodes, the main node's scan those before the first  *)
(* one that keeps its task alive.  That is undefined behaviour: either the read traps      *)
(* (null_deref), or it yields a word that matches no task (is_sub above).   *)
(***************************************************************************)
NullAt(i) == poll_list[i].task = NoTask

scan_meets_null(t) ==
    \E i \in Positions : /\ NullAt(i)
                         /\ \A j \in 1..(i-1) : ~keeps_alive(poll_list[j], t)

null_deref ==
    /\ \/ UserCode /\ Tasks # {} /\ \E i \in Positions : NullAt(i)
       \/ MainVisit /\ scan_meets_null(Item.task)
    /\ pc' = "fault"
    /\ UNCHANGED <<poll_list, next_id, it, current_task, taskVars, served>>

LoopNext == \/ poll \/ erase \/ call_user \/ main_init \/ main_scan
            \/ return_cb \/ next_pass

Next == UserNext \/ LoopNext \/ null_deref

Spec == Init /\ [][Next]_vars

\* poll() never returns and never blocks; callbacks return (a cooperative
\* scheduler has no other way to go on), main() does call poll().
FairSpec == Spec /\ WF_vars(LoopNext)
-----------------------------------------------------------------------------
(***************************************************************************)
(* Properties.                                                              *)
(***************************************************************************)

\* Every variable keeps its type, and the iterator stays within the list or
\* one past its end (end()): poll() never dereferences an erased node.
TypeOK ==
    /\ poll_list \in Seq(PollNode)
    /\ next_id \in 0..MaxId
    /\ it \in 1..(Len(poll_list) + 1)
    /\ pc \in {"main", "loop", "cb", "fault"}
    /\ pc = "cb" => it \in Positions
    /\ current_task \in Tasks \cup {NoTask}
    /\ task_id \in [Tasks -> 0..MaxId]
    /\ run \in [Tasks -> BOOLEAN]
    /\ served \subseteq 1..MaxId

\* However callbacks register and remove in the middle of a pass, poll() calls
\* every node of the list exactly once per pass: the nodes behind the iterator
\* have been called in this pass, those at or after it have not (poll():107-123,
\* where erase must not skip the successor of the erased node).
PassServesAll ==
    pc # "fault" =>
        \A i \in Positions :
            (poll_list[i].id \in served) <=> (i < it \/ (i = it /\ pc = "cb"))

\* A task's callbacks never outlive its main node: while any unflagged node of
\* t is listed, the main node that task_id names is listed and unflagged, so
\* is_running() is true and the task can still be found and terminated.
NoOrphanPoll ==
    \A i \in Positions : LiveAt(i) /\ poll_list[i].task # NoTask
                            => HasMain(poll_list[i].task)

\* _run is true only while the main node is listed: a task that has ended can
\* be started again and its init() will be called again.
RestartReady == \A t \in Tasks : run[t] => HasMain(t)

\* User code never runs as a task that has not had its init() called, or whose
\* main node is gone: current_task is null or a running task.
RunsAsLiveTask == current_task # NoTask => run[current_task] /\ HasMain(current_task)

\* No null Shared<Task> is dereferenced by a scan of the list.
NoNullDeref == pc # "fault"

(***************************************************************************)
(* The inductive invariant behind these: what the list looks like ...       *)
(***************************************************************************)
IdOrder == \A i, j \in Positions : i < j => poll_list[i].id < poll_list[j].id

IdsIssued == /\ \A i \in Positions : poll_list[i].id <= next_id
             /\ \A t \in Tasks : task_id[t] <= next_id

MainNodes == \A i \in Positions :
    poll_list[i].main => poll_list[i].task \in Tasks /\ ~poll_list[i].once

TaskIds == \A i \in Positions : \A t \in Tasks :
    poll_list[i].id = task_id[t] => poll_list[i].main /\ poll_list[i].task = t

ListInv == IdOrder /\ IdsIssued /\ MainNodes /\ TaskIds

\* ... and what it says of the tasks: a callback of t other than a main node
\* exists only while _run is set, and the loop itself runs as no task.
InitFirst == \A i \in Positions :
    LiveAt(i) /\ ~poll_list[i].main /\ poll_list[i].task # NoTask
        => run[poll_list[i].task]

LoopHasNoTask == pc \in {"main", "loop"} => current_task = NoTask

LifeInv == NoOrphanPoll /\ RestartReady /\ RunsAsLiveTask /\ InitFirst
           /\ LoopHasNoTask

\* The list is in the order of registration, ids are unique, and the life of
\* every task agrees with the nodes it owns, in every mode of use.
IInv == TypeOK /\ ListInv /\ LifeInv

\* A started task that has nothing left to do ends: once its last callback is
\* gone, and none of its callbacks is in progress, its main node notices and
\* clears _run (main_scan; comment at poll.cpp:162).
Quiet(t) == /\ run[t] /\ current_task # t
            /\ \A i \in Positions : LiveAt(i) /\ poll_list[i].task = t
                                      => poll_list[i].main
QuietTaskEnds == \A t \in Tasks : Quiet(t) ~> ~run[t]

\* Every live callback is reached again and again: the iterator comes to stand
\* on it, ready to call it, unless it is flagged first.
Reached(id) == pc = "loop" /\ it \in Positions /\ Item.id = id
LivePollServed == \A id \in 1..MaxId : Live(id) ~> (Reached(id) \/ ~Live(id))
=============================================================================
