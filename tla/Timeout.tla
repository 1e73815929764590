------------------------------- MODULE Timeout -------------------------------
(***************************************************************************)
(* set_timeout and set_interval of src/src/timeout.cpp: polls that compare  *)
(* a 32-bit millisecond tick with a stored deadline each time poll() calls  *)
(* them.  The clock advances on its own (an interrupt, or the host's clock) *)
(* between any two steps, so also while a callback runs.                    *)
(*                                                                          *)
(* Timers are numbered in the order of their registration, which is the     *)
(* order in which poll() calls them, each once per pass (PollLoop); a node  *)
(* that is flagged is not called again.                                     *)
(***************************************************************************)
EXTENDS Integers

CONSTANTS
    W,           \* the tick is a uint32_t: W stands for 2^32
    Start,       \* the true time when main() runs
    MaxClock,    \* bound on the true time
    Delays,      \* the values of ms that callers use
    MaxTimers    \* bound on the number of registrations

ASSUME WidthAssumption == W \in Nat /\ W > 0
ASSUME ClockAssumption == Start \in Nat /\ MaxClock \in Nat /\ Start <= MaxClock
ASSUME DelayAssumption == Delays \subseteq 0..(W - 1) \* ms is a uint32_t, too
ASSUME TimersAssumption == MaxTimers \in Nat

VARIABLES
    clock,     \* true time in ms; the program sees only its tick
    count,     \* timers 1..count have been registered
    repeat,    \* set_interval rather than set_timeout
    ms,        \* the delay asked for
    escape,    \* the stored deadline, a uint32_t
    del,       \* PF_DELETE on the timer's poll
    it, pc,    \* poll()'s position, and "main", "loop" or "cb"
    now,       \* the interval's local copy of the tick
    due,       \* ghost: the true time before which the timer must not fire
    last,      \* ghost: the true time at which its deadline test last passed
    over,      \* ghost: stopped timers, and one-shot timers that have fired
    began      \* ghost: the true time at which this pass began

vars == <<clock, count, repeat, ms, escape, del, it, pc, now, due, last, over, began>>
perTimer == <<count, repeat, ms>>

Timers == 1..MaxTimers
Registered == 1..count
get_tick_ms == clock % W
deadline(from, d) == (from + d) % W

Init ==
    /\ clock = Start
    /\ count = 0
    /\ repeat = [i \in Timers |-> FALSE]
    /\ ms = [i \in Timers |-> 0]
    /\ escape = [i \in Timers |-> 0]
    /\ del = [i \in Timers |-> FALSE]
    /\ it = 1 /\ pc = "main" /\ now = 0
    /\ due = [i \in Timers |-> 0]
    /\ last = [i \in Timers |-> 0]
    /\ over = {}
    /\ began = Start

-----------------------------------------------------------------------------
Tick ==
    /\ clock < MaxClock
    /\ clock' = clock + 1
    /\ UNCHANGED <<perTimer, escape, del, it, pc, now, due, last, over, began>>

(***************************************************************************)
(* User code, in main() or in the callback of a timer.                      *)
(***************************************************************************)
UserCode == pc \in {"main", "cb"}

register(rep, d) ==
    /\ UserCode /\ count < MaxTimers
    /\ LET i == count + 1
       IN  /\ count' = i
           /\ repeat' = [repeat EXCEPT ![i] = rep]
           /\ ms' = [ms EXCEPT ![i] = d]
           /\ escape' = [escape EXCEPT ![i] = deadline(get_tick_ms, d)]
           /\ due' = [due EXCEPT ![i] = clock + d]
    /\ UNCHANGED <<clock, del, it, pc, now, last, over, began>>

set_timeout(d) == register(FALSE, d)
set_interval(d) == register(TRUE, d)

\* Timeout::stop is Poll::remove; a timer may stop itself in its callback.
stop(i) ==
    /\ UserCode
    /\ del' = [del EXCEPT ![i] = TRUE]
    /\ over' = over \cup {i}
    /\ UNCHANGED <<clock, perTimer, escape, it, pc, now, due, last, began>>

(***************************************************************************)
(* The callbacks that poll() calls.                                         *)
(***************************************************************************)
AtTimer == pc = "loop" /\ it \in Registered

poll ==
    /\ pc = "main"
    /\ pc' = "loop" /\ it' = 1
    /\ began' = clock
    /\ UNCHANGED <<clock, perTimer, escape, del, now, due, last, over>>

erase ==
    /\ AtTimer /\ del[it]
    /\ it' = it + 1
    /\ UNCHANGED <<clock, perTimer, escape, del, pc, now, due, last, over, began>>

\* Mutants: off by one either way, and a test that can be missed.
expired_early(i) == get_tick_ms + 1 >= escape[i]
expired_late(i) == get_tick_ms > escape[i]
expired_exactly(i) == get_tick_ms = escape[i]

expired(i) == get_tick_ms >= escape[i]

not_yet ==
    /\ AtTimer /\ ~del[it] /\ ~expired(it)
    /\ it' = it + 1
    /\ UNCHANGED <<clock, perTimer, escape, del, pc, now, due, last, over, began>>

\* The test passes: cb() is called; an interval keeps the tick it has read.
fire ==
    /\ AtTimer /\ ~del[it] /\ expired(it)
    /\ pc' = "cb"
    /\ now' = IF repeat[it] THEN get_tick_ms ELSE 0
    /\ last' = [last EXCEPT ![it] = clock]
    /\ over' = IF repeat[it] THEN over ELSE over \cup {it}
    /\ UNCHANGED <<clock, perTimer, escape, del, it, due, began>>

\* Mutant: a timeout stays.
never_removes(i) == FALSE

\* cb() returns: a one-shot timer removes itself, an interval is set anew,
\* counting from the tick it read before cb().
rearm(i) == deadline(now, ms[i])
removes(i) == ~repeat[i]
return_cb ==
    /\ pc = "cb"
    /\ escape' = IF repeat[it] THEN [escape EXCEPT ![it] = rearm(it)] ELSE escape
    /\ due' = IF repeat[it] THEN [due EXCEPT ![it] = last[it] + ms[it]] ELSE due
    /\ del' = [del EXCEPT ![it] = @ \/ removes(it)]
    /\ pc' = "loop" /\ it' = it + 1 /\ now' = 0
    /\ UNCHANGED <<clock, perTimer, last, over, began>>

next_pass ==
    /\ pc = "loop" /\ it > count
    /\ it' = 1
    /\ began' = clock
    /\ UNCHANGED <<clock, perTimer, escape, del, pc, now, due, last, over>>

LoopNext == poll \/ erase \/ not_yet \/ fire \/ return_cb \/ next_pass
UserNext == \/ \E d \in Delays : set_timeout(d) \/ set_interval(d)
            \/ \E i \in Registered : stop(i)

Next == Tick \/ UserNext \/ LoopNext

Spec == Init /\ [][Next]_vars

\* poll() never returns and callbacks do.
FairSpec == Spec /\ WF_vars(LoopNext)

-----------------------------------------------------------------------------
TypeOK ==
    /\ clock \in Start..MaxClock
    /\ count \in 0..MaxTimers
    /\ repeat \in [Timers -> BOOLEAN]
    /\ ms \in [Timers -> Delays \cup {0}]
    /\ escape \in [Timers -> 0..(W - 1)]
    /\ del \in [Timers -> BOOLEAN]
    /\ it \in 1..(count + 1) /\ pc \in {"main", "loop", "cb"}
    /\ pc = "cb" => it \in Registered
    /\ now \in 0..(W - 1)
    /\ due \in [Timers -> Nat] /\ last \in [Timers -> 0..MaxClock]
    /\ over \subseteq Timers
    /\ began \in Start..MaxClock

\* How often the tick has wrapped.  The tick and a stored deadline are compared as numbers,
\* and so as the times they stand for only if these lie between the same two wraps.
Epoch(t) == t \div W

\* A callback runs no sooner than its delay after the registration, and for an interval no
\* sooner than its delay after its previous run began; unless the tick has still to wrap
\* before the deadline: then it can run at once.
NeverEarly == pc = "cb" => last[it] >= due[it] \/ Epoch(last[it]) < Epoch(due[it])

\* A stopped timer does not run again, whoever stopped it and wherever poll()
\* was; a timeout runs once, even if its callback registers, stops or is slow.
NeverAgain == [][\A i \in over : it = i /\ pc = "loop" => pc' # "cb"]_vars

\* A pass leaves no timer behind: one that was due when the pass began and is
\* still active has run by the time poll() has gone past it; unless the tick has wrapped
\* since it was due: then it waits for the tick to reach the deadline again.
ServedInPass ==
    pc # "main" => \A i \in 1..(it - 1) :
        del[i] \/ due[i] > began \/ last[i] >= began \/ Epoch(clock) > Epoch(due[i])

\* The inductive invariant behind these: the stored deadline is the tick of the true one, and
\* a timer that is over is flagged, or will be when its callback returns.
Deadlines == \A i \in Registered : escape[i] = due[i] % W /\ ms[i] \in Delays
InCallback ==
    pc = "cb" => /\ repeat[it] => now = last[it] % W
                 /\ last[it] >= began /\ last[it] <= clock
OverFlagged ==
    \A i \in over : i \in Registered /\ (del[i] \/ (pc = "cb" /\ it = i /\ ~repeat[i]))
IInv == TypeOK /\ began <= clock /\ Deadlines /\ InCallback /\ OverFlagged
        /\ NeverEarly /\ ServedInPass

\* A timer that is due is called, or stopped, whatever its callbacks and the others' do;
\* or the tick wraps before poll() comes to it.
Pending(i) == i \in Registered /\ ~del[i] /\ clock >= due[i] /\ ~(pc = "cb" /\ it = i)
DueRuns == \A i \in Timers : Pending(i) ~> (~Pending(i) \/ Epoch(clock) > Epoch(due[i]))
=============================================================================
