---------------------------- MODULE AsyncProofs ----------------------------
(***************************************************************************)
(* The safety of Async, for any number of coroutines.                       *)
(***************************************************************************)
EXTENDS Async, SequenceTheorems, TLAPS

USE CorosAssumption

\* The coroutines on the stack run, and none is on it twice.
StackInv ==
    /\ \A i \in 1..Len(stack) : frame[stack[i]] = "running"
    /\ \A i, j \in 1..Len(stack) : stack[i] = stack[j] => i = j

\* What has a poll waits for it, or has not begun.
WaitInv ==
    \A f \in Coros : wait[f] # None =>
        frame[f] = "suspended" \/ (frame[f] = "unborn" /\ wait[f] = Once)

\* Nothing runs or waits but while the main node scans; frames are destroyed behind it.
TaskInv ==
    /\ main # "scanning" => Idle /\ wait = NoWaits
    /\ main = "starting" => \A f \in Coros : frame[f] = "unborn"
    /\ \A f \in Coros : frame[f] = "destroyed" => main = "erased"

\* In a flat program coroutine 1 has at most one other to look after, which is either
\* held or awaited; what is neither has no frame that is suspended or runs.
Child(f) == frame[f] \in {"running", "suspended"} => hold[1] = {f} \/ wait[1] = f
FlatInv ==
    flat /\ ~ended =>
        /\ \A f \in Coros : frame[f] = "suspended" => wait[f] # None
        /\ \A f \in Coros : f # 1 => hold[f] = {} /\ wait[f] \in {None, Event} /\ Child(f)
        /\ frame[1] \notin {"running", "destroyed"} => hold[1] = {}
        /\ \A c, d \in hold[1] : c = d

IInv == TypeOK /\ StackInv /\ WaitInv /\ TaskInv /\ FlatInv

-----------------------------------------------------------------------------
LEMMA Numbers ==
    /\ None \notin Coros /\ Event \notin Coros /\ Once \notin Coros /\ 1 \in Coros
    /\ None # Event /\ None # Once /\ Event # Once
  BY DEF None, Event, Once, Coros

LEMMA Pop ==
    ASSUME NEW s \in Seq(Coros), s # <<>>
    PROVE  /\ Front(s) \in Seq(Coros) /\ Len(Front(s)) = Len(s) - 1
           /\ \A i \in 1..(Len(s) - 1) : Front(s)[i] = s[i]
           /\ Last(s) = s[Len(s)] /\ Len(s) \in Nat \ {0} /\ Last(s) \in Coros
<1>1. Len(s) \in Nat \ {0} /\ s[Len(s)] \in Coros
  OBVIOUS
<1>2. /\ SubSeq(s, 1, Len(s) - 1) \in Seq(Coros) /\ Len(SubSeq(s, 1, Len(s) - 1)) = Len(s) - 1
      /\ \A i \in 1..(Len(s) - 1) : SubSeq(s, 1, Len(s) - 1)[i] = s[i]
  <2>1. PICK n \in Nat : n = Len(s) - 1
    BY <1>1
  <2>2. \A i \in 1..n : s[i] \in Coros
    BY <1>1, <2>1
  <2>3. /\ SubSeq(s, 1, n) \in Seq(Coros)
        /\ Len(SubSeq(s, 1, n)) = IF 1 <= n THEN n - 1 + 1 ELSE 0
        /\ \A i \in 1..(n - 1 + 1) : SubSeq(s, 1, n)[i] = s[1 + i - 1]
    BY <2>2, SubSeqProperties
  <2>4. Len(SubSeq(s, 1, n)) = n /\ \A i \in 1..n : SubSeq(s, 1, n)[i] = s[i]
    BY <2>3
  <2> QED BY <2>1, <2>3, <2>4
<1> QED BY <1>1, <1>2 DEF Front, Last

LEMMA Push ==
    ASSUME NEW s \in Seq(Coros), NEW c \in Coros
    PROVE  /\ Append(s, c) \in Seq(Coros) /\ Len(Append(s, c)) = Len(s) + 1
           /\ \A i \in 1..Len(s) : Append(s, c)[i] = s[i]
           /\ Append(s, c)[Len(s) + 1] = c /\ Len(s) \in Nat
  OBVIOUS

LEMMA Single ==
    ASSUME NEW c \in Coros
    PROVE  <<c>> \in Seq(Coros) /\ Len(<<c>>) = 1 /\ <<c>>[1] = c
  OBVIOUS

LEMMA Nobody == NoWaits \in [Coros -> Coros \cup {None, Event, Once}]
                /\ \A f \in Coros : NoWaits[f] = None
  BY DEF NoWaits

\* What is known while a coroutine runs.
LEMMA Running ==
    ASSUME IInv, NEW f \in Coros, Runs(f)
    PROVE  /\ stack # <<>> /\ f = stack[Len(stack)] /\ Len(stack) \in Nat \ {0}
           /\ frame[f] = "running" /\ wait[f] = None /\ main = "scanning"
           /\ \A g \in Coros : frame[g] # "destroyed"
<1>1. stack # <<>> /\ f = Last(stack) /\ stack \in Seq(Coros)
  BY DEF Runs, Idle, Top, IInv, TypeOK
<1>2. f = stack[Len(stack)] /\ Len(stack) \in Nat \ {0}
  BY <1>1, Pop
<1>3. frame[f] = "running"
  BY <1>2 DEF IInv, StackInv
<1>4. main = "scanning"
  BY <1>1 DEF IInv, TaskInv, Idle
<1> QED BY <1>1, <1>2, <1>3, <1>4 DEF IInv, WaitInv, TaskInv

\* The coroutine on top leaves the stack and is in state p.
LEMMA Leaves ==
    ASSUME IInv, NEW f \in Coros, Runs(f), NEW p,
           frame' = [frame EXCEPT ![f] = p], stack' = Front(stack)
    PROVE  StackInv' /\ stack' \in Seq(Coros)
<1>1. /\ stack \in Seq(Coros) /\ stack # <<>> /\ f = stack[Len(stack)] /\ Len(stack) \in Nat \ {0}
      /\ frame \in [Coros -> {"unborn", "running", "suspended", "done", "destroyed"}]
  BY Running DEF IInv, TypeOK
<1>2. /\ stack' \in Seq(Coros) /\ Len(stack') = Len(stack) - 1
      /\ \A i \in 1..(Len(stack) - 1) : stack'[i] = stack[i]
  BY <1>1, Pop
<1>3. \A i \in 1..Len(stack') : i \in 1..Len(stack) /\ i # Len(stack) /\ stack'[i] = stack[i]
  BY <1>1, <1>2
<1>4. \A i \in 1..Len(stack') : stack[i] # f /\ stack[i] \in Coros
  BY <1>1, <1>3 DEF IInv, StackInv
<1>5. \A i \in 1..Len(stack') : frame'[stack'[i]] = "running"
  BY <1>1, <1>3, <1>4 DEF IInv, StackInv
<1>6. \A i, j \in 1..Len(stack') : stack'[i] = stack'[j] => i = j
  BY <1>3 DEF IInv, StackInv
<1> QED BY <1>2, <1>5, <1>6 DEF StackInv

-----------------------------------------------------------------------------
LEMMA InitAsync == Init => IInv
<1> SUFFICES ASSUME Init PROVE IInv
  OBVIOUS
<1>1. stack \in Seq(Coros) /\ Len(stack) = 0
  BY EmptySeq DEF Init
<1>2. TypeOK
  BY <1>1, Nobody DEF Init, TypeOK
<1>3. StackInv
  BY <1>1 DEF StackInv
<1>4. WaitInv /\ TaskInv
  BY Nobody DEF Init, WaitInv, TaskInv, Idle
<1>5. FlatInv
  BY Nobody, Numbers DEF Init, FlatInv, Child
<1> QED BY <1>2, <1>3, <1>4, <1>5 DEF IInv

LEMMA CallAsync == ASSUME IInv, NEW f \in Coros, NEW c \in Coros, call(f, c) PROVE IInv'
<1> USE Numbers
<1>1. /\ Runs(f) /\ Unborn(c) /\ FlatUse(f) /\ frame' = [frame EXCEPT ![c] = "running"]
      /\ stack' = Append(stack, c) /\ hold' = [hold EXCEPT ![f] = @ \cup {c}]
      /\ UNCHANGED <<flat, wait, main, stale, held, ended>>
  BY DEF call
<1>2. /\ frame[f] = "running" /\ wait[f] = None /\ main = "scanning" /\ frame[c] = "unborn" /\ wait[c] = None
      /\ f # c
  BY <1>1, Running DEF Unborn
<1>3. TypeOK
  BY DEF IInv
<1>4. /\ Len(stack') = Len(stack) + 1 /\ stack' \in Seq(Coros) /\ Len(stack) \in Nat
      /\ \A i \in 1..Len(stack) : stack'[i] = stack[i]
      /\ stack'[Len(stack) + 1] = c
  BY <1>1, <1>3, Push DEF TypeOK
<1>5. TypeOK'
  BY <1>1, <1>3, <1>4 DEF TypeOK
<1>6. \A i \in 1..Len(stack) : frame[stack[i]] = "running" /\ stack[i] # c /\ stack[i] \in Coros
  BY <1>2, <1>3 DEF IInv, StackInv, TypeOK
<1>7. StackInv'
  <2>1. ASSUME NEW i \in 1..Len(stack') PROVE frame'[stack'[i]] = "running"
    BY <1>1, <1>3, <1>4, <1>6, <2>1 DEF TypeOK
  <2>2. ASSUME NEW i \in 1..Len(stack'), NEW j \in 1..Len(stack'), stack'[i] = stack'[j] PROVE i = j
    <3>1. (i \in 1..Len(stack) \/ i = Len(stack) + 1) /\ (j \in 1..Len(stack) \/ j = Len(stack) + 1)
      BY <1>4
    <3> QED BY <1>4, <1>6, <2>2, <3>1 DEF IInv, StackInv
  <2> QED BY <2>1, <2>2 DEF StackInv
<1>8. WaitInv'
  BY <1>1, <1>2, <1>3 DEF IInv, WaitInv, TypeOK
<1>9. TaskInv'
  BY <1>1, <1>2, <1>3 DEF IInv, TaskInv, TypeOK
<1>10. FlatInv'
  <2> SUFFICES ASSUME flat, ~ended PROVE FlatInv'
    BY <1>1 DEF FlatInv
  <2>1. f = 1 /\ hold[1] = {}
    BY <1>1 DEF FlatUse
  <2>2. hold'[1] = {c} /\ frame'[1] = "running" /\ frame'[c] = "running"
        /\ \A g \in Coros : (g # 1 => hold'[g] = hold[g]) /\ (g # c => frame'[g] = frame[g])
    BY <1>1, <1>2, <1>3, <2>1 DEF TypeOK
  <2>3. ASSUME NEW g \in Coros, g # 1, g # c PROVE frame'[g] \notin {"running", "suspended"}
    <3>1. frame[g] \in {"running", "suspended"} => hold[1] = {g} \/ wait[1] = g
      BY <2>3 DEF IInv, FlatInv, Child
    <3>2. hold[1] # {g} /\ wait[1] # g
      BY <1>2, <2>1
    <3> QED BY <2>2, <2>3, <3>1, <3>2
  <2> QED BY <1>1, <2>1, <2>2, <2>3 DEF IInv, FlatInv, Child
<1> QED BY <1>5, <1>7, <1>8, <1>9, <1>10 DEF IInv

LEMMA OnceAsync == ASSUME IInv, NEW f \in Coros, NEW c \in Coros, set_once_async(f, c) PROVE IInv'
<1> USE Numbers
<1>1. /\ Runs(f) /\ Unborn(c) /\ ~flat /\ wait' = [wait EXCEPT ![c] = Once]
      /\ UNCHANGED <<flat, frame, hold, stack, main, stale, held, ended>>
  BY DEF set_once_async
<1>2. main = "scanning" /\ frame[c] = "unborn"
  BY <1>1, Running DEF Unborn
<1>3. TypeOK' /\ StackInv'
  BY <1>1 DEF IInv, TypeOK, StackInv
<1>4. WaitInv' /\ TaskInv' /\ FlatInv'
  BY <1>1, <1>2 DEF IInv, TypeOK, WaitInv, TaskInv, FlatInv
<1> QED BY <1>3, <1>4 DEF IInv

\* The three parts that do not depend on what f waits for.
LEMMA SuspendsAsync ==
    ASSUME IInv, NEW f \in Coros, Runs(f), NEW on \in Coros \cup {Event}, suspends(f, on),
           UNCHANGED <<flat, main, stale, held, ended>>,
           hold' \in [Coros -> SUBSET Coros]
    PROVE  TypeOK' /\ StackInv' /\ WaitInv' /\ TaskInv'
<1> USE Numbers
<1>1. frame' = [frame EXCEPT ![f] = "suspended"] /\ stack' = Front(stack) /\ wait' = [wait EXCEPT ![f] = on]
  BY DEF suspends
<1>2. StackInv' /\ stack' \in Seq(Coros)
  BY <1>1, Leaves
<1>3. main = "scanning"
  BY Running
<1>4. TypeOK'
  BY <1>1, <1>2 DEF IInv, TypeOK
<1>5. WaitInv' /\ TaskInv'
  BY <1>1, <1>3 DEF IInv, TypeOK, WaitInv, TaskInv
<1> QED BY <1>2, <1>4, <1>5

LEMMA EventAsync == ASSUME IInv, NEW f \in Coros, await_event(f) PROVE IInv'
<1> USE Numbers
<1>1. /\ Runs(f) /\ FlatWait(f) /\ suspends(f, Event) /\ UNCHANGED <<flat, hold, main, stale, held, ended>>
  BY DEF await_event
<1>2. frame' = [frame EXCEPT ![f] = "suspended"] /\ wait' = [wait EXCEPT ![f] = Event]
  BY <1>1 DEF suspends
<1>3. TypeOK' /\ StackInv' /\ WaitInv' /\ TaskInv'
  BY <1>1, SuspendsAsync DEF IInv, TypeOK
<1>4. frame[f] = "running" /\ wait[f] = None
  BY <1>1, Running
<1>5. FlatInv'
  <2> SUFFICES ASSUME flat, ~ended PROVE FlatInv'
    BY <1>1 DEF FlatInv
  <2>1. hold[f] = {}
    BY <1>1 DEF FlatWait
  <2>2. \A g \in Coros : g # f => frame'[g] = frame[g] /\ wait'[g] = wait[g]
    BY <1>2 DEF IInv, TypeOK
  <2>3. frame'[f] = "suspended" /\ wait'[f] = Event
    BY <1>2 DEF IInv, TypeOK
  <2>4. \A g \in Coros : g # 1 => Child(g)'
    BY <1>1, <1>4, <2>1, <2>2, <2>3 DEF IInv, FlatInv, Child
  <2> QED BY <1>1, <2>1, <2>2, <2>3, <2>4 DEF IInv, FlatInv
<1> QED BY <1>3, <1>5 DEF IInv

LEMMA AwaitAsync == ASSUME IInv, NEW f \in Coros, NEW c \in Coros, await_suspend(f, c) PROVE IInv'
<1> USE Numbers
<1>1. /\ Runs(f) /\ c \in hold[f] /\ suspends(f, c) /\ hold' = [hold EXCEPT ![f] = @ \ {c}]
      /\ UNCHANGED <<flat, main, stale, held, ended>>
  BY DEF await_suspend
<1>2. frame' = [frame EXCEPT ![f] = "suspended"] /\ wait' = [wait EXCEPT ![f] = c]
  BY <1>1 DEF suspends
<1>3. TypeOK' /\ StackInv' /\ WaitInv' /\ TaskInv'
  <2>1. hold' \in [Coros -> SUBSET Coros]
    BY <1>1 DEF IInv, TypeOK
  <2> QED BY <1>1, <2>1, SuspendsAsync
<1>4. frame[f] = "running" /\ wait[f] = None
  BY <1>1, Running
<1>5. FlatInv'
  <2> SUFFICES ASSUME flat, ~ended PROVE FlatInv'
    BY <1>1 DEF FlatInv
  <2>1. f = 1 /\ hold[1] = {c}
    BY <1>1 DEF IInv, FlatInv
  <2>2. \A g \in Coros : g # 1 => frame'[g] = frame[g] /\ wait'[g] = wait[g] /\ hold'[g] = hold[g]
    BY <1>1, <1>2, <2>1 DEF IInv, TypeOK
  <2>3. frame'[1] = "suspended" /\ wait'[1] = c /\ hold'[1] = {}
    BY <1>1, <1>2, <2>1 DEF IInv, TypeOK
  <2>4. \A g \in Coros : g # 1 => Child(g)'
    BY <1>4, <2>1, <2>2, <2>3 DEF IInv, FlatInv, Child
  <2> QED BY <1>1, <2>2, <2>3, <2>4 DEF IInv, FlatInv
<1> QED BY <1>3, <1>5 DEF IInv

\* Terminating the task while f runs or no coroutine does.
LEMMA TerminalAsync ==
    ASSUME IInv, terminal, UNCHANGED <<flat, frame, stack, main, held>>, ended' \in BOOLEAN,
           hold' \in [Coros -> SUBSET Coros]
    PROVE  TypeOK' /\ StackInv' /\ WaitInv' /\ TaskInv'
<1>1. wait' = NoWaits /\ stale' \in BOOLEAN
  BY DEF terminal, IInv, TypeOK
<1>2. TypeOK'
  BY <1>1, Nobody DEF IInv, TypeOK
<1>3. StackInv'
  BY DEF IInv, StackInv
<1>4. WaitInv'
  BY <1>1, Nobody DEF WaitInv
<1>5. TaskInv'
  BY <1>1 DEF IInv, TaskInv, Idle
<1> QED BY <1>2, <1>3, <1>4, <1>5

LEMMA ResultAsync == ASSUME IInv, NEW f \in Coros, NEW c \in Coros, await_result(f, c) PROVE IInv'
<1> USE Numbers
<1>1. /\ Runs(f) /\ c \in hold[f] /\ frame[c] = "done" /\ terminal /\ hold' = [hold EXCEPT ![f] = @ \ {c}]
      /\ UNCHANGED <<flat, frame, stack, main, held, ended>>
  BY DEF await_result, await_ready
<1>2. hold' \in [Coros -> SUBSET Coros] /\ ended' \in BOOLEAN
  BY <1>1 DEF IInv, TypeOK
<1>3. TypeOK' /\ StackInv' /\ WaitInv' /\ TaskInv'
  BY <1>1, <1>2, TerminalAsync
<1>4. frame[f] = "running" /\ wait[f] = None
  BY <1>1, Running
<1>5. FlatInv'
  <2> SUFFICES ASSUME flat, ~ended PROVE FlatInv'
    BY <1>1 DEF FlatInv
  <2>1. f = 1 /\ hold[1] = {c}
    BY <1>1 DEF IInv, FlatInv
  <2>2. ASSUME NEW g \in Coros, g # 1 PROVE frame[g] \notin {"running", "suspended"}
    <3>1. frame[g] \in {"running", "suspended"} => hold[1] = {g} \/ wait[1] = g
      BY <2>2 DEF IInv, FlatInv, Child
    <3>2. hold[1] = {g} => g = c
      BY <2>1
    <3>3. wait[1] # g
      BY <1>4, <2>1
    <3> QED BY <1>1, <3>1, <3>2, <3>3
  <2>3. hold'[1] = {} /\ \A g \in Coros : g # 1 => hold'[g] = hold[g]
    BY <1>1, <2>1 DEF IInv, TypeOK
  <2>4. \A g \in Coros : wait'[g] = None
    BY <1>1, Nobody DEF terminal
  <2>5. \A g \in Coros : frame'[g] # "suspended"
    BY <1>1, <1>4, <2>1, <2>2
  <2>6. \A g \in Coros : g # 1 => hold'[g] = {} /\ wait'[g] \in {None, Event} /\ Child(g)'
    BY <1>1, <2>2, <2>3, <2>4 DEF IInv, FlatInv, Child
  <2> QED BY <2>3, <2>5, <2>6 DEF FlatInv
<1> QED BY <1>3, <1>5 DEF IInv

LEMMA ReturnAsync == ASSUME IInv, NEW f \in Coros, co_return(f) PROVE IInv'
<1> USE Numbers
<1>1. /\ Runs(f) /\ FlatWait(f) /\ frame' = [frame EXCEPT ![f] = "done"] /\ stack' = Front(stack)
      /\ UNCHANGED <<flat, wait, hold, main, stale, held, ended>>
  BY DEF co_return
<1>2. StackInv' /\ stack' \in Seq(Coros)
  BY <1>1, Leaves
<1>3. frame[f] = "running" /\ wait[f] = None /\ main = "scanning"
  BY <1>1, Running
<1>4. TypeOK'
  BY <1>1, <1>2 DEF IInv, TypeOK
<1>5. WaitInv' /\ TaskInv'
  BY <1>1, <1>3 DEF IInv, TypeOK, WaitInv, TaskInv
<1>6. FlatInv'
  <2> SUFFICES ASSUME flat, ~ended PROVE FlatInv'
    BY <1>1 DEF FlatInv
  <2>1. hold[f] = {} /\ frame'[f] = "done" /\ \A g \in Coros : g # f => frame'[g] = frame[g]
    BY <1>1 DEF FlatWait, IInv, TypeOK
  <2> QED BY <1>1, <1>3, <2>1 DEF IInv, FlatInv, Child
<1> QED BY <1>2, <1>4, <1>5, <1>6 DEF IInv

LEMMA EndsAsync ==
    ASSUME IInv, terminal, ended' = TRUE, UNCHANGED <<flat, frame, hold, stack, main, held>>
    PROVE  IInv'
<1>1. hold' \in [Coros -> SUBSET Coros]
  BY DEF IInv, TypeOK
<1>2. TypeOK' /\ StackInv' /\ WaitInv' /\ TaskInv'
  BY <1>1, TerminalAsync
<1>3. FlatInv'
  BY DEF FlatInv
<1> QED BY <1>2, <1>3 DEF IInv

-----------------------------------------------------------------------------
LEMMA InitTaskAsync == IInv /\ init => IInv'
<1> SUFFICES ASSUME IInv, init PROVE IInv'
  OBVIOUS
<1> USE Numbers
<1>1. /\ Idle /\ main = "starting" /\ main' = "scanning" /\ UNCHANGED <<flat, hold, stale, held, ended>>
  BY DEF init
<1>2. wait = NoWaits /\ (\A f \in Coros : wait[f] = None /\ frame[f] = "unborn") /\ stack = <<>>
  BY <1>1, Nobody DEF IInv, TaskInv, Idle
<1>3. CASE frame' = [frame EXCEPT ![1] = "running"] /\ stack' = <<1>> /\ UNCHANGED wait
  <2>1. stack' \in Seq(Coros) /\ Len(stack') = 1 /\ stack'[1] = 1
    BY <1>3, Single
  <2>2. frame'[1] = "running" /\ \A g \in Coros : g # 1 => frame'[g] = "unborn"
    BY <1>2, <1>3 DEF IInv, TypeOK
  <2>3. TypeOK'
    BY <1>1, <1>3, <2>1 DEF IInv, TypeOK
  <2>4. StackInv'
    BY <2>1, <2>2 DEF StackInv
  <2>5. WaitInv' /\ TaskInv'
    BY <1>1, <1>2, <1>3, <2>2 DEF WaitInv, TaskInv
  <2>6. FlatInv'
    BY <1>1, <1>2, <1>3, <2>2 DEF IInv, FlatInv, Child
  <2> QED BY <2>3, <2>4, <2>5, <2>6 DEF IInv
<1>4. CASE wait' = [wait EXCEPT ![1] = Once] /\ UNCHANGED <<frame, stack>>
  <2>1. wait'[1] = Once /\ \A g \in Coros : g # 1 => wait'[g] = None
    BY <1>2, <1>4 DEF IInv, TypeOK
  <2>2. TypeOK' /\ StackInv'
    BY <1>1, <1>4 DEF IInv, TypeOK, StackInv
  <2>3. WaitInv' /\ TaskInv'
    BY <1>1, <1>2, <1>4, <2>1 DEF WaitInv, TaskInv
  <2>4. FlatInv'
    BY <1>1, <1>2, <1>4, <2>1 DEF IInv, FlatInv, Child
  <2> QED BY <2>2, <2>3, <2>4 DEF IInv
<1> QED BY <1>3, <1>4 DEF init

\* A coroutine that waits, or has not begun, is resumed.
LEMMA ResumesAsync ==
    ASSUME IInv, Idle, NEW f \in Coros, wait[f] # None, resumes(f), stale' \in BOOLEAN,
           wait' \in [Coros -> Coros \cup {None, Event, Once}], wait'[f] = None,
           \A g \in Coros : wait'[g] # None => wait'[g] = wait[g],
           UNCHANGED <<flat, hold, main, held, ended>>
    PROVE  TypeOK' /\ StackInv' /\ WaitInv' /\ TaskInv'
<1>1. stack' \in Seq(Coros) /\ Len(stack') = 1 /\ stack'[1] = f
  BY Single DEF resumes
<1>2. frame'[f] = "running" /\ \A g \in Coros : g # f => frame'[g] = frame[g]
  BY DEF resumes, IInv, TypeOK
<1>3. TypeOK'
  BY <1>1 DEF resumes, IInv, TypeOK
<1>4. StackInv'
  BY <1>1, <1>2 DEF StackInv
<1>5. WaitInv'
  BY <1>2 DEF IInv, WaitInv
<1>6. main = "scanning"
  BY Nobody DEF IInv, TaskInv
<1>7. TaskInv'
  BY <1>2, <1>6 DEF IInv, TaskInv
<1> QED BY <1>3, <1>4, <1>5, <1>7

LEMMA VisitAsync == ASSUME IInv, NEW f \in Coros, visit_event(f) PROVE IInv'
<1> USE Numbers
<1>1. /\ Idle /\ wait[f] \in {Event, Once} /\ resumes(f) /\ wait' = [wait EXCEPT ![f] = None] /\ stale' = TRUE
      /\ UNCHANGED <<flat, hold, main, held, ended>>
  BY DEF visit_event, removes
<1>2. wait'[f] = None /\ \A g \in Coros : g # f => wait'[g] = wait[g]
  BY <1>1 DEF IInv, TypeOK
<1>3. wait' \in [Coros -> Coros \cup {None, Event, Once}]
  BY <1>1 DEF IInv, TypeOK
<1>4. TypeOK' /\ StackInv' /\ WaitInv' /\ TaskInv'
  BY <1>1, <1>2, <1>3, ResumesAsync
<1>5. frame'[f] = "running" /\ \A g \in Coros : g # f => frame'[g] = frame[g]
  BY <1>1 DEF resumes, IInv, TypeOK
<1>6. FlatInv'
  <2> SUFFICES ASSUME flat, ~ended PROVE FlatInv'
    BY <1>1 DEF FlatInv
  <2>1. frame[f] = "suspended" \/ (frame[f] = "unborn" /\ wait[f] = Once)
    BY <1>1 DEF IInv, WaitInv
  <2>2. ASSUME NEW g \in Coros, g # 1 PROVE Child(g)'
    <3>1. Child(g)
      BY <2>2 DEF IInv, FlatInv
    <3>2. CASE f = 1
      <4>1. wait[1] # g
        BY <1>1, <3>2
      <4> QED BY <1>1, <1>5, <2>2, <3>1, <3>2, <4>1 DEF Child
    <3>3. CASE f # 1
      <4>1. wait'[1] = wait[1] /\ hold'[1] = hold[1]
        BY <1>1, <1>2, <3>3
      <4>2. wait[f] = Event /\ frame[f] = "suspended"
        BY <1>1, <2>1, <3>3 DEF IInv, FlatInv
      <4>3. CASE g = f
        BY <3>1, <4>1, <4>2, <4>3 DEF Child
      <4>4. CASE g # f
        BY <1>5, <3>1, <4>1, <4>4 DEF Child
      <4> QED BY <4>3, <4>4
    <3> QED BY <3>2, <3>3
  <2> QED BY <1>1, <1>2, <1>5, <2>1, <2>2 DEF IInv, FlatInv
<1> QED BY <1>4, <1>6 DEF IInv
LEMMA AwaitingAsync == ASSUME IInv, NEW f \in Coros, visit_awaiting(f) PROVE IInv'
<1> USE Numbers
<1>1. /\ Idle /\ wait[f] \in Coros /\ frame[wait[f]] = "done" /\ resumes(f) /\ terminal
      /\ UNCHANGED <<flat, hold, main, held, ended>>
  BY DEF visit_awaiting, await_ready
<1>2. wait' = NoWaits /\ (\A g \in Coros : wait'[g] = None) /\ stale' \in BOOLEAN
  BY <1>1, Nobody DEF terminal, IInv, TypeOK
<1>3. wait' \in [Coros -> Coros \cup {None, Event, Once}] /\ wait[f] # None
  BY <1>1, <1>2, Nobody
<1>4. TypeOK' /\ StackInv' /\ WaitInv' /\ TaskInv'
  BY <1>1, <1>2, <1>3, ResumesAsync
<1>5. frame'[f] = "running" /\ \A g \in Coros : g # f => frame'[g] = frame[g]
  BY <1>1 DEF resumes, IInv, TypeOK
<1>6. FlatInv'
  <2> SUFFICES ASSUME flat, ~ended PROVE FlatInv'
    BY <1>1 DEF FlatInv
  <2>1. f = 1
    BY <1>1 DEF IInv, FlatInv
  <2>2. frame[1] = "suspended"
    BY <1>1, <2>1 DEF IInv, WaitInv
  <2>3. hold[1] = {}
    BY <2>2 DEF IInv, FlatInv
  <2>4. ASSUME NEW g \in Coros, g # 1 PROVE frame'[g] \notin {"running", "suspended"}
    <3>1. frame[g] \in {"running", "suspended"} => wait[1] = g
      BY <2>3, <2>4 DEF IInv, FlatInv, Child
    <3> QED BY <1>1, <1>5, <2>1, <2>4, <3>1
  <2>5. \A g \in Coros : frame'[g] # "suspended"
    BY <1>5, <2>1, <2>4
  <2>6. \A g \in Coros : g # 1 => hold'[g] = {} /\ wait'[g] \in {None, Event} /\ Child(g)'
    BY <1>1, <1>2, <2>4 DEF IInv, FlatInv, Child
  <2> QED BY <1>1, <2>3, <2>5, <2>6 DEF FlatInv
<1> QED BY <1>4, <1>6 DEF IInv

LEMMA ScanAsync == IInv /\ main_scan => IInv'
  BY DEF main_scan, no_subs, IInv, TypeOK, StackInv, WaitInv, TaskInv, FlatInv, Child, Idle

\* ~Task, if nobody holds the task any more.
LEMMA ReleaseAsync ==
    ASSUME IInv, Idle, NEW m, NEW s, NEW h, release(m, s, h), main' = m, m \in {"starting", "scanning", "flagged", "erased"},
           stale' \in BOOLEAN, held' \in BOOLEAN, m # "scanning" => wait = NoWaits, m = "starting" => main = "starting",
           main = "erased" => m = "erased", UNCHANGED <<flat, wait, hold, stack, ended>>
    PROVE  IInv'
<1> USE Numbers
<1>1. CASE ~unused(m, s, h)
  <2>1. frame' = frame
    BY <1>1 DEF release
  <2> QED BY <2>1 DEF IInv, TypeOK, StackInv, WaitInv, TaskInv, FlatInv, Child, Idle
<1>2. CASE unused(m, s, h)
  <2>1. /\ frame' = [f \in Coros |-> IF frame[f] = "unborn" THEN "unborn" ELSE "destroyed"]
        /\ m = "erased" /\ wait = NoWaits
    BY <1>2 DEF release, unused
  <2>2. \A f \in Coros : frame'[f] \in {"unborn", "destroyed"} /\ wait'[f] = None
    BY <2>1, Nobody
  <2>3. stack = <<>> /\ stack' = <<>> /\ Len(stack') = 0
    BY DEF Idle
  <2>4. TypeOK'
    BY <2>1 DEF IInv, TypeOK
  <2>5. StackInv'
    BY <2>3 DEF StackInv
  <2>6. WaitInv' /\ TaskInv'
    BY <2>1, <2>2, <2>3 DEF WaitInv, TaskInv, Idle
  <2>7. FlatInv'
    <3> SUFFICES ASSUME flat, ~ended PROVE FlatInv'
      BY DEF FlatInv
    <3>1. frame'[1] # "destroyed" => frame[1] = "unborn"
      BY <2>1
    <3> QED BY <2>2, <3>1 DEF IInv, FlatInv, Child
  <2> QED BY <2>4, <2>5, <2>6, <2>7 DEF IInv
<1> QED BY <1>1, <1>2

LEMMA NextAsync == IInv /\ [Next]_vars => IInv'
<1> SUFFICES ASSUME IInv, [Next]_vars PROVE IInv'
  OBVIOUS
<1>1. CASE UNCHANGED vars
  BY <1>1 DEF vars, IInv, TypeOK, StackInv, WaitInv, TaskInv, FlatInv, Child, Idle
<1>2. ASSUME NEW f \in Coros, Body(f) PROVE IInv'
  <2>1. CASE exit(f)
    BY <2>1, EndsAsync DEF exit
  <2> QED BY <1>2, <2>1, EventAsync, ReturnAsync, CallAsync, OnceAsync, AwaitAsync, ResultAsync DEF Body
<1>3. ASSUME NEW f \in Coros, poll(f) PROVE IInv'
  BY <1>3, VisitAsync, AwaitingAsync DEF poll
<1>4. CASE erase_subs
  <2>1. main # "scanning" => wait = NoWaits
    BY DEF IInv, TaskInv
  <2>2. main \in {"starting", "scanning", "flagged", "erased"} /\ held \in BOOLEAN
    BY DEF IInv, TypeOK
  <2> QED BY <1>4, <2>1, <2>2, ReleaseAsync DEF erase_subs
<1>5. CASE erase_main
  <2>1. wait = NoWaits /\ stale \in BOOLEAN /\ held \in BOOLEAN
    BY <1>5 DEF erase_main, IInv, TaskInv, TypeOK
  <2> QED BY <1>5, <2>1, ReleaseAsync DEF erase_main
<1>6. CASE let_go
  <2>1. main # "scanning" => wait = NoWaits
    BY DEF IInv, TaskInv
  <2>2. main \in {"starting", "scanning", "flagged", "erased"} /\ stale \in BOOLEAN
    BY DEF IInv, TypeOK
  <2> QED BY <1>6, <2>1, <2>2, ReleaseAsync DEF let_go
<1>7. CASE terminate
  BY <1>7, EndsAsync DEF terminate
<1> QED BY <1>1, <1>2, <1>3, <1>4, <1>5, <1>6, <1>7, InitTaskAsync, ScanAsync DEF Next

LEMMA AlwaysIInv == Spec => []IInv
  BY InitAsync, NextAsync, PTL DEF Spec

-----------------------------------------------------------------------------
\* However coroutines call, await and finish (async.h:10-160), the frames, the polls and
\* the stack keep their types.
THEOREM TypeCorrect == Spec => []TypeOK
  BY AlwaysIInv, PTL DEF IInv

\* ~Task (poll.cpp:171-175) frees no frame that runs, that a poll would resume, or whose
\* done() a poll will read (async.h:53-60).
THEOREM FramesOutliveUse == Spec => []NoUseAfterFree
<1>1. IInv => NoUseAfterFree
  <2> SUFFICES ASSUME IInv, NEW f \in Coros
      PROVE  /\ f \in ToSet(stack) => frame[f] = "running"
             /\ wait[f] # None => frame[f] # "destroyed"
             /\ wait[f] \in Coros => frame[wait[f]] # "destroyed"
    BY DEF NoUseAfterFree
  <2> USE Numbers
  <2>1. f \in ToSet(stack) => frame[f] = "running"
    BY DEF ToSet, IInv, StackInv
  <2>2. wait[f] # None => main = "scanning"
    BY Nobody DEF IInv, TaskInv
  <2>3. wait[f] # None => \A g \in Coros : frame[g] # "destroyed"
    BY <2>2 DEF IInv, TaskInv
  <2> QED BY <2>1, <2>3
<1> QED BY <1>1, AlwaysIInv, PTL

\* While a coroutine of the task runs or has a poll, the main node is the scanning one
\* that Task::is_running looks for (poll.cpp:147-168, 187).
THEOREM ReportsRunning == Spec => []RunningWhileWaiting
<1>1. IInv => RunningWhileWaiting
  BY DEF IInv, TaskInv, RunningWhileWaiting
<1> QED BY <1>1, AlwaysIInv, PTL

\* If a coroutine awaits each one it calls before it calls the next, and those call none,
\* terminating the task in await_resume (async.h:61-66) flags the poll of no coroutine
\* but the one that is resumed.
THEOREM FlatResumes == Spec => []AwaitedResumes
<1>1. IInv => AwaitedResumes
  BY DEF IInv, FlatInv, AwaitedResumes
<1> QED BY <1>1, AlwaysIInv, PTL
=============================================================================
