---------------------------- MODULE TimeoutProofs ----------------------------
(***************************************************************************)
(* Timers neither run early nor are passed over, but for the wraps of the    *)
(* tick that the properties name, and never run again: for every width of    *)
(* the tick, every set of delays and every number of timers.                *)
(***************************************************************************)
EXTENDS Timeout, TLAPS

\* A time is its epoch and its tick, in one way.
LEMMA TimeIs ==
    ASSUME NEW t \in Nat
    PROVE  /\ Epoch(t) \in Nat /\ t % W \in 0..(W - 1)
           /\ t = W * Epoch(t) + (t % W)
<1>1. W \in Nat /\ W > 0
  BY WidthAssumption
<1>2. t \div W \in Nat /\ t % W \in 0..(W - 1) /\ t = W * (t \div W) + (t % W)
  BY <1>1, SMT
<1> QED BY <1>2 DEF Epoch

LEMMA LaterEpoch ==
    ASSUME NEW x \in Nat, NEW y \in Nat, x < y
    PROVE  W * x + W <= W * y
<1>1. PICK m \in Nat : y = x + 1 + m
  <2>1. y - x - 1 \in Nat /\ y = x + 1 + (y - x - 1)
    OBVIOUS
  <2> QED BY <2>1
<1>2. W * y = W * x + W + W * m /\ W * m \in Nat /\ W * x \in Nat
  BY <1>1, WidthAssumption
<1> QED BY <1>2, WidthAssumption

\* Within an epoch the ticks are in the order of the times.
LEMMA Compared ==
    ASSUME NEW x \in Nat, NEW y \in Nat
    PROVE  /\ x % W >= y % W => x >= y \/ Epoch(x) < Epoch(y)
           /\ ~(x % W >= y % W) => y > x \/ Epoch(x) > Epoch(y)
           /\ y <= x => Epoch(y) <= Epoch(x)
<1>1. Epoch(x) \in Nat /\ x % W \in 0..(W - 1) /\ x = W * Epoch(x) + (x % W)
  BY TimeIs
<1>2. Epoch(y) \in Nat /\ y % W \in 0..(W - 1) /\ y = W * Epoch(y) + (y % W)
  BY TimeIs
<1>3. W \in Nat /\ W > 0
  BY WidthAssumption
<1>4. PICK e \in Nat, f \in Nat : e = Epoch(x) /\ f = Epoch(y)
  BY <1>1, <1>2
<1>5. PICK r \in Nat, s \in Nat : r = x % W /\ s = y % W /\ r < W /\ s < W
  BY <1>1, <1>2, <1>3
<1>6. PICK a \in Nat, b \in Nat : a = W * e /\ b = W * f
  BY <1>3
<1>7. (e < f => a + W <= b) /\ (f < e => b + W <= a) /\ (e = f => a = b)
  BY <1>6, LaterEpoch
<1>8. x = a + r /\ y = b + s
  BY <1>1, <1>2, <1>4, <1>5, <1>6
<1>9. /\ r >= s => x >= y \/ e < f
      /\ ~(r >= s) => y > x \/ e > f
      /\ y <= x => f <= e
  BY <1>3, <1>5, <1>7, <1>8
<1> QED BY <1>4, <1>5, <1>9

\* A deadline computed from a tick is the tick of the deadline.
LEMMA DeadlineIs ==
    ASSUME NEW t \in Nat, NEW d \in Delays
    PROVE  deadline(t % W, d) = (t + d) % W /\ t + d \in Nat /\ (t + d) % W \in 0..(W - 1)
<1>1. W \in Nat /\ W > 0 /\ d \in Nat /\ t + d \in Nat
  BY WidthAssumption, DelayAssumption
<1>2. Epoch(t) \in Nat /\ t % W \in 0..(W - 1) /\ t = W * Epoch(t) + (t % W)
  BY TimeIs
<1>3. PICK e \in Nat, r \in Nat : e = Epoch(t) /\ r = t % W /\ t = W * e + r
  BY <1>1, <1>2
<1>4. PICK n \in Nat : n = r + d
  BY <1>1
<1>5. Epoch(n) \in Nat /\ n % W \in 0..(W - 1) /\ n = W * Epoch(n) + (n % W)
  BY TimeIs
<1>6. PICK f \in Nat, g \in Nat : f = Epoch(n) /\ g = n % W /\ g < W /\ n = W * f + g
  BY <1>1, <1>5
<1>7. Epoch(t + d) \in Nat /\ (t + d) % W \in 0..(W - 1) /\ t + d = W * Epoch(t + d) + ((t + d) % W)
  BY <1>1, TimeIs
<1>8. PICK z \in Nat, h \in Nat : h = (t + d) % W /\ h < W /\ t + d = W * z + h
  BY <1>1, <1>7
<1>9. PICK q \in Nat : q = e + f /\ W * q = W * e + W * f
  BY <1>1
<1>10. PICK a \in Nat, b \in Nat, u \in Nat, v \in Nat : a = W * q /\ b = W * z /\ u = W * e /\ v = W * f
  BY <1>1
<1>11. (q < z => a + W <= b) /\ (z < q => b + W <= a) /\ (q = z => a = b)
  BY <1>10, LaterEpoch
<1>12. t + d = a + g /\ t + d = b + h
  <2>1. t = u + r
    BY <1>3, <1>10
  <2>2. n = v + g
    BY <1>6, <1>10
  <2>3. a = u + v
    BY <1>9, <1>10
  <2>4. t + d = b + h
    BY <1>8, <1>10
  <2> QED BY <1>1, <1>4, <2>1, <2>2, <2>3, <2>4
<1>13. g = h
  <2>1. g < W /\ h < W
    BY <1>6, <1>8
  <2>2. a + g = b + h
    BY <1>12
  <2>3. q < z \/ z < q \/ q = z
    BY <1>9, <1>8
  <2> QED BY <1>1, <1>11, <2>1, <2>2, <2>3
<1>14. ((t % W) + d) % W = g
  BY <1>3, <1>4, <1>6
<1> QED BY <1>1, <1>7, <1>8, <1>13, <1>14 DEF deadline

LEMMA InitInv == Init => IInv
  BY WidthAssumption, ClockAssumption, TimersAssumption
  DEF Init, IInv, TypeOK, Timers, Registered, Deadlines, InCallback, OverFlagged,
      NeverEarly, ServedInPass

\* User code: registrations and stops.
LEMMA UserStep ==
    ASSUME IInv, UserNext
    PROVE  IInv'
<1> USE DEF perTimer
<1>0. /\ clock \in Start..MaxClock /\ Start \in Nat /\ MaxClock \in Nat
      /\ count \in 0..MaxTimers /\ MaxTimers \in Nat /\ it \in 1..(count + 1)
  BY ClockAssumption, TimersAssumption DEF IInv, TypeOK
<1>1. ASSUME NEW rep \in BOOLEAN, NEW d \in Delays, register(rep, d)
      PROVE  IInv'
  <2>1. PICK i : i = count + 1
    OBVIOUS
  <2>2. /\ i \in Timers /\ count' = i /\ i \notin Registered /\ d \in Nat
        /\ repeat' = [repeat EXCEPT ![i] = rep]
        /\ ms' = [ms EXCEPT ![i] = d]
        /\ escape' = [escape EXCEPT ![i] = (clock + d) % W]
        /\ due' = [due EXCEPT ![i] = clock + d]
        /\ UNCHANGED <<clock, del, it, pc, now, last, over, began>>
    <3>1. i \in Timers /\ i \notin Registered /\ d \in Nat
      BY <1>0, <1>1, <2>1, WidthAssumption, DelayAssumption DEF register, Timers, Registered
    <3>2. clock \in Nat
      BY <1>0
    <3>3. deadline(get_tick_ms, d) = (clock + d) % W
      BY <3>2, DeadlineIs DEF get_tick_ms
    <3> QED BY <1>1, <2>1, <3>1, <3>3 DEF register
  <2>3. (clock + d) % W \in 0..(W - 1) /\ clock + d \in Nat
    <3>1. clock \in Nat
      BY <1>0
    <3> QED BY <3>1, DeadlineIs
  <2>4. TypeOK'
    <3>1. count' \in 0..MaxTimers /\ it' \in 1..(count' + 1)
      BY <1>0, <2>1, <2>2 DEF Timers
    <3>2. pc' = "cb" => it' \in Registered'
      BY <1>0, <2>1, <2>2 DEF IInv, TypeOK, Registered
    <3>3. /\ repeat' \in [Timers -> BOOLEAN] /\ ms' \in [Timers -> Delays \cup {0}]
          /\ escape' \in [Timers -> 0..(W - 1)] /\ due' \in [Timers -> Nat]
      BY <2>2, <2>3 DEF IInv, TypeOK
    <3> QED BY <2>2, <3>1, <3>2, <3>3 DEF IInv, TypeOK
  <2>5. Registered' = Registered \cup {i}
    BY <1>0, <2>1, <2>2 DEF Registered
  <2>6. \A j \in Registered : /\ j \in Timers /\ j # i
                              /\ escape'[j] = escape[j] /\ due'[j] = due[j]
                              /\ ms'[j] = ms[j] /\ repeat'[j] = repeat[j]
    BY <1>0, <2>2 DEF Registered, Timers, IInv, TypeOK
  <2>7. escape'[i] = due'[i] % W /\ ms'[i] = d
    BY <2>2 DEF IInv, TypeOK
  <2>8. Deadlines'
    BY <2>2, <2>5, <2>6, <2>7 DEF IInv, Deadlines
  <2>9. pc = "cb" => it \in Registered
    BY DEF IInv, TypeOK
  <2>10. InCallback' /\ NeverEarly'
    BY <2>2, <2>6, <2>9 DEF IInv, InCallback, NeverEarly
  <2>11. OverFlagged'
    BY <2>2, <2>5, <2>6 DEF IInv, OverFlagged
  <2>12. ServedInPass'
    <3>1. \A j \in 1..(it - 1) : j \in Registered
      BY <1>0 DEF Registered
    <3> QED BY <2>2, <2>6, <3>1 DEF IInv, ServedInPass
  <2> QED BY <2>2, <2>4, <2>8, <2>10, <2>11, <2>12 DEF IInv
<1>2. ASSUME NEW i \in Registered, stop(i) PROVE IInv'
  <2>1. /\ del' = [del EXCEPT ![i] = TRUE] /\ over' = over \cup {i} /\ i \in Timers
        /\ UNCHANGED <<clock, count, repeat, ms, escape, it, pc, now, due, last, began>>
    BY <1>0, <1>2 DEF stop, Registered, Timers
  <2>2. TypeOK'
    BY <2>1 DEF IInv, TypeOK, Registered
  <2>3. \A j \in Timers : del[j] => del'[j]
    BY <2>1 DEF IInv, TypeOK
  <2>4. del'[i]
    BY <2>1 DEF IInv, TypeOK
  <2>5. \A j \in Registered : j \in Timers
    BY <1>0 DEF Registered, Timers
  <2>6. OverFlagged'
    BY <1>2, <2>1, <2>3, <2>4, <2>5 DEF IInv, OverFlagged, Registered
  <2>7. ServedInPass'
    <3>1. \A j \in 1..(it - 1) : j \in Timers
      BY <1>0 DEF Timers
    <3> QED BY <2>1, <2>3, <3>1 DEF IInv, ServedInPass
  <2>8. Deadlines' /\ InCallback' /\ NeverEarly'
    BY <2>1 DEF IInv, Deadlines, InCallback, NeverEarly, Registered
  <2> QED BY <2>1, <2>2, <2>6, <2>7, <2>8 DEF IInv
<1> QED BY <1>1, <1>2 DEF UserNext, set_timeout, set_interval

\* The clock and the loop.
LEMMA LoopStep ==
    ASSUME IInv, Tick \/ LoopNext
    PROVE  IInv'
<1> USE DEF perTimer
<1>0. /\ clock \in Start..MaxClock /\ Start \in Nat /\ MaxClock \in Nat
      /\ count \in 0..MaxTimers /\ MaxTimers \in Nat /\ it \in 1..(count + 1)
      /\ began \in Start..MaxClock /\ began <= clock
      /\ last \in [Timers -> 0..MaxClock] /\ due \in [Timers -> Nat]
      /\ W \in Nat /\ W > 0 /\ clock \in Nat /\ began \in Nat
  BY ClockAssumption, TimersAssumption, WidthAssumption DEF IInv, TypeOK
<1>a. \A j \in Registered : j \in Timers /\ j \in Int
  BY <1>0 DEF Registered, Timers
<1>b. pc = "cb" => it \in Registered /\ it \in Timers
  BY <1>a DEF IInv, TypeOK
<1>c. \A j \in 1..(it - 1) : j \in Timers /\ j \in Registered
  BY <1>0 DEF Timers, Registered
<1>1. CASE Tick
  <2>1. /\ clock' = clock + 1 /\ clock < MaxClock
        /\ UNCHANGED <<count, repeat, ms, escape, del, it, pc, now, due, last, over, began>>
    BY <1>1 DEF Tick
  <2>2. TypeOK' /\ began' <= clock'
    BY <1>0, <2>1 DEF IInv, TypeOK, Registered
  <2>3. InCallback'
    BY <1>0, <1>b, <2>1 DEF IInv, InCallback
  <2>4. Deadlines' /\ OverFlagged' /\ NeverEarly'
    BY <2>1 DEF IInv, Deadlines, OverFlagged, NeverEarly, Registered
  <2>5. ServedInPass'
    <3>1. ASSUME NEW i \in Timers, Epoch(clock) > Epoch(due[i]) PROVE Epoch(clock') > Epoch(due[i])
      <4>1. clock' \in Nat /\ clock <= clock' /\ due[i] \in Nat
        BY <1>0, <2>1
      <4>2. Epoch(clock) <= Epoch(clock') /\ Epoch(clock) \in Nat /\ Epoch(clock') \in Nat /\ Epoch(due[i]) \in Nat
        BY <1>0, <4>1, Compared, TimeIs
      <4> QED BY <3>1, <4>2
    <3> QED BY <1>c, <2>1, <3>1 DEF IInv, ServedInPass
  <2> QED BY <2>2, <2>3, <2>4, <2>5 DEF IInv
<1>2. CASE poll \/ next_pass
  <2>1. /\ it' = 1 /\ pc' = "loop" /\ began' = clock /\ pc # "cb"
        /\ UNCHANGED <<clock, count, repeat, ms, escape, del, now, due, last, over>>
    BY <1>2 DEF poll, next_pass
  <2>2. TypeOK' /\ began' <= clock'
    BY <1>0, <2>1 DEF IInv, TypeOK
  <2>3. ServedInPass'
    BY <2>1 DEF ServedInPass
  <2> QED BY <2>1, <2>2, <2>3 DEF IInv, Deadlines, InCallback, OverFlagged,
             NeverEarly, Registered
<1>3. CASE erase \/ not_yet
  <2>1. /\ it' = it + 1 /\ pc = "loop" /\ it \in Registered
        /\ UNCHANGED <<clock, count, repeat, ms, escape, del, pc, now, due, last, over, began>>
    BY <1>3 DEF erase, not_yet, AtTimer
  <2>2. del[it] \/ due[it] > began \/ Epoch(clock) > Epoch(due[it])
    <3>1. CASE erase
      BY <3>1 DEF erase
    <3>2. CASE not_yet
      <4>1. ~(clock % W >= due[it] % W)
        BY <1>0, <2>1, <3>2 DEF not_yet, expired, get_tick_ms, IInv, Deadlines
      <4>2. due[it] \in Nat
        BY <1>0, <1>a, <2>1
      <4>3. due[it] > clock \/ Epoch(clock) > Epoch(due[it])
        BY <1>0, <4>1, <4>2, Compared
      <4> QED BY <1>0, <4>2, <4>3
    <3> QED BY <1>3, <3>1, <3>2
  <2>3. TypeOK' /\ began' <= clock'
    BY <1>0, <2>1 DEF IInv, TypeOK, Registered
  <2>4. \A j \in 1..(it' - 1) : j \in 1..(it - 1) \/ j = it
    BY <1>0, <2>1
  <2>5. ServedInPass'
    BY <2>1, <2>2, <2>4 DEF IInv, ServedInPass
  <2> QED BY <2>1, <2>3, <2>5 DEF IInv, Deadlines, InCallback, OverFlagged,
             NeverEarly, Registered
<1>4. CASE fire
  <2>1. /\ it \in Registered /\ ~del[it] /\ pc = "loop" /\ pc' = "cb"
        /\ now' = (IF repeat[it] THEN clock % W ELSE 0)
        /\ last' = [last EXCEPT ![it] = clock]
        /\ over' = (IF repeat[it] THEN over ELSE over \cup {it})
        /\ clock % W >= due[it] % W /\ it \in Timers
        /\ UNCHANGED <<clock, count, repeat, ms, escape, del, it, due, began>>
    BY <1>0, <1>4, <1>a DEF fire, AtTimer, expired, get_tick_ms, IInv, Deadlines
  <2>2. /\ last'[it] = clock
        /\ \A j \in Timers : j # it => last'[j] = last[j]
        /\ last' \in [Timers -> 0..MaxClock]
    BY <1>0, <2>1
  <2>3. TypeOK' /\ began' <= clock'
    <3>1. clock % W \in 0..(W - 1) /\ 0 \in 0..(W - 1)
      BY <1>0, TimeIs
    <3>2. now' \in 0..(W - 1)
      BY <2>1, <3>1
    <3>3. over' \subseteq Timers
      BY <2>1 DEF IInv, TypeOK
    <3> QED BY <1>0, <2>1, <2>2, <3>2, <3>3 DEF IInv, TypeOK, Registered
  <2>4. InCallback' /\ NeverEarly'
    <3>1. clock >= due[it] \/ Epoch(clock) < Epoch(due[it])
      <4>1. due[it] \in Nat
        BY <1>0, <2>1
      <4> QED BY <1>0, <2>1, <4>1, Compared
    <3> QED BY <1>0, <2>1, <2>2, <3>1 DEF InCallback, NeverEarly
  <2>5. OverFlagged'
    BY <2>1 DEF IInv, OverFlagged, Registered
  <2>6. ServedInPass'
    <3>1. \A j \in 1..(it - 1) : j # it
      BY <1>0
    <3> QED BY <1>c, <2>1, <2>2, <3>1 DEF IInv, ServedInPass
  <2> QED BY <2>1, <2>3, <2>4, <2>5, <2>6 DEF IInv, Deadlines, Registered
<1>5. CASE return_cb
  <2>1. /\ pc = "cb" /\ pc' = "loop" /\ it' = it + 1 /\ now' = 0
        /\ it \in Registered /\ it \in Timers /\ ms[it] \in Delays
        /\ del' = [del EXCEPT ![it] = @ \/ ~repeat[it]]
        /\ UNCHANGED <<clock, count, repeat, ms, last, over, began>>
    BY <1>5, <1>b DEF return_cb, removes, IInv, Deadlines
  <2>2. PICK t : t = last[it]
    OBVIOUS
  <2>3. t \in 0..MaxClock /\ t \in Nat /\ t >= began /\ (repeat[it] => now = t % W)
    BY <1>0, <2>1, <2>2 DEF IInv, InCallback
  <2>4. /\ deadline(t % W, ms[it]) = (t + ms[it]) % W /\ (t + ms[it]) % W \in 0..(W - 1)
        /\ t + ms[it] \in Nat
    BY <2>1, <2>3, DeadlineIs
  <2>5. /\ escape' = IF repeat[it] THEN [escape EXCEPT ![it] = (t + ms[it]) % W] ELSE escape
        /\ due' = IF repeat[it] THEN [due EXCEPT ![it] = t + ms[it]] ELSE due
    BY <1>5, <2>2, <2>3, <2>4 DEF return_cb, rearm
  <2>6. /\ escape' \in [Timers -> 0..(W - 1)] /\ due' \in [Timers -> Nat]
        /\ \A j \in Registered : escape'[j] = due'[j] % W
        /\ \A j \in Timers : j # it => due'[j] = due[j]
    BY <1>a, <2>1, <2>4, <2>5 DEF IInv, TypeOK, Deadlines
  <2>7. /\ del' \in [Timers -> BOOLEAN]
        /\ \A j \in Timers : del[j] => del'[j]
        /\ ~repeat[it] => del'[it]
    BY <2>1 DEF IInv, TypeOK
  <2>8. TypeOK' /\ began' <= clock'
    <3>1. it' \in 1..(count' + 1) /\ 0 \in 0..(W - 1)
      BY <1>0, <2>1 DEF Registered
    <3> QED BY <1>0, <2>1, <2>6, <2>7, <3>1 DEF IInv, TypeOK
  <2>9. Deadlines'
    BY <2>1, <2>6 DEF IInv, Deadlines, Registered
  <2>10. OverFlagged'
    BY <1>a, <2>1, <2>7 DEF IInv, OverFlagged, Registered
  <2>11. ServedInPass'
    <3>1. \A j \in 1..(it' - 1) : (j \in 1..(it - 1) /\ j # it) \/ j = it
      BY <1>0, <2>1
    <3>2. last[it] >= began
      BY <2>2, <2>3
    <3> QED BY <1>c, <2>1, <2>6, <2>7, <3>1, <3>2 DEF IInv, ServedInPass
  <2> QED BY <2>1, <2>8, <2>9, <2>10, <2>11 DEF IInv, InCallback, NeverEarly
<1> QED BY <1>1, <1>2, <1>3, <1>4, <1>5 DEF LoopNext

(* The stored deadlines, the flags and the pass agree (IInv), and so a timer runs
   early only before a wrap of the tick that its deadline lies behind (NeverEarly),
   and a pass leaves a due timer behind only after one since then (ServedInPass). *)
THEOREM Inductive == Spec => []IInv
<1>1. IInv /\ [Next]_vars => IInv'
  <2> SUFFICES ASSUME IInv, [Next]_vars PROVE IInv'
    OBVIOUS
  <2>1. CASE UNCHANGED vars
    BY <2>1 DEF vars, IInv, TypeOK, Deadlines, InCallback, OverFlagged,
                NeverEarly, ServedInPass, Registered
  <2> QED BY <2>1, UserStep, LoopStep DEF Next
<1> QED BY InitInv, <1>1, PTL DEF Spec

THEOREM Early == Spec => []NeverEarly
<1>1. IInv => NeverEarly
  BY DEF IInv
<1> QED BY <1>1, Inductive, PTL

THEOREM Served == Spec => []ServedInPass
<1>1. IInv => ServedInPass
  BY DEF IInv
<1> QED BY <1>1, Inductive, PTL

(* A stopped timer, and a timeout that has run, never runs again (NeverAgain). *)
THEOREM Again == Spec => NeverAgain
<1>1. IInv /\ [Next]_vars =>
        [\A i \in over : it = i /\ pc = "loop" => pc' # "cb"]_vars
  <2> SUFFICES ASSUME IInv, Next, NEW i \in over, it = i, pc = "loop"
               PROVE  pc' # "cb"
    OBVIOUS
  <2>1. del[it]
    BY DEF IInv, OverFlagged
  <2> QED BY <2>1 DEF Next, Tick, UserNext, set_timeout, set_interval, register, stop,
          UserCode, LoopNext, poll, erase, not_yet, fire, return_cb, next_pass
<1> QED BY <1>1, Inductive, PTL DEF Spec, NeverAgain
=============================================================================
