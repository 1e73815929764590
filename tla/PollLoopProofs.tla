---------------------------- MODULE PollLoopProofs ----------------------------
(***************************************************************************)
(* The poll list and the tasks, for any number of them: the inductive       *)
(* invariant, its theorems, and, at the end, that PollLoop implements       *)
(* TaskLife.                                                                *)
(***************************************************************************)
EXTENDS PollLoopRefinement, SequenceTheorems, TLAPS

\* What std::list::erase does to positions: those before k stay, those after
\* it move down by one.
LEMMA RemoveAtProperties ==
    ASSUME NEW S, NEW s \in Seq(S), NEW k \in 1..Len(s)
    PROVE  /\ RemoveAt(s, k) \in Seq(S)
           /\ Len(RemoveAt(s, k)) = Len(s) - 1
           /\ \A i \in 1..(Len(s) - 1) :
                 RemoveAt(s, k)[i] = s[IF i < k THEN i ELSE i + 1]
<1> DEFINE a == SubSeq(s, 1, k - 1)
           b == SubSeq(s, k + 1, Len(s))
<1>0. Len(s) \in Nat /\ k \in Nat /\ k >= 1 /\ k <= Len(s)
  BY LenProperties
<1>1. /\ a \in Seq(S) /\ Len(a) = k - 1
      /\ \A i \in 1..(k - 1) : a[i] = s[i]
  BY <1>0, SubSeqProperties, Z3
<1>2. /\ b \in Seq(S) /\ Len(b) = Len(s) - k
      /\ \A i \in 1..(Len(s) - k) : b[i] = s[k + i]
  BY <1>0, SubSeqProperties, Z3
<1>3. RemoveAt(s, k) = a \o b
  BY DEF RemoveAt
<1> HIDE DEF a, b
<1>4. /\ a \o b \in Seq(S)
      /\ Len(a \o b) = Len(a) + Len(b)
      /\ \A i \in 1..(Len(a) + Len(b)) :
            (a \o b)[i] = IF i <= Len(a) THEN a[i] ELSE b[i - Len(a)]
  BY <1>1, <1>2, ConcatProperties
<1>5. ASSUME NEW i \in 1..(Len(s) - 1)
      PROVE  (a \o b)[i] = s[IF i < k THEN i ELSE i + 1]
  <2>1. CASE i < k
    BY <2>1, <1>0, <1>1, <1>2, <1>4
  <2>2. CASE ~(i < k)
    <3>1. (a \o b)[i] = b[i - (k - 1)]
      BY <2>2, <1>0, <1>1, <1>2, <1>4
    <3>2. i - (k - 1) \in 1..(Len(s) - k) /\ k + (i - (k - 1)) = i + 1
      BY <2>2, <1>0
    <3> QED BY <2>2, <3>1, <3>2, <1>2
  <2> QED BY <2>1, <2>2
<1> QED BY <1>0, <1>1, <1>2, <1>3, <1>4, <1>5

-----------------------------------------------------------------------------
\* Flagging changes no node but its PF_DELETE bit.
LEMMA FlagProperties ==
    ASSUME TypeOK, NEW I
    PROVE  /\ flag(I) \in Seq(PollNode)
           /\ Len(flag(I)) = Len(poll_list)
           /\ DOMAIN flag(I) = Positions
           /\ \A i \in Positions :
                 /\ flag(I)[i].id = poll_list[i].id
                 /\ flag(I)[i].task = poll_list[i].task
                 /\ flag(I)[i].once = poll_list[i].once
                 /\ flag(I)[i].main = poll_list[i].main
                 /\ flag(I)[i].del = (poll_list[i].del \/ i \in I)
<1>1. /\ poll_list \in Seq(PollNode)
      /\ Len(poll_list) \in Nat
      /\ \A i \in Positions : poll_list[i] \in PollNode
  BY LenProperties, ElementOfSeq DEF TypeOK, Positions
<1>2. \A i \in Positions : [poll_list[i] EXCEPT !.del = @ \/ i \in I] \in PollNode
  BY <1>1 DEF PollNode
<1>3. flag(I) \in [1..Len(poll_list) -> PollNode]
  BY <1>2 DEF flag, Positions
<1>4. flag(I) \in Seq(PollNode) /\ Len(flag(I)) = Len(poll_list)
  BY <1>1, <1>3, IsASeq
<1>5. \A i \in Positions : flag(I)[i] = [poll_list[i] EXCEPT !.del = @ \/ i \in I]
  BY DEF flag
<1> QED BY <1>1, <1>3, <1>4, <1>5 DEF PollNode, Positions

\* A new node joins the end of the list and disturbs no other.
LEMMA AppendNode ==
    ASSUME TypeOK, next_id < MaxId, NEW task \in Tasks \cup {NoTask},
           NEW once \in BOOLEAN, NEW main \in BOOLEAN
    PROVE  LET l == Append(poll_list, node(new_id, task, once, main))
           IN  /\ l \in Seq(PollNode)
               /\ Len(l) = Len(poll_list) + 1
               /\ \A i \in Positions : l[i] = poll_list[i]
               /\ l[Len(poll_list) + 1] = node(new_id, task, once, main)
<1>1. node(new_id, task, once, main) \in PollNode
  BY MaxIdAssumption DEF TypeOK, node, new_id, PollNode
<1> QED BY <1>1, AppendProperties DEF TypeOK, Positions

-----------------------------------------------------------------------------
LEMMA InitType == Init => TypeOK
  BY EmptySeq, MaxIdAssumption DEF Init, TypeOK, Positions

LEMMA NextType == TypeOK /\ [Next]_vars => TypeOK'
<1> SUFFICES ASSUME TypeOK, [Next]_vars PROVE TypeOK'
  OBVIOUS
<1> USE DEF TypeOK, loopVars, taskVars
<1>0. Len(poll_list) \in Nat
  BY LenProperties
<1>1. ASSUME NEW once \in BOOLEAN, register(once) PROVE TypeOK'
  <2>1. new_id \in 1..MaxId
    BY <1>1, MaxIdAssumption DEF register, new_id
  <2>2. /\ poll_list' \in Seq(PollNode)
        /\ Len(poll_list') = Len(poll_list) + 1
    BY <1>1, AppendNode DEF register
  <2>3. next_id' = new_id /\ UNCHANGED <<it, pc, current_task, served, task_id, run>>
    BY <1>1 DEF register
  <2> QED BY <1>0, <2>1, <2>2, <2>3 DEF Positions
<1>2. ASSUME NEW id \in 1..MaxId, remove(id) PROVE TypeOK'
  BY <1>2, FlagProperties DEF remove, Positions
<1>3. ASSUME NEW t \in Tasks, start_task(t) PROVE TypeOK'
  <2>1. new_id \in 1..MaxId
    BY <1>3, MaxIdAssumption DEF start_task, new_id
  <2>2. /\ poll_list' \in Seq(PollNode)
        /\ Len(poll_list') = Len(poll_list) + 1
    BY <1>3, AppendNode DEF start_task
  <2>3. task_id' \in [Tasks -> 0..MaxId]
    BY <1>3, <2>1 DEF start_task
  <2>4. next_id' = new_id /\ UNCHANGED <<it, pc, current_task, served, run>>
    BY <1>3 DEF start_task
  <2> QED BY <1>0, <2>1, <2>2, <2>3, <2>4 DEF Positions
<1>4. ASSUME NEW t \in Tasks, terminal(t) PROVE TypeOK'
  BY <1>4, FlagProperties DEF terminal, Positions
<1>15. ASSUME NEW typed, cmd_kill(typed) PROVE TypeOK'
  BY <1>15, FlagProperties DEF cmd_kill, Positions
<1>16. ASSUME NEW named, cmd_killall(named) PROVE TypeOK'
  BY <1>16, FlagProperties DEF cmd_killall, Positions
<1>5. CASE poll
  BY <1>5 DEF poll, Positions
<1>6. CASE erase
  <2>1. it \in 1..Len(poll_list)
    BY <1>6 DEF erase, AtNode, Positions
  <2>2. /\ poll_list' \in Seq(PollNode)
        /\ Len(poll_list') = Len(poll_list) - 1
    BY <1>6, <2>1, RemoveAtProperties DEF erase
  <2>3. pc = "loop"
    BY <1>6 DEF erase, AtNode
  <2> QED BY <1>0, <1>6, <2>1, <2>2, <2>3 DEF erase, next_after_erase, Positions
<1>7. AtNode => Item \in PollNode
  BY ElementOfSeq DEF AtNode, Item, Positions
<1>8. CASE call_user
  BY <1>7, <1>8 DEF call_user, AtNode, Item, owner, PollNode, Positions
<1>9. CASE main_init
  BY <1>7, <1>9 DEF main_init, AtNode, Item, owner, PollNode, Positions
<1>10. CASE main_scan
  <2>1. poll_list' = poll_list \/ poll_list' = flag({it})
    BY <1>10 DEF main_scan
  <2>2. poll_list' \in Seq(PollNode) /\ Len(poll_list') = Len(poll_list)
    BY <2>1, FlagProperties
  <2>3. run' \in [Tasks -> BOOLEAN]
    BY <1>10 DEF main_scan
  <2>4. pc = "loop" /\ it \in Positions
    BY <1>10 DEF main_scan, MainVisit, AtNode
  <2>5. /\ it' = it + 1
        /\ served' = served \cup {Item.id}
        /\ UNCHANGED <<next_id, pc, current_task, task_id>>
    BY <1>10 DEF main_scan, next_after_call
  <2>6. Item.id \in 1..MaxId
    BY <1>7, <2>4 DEF AtNode, PollNode
  <2>7. it' \in 1..(Len(poll_list') + 1)
    BY <1>0, <2>2, <2>4, <2>5 DEF Positions
  <2>8. served' \subseteq 1..MaxId
    BY <2>5, <2>6
  <2> QED BY <2>2, <2>3, <2>4, <2>5, <2>7, <2>8 DEF Positions
<1>11. CASE return_cb
  <2>1. poll_list' \in Seq(PollNode) /\ Len(poll_list') = Len(poll_list)
    BY <1>11, FlagProperties DEF return_cb
  <2> QED BY <1>0, <1>11, <2>1 DEF return_cb, next_after_call, Positions
<1>12. CASE next_pass
  BY <1>0, <1>12 DEF next_pass, Positions
<1>13. CASE null_deref
  BY <1>13 DEF null_deref
<1>14. CASE UNCHANGED vars
  BY <1>14 DEF vars, Positions
<1> QED BY <1>1, <1>2, <1>3, <1>4, <1>5, <1>6, <1>8, <1>9, <1>10, <1>11, <1>12,
           <1>13, <1>14, <1>15, <1>16 DEF Next, UserNext, LoopNext, set_poll, set_once

\* Every variable keeps its type for any set of tasks, any bound on the ids
\* and both modes; poll()'s iterator always stands on a node or at end().
THEOREM TypeCorrect == Spec => []TypeOK
  BY InitType, NextType, PTL DEF Spec

-----------------------------------------------------------------------------
(***************************************************************************)
(* The shape of the list: every step appends one node with a new id, flags  *)
(* some nodes, erases the one at the iterator, or leaves the list alone.    *)
(***************************************************************************)
NoChange == UNCHANGED <<poll_list, next_id, task_id>>

Flags(I) == poll_list' = flag(I) /\ UNCHANGED <<next_id, task_id>>

Erases == /\ it \in Positions
          /\ poll_list' = RemoveAt(poll_list, it)
          /\ UNCHANGED <<next_id, task_id>>

AppendsPoll(task, once) ==
    /\ next_id < MaxId
    /\ poll_list' = Append(poll_list, node(new_id, task, once, FALSE))
    /\ next_id' = new_id
    /\ UNCHANGED task_id

AppendsMain(t) ==
    /\ next_id < MaxId
    /\ poll_list' = Append(poll_list, node(new_id, t, FALSE, TRUE))
    /\ next_id' = new_id
    /\ task_id' = [task_id EXCEPT ![t] = new_id]

LEMMA ListStep ==
    ASSUME TypeOK, [Next]_vars
    PROVE  \/ NoChange
           \/ \E I : Flags(I)
           \/ Erases
           \/ \E task \in Tasks \cup {NoTask}, once \in BOOLEAN : AppendsPoll(task, once)
           \/ \E t \in Tasks : AppendsMain(t)
<1> USE DEF loopVars, taskVars
<1>1. ASSUME NEW once \in BOOLEAN, register(once)
      PROVE  \E task \in Tasks \cup {NoTask} : AppendsPoll(task, once)
  BY <1>1 DEF register, AppendsPoll, TypeOK
<1>2. ASSUME NEW id \in 1..MaxId, remove(id) PROVE \E I : Flags(I)
  BY <1>2 DEF remove, Flags
<1>3. ASSUME NEW t \in Tasks, start_task(t) PROVE AppendsMain(t)
  BY <1>3 DEF start_task, AppendsMain
<1>4. ASSUME NEW t \in Tasks, terminal(t) PROVE \E I : Flags(I)
  BY <1>4 DEF terminal, Flags
<1>15. ASSUME NEW typed, cmd_kill(typed) PROVE \E I : Flags(I)
  BY <1>15 DEF cmd_kill, Flags
<1>16. ASSUME NEW named, cmd_killall(named) PROVE \E I : Flags(I)
  BY <1>16 DEF cmd_killall, Flags
<1>5. CASE poll
  BY <1>5 DEF poll, NoChange
<1>6. CASE erase
  BY <1>6 DEF erase, AtNode, Erases
<1>7. CASE call_user
  BY <1>7 DEF call_user, NoChange
<1>8. CASE main_init
  BY <1>8 DEF main_init, NoChange
<1>9. CASE main_scan
  BY <1>9 DEF main_scan, NoChange, Flags
<1>10. CASE return_cb
  BY <1>10 DEF return_cb, Flags
<1>11. CASE next_pass
  BY <1>11 DEF next_pass, NoChange
<1>12. CASE null_deref
  BY <1>12 DEF null_deref, NoChange
<1>13. CASE UNCHANGED vars
  BY <1>13 DEF vars, NoChange
<1> QED BY <1>1, <1>2, <1>3, <1>4, <1>5, <1>6, <1>7, <1>8, <1>9, <1>10, <1>11,
           <1>12, <1>13, <1>15, <1>16 DEF Next, UserNext, LoopNext, set_poll, set_once

\* The same three steps, position by position.
Grows(id, task, once, main) ==
    LET n == Len(poll_list) + 1
    IN  /\ Positions' = Positions \cup {n} /\ n \in Nat
        /\ \A i \in Positions : i < n /\ poll_list'[i] = poll_list[i]
        /\ poll_list'[n].id = id /\ poll_list'[n].task = task
        /\ poll_list'[n].once = once /\ poll_list'[n].main = main
        /\ ~poll_list'[n].del

LEMMA AppendGrows ==
    ASSUME TypeOK, next_id < MaxId, NEW task \in Tasks \cup {NoTask},
           NEW once \in BOOLEAN, NEW main \in BOOLEAN,
           poll_list' = Append(poll_list, node(new_id, task, once, main))
    PROVE  Grows(next_id + 1, task, once, main)
<1>1. Len(poll_list) \in Nat
  BY LenProperties DEF TypeOK
<1>2. /\ Len(poll_list') = Len(poll_list) + 1
      /\ \A i \in Positions : poll_list'[i] = poll_list[i]
      /\ poll_list'[Len(poll_list) + 1] = node(new_id, task, once, main)
  BY AppendNode
<1>3. Positions' = Positions \cup {Len(poll_list) + 1}
  BY <1>1, <1>2 DEF Positions
<1>4. \A i \in Positions : i < Len(poll_list) + 1
  BY <1>1 DEF Positions
<1>5. LET n == poll_list'[Len(poll_list) + 1]
      IN  /\ n.id = next_id + 1 /\ n.task = task
          /\ n.once = once /\ n.main = main /\ ~n.del
  BY <1>2 DEF node, new_id
<1>6. Len(poll_list) + 1 \in Nat
  BY <1>1
<1> QED BY <1>2, <1>3, <1>4, <1>5, <1>6 DEF Grows

\* Where the node at position i of the list after an erasure was before it.
before(i) == IF i < it THEN i ELSE i + 1

LEMMA EraseShrinks ==
    ASSUME TypeOK, it \in Positions, poll_list' = RemoveAt(poll_list, it)
    PROVE  /\ \A i \in Positions' : /\ before(i) \in Positions \ {it}
                                    /\ poll_list'[i] = poll_list[before(i)]
           /\ \A i, j \in Positions' : i < j => before(i) < before(j)
           /\ \A k \in Positions \ {it} : \E i \in Positions' : before(i) = k
<1>1. Len(poll_list) \in Nat /\ it \in 1..Len(poll_list)
  BY LenProperties DEF TypeOK, Positions
<1>2. /\ Positions' = 1..(Len(poll_list) - 1)
      /\ \A i \in Positions' : poll_list'[i] = poll_list[before(i)]
  BY <1>1, RemoveAtProperties DEF TypeOK, Positions, before
<1>3. \A i \in Positions' : before(i) \in Positions \ {it}
  BY <1>1, <1>2 DEF Positions, before
<1>4. \A i, j \in Positions' : i < j => before(i) < before(j)
  BY <1>1, <1>2 DEF before
<1>5. ASSUME NEW k \in Positions \ {it} PROVE \E i \in Positions' : before(i) = k
  <2>1. CASE k < it
    BY <1>1, <1>2, <2>1 DEF Positions, before
  <2>2. CASE k > it
    <3>1. k - 1 \in Positions' /\ before(k - 1) = k
      BY <1>1, <1>2, <2>2 DEF Positions, before
    <3> QED BY <3>1
  <2> QED BY <1>1, <2>1, <2>2 DEF Positions
<1> QED BY <1>2, <1>3, <1>4, <1>5

-----------------------------------------------------------------------------
Newest == poll_list'[Len(poll_list) + 1]

LEMMA GrowsListInv ==
    ASSUME TypeOK, ListInv, NEW task, NEW once, NEW main,
           Grows(next_id + 1, task, once, main),
           Newest.main => task \in Tasks /\ ~Newest.once,
           next_id' = next_id + 1,
           \A u \in Tasks : \/ task_id'[u] = task_id[u]
                            \/ task_id'[u] = next_id + 1 /\ Newest.main /\ task = u
    PROVE  ListInv'
<1> DEFINE n == Len(poll_list) + 1
<1>0. /\ next_id \in Nat
      /\ \A i \in Positions : poll_list[i].id \in Nat
      /\ \A t \in Tasks : task_id[t] \in Nat
  <2>1. \A i \in Positions : poll_list[i] \in PollNode
    BY ElementOfSeq DEF TypeOK, Positions
  <2>2. \A i \in Positions : poll_list[i].id \in Nat
    BY <2>1, MaxIdAssumption DEF PollNode
  <2> QED BY <2>2, MaxIdAssumption DEF TypeOK
<1>1. /\ Positions' = Positions \cup {n}
      /\ \A i \in Positions : i < n /\ poll_list'[i] = poll_list[i]
      /\ poll_list'[n].id = next_id + 1
      /\ poll_list'[n].task = task
  BY DEF Grows
<1>2. n \in Nat /\ \A i \in Positions : i \in Nat /\ ~(n < i)
  BY <1>1 DEF Grows, Positions
<1>3. /\ \A i \in Positions : poll_list[i].id <= next_id
      /\ \A t \in Tasks : task_id[t] <= next_id
  BY DEF ListInv, IdsIssued
<1> HIDE DEF n
<1>5. IdOrder'
  <2> SUFFICES ASSUME NEW i \in Positions', NEW j \in Positions', i < j
               PROVE  poll_list'[i].id < poll_list'[j].id
    BY DEF IdOrder
  <2>1. i \in Positions
    BY <1>1, <1>2
  <2>2. CASE j \in Positions
    BY <1>1, <2>1, <2>2 DEF ListInv, IdOrder
  <2>3. CASE j = n
    BY <1>0, <1>1, <1>3, <2>1, <2>3
  <2> QED BY <1>1, <2>2, <2>3
<1>6. IdsIssued'
  BY <1>0, <1>1, <1>3 DEF IdsIssued
<1>7. MainNodes'
  BY <1>1 DEF ListInv, MainNodes, Newest, n
<1>8. TaskIds'
  <2> SUFFICES ASSUME NEW i \in Positions', NEW t \in Tasks,
                      poll_list'[i].id = task_id'[t]
               PROVE  poll_list'[i].main /\ poll_list'[i].task = t
    BY DEF TaskIds
  <2>1. CASE i \in Positions
    <3>1. poll_list'[i] = poll_list[i] /\ poll_list[i].id # next_id + 1
      BY <1>0, <1>1, <1>3, <2>1
    <3>2. task_id'[t] = task_id[t]
      BY <3>1
    <3> QED BY <2>1, <3>1, <3>2 DEF ListInv, TaskIds
  <2>2. CASE i = n
    <3>1. task_id[t] # next_id + 1
      BY <1>0, <1>3
    <3> QED BY <1>1, <2>2, <3>1 DEF Newest, n
  <2> QED BY <1>1, <2>1, <2>2
<1> QED BY <1>5, <1>6, <1>7, <1>8 DEF ListInv

LEMMA NextListInv ==
    ASSUME TypeOK, ListInv, [Next]_vars
    PROVE  ListInv'
<1>1. CASE NoChange
  BY <1>1 DEF NoChange, Positions, ListInv, IdOrder, IdsIssued, MainNodes, TaskIds
<1>2. ASSUME NEW I, Flags(I) PROVE ListInv'
  <2>1. Positions' = Positions
    BY <1>2, FlagProperties DEF Flags, Positions
  <2> QED BY <1>2, <2>1, FlagProperties
          DEF Flags, ListInv, IdOrder, IdsIssued, MainNodes, TaskIds
<1>3. CASE Erases
  <2>1. /\ \A i \in Positions' : /\ before(i) \in Positions
                                 /\ poll_list'[i] = poll_list[before(i)]
        /\ \A i, j \in Positions' : i < j => before(i) < before(j)
        /\ next_id' = next_id /\ task_id' = task_id
    BY <1>3, EraseShrinks DEF Erases
  <2>2. IdOrder' /\ IdsIssued'
    BY <2>1 DEF ListInv, IdOrder, IdsIssued
  <2>3. MainNodes' /\ TaskIds'
    BY <2>1 DEF ListInv, MainNodes, TaskIds
  <2> QED BY <2>2, <2>3 DEF ListInv
<1>4. ASSUME NEW task \in Tasks \cup {NoTask}, NEW once \in BOOLEAN,
             AppendsPoll(task, once)
      PROVE  ListInv'
  <2>1. Grows(next_id + 1, task, once, FALSE)
    BY <1>4, AppendGrows DEF AppendsPoll
  <2>2. next_id' = next_id + 1 /\ task_id' = task_id
    BY <1>4 DEF AppendsPoll, new_id
  <2>3. ~Newest.main
    BY <2>1 DEF Grows, Newest
  <2> QED BY <2>1, <2>2, <2>3, GrowsListInv
<1>5. ASSUME NEW t \in Tasks, AppendsMain(t) PROVE ListInv'
  <2>1. Grows(next_id + 1, t, FALSE, TRUE)
    BY <1>5, AppendGrows DEF AppendsMain
  <2>2. next_id' = next_id + 1 /\ task_id' = [task_id EXCEPT ![t] = next_id + 1]
    BY <1>5 DEF AppendsMain, new_id
  <2>3. Newest.main /\ ~Newest.once
    BY <2>1 DEF Grows, Newest
  <2>4. \A u \in Tasks : \/ task_id'[u] = task_id[u]
                         \/ task_id'[u] = next_id + 1 /\ Newest.main /\ t = u
    BY <2>3, <2>2 DEF TypeOK
  <2>5. PICK once, main : Grows(next_id + 1, t, once, main)
    BY <2>1
  <2>6. next_id' = next_id + 1
    BY <2>2
  <2> QED BY <2>3, <2>4, <2>5, <2>6, GrowsListInv
<1> QED BY <1>1, <1>2, <1>3, <1>4, <1>5, ListStep

-----------------------------------------------------------------------------
(***************************************************************************)
(* The life of the tasks.  Each lemma takes one way the list changes.       *)
(***************************************************************************)
TasksInv == NoOrphanPoll /\ RestartReady /\ InitFirst

MainsKept == \A u \in Tasks : HasMain(u) => HasMain(u)'

LEMMA NodeTypes ==
    ASSUME TypeOK
    PROVE  \A i \in Positions : /\ poll_list[i].task \in Tasks \cup {NoTask}
                                /\ poll_list[i].id \in Nat \ {0}
                                /\ poll_list[i].main \in BOOLEAN
                                /\ poll_list[i].once \in BOOLEAN
                                /\ poll_list[i].del \in BOOLEAN
<1>1. \A i \in Positions : poll_list[i] \in PollNode
  BY ElementOfSeq DEF TypeOK, Positions
<1> QED BY <1>1, MaxIdAssumption DEF PollNode

\* A step that leaves the list, the task ids and _run alone.
LEMMA SameLife ==
    ASSUME TypeOK, TasksInv, NoChange, run' = run
    PROVE  TasksInv' /\ MainsKept
<1>1. /\ Positions' = Positions
      /\ \A u \in Tasks : HasMain(u)' <=> HasMain(u)
  BY DEF NoChange, Positions, HasMain, MainAt, LiveAt
<1>2. \A i \in Positions : poll_list[i].task # NoTask => poll_list[i].task \in Tasks
  BY NodeTypes
<1>3. NoOrphanPoll'
  BY <1>1, <1>2 DEF NoChange, TasksInv, NoOrphanPoll, LiveAt
<1>4. RestartReady'
  BY <1>1 DEF TasksInv, RestartReady
<1>5. InitFirst'
  BY <1>1 DEF NoChange, TasksInv, InitFirst, LiveAt
<1> QED BY <1>1, <1>3, <1>4, <1>5 DEF TasksInv, MainsKept

\* Flagging nodes other than main nodes.
LEMMA FlagsLife ==
    ASSUME TypeOK, TasksInv, NEW I, Flags(I), run' = run,
           \A i \in Positions, u \in Tasks : MainAt(i, u) => i \notin I
    PROVE  TasksInv' /\ MainsKept
<1>1. /\ Positions' = Positions
      /\ \A i \in Positions :
            /\ poll_list'[i].id = poll_list[i].id
            /\ poll_list'[i].task = poll_list[i].task
            /\ poll_list'[i].main = poll_list[i].main
            /\ poll_list'[i].del = (poll_list[i].del \/ i \in I)
  BY FlagProperties DEF Flags, Positions
<1>2. task_id' = task_id
  BY DEF Flags
<1>3. ASSUME NEW u \in Tasks, HasMain(u) PROVE HasMain(u)'
  <2>1. PICK i \in Positions : MainAt(i, u)
    BY <1>3 DEF HasMain
  <2>2. MainAt(i, u)'
    BY <1>1, <1>2, <2>1 DEF MainAt, LiveAt
  <2> QED BY <1>1, <2>2 DEF HasMain
<1>4. \A i \in Positions' : LiveAt(i)' => LiveAt(i)
  BY <1>1 DEF LiveAt
<1>5. \A i \in Positions : poll_list[i].task # NoTask => poll_list[i].task \in Tasks
  BY NodeTypes
<1>6. NoOrphanPoll'
  BY <1>1, <1>3, <1>4, <1>5 DEF TasksInv, NoOrphanPoll
<1>7. RestartReady'
  BY <1>3 DEF TasksInv, RestartReady
<1>8. InitFirst'
  BY <1>1, <1>4 DEF TasksInv, InitFirst
<1> QED BY <1>3, <1>6, <1>7, <1>8 DEF TasksInv, MainsKept

\* The identifier that cmd_kill looks for belongs to no main node.
LEMMA NoMainHasIdZero ==
    ASSUME TypeOK
    PROVE  \A x : \A i \in Positions, u \in Tasks : MainAt(i, u) => task_id[u] # killed_id(x)
  BY NodeTypes DEF MainAt, killed_id

\* Erasing a flagged node.
LEMMA EraseLife ==
    ASSUME TypeOK, TasksInv, Erases, poll_list[it].del, run' = run
    PROVE  TasksInv' /\ MainsKept
<1>1. /\ \A i \in Positions' : /\ before(i) \in Positions
                               /\ poll_list'[i] = poll_list[before(i)]
      /\ \A k \in Positions \ {it} : \E i \in Positions' : before(i) = k
      /\ task_id' = task_id
  BY EraseShrinks DEF Erases
<1>2. ASSUME NEW u \in Tasks, HasMain(u) PROVE HasMain(u)'
  <2>1. PICK k \in Positions : MainAt(k, u)
    BY <1>2 DEF HasMain
  <2>2. k # it
    BY <2>1 DEF MainAt, LiveAt
  <2>3. PICK i \in Positions' : before(i) = k
    BY <1>1, <2>2
  <2>4. MainAt(i, u)'
    BY <1>1, <2>1, <2>3 DEF MainAt, LiveAt
  <2> QED BY <2>4 DEF HasMain
<1>3. \A i \in Positions' : LiveAt(i)' => LiveAt(before(i))
  BY <1>1 DEF LiveAt
<1>4. \A i \in Positions : poll_list[i].task # NoTask => poll_list[i].task \in Tasks
  BY NodeTypes
<1>5. NoOrphanPoll'
  BY <1>1, <1>2, <1>3, <1>4 DEF TasksInv, NoOrphanPoll
<1>6. RestartReady'
  BY <1>2 DEF TasksInv, RestartReady
<1>7. InitFirst'
  BY <1>1, <1>3 DEF TasksInv, InitFirst
<1> QED BY <1>2, <1>5, <1>6, <1>7 DEF TasksInv, MainsKept

\* A new callback of no task, or of a task that runs and has its main node.
LEMMA PollLife ==
    ASSUME TypeOK, TasksInv, NEW task \in Tasks \cup {NoTask}, NEW once,
           Grows(next_id + 1, task, once, FALSE),
           task # NoTask => run[task] /\ HasMain(task),
           task_id' = task_id, run' = run
    PROVE  TasksInv' /\ MainsKept
<1> DEFINE n == Len(poll_list) + 1
<1>1. /\ Positions' = Positions \cup {n}
      /\ \A i \in Positions : poll_list'[i] = poll_list[i]
      /\ poll_list'[n].task = task
  BY DEF Grows
<1> HIDE DEF n
<1>2. ASSUME NEW u \in Tasks, HasMain(u) PROVE HasMain(u)'
  <2>1. PICK i \in Positions : MainAt(i, u)
    BY <1>2 DEF HasMain
  <2>2. MainAt(i, u)'
    BY <1>1, <2>1 DEF MainAt, LiveAt
  <2> QED BY <1>1, <2>2 DEF HasMain
<1>3. \A i \in Positions : LiveAt(i)' => LiveAt(i)
  BY <1>1 DEF LiveAt
<1>4. \A i \in Positions : poll_list[i].task # NoTask => poll_list[i].task \in Tasks
  BY NodeTypes
<1>5. NoOrphanPoll'
  BY <1>1, <1>2, <1>3, <1>4 DEF TasksInv, NoOrphanPoll
<1>6. RestartReady'
  BY <1>2 DEF TasksInv, RestartReady
<1>7. InitFirst'
  BY <1>1, <1>3 DEF TasksInv, InitFirst
<1> QED BY <1>2, <1>5, <1>6, <1>7 DEF TasksInv, MainsKept

\* A new main node, named by the task's new task id.
LEMMA MainLife ==
    ASSUME TypeOK, TasksInv, NEW t \in Tasks,
           Grows(next_id + 1, t, FALSE, TRUE),
           task_id'[t] = next_id + 1,
           \A u \in Tasks \ {t} : task_id'[u] = task_id[u],
           run' = run
    PROVE  TasksInv' /\ MainsKept
<1>0. PICK n : n = Len(poll_list) + 1
  OBVIOUS
<1>1. /\ Positions' = Positions \cup {n}
      /\ \A i \in Positions : poll_list'[i] = poll_list[i]
      /\ poll_list'[n].task = t
      /\ poll_list'[n].id = next_id + 1
      /\ poll_list'[n].main
      /\ ~poll_list'[n].del
  BY <1>0 DEF Grows
<1>2. HasMain(t)'
  <2>1. MainAt(n, t)'
    BY <1>1 DEF MainAt, LiveAt
  <2> QED BY <1>1, <2>1 DEF HasMain
<1>3. ASSUME NEW u \in Tasks, HasMain(u) PROVE HasMain(u)'
  <2>1. CASE u = t
    BY <1>2, <2>1
  <2>2. CASE u # t
    <3>1. PICK i \in Positions : MainAt(i, u)
      BY <1>3 DEF HasMain
    <3>2. MainAt(i, u)'
      BY <1>1, <2>2, <3>1 DEF MainAt, LiveAt
    <3> QED BY <1>1, <3>2 DEF HasMain
  <2> QED BY <2>1, <2>2
<1>4. \A i \in Positions : LiveAt(i)' => LiveAt(i)
  BY <1>1 DEF LiveAt
<1>5. \A i \in Positions : poll_list[i].task # NoTask => poll_list[i].task \in Tasks
  BY NodeTypes
<1>6. NoOrphanPoll'
  BY <1>1, <1>2, <1>3, <1>4, <1>5 DEF TasksInv, NoOrphanPoll
<1>7. RestartReady'
  BY <1>3 DEF TasksInv, RestartReady
<1>8. InitFirst'
  BY <1>1, <1>4 DEF TasksInv, InitFirst
<1> QED BY <1>3, <1>6, <1>7, <1>8 DEF TasksInv, MainsKept

\* The last visit of a main node: nothing of its task is left but the node
\* itself, and it is the one that task_id names.
LEMMA FinishLife ==
    ASSUME TypeOK, ListInv, TasksInv, NEW t \in Tasks,
           it \in Positions, Item.main, Item.task = t, ~Item.del,
           ~ \E i \in Positions : keeps_alive(poll_list[i], t),
           Flags({it}), run' = [run EXCEPT ![t] = FALSE]
    PROVE  TasksInv'
<1>1. /\ Positions' = Positions
      /\ \A i \in Positions :
            /\ poll_list'[i].id = poll_list[i].id
            /\ poll_list'[i].task = poll_list[i].task
            /\ poll_list'[i].main = poll_list[i].main
            /\ poll_list'[i].del = (poll_list[i].del \/ i \in {it})
  BY FlagProperties DEF Flags, Positions
<1>2. task_id' = task_id /\ t # NoTask
  BY TaskAssumption DEF Flags
<1>3. \A i \in Positions : poll_list[i].task # NoTask => poll_list[i].task \in Tasks
  BY NodeTypes
<1>4. \A i \in Positions :
        poll_list[i].task = t /\ LiveAt(i) => poll_list[i].id = task_id[t]
  BY <1>2 DEF keeps_alive, is_sub, LiveAt
<1>5. \A i \in Positions : poll_list[i].id = Item.id => i = it
  <2>1. \A i \in Positions : poll_list[i].id \in Nat
    BY NodeTypes
  <2>2. \A i \in Positions : i < it \/ i = it \/ it < i
    BY DEF Positions, TypeOK
  <2> QED BY <2>1, <2>2 DEF ListInv, IdOrder, Item
<1>6. \A i \in Positions' : poll_list'[i].task = t => ~LiveAt(i)'
  <2> SUFFICES ASSUME NEW i \in Positions', poll_list'[i].task = t, LiveAt(i)' PROVE FALSE
    OBVIOUS
  <2>1. i \in Positions /\ poll_list[i].task = t /\ LiveAt(i) /\ i # it
    BY <1>1 DEF LiveAt
  <2>2. poll_list[i].id = task_id[t]
    BY <1>4, <2>1
  <2> QED BY <1>4, <1>5, <2>1, <2>2 DEF LiveAt, Item
<1>7. ASSUME NEW u \in Tasks \ {t}, HasMain(u) PROVE HasMain(u)'
  <2>1. PICK i \in Positions : MainAt(i, u)
    BY <1>7 DEF HasMain
  <2>2. i # it
    BY <1>7, <2>1 DEF MainAt, Item
  <2>3. MainAt(i, u)'
    BY <1>1, <1>2, <2>1, <2>2 DEF MainAt, LiveAt
  <2> QED BY <1>1, <2>3 DEF HasMain
<1>8. \A u \in Tasks \ {t} : run'[u] = run[u]
  OBVIOUS
<1>9. ~run'[t]
  BY DEF TypeOK
<1>10. \A i \in Positions' : LiveAt(i)' => LiveAt(i)
  BY <1>1 DEF LiveAt
<1>11. NoOrphanPoll'
  BY <1>1, <1>3, <1>6, <1>7, <1>10 DEF TasksInv, NoOrphanPoll
<1>12. RestartReady'
  BY <1>7, <1>8, <1>9 DEF TasksInv, RestartReady
<1>13. InitFirst'
  BY <1>1, <1>3, <1>6, <1>8, <1>10 DEF TasksInv, InitFirst
<1> QED BY <1>11, <1>12, <1>13 DEF TasksInv

LEMMA NextLifeInv ==
    ASSUME TypeOK, ListInv, LifeInv, [Next]_vars
    PROVE  LifeInv'
<1> SUFFICES TasksInv' /\ RunsAsLiveTask' /\ LoopHasNoTask'
  BY DEF LifeInv, TasksInv
<1>a. TasksInv /\ RunsAsLiveTask /\ LoopHasNoTask
  BY DEF LifeInv, TasksInv
<1> USE DEF loopVars, taskVars
<1>0. current_task = NoTask \/ current_task \in Tasks
  BY DEF TypeOK
\* Steps within main() or a callback keep current_task, _run and pc.
<1>b. ASSUME TasksInv', MainsKept, UNCHANGED <<run, current_task, pc>>
      PROVE  TasksInv' /\ RunsAsLiveTask' /\ LoopHasNoTask'
  BY <1>0, <1>a, <1>b DEF MainsKept, RunsAsLiveTask, LoopHasNoTask
\* Steps that leave poll() in its loop run as no task afterwards.
<1>c. ASSUME TasksInv', current_task' = NoTask
      PROVE  TasksInv' /\ RunsAsLiveTask' /\ LoopHasNoTask'
  BY <1>c DEF RunsAsLiveTask, LoopHasNoTask
<1>1. ASSUME NEW once \in BOOLEAN, register(once)
      PROVE  TasksInv' /\ RunsAsLiveTask' /\ LoopHasNoTask'
  <2>1. Grows(next_id + 1, current_task, once, FALSE)
    BY <1>1, AppendGrows DEF register, TypeOK
  <2>2. UNCHANGED <<task_id, run, current_task, pc>>
    BY <1>1 DEF register
  <2>3. current_task \in Tasks \cup {NoTask}
    BY DEF TypeOK
  <2>4. TasksInv' /\ MainsKept
    BY <1>a, <2>1, <2>2, <2>3, PollLife DEF RunsAsLiveTask
  <2> QED BY <1>b, <2>2, <2>4
<1>2. ASSUME NEW id \in 1..MaxId, remove(id)
      PROVE  TasksInv' /\ RunsAsLiveTask' /\ LoopHasNoTask'
  <2>1. PICK k \in Positions : poll_list[k].id = id /\ is_handle(poll_list[k])
    BY <1>2 DEF remove
  <2>2. PICK I : I = {i \in Positions : poll_list[i].id = id}
    OBVIOUS
  <2>3. Flags(I) /\ UNCHANGED <<run, current_task, pc>>
    BY <1>2, <2>2 DEF remove, Flags
  <2>4. \A i \in Positions, u \in Tasks : MainAt(i, u) => i \notin I
    BY <2>1, <2>2 DEF MainAt, is_handle, ListInv, TaskIds
  <2>5. TasksInv' /\ MainsKept
    BY <1>a, <2>3, <2>4, FlagsLife
  <2> QED BY <1>b, <2>3, <2>5
<1>3. ASSUME NEW t \in Tasks, start_task(t)
      PROVE  TasksInv' /\ RunsAsLiveTask' /\ LoopHasNoTask'
  <2>1. Grows(next_id + 1, t, FALSE, TRUE)
    BY <1>3, AppendGrows DEF start_task
  <2>2. UNCHANGED <<run, current_task, pc>>
    BY <1>3 DEF start_task
  <2>3. task_id'[t] = next_id + 1 /\ \A u \in Tasks \ {t} : task_id'[u] = task_id[u]
    BY <1>3 DEF start_task, new_id, TypeOK
  <2>4. TasksInv' /\ MainsKept
    BY <1>a, <2>1, <2>2, <2>3, MainLife
  <2> QED BY <1>b, <2>2, <2>4
<1>4. ASSUME NEW t \in Tasks, terminal(t)
      PROVE  TasksInv' /\ RunsAsLiveTask' /\ LoopHasNoTask'
  <2>1. PICK I : I = {i \in Positions : is_sub(poll_list[i], t)}
    OBVIOUS
  <2>2. Flags(I) /\ UNCHANGED <<run, current_task, pc>>
    BY <1>4, <2>1 DEF terminal, Flags
  <2>3. \A i \in Positions, u \in Tasks : MainAt(i, u) => i \notin I
    BY <2>1 DEF MainAt, is_sub
  <2>4. TasksInv' /\ MainsKept
    BY <1>a, <2>2, <2>3, FlagsLife
  <2> QED BY <1>b, <2>2, <2>4
<1>15. ASSUME NEW typed, cmd_kill(typed)
      PROVE  TasksInv' /\ RunsAsLiveTask' /\ LoopHasNoTask'
  <2>1. PICK I : I = {i \in Positions : /\ poll_list[i].task # NoTask
                                        /\ task_id[poll_list[i].task] = killed_id(typed)}
    OBVIOUS
  <2>2. Flags(I) /\ UNCHANGED <<run, current_task, pc>>
    BY <1>15, <2>1 DEF cmd_kill, Flags
  <2>3. \A i \in Positions, u \in Tasks : MainAt(i, u) => i \notin I
    BY <2>1, NoMainHasIdZero DEF MainAt
  <2>4. TasksInv' /\ MainsKept
    BY <1>a, <2>2, <2>3, FlagsLife
  <2> QED BY <1>b, <2>2, <2>4
<1>16. ASSUME NEW named, cmd_killall(named)
      PROVE  TasksInv' /\ RunsAsLiveTask' /\ LoopHasNoTask'
  <2>1. PICK I : I = {i \in Positions : /\ poll_list[i].task \in named
                                        /\ poll_list[i].id # task_id[poll_list[i].task]}
    OBVIOUS
  <2>2. Flags(I) /\ UNCHANGED <<run, current_task, pc>>
    BY <1>16, <2>1 DEF cmd_killall, Flags
  <2>3. \A i \in Positions, u \in Tasks : MainAt(i, u) => i \notin I
    BY <2>1 DEF MainAt
  <2>4. TasksInv' /\ MainsKept
    BY <1>a, <2>2, <2>3, FlagsLife
  <2> QED BY <1>b, <2>2, <2>4
<1>5. CASE poll
  <2>1. NoChange /\ UNCHANGED <<run, current_task>> /\ pc = "main"
    BY <1>5 DEF poll, NoChange
  <2>2. TasksInv' /\ MainsKept
    BY <1>a, <2>1, SameLife
  <2> QED BY <1>a, <1>c, <2>1, <2>2 DEF LoopHasNoTask
<1>6. CASE erase
  <2>1. /\ Erases /\ poll_list[it].del
        /\ UNCHANGED <<run, current_task>> /\ pc = "loop"
    BY <1>6 DEF erase, AtNode, Erases, Item
  <2>2. TasksInv' /\ MainsKept
    BY <1>a, <2>1, EraseLife
  <2> QED BY <1>a, <1>c, <2>1, <2>2 DEF LoopHasNoTask
<1>7. CASE call_user
  <2>1. /\ NoChange /\ run' = run /\ pc' = "cb" /\ current_task' = Item.task
        /\ it \in Positions /\ LiveAt(it) /\ ~Item.main
    BY <1>7 DEF call_user, NoChange, AtNode, owner, LiveAt, Item
  <2>2. TasksInv' /\ MainsKept
    BY <1>a, <2>1, SameLife
  <2>3. Item.task # NoTask => /\ Item.task \in Tasks
                              /\ run[Item.task] /\ HasMain(Item.task)
    BY <1>a, <2>1, NodeTypes DEF Item, TasksInv, NoOrphanPoll, InitFirst
  <2> QED BY <2>1, <2>2, <2>3 DEF RunsAsLiveTask, LoopHasNoTask, MainsKept
<1>8. CASE main_init
  <2>1. PICK t : t = Item.task
    OBVIOUS
  <2>2. /\ NoChange /\ run' = [run EXCEPT ![t] = TRUE] /\ pc' = "cb"
        /\ current_task' = t
        /\ it \in Positions /\ LiveAt(it) /\ Item.main
    BY <1>8, <2>1 DEF main_init, NoChange, AtNode, owner, LiveAt, Item
  <2>3. t \in Tasks /\ t # NoTask
    BY <2>1, <2>2, TaskAssumption DEF Item, ListInv, MainNodes
  <2>4. HasMain(t)
    BY <1>a, <2>1, <2>2, <2>3 DEF Item, TasksInv, NoOrphanPoll
  <2>5. \A u \in Tasks : HasMain(u)' <=> HasMain(u)
    BY <2>2 DEF NoChange, Positions, HasMain, MainAt, LiveAt
  <2>6. \A u \in Tasks : run'[u] <=> run[u] \/ u = t
    BY <2>2, <2>3 DEF TypeOK
  <2>7. \A i \in Positions : poll_list[i].task # NoTask => poll_list[i].task \in Tasks
    BY NodeTypes
  <2>8. NoOrphanPoll'
    BY <1>a, <2>2, <2>5, <2>7 DEF NoChange, Positions, TasksInv, NoOrphanPoll, LiveAt
  <2>9. RestartReady'
    BY <1>a, <2>4, <2>5, <2>6 DEF TasksInv, RestartReady
  <2>10. InitFirst'
    BY <1>a, <2>2, <2>6, <2>7 DEF NoChange, Positions, TasksInv, InitFirst, LiveAt
  <2>11. RunsAsLiveTask'
    BY <2>2, <2>3, <2>4, <2>5, <2>6 DEF RunsAsLiveTask
  <2> QED BY <2>2, <2>8, <2>9, <2>10, <2>11 DEF TasksInv, LoopHasNoTask
<1>9. CASE main_scan
  <2>1. PICK t : t = Item.task
    OBVIOUS
  <2>2. /\ it \in Positions /\ Item.main /\ ~Item.del /\ pc = "loop"
        /\ UNCHANGED <<next_id, task_id, current_task>>
    BY <1>9 DEF main_scan, MainVisit, AtNode
  <2>3. t \in Tasks
    BY <2>1, <2>2 DEF Item, ListInv, MainNodes
  <2>4. CASE \E i \in Positions : keeps_alive(poll_list[i], t)
    <3>1. NoChange /\ run' = run
      BY <1>9, <2>1, <2>2, <2>4 DEF main_scan, NoChange
    <3> QED BY <1>a, <1>c, <2>2, <3>1, SameLife DEF LoopHasNoTask
  <2>5. CASE ~ \E i \in Positions : keeps_alive(poll_list[i], t)
    <3>1. Flags({it}) /\ run' = [run EXCEPT ![t] = FALSE]
      BY <1>9, <2>1, <2>2, <2>5 DEF main_scan, Flags
    <3>2. TasksInv'
      BY <1>a, <2>1, <2>2, <2>3, <2>5, <3>1, FinishLife
    <3> QED BY <1>a, <1>c, <2>2, <3>2 DEF LoopHasNoTask
  <2> QED BY <2>4, <2>5
<1>10. CASE return_cb
  <2>1. PICK I : I = IF expires(Item) THEN {it} ELSE {}
    OBVIOUS
  <2>2. Flags(I) /\ run' = run /\ current_task' = NoTask
    BY <1>10, <2>1 DEF return_cb, Flags
  <2>3. \A i \in Positions, u \in Tasks : MainAt(i, u) => i \notin I
    BY <2>1 DEF MainAt, expires, Item, ListInv, MainNodes
  <2>4. TasksInv'
    BY <1>a, <2>2, <2>3, FlagsLife
  <2> QED BY <1>c, <2>2, <2>4
<1>11. CASE next_pass
  <2>1. NoChange /\ UNCHANGED <<run, current_task, pc>>
    BY <1>11 DEF next_pass, NoChange
  <2> QED BY <1>a, <1>b, <2>1, SameLife
<1>12. CASE null_deref
  <2>1. NoChange /\ UNCHANGED <<run, current_task>> /\ pc' = "fault"
    BY <1>12 DEF null_deref, NoChange
  <2>2. TasksInv' /\ MainsKept
    BY <1>a, <2>1, SameLife
  <2> QED BY <1>0, <1>a, <2>1, <2>2 DEF MainsKept, RunsAsLiveTask, LoopHasNoTask
<1>13. CASE UNCHANGED vars
  <2>1. NoChange /\ UNCHANGED <<run, current_task, pc>>
    BY <1>13 DEF vars, NoChange
  <2> QED BY <1>a, <1>b, <2>1, SameLife
<1> QED BY <1>1, <1>2, <1>3, <1>4, <1>5, <1>6, <1>7, <1>8, <1>9, <1>10, <1>11,
           <1>12, <1>13, <1>15, <1>16 DEF Next, UserNext, LoopNext, set_poll, set_once

-----------------------------------------------------------------------------
LEMMA InitIInv == Init => IInv
<1> SUFFICES ASSUME Init PROVE IInv
  OBVIOUS
<1>1. Positions = {}
  BY DEF Init, Positions
<1>2. TypeOK
  BY InitType
<1>3. ListInv
  BY <1>1 DEF Init, ListInv, IdOrder, IdsIssued, MainNodes, TaskIds
<1>4. LifeInv
  BY <1>1 DEF Init, LifeInv, NoOrphanPoll, RestartReady, RunsAsLiveTask,
              InitFirst, LoopHasNoTask
<1> QED BY <1>2, <1>3, <1>4 DEF IInv

\* The inductive invariant: whatever callbacks do to the list while poll()
\* walks it, ids stay unique and in order, and every task's _run, task_id and
\* nodes agree.
THEOREM Inductive == Spec => []IInv
<1>1. IInv /\ [Next]_vars => IInv'
  BY NextType, NextListInv, NextLifeInv DEF IInv
<1> QED BY <1>1, InitIInv, PTL DEF Spec

\* For any number of tasks, and with callbacks of main() and restarts too: a
\* live callback of a task always has the task's live main node beside it.
THEOREM NoOrphan == Spec => []NoOrphanPoll
<1>1. IInv => NoOrphanPoll
  BY DEF IInv, LifeInv
<1> QED BY <1>1, Inductive, PTL

\* A task whose main node is gone has _run cleared: it can be started again.
THEOREM CanRestart == Spec => []RestartReady
<1>1. IInv => RestartReady
  BY DEF IInv, LifeInv
<1> QED BY <1>1, Inductive, PTL

\* User code runs as no task or as one that was initialised and has not ended.
THEOREM RunsAsLive == Spec => []RunsAsLiveTask
<1>1. IInv => RunsAsLiveTask
  BY DEF IInv, LifeInv
<1> QED BY <1>1, Inductive, PTL

-----------------------------------------------------------------------------
(***************************************************************************)
(* If main() registers no callback of its own before poll(), every node has *)
(* a task, and no scan can meet a null one.                                 *)
(***************************************************************************)
AllOwned == /\ \A i \in Positions : ~NullAt(i)
            /\ pc = "cb" => current_task # NoTask
            /\ NoNullDeref

LEMMA NextAllOwned ==
    ASSUME ~RootPolls, TypeOK, AllOwned, [Next]_vars
    PROVE  AllOwned'
<1> USE DEF loopVars, taskVars
<1>1. ASSUME NoChange, UNCHANGED <<pc, current_task>> PROVE AllOwned'
  BY <1>1 DEF NoChange, AllOwned, NullAt, NoNullDeref, Positions
<1>2. ASSUME NEW I, Flags(I) PROVE \A i \in Positions' : ~NullAt(i)'
  <2>1. Positions' = Positions
    BY <1>2, FlagProperties DEF Flags, Positions
  <2> QED BY <1>2, <2>1, FlagProperties DEF Flags, AllOwned, NullAt
<1>3. ASSUME NEW task \in Tasks, NEW once, NEW main,
             Grows(next_id + 1, task, once, main)
      PROVE  \A i \in Positions' : ~NullAt(i)'
  BY <1>3, TaskAssumption DEF Grows, AllOwned, NullAt
<1>4. ASSUME NEW once \in BOOLEAN, register(once) PROVE AllOwned'
  <2>1. UNCHANGED <<pc, current_task>> /\ pc = "cb"
    BY <1>4 DEF register, UserCode
  <2>2. current_task \in Tasks
    BY <2>1 DEF AllOwned, TypeOK
  <2>3. Grows(next_id + 1, current_task, once, FALSE)
    BY <1>4, <2>2, AppendGrows DEF register
  <2> QED BY <1>3, <2>1, <2>2, <2>3 DEF AllOwned, NoNullDeref
<1>5. ASSUME NEW id \in 1..MaxId, remove(id) PROVE AllOwned'
  <2>1. (\E I : Flags(I)) /\ UNCHANGED <<pc, current_task>>
    BY <1>5 DEF remove, Flags
  <2> QED BY <1>2, <2>1 DEF AllOwned, NoNullDeref
<1>6. ASSUME NEW t \in Tasks, start_task(t) PROVE AllOwned'
  <2>1. Grows(next_id + 1, t, FALSE, TRUE)
    BY <1>6, AppendGrows DEF start_task
  <2>2. UNCHANGED <<pc, current_task>>
    BY <1>6 DEF start_task
  <2> QED BY <1>3, <2>1, <2>2 DEF AllOwned, NoNullDeref
<1>17. ASSUME \/ \E typed \in 1..MaxId : cmd_kill(typed)
              \/ \E named \in SUBSET Tasks : cmd_killall(named)
       PROVE  AllOwned'
  <2>1. (\E I : Flags(I)) /\ UNCHANGED <<pc, current_task>>
    BY <1>17 DEF cmd_kill, cmd_killall, Flags
  <2> QED BY <1>2, <2>1 DEF AllOwned, NoNullDeref
<1>7. ASSUME NEW t \in Tasks, terminal(t) PROVE AllOwned'
  <2>1. (\E I : Flags(I)) /\ UNCHANGED <<pc, current_task>>
    BY <1>7 DEF terminal, Flags
  <2> QED BY <1>2, <2>1 DEF AllOwned, NoNullDeref
<1>8. CASE poll
  BY <1>8 DEF poll, AllOwned, NullAt, NoNullDeref, Positions
<1>9. CASE erase
  <2>1. Erases /\ UNCHANGED <<pc, current_task>>
    BY <1>9 DEF erase, Erases, AtNode
  <2>2. \A i \in Positions' : ~NullAt(i)'
    BY <2>1, EraseShrinks DEF Erases, AllOwned, NullAt
  <2> QED BY <2>1, <2>2 DEF AllOwned, NoNullDeref
<1>10. CASE call_user
  BY <1>10 DEF call_user, AtNode, owner, Item, AllOwned, NullAt, NoNullDeref, Positions
<1>11. CASE main_init
  BY <1>11 DEF main_init, AtNode, owner, Item, AllOwned, NullAt, NoNullDeref, Positions
<1>12. CASE main_scan
  <2>1. (\A i \in Positions' : ~NullAt(i)') /\ pc' = "loop"
    <3>1. poll_list' = poll_list \/ Flags({it})
      BY <1>12 DEF main_scan, Flags
    <3> QED BY <1>2, <1>12, <3>1
            DEF main_scan, MainVisit, AtNode, AllOwned, NullAt, Positions
  <2> QED BY <2>1 DEF AllOwned, NoNullDeref
<1>13. CASE return_cb
  <2>1. (\E I : Flags(I)) /\ pc' = "loop"
    BY <1>13 DEF return_cb, Flags
  <2> QED BY <1>2, <2>1 DEF AllOwned, NoNullDeref
<1>14. CASE next_pass
  BY <1>1, <1>14 DEF next_pass, NoChange
<1>15. ~null_deref
  BY DEF null_deref, scan_meets_null, AllOwned
<1>16. CASE UNCHANGED vars
  BY <1>1, <1>16 DEF vars, NoChange
<1> QED BY <1>4, <1>5, <1>6, <1>7, <1>8, <1>9, <1>10, <1>11, <1>12, <1>13, <1>14,
           <1>15, <1>16, <1>17 DEF Next, UserNext, LoopNext, set_poll, set_once

\* A program whose main() only starts tasks never dereferences a null task.
THEOREM NullFree == ASSUME ~RootPolls PROVE Spec => []NoNullDeref
<1>1. Init => AllOwned
  BY DEF Init, AllOwned, NoNullDeref, Positions
<1>2. TypeOK /\ AllOwned /\ [Next]_vars => AllOwned'
  BY NextAllOwned
<1>3. AllOwned => NoNullDeref
  BY DEF AllOwned
<1> QED BY <1>1, <1>2, <1>3, TypeCorrect, PTL DEF Spec

-----------------------------------------------------------------------------
(***************************************************************************)
(* A pass calls every node once.                                            *)
(***************************************************************************)
ServedIssued == \A id \in served : id <= next_id

\* Position i has been called in this pass.
Behind(i) == i < it \/ (i = it /\ pc = "cb")

PassInv == PassServesAll /\ ServedIssued

LEMMA NextPassInv ==
    ASSUME TypeOK, ListInv, PassInv, [Next]_vars
    PROVE  PassInv'
<1> USE DEF loopVars, taskVars
<1>0. /\ next_id \in Nat /\ it \in Nat /\ Positions \subseteq Nat
      /\ \A i \in Positions : poll_list[i].id \in Nat
      /\ \A i \in Positions : poll_list[i].id <= next_id
      /\ \A id \in served : id \in Nat /\ id <= next_id
  <2>1. next_id \in Nat /\ it \in Nat /\ Positions \subseteq Nat
    BY MaxIdAssumption, LenProperties DEF TypeOK, Positions
  <2>2. \A i \in Positions : poll_list[i].id \in Nat /\ poll_list[i].id <= next_id
    BY NodeTypes DEF ListInv, IdsIssued
  <2>3. \A id \in served : id \in Nat /\ id <= next_id
    BY MaxIdAssumption DEF TypeOK, PassInv, ServedIssued
  <2> QED BY <2>1, <2>2, <2>3
<1>a. pc # "fault" => \A i \in Positions : (poll_list[i].id \in served) <=> Behind(i)
  BY DEF PassInv, PassServesAll, Behind
<1>b. \A i, j \in Positions : poll_list[i].id = poll_list[j].id => i = j
  <2>1. \A i, j \in Positions : i < j \/ i = j \/ j < i
    BY <1>0
  <2> QED BY <1>0, <2>1 DEF ListInv, IdOrder
<1>1. ASSUME \/ NoChange
             \/ \E I : Flags(I),
             UNCHANGED <<served, it, pc>>
      PROVE  PassInv'
  <2>1. /\ Positions' = Positions /\ next_id' = next_id
        /\ \A i \in Positions : poll_list'[i].id = poll_list[i].id
    BY <1>1, FlagProperties DEF NoChange, Flags, Positions
  <2> QED BY <1>1, <2>1 DEF PassInv, PassServesAll, ServedIssued
<1>2. ASSUME NEW task, NEW once, NEW main,
             Grows(next_id + 1, task, once, main), next_id' = next_id + 1,
             UNCHANGED <<served, it, pc>>, UserCode
      PROVE  PassInv'
  <2>1. PICK n : n = Len(poll_list) + 1
    OBVIOUS
  <2>2. /\ Positions' = Positions \cup {n} /\ n \in Nat
        /\ \A i \in Positions : i < n /\ poll_list'[i] = poll_list[i]
        /\ poll_list'[n].id = next_id + 1
    BY <1>2, <2>1 DEF Grows
  <2>3. next_id + 1 \notin served
    BY <1>0
  <2>4. ~(n < it) /\ ~(n = it /\ pc = "cb")
    BY <1>0, <2>1, <2>2 DEF TypeOK
  <2>5. PassServesAll'
    BY <1>2, <1>a, <2>2, <2>3, <2>4 DEF PassServesAll, Behind
  <2>6. ServedIssued'
    BY <1>0, <1>2 DEF ServedIssued
  <2> QED BY <2>5, <2>6 DEF PassInv
<1>3. ASSUME NEW once \in BOOLEAN, register(once) PROVE PassInv'
  <2>1. Grows(next_id + 1, current_task, once, FALSE)
    BY <1>3, AppendGrows DEF register, TypeOK
  <2>2. next_id' = next_id + 1 /\ UNCHANGED <<served, it, pc>> /\ UserCode
    BY <1>3 DEF register, new_id
  <2> QED BY <1>2, <2>1, <2>2
<1>4. ASSUME NEW id \in 1..MaxId, remove(id) PROVE PassInv'
  BY <1>1, <1>4 DEF remove, Flags
<1>5. ASSUME NEW t \in Tasks, start_task(t) PROVE PassInv'
  <2>1. Grows(next_id + 1, t, FALSE, TRUE)
    BY <1>5, AppendGrows DEF start_task
  <2>2. next_id' = next_id + 1 /\ UNCHANGED <<served, it, pc>> /\ UserCode
    BY <1>5 DEF start_task, new_id
  <2> QED BY <1>2, <2>1, <2>2
<1>6. ASSUME NEW t \in Tasks, terminal(t) PROVE PassInv'
  BY <1>1, <1>6 DEF terminal, Flags
<1>17. ASSUME NEW typed, cmd_kill(typed) PROVE PassInv'
  BY <1>1, <1>17 DEF cmd_kill, Flags
<1>18. ASSUME NEW named, cmd_killall(named) PROVE PassInv'
  BY <1>1, <1>18 DEF cmd_killall, Flags
<1>7. CASE poll
  BY <1>7 DEF poll, PassInv, PassServesAll, ServedIssued, Positions
<1>8. CASE erase
  <2>1. /\ pc = "loop" /\ it \in Positions
        /\ poll_list' = RemoveAt(poll_list, it)
        /\ UNCHANGED <<it, pc, served, next_id>>
    BY <1>8 DEF erase, AtNode, next_after_erase
  <2>2. \A i \in Positions' : /\ before(i) \in Positions \ {it}
                              /\ poll_list'[i] = poll_list[before(i)]
    BY <2>1, EraseShrinks
  <2>3. \A i \in Positions' : i \in Nat
    BY DEF Positions
  <2>4. \A i \in Positions' : before(i) < it <=> i < it
    BY <1>0, <2>3 DEF before
  <2>5. PassServesAll'
    BY <1>a, <2>1, <2>2, <2>4 DEF PassServesAll, Behind
  <2> QED BY <2>1, <2>5 DEF PassInv, ServedIssued
<1>9. ASSUME it \in Positions, pc = "loop", served' = served \cup {Item.id},
             next_id' = next_id, Positions' = Positions,
             \A i \in Positions : poll_list'[i].id = poll_list[i].id,
             \/ it' = it /\ pc' = "cb"
             \/ it' = it + 1 /\ pc' = "loop"
      PROVE  PassInv'
  <2>1. \A i \in Positions : poll_list[i].id \in served' <=> Behind(i) \/ i = it
    BY <1>9, <1>a, <1>b DEF Item
  <2>2. \A i \in Positions : Behind(i)' <=> Behind(i) \/ i = it
    BY <1>0, <1>9 DEF Behind
  <2>3. PassServesAll'
    BY <1>9, <2>1, <2>2 DEF PassServesAll, Behind
  <2>4. ServedIssued'
    BY <1>0, <1>9 DEF ServedIssued, Item
  <2> QED BY <2>3, <2>4 DEF PassInv
<1>10. CASE call_user
  BY <1>9, <1>10 DEF call_user, AtNode, Positions
<1>11. CASE main_init
  BY <1>9, <1>11 DEF main_init, AtNode, Positions
<1>12. CASE main_scan
  <2>1. poll_list' = poll_list \/ poll_list' = flag({it})
    BY <1>12 DEF main_scan
  <2>2. /\ Positions' = Positions
        /\ \A i \in Positions : poll_list'[i].id = poll_list[i].id
    BY <2>1, FlagProperties DEF Positions
  <2>3. /\ it \in Positions /\ pc = "loop" /\ served' = served \cup {Item.id}
        /\ next_id' = next_id /\ it' = it + 1 /\ pc' = "loop"
    BY <1>12 DEF main_scan, MainVisit, AtNode, next_after_call
  <2> QED BY <1>9, <2>2, <2>3
<1>13. CASE return_cb
  <2>1. \E I : poll_list' = flag(I)
    BY <1>13 DEF return_cb
  <2>2. /\ Positions' = Positions
        /\ \A i \in Positions : poll_list'[i].id = poll_list[i].id
    BY <2>1, FlagProperties DEF Positions
  <2>3. /\ pc = "cb" /\ pc' = "loop" /\ it' = it + 1
        /\ UNCHANGED <<served, next_id>>
    BY <1>13 DEF return_cb, next_after_call
  <2>4. \A i \in Positions : Behind(i)' <=> Behind(i)
    BY <1>0, <2>3 DEF Behind
  <2>5. PassServesAll'
    BY <1>a, <2>2, <2>3, <2>4 DEF PassServesAll, Behind
  <2> QED BY <2>3, <2>5 DEF PassInv, ServedIssued
<1>14. CASE next_pass
  <2>1. served' = {} /\ it' = 1 /\ pc' = "loop" /\ poll_list' = poll_list
    BY <1>14 DEF next_pass
  <2>2. \A i \in Positions' : ~(i < 1)
    BY DEF Positions
  <2> QED BY <2>1, <2>2 DEF PassInv, PassServesAll, ServedIssued
<1>15. CASE null_deref
  BY <1>15 DEF null_deref, PassInv, PassServesAll, ServedIssued
<1>16. CASE UNCHANGED vars
  BY <1>1, <1>16 DEF vars, NoChange
<1> QED BY <1>3, <1>4, <1>5, <1>6, <1>7, <1>8, <1>10, <1>11, <1>12, <1>13, <1>14,
           <1>15, <1>16, <1>17, <1>18 DEF Next, UserNext, LoopNext, set_poll, set_once

\* Each pass of poll() calls each node of the list exactly once, for any number
\* of nodes registered, flagged and erased while the pass is under way.
THEOREM PassServes == Spec => []PassServesAll
<1>1. Init => PassInv
  BY DEF Init, PassInv, PassServesAll, ServedIssued, Positions
<1>2. IInv /\ PassInv /\ [Next]_vars => PassInv'
  BY NextPassInv DEF IInv
<1>3. PassInv => PassServesAll
  BY DEF PassInv
<1> QED BY <1>1, <1>2, <1>3, Inductive, PTL DEF Spec

-----------------------------------------------------------------------------
(***************************************************************************)
(* PollLoop implements TaskLife: the initial states correspond, and every   *)
(* step of the scheduler is a step of the life cycle or a stutter.          *)
(***************************************************************************)
\* Membership in the abstract state, node by node.
Owns(t, i) == LiveAt(i) /\ poll_list[i].task = t /\ poll_list[i].id # task_id[t]

LEMMA WorkDef ==
    \A t \in Tasks : work[t] = {poll_list[i].id : i \in {j \in Positions : Owns(t, j)}}
  BY DEF work, Owns

LEMMA WorkMember ==
    ASSUME NEW t \in Tasks, NEW x
    PROVE  x \in work[t] <=> \E i \in Positions : Owns(t, i) /\ poll_list[i].id = x
  BY DEF work, Owns

LEMMA UniqueIds ==
    ASSUME TypeOK, ListInv
    PROVE  \A i, j \in Positions : poll_list[i].id = poll_list[j].id => i = j
<1>1. \A i, j \in Positions : i < j \/ i = j \/ j < i
  BY DEF Positions
<1>2. \A i \in Positions : poll_list[i].id \in Nat
  BY NodeTypes
<1> QED BY <1>1, <1>2 DEF ListInv, IdOrder

\* A live node of t other than its main node is what the scans look for: two
\* tasks with a live node never share a task id.
LEMMA SubsAreWork ==
    ASSUME TypeOK, ListInv, LifeInv, NEW t \in Tasks, NEW i \in Positions, LiveAt(i)
    PROVE  is_sub(poll_list[i], t) <=> Owns(t, i)
<1>1. CASE poll_list[i].task = NoTask
  BY <1>1, TaskAssumption DEF is_sub, Owns
<1>2. CASE poll_list[i].task # NoTask
  <2>1. PICK u \in Tasks : u = poll_list[i].task
    BY <1>2, NodeTypes
  <2>2. PICK k \in Positions : MainAt(k, u)
    BY <1>2, <2>1 DEF LifeInv, NoOrphanPoll, HasMain
  <2>3. task_id[u] = task_id[t] => u = t
    BY <2>2 DEF MainAt, ListInv, TaskIds
  <2> QED BY <1>2, <2>1, <2>3 DEF is_sub, Owns
<1> QED BY <1>1, <1>2

\* Positions and abstract state after a step that keeps the main nodes.
LEMMA PhaseValue ==
    \A t \in Tasks : phase[t] = IF ~HasMain(t) THEN "idle"
                                ELSE IF run[t] THEN "running" ELSE "started"
  BY DEF phase

-----------------------------------------------------------------------------
LEMMA InitRefines == Init => Life!Init
<1> SUFFICES ASSUME Init PROVE Life!Init
  OBVIOUS
<1>1. Positions = {}
  BY DEF Init, Positions
<1>2. phase = [t \in Tasks |-> "idle"]
  BY <1>1 DEF phase, HasMain
<1>3. work = [t \in Tasks |-> {}]
  BY <1>1 DEF work
<1> QED BY <1>2, <1>3 DEF Init, Life!Init

LEMMA SameStutters ==
    ASSUME NoChange, run' = run
    PROVE  UNCHANGED Life!vars
  BY DEF NoChange, Life!vars, phase, work, HasMain, MainAt, LiveAt, Positions

\* Flagging nodes, none of them a main node, drops work.
LEMMA FlagsRefine ==
    ASSUME TypeOK, ListInv, NEW I, Flags(I), run' = run,
           \A i \in Positions, u \in Tasks : MainAt(i, u) => i \notin I
    PROVE  Life!Next
<1> DEFINE S == {poll_list[i].id : i \in {j \in Positions :
                                            j \in I /\ \E u \in Tasks : Owns(u, j)}}
<1>1. /\ Positions' = Positions /\ task_id' = task_id /\ next_id' = next_id
      /\ \A i \in Positions :
            /\ poll_list'[i].id = poll_list[i].id
            /\ poll_list'[i].task = poll_list[i].task
            /\ poll_list'[i].main = poll_list[i].main
            /\ poll_list'[i].del = (poll_list[i].del \/ i \in I)
  BY FlagProperties DEF Flags, Positions
<1>2. \A u \in Tasks, i \in Positions : MainAt(i, u)' <=> MainAt(i, u)
  BY <1>1 DEF MainAt, LiveAt
<1>3. phase' = phase
  <2>1. \A u \in Tasks : HasMain(u)' <=> HasMain(u)
    BY <1>1, <1>2 DEF HasMain
  <2> QED BY <2>1 DEF phase
<1>4. \A u \in Tasks, i \in Positions : Owns(u, i)' <=> Owns(u, i) /\ i \notin I
  BY <1>1 DEF Owns, LiveAt
<1>5. ASSUME NEW x PROVE x \in S <=> \E i \in Positions : /\ i \in I
                                                        /\ \E u \in Tasks : Owns(u, i)
                                                        /\ poll_list[i].id = x
  OBVIOUS
<1>6. S \subseteq UNION {work[u] : u \in Tasks}
  <2>1. ASSUME NEW x \in S PROVE \E u \in Tasks : x \in work[u]
    BY <1>5, WorkMember
  <2> QED BY <2>1
<1> HIDE DEF S
<1>7. ASSUME NEW t \in Tasks PROVE work'[t] = work[t] \ S
  <2>1. ASSUME NEW x PROVE x \in work'[t] <=> x \in work[t] /\ x \notin S
    <3>1. x \in work'[t] <=> \E i \in Positions : Owns(t, i)' /\ poll_list'[i].id = x
      BY <1>1 DEF work, Owns
    <3>2. x \in work[t] <=> \E i \in Positions : Owns(t, i) /\ poll_list[i].id = x
      BY WorkMember
    <3> QED BY <1>1, <1>4, <1>5, <3>1, <3>2, UniqueIds
  <2> QED BY <2>1
<1>8. work' = [t \in Tasks |-> work[t] \ S]
  <2>1. work' = [u \in Tasks |-> work'[u]]
    BY DEF work
  <2> QED BY <1>7, <2>1
<1>9. Life!Drop(S)
  BY <1>1, <1>3, <1>8 DEF Life!Drop
<1> QED BY <1>6, <1>9 DEF Life!Next

\* Erasing a flagged node is invisible.
LEMMA EraseStutters ==
    ASSUME TypeOK, Erases, poll_list[it].del, run' = run
    PROVE  UNCHANGED Life!vars
<1>1. /\ \A i \in Positions' : /\ before(i) \in Positions \ {it}
                               /\ poll_list'[i] = poll_list[before(i)]
      /\ \A k \in Positions \ {it} : \E i \in Positions' : before(i) = k
      /\ task_id' = task_id /\ next_id' = next_id
  BY EraseShrinks DEF Erases
<1>2. ~LiveAt(it)
  BY DEF LiveAt
<1>3. phase' = phase
  <2>1. \A u \in Tasks, i \in Positions' : MainAt(i, u)' <=> MainAt(before(i), u)
    BY <1>1 DEF MainAt, LiveAt
  <2>2. \A u \in Tasks : ~MainAt(it, u)
    BY <1>2 DEF MainAt
  <2>3. \A u \in Tasks : HasMain(u)' <=> HasMain(u)
    BY <1>1, <2>1, <2>2 DEF HasMain
  <2> QED BY <2>3 DEF phase
<1>4. work' = work
  <2>1. \A u \in Tasks, i \in Positions' : Owns(u, i)' <=> Owns(u, before(i))
    BY <1>1 DEF Owns, LiveAt
  <2>2. \A u \in Tasks : ~Owns(u, it)
    BY <1>2 DEF Owns
  <2>3. ASSUME NEW u \in Tasks PROVE work'[u] = work[u]
    <3>1. ASSUME NEW x PROVE x \in work'[u] <=> x \in work[u]
      <4>1. x \in work'[u] <=> \E i \in Positions' : Owns(u, i)' /\ poll_list'[i].id = x
        BY DEF work, Owns
      <4>2. x \in work[u] <=> \E i \in Positions : Owns(u, i) /\ poll_list[i].id = x
        BY WorkMember
      <4> QED BY <1>1, <2>1, <2>2, <4>1, <4>2
    <3> QED BY <3>1
  <2>4. work = [u \in Tasks |-> work[u]] /\ work' = [u \in Tasks |-> work'[u]]
    BY DEF work
  <2> QED BY <2>3, <2>4
<1> QED BY <1>1, <1>3, <1>4 DEF Life!vars

\* set_poll and set_once: the running task gets one more piece of work, or
\* main() registers a callback of no task.
LEMMA PollRefines ==
    ASSUME TypeOK, ListInv, LifeInv, NEW once,
           Grows(next_id + 1, current_task, once, FALSE),
           next_id' = next_id + 1, task_id' = task_id, run' = run
    PROVE  Life!Next
<1>0. PICK n : n = Len(poll_list) + 1
  OBVIOUS
<1>1. /\ Positions' = Positions \cup {n}
      /\ \A i \in Positions : poll_list'[i] = poll_list[i]
      /\ poll_list'[n].id = next_id + 1 /\ poll_list'[n].task = current_task
      /\ ~poll_list'[n].main /\ ~poll_list'[n].del
  BY <1>0 DEF Grows
<1>2. phase' = phase
  <2>1. \A u \in Tasks : ~MainAt(n, u)'
    BY <1>1 DEF MainAt
  <2>2. \A u \in Tasks, i \in Positions : MainAt(i, u)' <=> MainAt(i, u)
    BY <1>1 DEF MainAt, LiveAt
  <2>3. \A u \in Tasks : HasMain(u)' <=> HasMain(u)
    BY <1>1, <2>1, <2>2 DEF HasMain
  <2> QED BY <2>3 DEF phase
<1>3. \A u \in Tasks : task_id[u] # next_id + 1
  <2>1. \A u \in Tasks : task_id[u] \in Nat /\ task_id[u] <= next_id /\ next_id \in Nat
    BY MaxIdAssumption DEF TypeOK, ListInv, IdsIssued
  <2> QED BY <2>1
<1>4. \A u \in Tasks, i \in Positions : Owns(u, i)' <=> Owns(u, i)
  BY <1>1 DEF Owns, LiveAt
<1>5. \A u \in Tasks : Owns(u, n)' <=> u = current_task
  BY <1>1, <1>3 DEF Owns, LiveAt
<1>6. ASSUME NEW u \in Tasks, NEW x
      PROVE  x \in work'[u] <=> x \in work[u] \/ (u = current_task /\ x = next_id + 1)
  <2>1. x \in work'[u] <=> \E i \in Positions' : Owns(u, i)' /\ poll_list'[i].id = x
    BY DEF work, Owns
  <2>2. x \in work[u] <=> \E i \in Positions : Owns(u, i) /\ poll_list[i].id = x
    BY WorkMember
  <2> QED BY <1>1, <1>4, <1>5, <2>1, <2>2
<1>7. work = [u \in Tasks |-> work[u]] /\ work' = [u \in Tasks |-> work'[u]]
  BY DEF work
<1>8. CASE current_task = NoTask
  <2>1. \A u \in Tasks : work'[u] = work[u]
    BY <1>6, <1>8, TaskAssumption
  <2>2. work' = work
    BY <1>7, <2>1
  <2> QED BY <1>2, <2>2 DEF Life!Next, Life!SpawnRoot, Life!fresh
<1>9. CASE current_task # NoTask
  <2>1. PICK c \in Tasks : c = current_task
    BY <1>9 DEF TypeOK
  <2>2. phase[c] = "running"
    BY <1>9, <2>1 DEF LifeInv, RunsAsLiveTask, phase
  <2>3. work'[c] = work[c] \cup {next_id + 1}
    BY <1>6, <2>1
  <2>4. \A u \in Tasks : u # c => work'[u] = work[u]
    BY <1>6, <2>1
  <2>5. work' = [work EXCEPT ![c] = @ \cup {next_id + 1}]
    BY <1>7, <2>3, <2>4
  <2>6. Life!Spawn(c)
    BY <1>2, <2>2, <2>5 DEF Life!Spawn, Life!fresh
  <2> QED BY <2>6 DEF Life!Next
<1> QED BY <1>8, <1>9

\* start_task: a task with no main node has no work and is started; one that
\* still has a main node sees it turn into work.
LEMMA MainRefines ==
    ASSUME TypeOK, ListInv, LifeInv, NEW t \in Tasks,
           Grows(next_id + 1, t, FALSE, TRUE), next_id' = next_id + 1,
           task_id' = [task_id EXCEPT ![t] = next_id + 1], run' = run
    PROVE  Life!Next
<1>0. PICK n : n = Len(poll_list) + 1
  OBVIOUS
<1>1. /\ Positions' = Positions \cup {n}
      /\ \A i \in Positions : poll_list'[i] = poll_list[i]
      /\ poll_list'[n].id = next_id + 1 /\ poll_list'[n].task = t
      /\ poll_list'[n].main /\ ~poll_list'[n].del
  BY <1>0 DEF Grows
<1>2. task_id'[t] = next_id + 1 /\ \A u \in Tasks : u # t => task_id'[u] = task_id[u]
  BY DEF TypeOK
<1>3. HasMain(t)'
  <2>1. MainAt(n, t)'
    BY <1>1, <1>2 DEF MainAt, LiveAt
  <2> QED BY <1>1, <2>1 DEF HasMain
<1>4. ASSUME NEW u \in Tasks, u # t PROVE HasMain(u)' <=> HasMain(u)
  <2>1. \A i \in Positions : MainAt(i, u)' <=> MainAt(i, u)
    BY <1>1, <1>2, <1>4 DEF MainAt, LiveAt
  <2>2. ~MainAt(n, u)'
    BY <1>1, <1>4 DEF MainAt
  <2> QED BY <1>1, <2>1, <2>2 DEF HasMain
<1>5. \A i \in Positions : poll_list[i].id # next_id + 1
  <2>1. next_id \in Nat
    BY MaxIdAssumption DEF TypeOK
  <2> QED BY <2>1, NodeTypes DEF ListInv, IdsIssued
<1>6. work = [u \in Tasks |-> work[u]] /\ work' = [u \in Tasks |-> work'[u]]
  BY DEF work
<1>7. ASSUME NEW u \in Tasks, u # t PROVE work'[u] = work[u]
  <2>1. \A i \in Positions : Owns(u, i)' <=> Owns(u, i)
    BY <1>1, <1>2, <1>7 DEF Owns, LiveAt
  <2>2. ~Owns(u, n)'
    BY <1>1, <1>7 DEF Owns
  <2>3. ASSUME NEW x PROVE x \in work'[u] <=> x \in work[u]
    <3>1. x \in work'[u] <=> \E i \in Positions' : Owns(u, i)' /\ poll_list'[i].id = x
      BY DEF work, Owns
    <3>2. x \in work[u] <=> \E i \in Positions : Owns(u, i) /\ poll_list[i].id = x
      BY WorkMember
    <3> QED BY <1>1, <2>1, <2>2, <3>1, <3>2
  <2> QED BY <2>3
<1>8. ~Owns(t, n)'
  BY <1>1, <1>2 DEF Owns
<1>9. \A i \in Positions : Owns(t, i)' <=> LiveAt(i) /\ poll_list[i].task = t
  BY <1>1, <1>2, <1>5 DEF Owns, LiveAt
<1>10. \A x : x \in work'[t] <=> \E i \in Positions :
                 LiveAt(i) /\ poll_list[i].task = t /\ poll_list[i].id = x
  <2>1. \A x : x \in work'[t] <=>
                 \E i \in Positions' : Owns(t, i)' /\ poll_list'[i].id = x
    BY DEF work, Owns
  <2> QED BY <1>1, <1>8, <1>9, <2>1
<1>11. CASE HasMain(t)
  <2>1. PICK k \in Positions : MainAt(k, t)
    BY <1>11 DEF HasMain
  <2>2. \A x : x \in work'[t] <=> x \in work[t] \/ x = task_id[t]
    BY <1>10, <2>1, WorkMember DEF Owns, MainAt
  <2>3. work'[t] = work[t] \cup {task_id[t]}
    BY <2>2
  <2>4. work' = [work EXCEPT ![t] = @ \cup {task_id[t]}]
    BY <1>6, <1>7, <2>3
  <2>5. \A u \in Tasks : phase'[u] = phase[u]
    BY <1>3, <1>4, <1>11 DEF phase
  <2>6. phase = [u \in Tasks |-> phase[u]] /\ phase' = [u \in Tasks |-> phase'[u]]
    BY DEF phase
  <2>7. phase' = phase
    BY <2>5, <2>6
  <2>8. phase[t] # "idle"
    BY <1>11 DEF phase
  <2>9. Life!Restart(t)
    BY <2>4, <2>7, <2>8 DEF Life!Restart, Life!fresh
  <2> QED BY <2>9 DEF Life!Next
<1>12. CASE ~HasMain(t)
  <2>1. t # NoTask /\ \A i \in Positions : LiveAt(i) => poll_list[i].task # t
    BY <1>12, TaskAssumption DEF LifeInv, NoOrphanPoll
  <2>2. work'[t] = {} /\ work[t] = {}
    BY <1>10, <2>1, WorkMember DEF Owns
  <2>3. work' = work
    BY <1>6, <1>7, <2>2
  <2>4. ~run[t]
    BY <1>12 DEF LifeInv, RestartReady
  <2>5. phase[t] = "idle" /\ phase'[t] = "started"
    BY <1>3, <1>12, <2>4 DEF phase
  <2>6. \A u \in Tasks : u # t => phase'[u] = phase[u]
    BY <1>4 DEF phase
  <2>7. phase = [u \in Tasks |-> phase[u]] /\ phase' = [u \in Tasks |-> phase'[u]]
    BY DEF phase
  <2>8. phase' = [phase EXCEPT ![t] = "started"]
    BY <2>5, <2>6, <2>7
  <2>9. Life!Start(t)
    BY <2>3, <2>5, <2>8 DEF Life!Start, Life!fresh
  <2> QED BY <2>9 DEF Life!Next
<1> QED BY <1>11, <1>12

\* The first visit of a main node.
LEMMA InitStepRefines ==
    ASSUME TypeOK, ListInv, LifeInv, main_init
    PROVE  Life!Next
<1>1. PICK t : t = Item.task
  OBVIOUS
<1>2. /\ NoChange /\ run' = [run EXCEPT ![t] = TRUE] /\ ~run[t]
      /\ it \in Positions /\ LiveAt(it) /\ Item.main
  BY <1>1 DEF main_init, NoChange, AtNode, LiveAt, Item, taskVars
<1>3. t \in Tasks /\ HasMain(t)
  <2>1. t \in Tasks /\ t # NoTask
    BY <1>1, <1>2, TaskAssumption DEF Item, ListInv, MainNodes
  <2> QED BY <1>1, <1>2, <2>1 DEF Item, LifeInv, NoOrphanPoll
<1>4. \A u \in Tasks : HasMain(u)' <=> HasMain(u)
  BY <1>2 DEF NoChange, Positions, HasMain, MainAt, LiveAt
<1>5. run'[t] /\ \A u \in Tasks : u # t => run'[u] = run[u]
  BY <1>2, <1>3 DEF TypeOK
<1>6. phase[t] = "started" /\ phase'[t] = "running"
  BY <1>2, <1>3, <1>4, <1>5 DEF phase
<1>7. \A u \in Tasks : u # t => phase'[u] = phase[u]
  BY <1>4, <1>5 DEF phase
<1>8. phase = [u \in Tasks |-> phase[u]] /\ phase' = [u \in Tasks |-> phase'[u]]
  BY DEF phase
<1>9. phase' = [phase EXCEPT ![t] = "running"]
  BY <1>6, <1>7, <1>8
<1>10. work' = work
  BY <1>2 DEF NoChange, work, LiveAt, Positions
<1>11. Life!Begin(t)
  BY <1>2, <1>6, <1>9, <1>10 DEF Life!Begin, NoChange
<1> QED BY <1>3, <1>11 DEF Life!Next

\* The last visit of a main node: no work is left, and the task becomes idle.
LEMMA FinishRefines ==
    ASSUME TypeOK, ListInv, LifeInv, NEW t \in Tasks,
           it \in Positions, Item.main, Item.task = t, ~Item.del, run[t],
           ~ \E i \in Positions : keeps_alive(poll_list[i], t),
           Flags({it}), run' = [run EXCEPT ![t] = FALSE]
    PROVE  Life!Next
<1>1. /\ Positions' = Positions /\ task_id' = task_id /\ next_id' = next_id
      /\ \A i \in Positions :
            /\ poll_list'[i].id = poll_list[i].id
            /\ poll_list'[i].task = poll_list[i].task
            /\ poll_list'[i].main = poll_list[i].main
            /\ poll_list'[i].del = (poll_list[i].del \/ i = it)
  BY FlagProperties DEF Flags, Positions
<1>2. \A i \in Positions : ~Owns(t, i)
  BY SubsAreWork DEF keeps_alive, Owns, LiveAt
<1>3. HasMain(t)
  BY TaskAssumption DEF LifeInv, NoOrphanPoll, LiveAt, Item
<1>4. \A i \in Positions : LiveAt(i) /\ poll_list[i].task = t => i = it
  <2>1. \A i \in Positions : LiveAt(i) /\ poll_list[i].task = t
                               => poll_list[i].id = task_id[t]
    BY <1>2 DEF Owns
  <2>2. LiveAt(it) /\ poll_list[it].task = t
    BY DEF LiveAt, Item
  <2> QED BY <2>1, <2>2, UniqueIds
<1>5. ~HasMain(t)'
  BY <1>1, <1>4 DEF HasMain, MainAt, LiveAt
<1>6. ASSUME NEW u \in Tasks, u # t PROVE HasMain(u)' <=> HasMain(u)
  <2>1. \A i \in Positions : MainAt(i, u)' <=> MainAt(i, u)
    BY <1>1, <1>6 DEF MainAt, LiveAt, Item
  <2> QED BY <1>1, <2>1 DEF HasMain
<1>7. \A u \in Tasks : u # t => run'[u] = run[u]
  OBVIOUS
<1>8. phase[t] = "running" /\ phase'[t] = "idle"
  BY <1>3, <1>5 DEF phase
<1>9. \A u \in Tasks : u # t => phase'[u] = phase[u]
  BY <1>6, <1>7 DEF phase
<1>10. phase = [u \in Tasks |-> phase[u]] /\ phase' = [u \in Tasks |-> phase'[u]]
  BY DEF phase
<1>11. phase' = [phase EXCEPT ![t] = "idle"]
  BY <1>8, <1>9, <1>10
<1>12. \A u \in Tasks, i \in Positions : Owns(u, i)' <=> Owns(u, i)
  BY <1>1, <1>2 DEF Owns, LiveAt, Item
<1>13. work[t] = {}
  BY <1>2, WorkMember
<1>14. work' = work
  BY <1>1, <1>12 DEF work, Owns
<1>15. Life!End(t)
  BY <1>1, <1>8, <1>11, <1>13, <1>14 DEF Life!End
<1> QED BY <1>15 DEF Life!Next

-----------------------------------------------------------------------------
LEMMA NextRefines ==
    ASSUME TypeOK, ListInv, LifeInv, [Next]_vars
    PROVE  [Life!Next]_(Life!vars)
<1> USE DEF loopVars, taskVars
<1>1. ASSUME NEW once \in BOOLEAN, register(once) PROVE Life!Next
  <2>1. Grows(next_id + 1, current_task, once, FALSE)
    BY <1>1, AppendGrows DEF register, TypeOK
  <2>2. next_id' = next_id + 1 /\ task_id' = task_id /\ run' = run
    BY <1>1 DEF register, new_id
  <2> QED BY <2>1, <2>2, PollRefines
<1>2. ASSUME NEW id \in 1..MaxId, remove(id) PROVE [Life!Next]_(Life!vars)
  <2>1. PICK k \in Positions : poll_list[k].id = id /\ is_handle(poll_list[k])
    BY <1>2 DEF remove
  <2>2. PICK I : I = {i \in Positions : poll_list[i].id = id}
    OBVIOUS
  <2>3. Flags(I) /\ run' = run
    BY <1>2, <2>2 DEF remove, Flags
  <2>4. \A i \in Positions, u \in Tasks : MainAt(i, u) => i \notin I
    BY <2>1, <2>2 DEF MainAt, is_handle, ListInv, TaskIds
  <2>5. Life!Next
    BY <2>3, <2>4, FlagsRefine
  <2> QED BY <2>5
<1>3. ASSUME NEW t \in Tasks, start_task(t) PROVE Life!Next
  <2>1. Grows(next_id + 1, t, FALSE, TRUE)
    BY <1>3, AppendGrows DEF start_task
  <2>2. /\ next_id' = next_id + 1 /\ run' = run
        /\ task_id' = [task_id EXCEPT ![t] = next_id + 1]
    BY <1>3 DEF start_task, new_id
  <2> QED BY <2>1, <2>2, MainRefines
<1>4. ASSUME NEW t \in Tasks, terminal(t) PROVE Life!Next
  <2>1. PICK I : I = {i \in Positions : is_sub(poll_list[i], t)}
    OBVIOUS
  <2>2. Flags(I) /\ run' = run
    BY <1>4, <2>1 DEF terminal, Flags
  <2>3. \A i \in Positions, u \in Tasks : MainAt(i, u) => i \notin I
    BY <2>1 DEF MainAt, is_sub
  <2> QED BY <2>2, <2>3, FlagsRefine
<1>14. ASSUME NEW typed, cmd_kill(typed) PROVE Life!Next
  <2>1. PICK I : I = {i \in Positions : /\ poll_list[i].task # NoTask
                                        /\ task_id[poll_list[i].task] = killed_id(typed)}
    OBVIOUS
  <2>2. Flags(I) /\ run' = run
    BY <1>14, <2>1 DEF cmd_kill, Flags
  <2>3. \A i \in Positions, u \in Tasks : MainAt(i, u) => i \notin I
    BY <2>1, NoMainHasIdZero DEF MainAt
  <2> QED BY <2>2, <2>3, FlagsRefine
<1>15. ASSUME NEW named, cmd_killall(named) PROVE Life!Next
  <2>1. PICK I : I = {i \in Positions : /\ poll_list[i].task \in named
                                        /\ poll_list[i].id # task_id[poll_list[i].task]}
    OBVIOUS
  <2>2. Flags(I) /\ run' = run
    BY <1>15, <2>1 DEF cmd_killall, Flags
  <2>3. \A i \in Positions, u \in Tasks : MainAt(i, u) => i \notin I
    BY <2>1 DEF MainAt
  <2> QED BY <2>2, <2>3, FlagsRefine
<1>5. CASE poll
  BY <1>5, SameStutters DEF poll, NoChange
<1>6. CASE erase
  BY <1>6, EraseStutters DEF erase, Erases, AtNode, Item
<1>7. CASE call_user
  BY <1>7, SameStutters DEF call_user, NoChange
<1>8. CASE main_init
  BY <1>8, InitStepRefines
<1>9. CASE main_scan
  <2>1. PICK t : t = Item.task
    OBVIOUS
  <2>2. /\ it \in Positions /\ Item.main /\ ~Item.del /\ run[t]
        /\ UNCHANGED <<next_id, task_id>>
    BY <1>9, <2>1 DEF main_scan, MainVisit, AtNode
  <2>3. t \in Tasks
    BY <2>1, <2>2 DEF Item, ListInv, MainNodes
  <2>4. CASE \E i \in Positions : keeps_alive(poll_list[i], t)
    <3>1. NoChange /\ run' = run
      BY <1>9, <2>1, <2>2, <2>4 DEF main_scan, NoChange
    <3> QED BY <3>1, SameStutters
  <2>5. CASE ~ \E i \in Positions : keeps_alive(poll_list[i], t)
    <3>1. Flags({it}) /\ run' = [run EXCEPT ![t] = FALSE]
      BY <1>9, <2>1, <2>2, <2>5 DEF main_scan, Flags
    <3>2. Life!Next
      BY <2>1, <2>2, <2>3, <2>5, <3>1, FinishRefines
    <3> QED BY <3>2
  <2> QED BY <2>4, <2>5
<1>10. CASE return_cb
  <2>1. PICK I : I = IF expires(Item) THEN {it} ELSE {}
    OBVIOUS
  <2>2. Flags(I) /\ run' = run
    BY <1>10, <2>1 DEF return_cb, Flags
  <2>3. \A i \in Positions, u \in Tasks : MainAt(i, u) => i \notin I
    BY <2>1 DEF MainAt, expires, Item, ListInv, MainNodes
  <2>4. Life!Next
    BY <2>2, <2>3, FlagsRefine
  <2> QED BY <2>4
<1>11. CASE next_pass
  BY <1>11, SameStutters DEF next_pass, NoChange
<1>12. CASE null_deref
  BY <1>12, SameStutters DEF null_deref, NoChange
<1>13. CASE UNCHANGED vars
  BY <1>13, SameStutters DEF vars, NoChange
<1> QED BY <1>1, <1>2, <1>3, <1>4, <1>5, <1>6, <1>7, <1>8, <1>9, <1>10, <1>11,
           <1>12, <1>13, <1>14, <1>15 DEF Next, UserNext, LoopNext, set_poll, set_once

\* The scheduler implements the life cycle of tasks, for any number of tasks
\* and of callbacks, with and without callbacks of main() and restarts: no task
\* ends while work is left, and none has work before its init() or after its end.
THEOREM Refinement == Spec => Implements
<1>1. IInv /\ [Next]_vars => [Life!Next]_(Life!vars)
  BY NextRefines DEF IInv
<1> QED BY <1>1, InitRefines, Inductive, PTL DEF Spec, Life!Spec, Implements
=============================================================================
