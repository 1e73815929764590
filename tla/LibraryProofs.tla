--------------------------- MODULE LibraryProofs ---------------------------
(***************************************************************************)
(* The data structures of the library.  A ring delivers what was pushed, in  *)
(* order and within its bounds, and is the queue that its users count on, for *)
(* every ring size, every set of elements and every interleaving of producer *)
(* and consumer (DeliveredInOrder, CopyInBounds, IsFifo).                     *)
(*                                                                         *)
(* The containers and the strings do what they promise of every sequence    *)
(* (ContainersAgree, ViewsDenote), and printf writes of every number, in     *)
(* every field, what C says, where the two agree (ConformsToC).              *)
(*                                                                         *)
(* The lemmas about parts of sequences and about folds are those of          *)
(* ConsoleProofs: RingBuf and Console have an Init each, so that neither     *)
(* module can extend the other.                                             *)
(***************************************************************************)
EXTENDS RingBuf, MCLibrary, SequenceTheorems, FiniteSetTheorems, WellFoundedInduction, TLAPS

-----------------------------------------------------------------------------
\* The indices only ever need reducing by one lap.
LEMMA OneLap ==
    ASSUME NEW x \in 0..(2 * N - 1)
    PROVE  x % N = IF x < N THEN x ELSE x - N
<1>1. N \in Nat /\ N > 1 /\ x \in Nat
  BY SizeAssumption
<1>2. CASE x < N
  BY <1>1, <1>2
<1>3. CASE x >= N
  BY <1>1, <1>3
<1> QED BY <1>1, <1>2, <1>3

LEMMA SuccValue ==
    ASSUME NEW x \in Index
    PROVE  succ(x) = IF x = N - 1 THEN 0 ELSE x + 1
  BY OneLap, SizeAssumption DEF succ, Index

-----------------------------------------------------------------------------
(***************************************************************************)
(* The geometry of the ring.                                                *)
(***************************************************************************)
LEMMA Geometry ==
    ASSUME head \in Index, tail \in Index
    PROVE  /\ size \in 0..(N - 1)
           /\ is_empty <=> size = 0
           /\ full <=> size = N - 1
           /\ \A i \in 1..N : slot(i) = IF tail + i - 1 < N THEN tail + i - 1
                                                            ELSE tail + i - 1 - N
           /\ \A i \in 1..N : slot(i) \in Index
           /\ \A i \in 1..size : slot(i) # head
           /\ slot(size + 1) = head
<1>1. \A i \in 1..N : slot(i) = IF tail + i - 1 < N THEN tail + i - 1
                                                     ELSE tail + i - 1 - N
  BY OneLap, SizeAssumption DEF slot, Index
<1>2. size \in 0..(N - 1) /\ (is_empty <=> size = 0)
  BY SizeAssumption DEF size, is_empty, Index
<1>3. full <=> size = N - 1
  BY SuccValue, SizeAssumption DEF full, size, Index
<1>4. \A i \in 1..N : slot(i) \in Index
  BY <1>1, SizeAssumption DEF Index
<1>5. size + 1 \in 1..N /\ \A i \in 1..size : i \in 1..N
  BY <1>2, SizeAssumption
<1>6. \A i \in 1..size : slot(i) # head
  BY <1>1, <1>5, SizeAssumption DEF size, Index
<1>7. slot(size + 1) = head
  BY <1>1, <1>5, SizeAssumption DEF size, Index
<1> QED BY <1>1, <1>2, <1>3, <1>4, <1>6, <1>7

\* _head moves on by one: the queue grows at its end.
LEMMA HeadMoves ==
    ASSUME head \in Index, tail \in Index, ~full, head' = succ(head), tail' = tail
    PROVE  /\ head' \in Index
           /\ size' = size + 1
           /\ \A i : slot(i)' = slot(i)
<1>1. head' \in Index
  BY SuccValue, SizeAssumption DEF Index
<1>2. size' = size + 1
  BY SuccValue, SizeAssumption DEF full, size, Index
<1> QED BY <1>1, <1>2 DEF slot

\* _tail moves to a slot of the queue, k elements on: k elements leave.
LEMMA TailMoves ==
    ASSUME head \in Index, tail \in Index, NEW s \in Index,
           offset(s) <= size, tail' = s, head' = head
    PROVE  /\ offset(s) \in Nat
           /\ size' = size - offset(s)
           /\ \A i \in 1..(N - offset(s)) : slot(i)' = slot(i + offset(s))
<1>1. offset(s) \in 0..(N - 1)
  BY SizeAssumption DEF offset, Index
<1>2. size' = size - offset(s)
  BY SizeAssumption DEF offset, size, Index
<1>3. ASSUME NEW i \in 1..(N - offset(s))
      PROVE  slot(i)' = slot(i + offset(s))
  <2>1. /\ i \in 1..N /\ i + offset(s) \in 1..N
        /\ s + i - 1 \in 0..(2 * N - 1)
    BY <1>1, SizeAssumption DEF Index
  <2>2. slot(i)' = IF s + i - 1 < N THEN s + i - 1 ELSE s + i - 1 - N
    <3>1. PICK x : x = s + i - 1
      OBVIOUS
    <3>2. x \in 0..(2 * N - 1)
      BY <2>1, <3>1
    <3>3. x % N = IF x < N THEN x ELSE x - N
      BY <3>2, OneLap
    <3>4. slot(i)' = x % N
      BY <3>1 DEF slot
    <3>5. x \in Int /\ s \in Int /\ i \in Int /\ N \in Int
      BY <2>1, <3>2, SizeAssumption DEF Index
    <3> QED BY <3>1, <3>3, <3>4, <3>5
  <2>3. slot(i + offset(s)) = IF tail + (i + offset(s)) - 1 < N
                              THEN tail + (i + offset(s)) - 1
                              ELSE tail + (i + offset(s)) - 1 - N
    BY <2>1, Geometry
  <2> QED BY <1>1, <2>1, <2>2, <2>3, SizeAssumption DEF offset, Index
<1> QED BY <1>1, <1>2, <1>3

\* One step of _tail is such a move with k = 1.
LEMMA SuccOffset ==
    ASSUME tail \in Index
    PROVE  succ(tail) \in Index /\ offset(succ(tail)) = 1
  BY SuccValue, SizeAssumption DEF offset, Index

-----------------------------------------------------------------------------
LEMMA InitRing == Init => RingInv
<1> SUFFICES ASSUME Init PROVE RingInv
  OBVIOUS
<1>0. 0 \in Index /\ want \in Nat
  BY SizeAssumption DEF Index, Init
<1>1. TypeOK
  BY <1>0, EmptySeq DEF Init, TypeOK
<1>2. size = 0
  BY DEF Init, size
<1>3. ProducerInv /\ Filled /\ ConsumerInv /\ InOrder
  BY <1>2 DEF Init, ProducerInv, Filled, ConsumerInv, InOrder
<1> QED BY <1>1, <1>3 DEF RingInv

\* The producer's steps.
LEMMA ProducerStep ==
    ASSUME RingInv, Producer
    PROVE  RingInv'
<1> USE DEF consVars, prodVars
<1>0. /\ head \in Index /\ tail \in Index
      /\ buf \in [Index -> Data \cup {NoData}]
  BY DEF RingInv, TypeOK
<1>1. ASSUME NEW v \in Data, push(v) PROVE RingInv'
  <2>1. TypeOK'
    BY <1>1 DEF push, RingInv, TypeOK
  <2>2. UNCHANGED <<buf, head, tail, cpc, want, dest, seen, cont>>
    BY <1>1 DEF push
  <2>3. ProducerInv'
    BY <1>1, <2>2 DEF push, ProducerInv, full
  <2>4. Filled' /\ ConsumerInv' /\ InOrder'
    BY <2>2 DEF RingInv, Filled, ConsumerInv, InOrder, size, slot, offset
  <2> QED BY <2>1, <2>3, <2>4 DEF RingInv
<1>2. CASE push_write
  <2>1. /\ buf' = [buf EXCEPT ![head] = pval] /\ pval \in Data
        /\ UNCHANGED <<head, tail, pval, cpc, want, dest, seen, cont>>
        /\ ppc = "write" /\ ppc' = "publish"
    BY <1>2 DEF push_write, RingInv, ProducerInv
  <2>2. TypeOK'
    BY <1>0, <2>1 DEF RingInv, TypeOK
  <2>3. ProducerInv'
    BY <1>0, <2>1 DEF RingInv, ProducerInv, full
  <2>4. /\ size' = size /\ \A i : slot(i)' = slot(i)
        /\ \A i \in 1..size : buf'[slot(i)] = buf[slot(i)]
    BY <1>0, <2>1, Geometry DEF size, slot
  <2>5. Filled'
    BY <2>4 DEF RingInv, Filled
  <2>6. ConsumerInv'
    BY <2>1, <2>4 DEF RingInv, ConsumerInv, offset
  <2>7. InOrder'
    <3>1. size \in Nat /\ want \in Nat /\ Len(dest) \in Nat
      BY <1>0, Geometry, LenProperties DEF RingInv, TypeOK
    <3>2. cpc = "memcpy" => \A i \in 1..Len(dest) : i \in 1..size
      BY <3>1 DEF RingInv, ConsumerInv
    <3>3. cpc = "pop" /\ dest # <<>> => \A i \in 1..want : i \in 1..size
      BY <3>1 DEF RingInv, ConsumerInv
    <3> QED BY <2>1, <2>4, <3>2, <3>3 DEF RingInv, InOrder
  <2> QED BY <2>2, <2>3, <2>5, <2>6, <2>7 DEF RingInv
<1>3. CASE push_publish
  <2>1. /\ ppc = "publish" /\ ppc' = "idle" /\ head' = succ(head) /\ ~full
        /\ buf[head] = pval /\ pval \in Data
        /\ UNCHANGED <<buf, tail, cpc, want, dest, seen, cont>>
    BY <1>3 DEF push_publish, RingInv, ProducerInv
  <2>2. /\ head' \in Index /\ size' = size + 1 /\ \A i : slot(i)' = slot(i)
    BY <1>0, <2>1, HeadMoves
  <2>3. size \in Nat /\ slot(size + 1) = head
    BY <1>0, Geometry
  <2>4. TypeOK'
    BY <1>3, <2>2 DEF push_publish, RingInv, TypeOK
  <2>5. ProducerInv'
    BY <2>1 DEF ProducerInv
  <2>6. Filled'
    BY <2>1, <2>2, <2>3 DEF RingInv, Filled
  <2>7. ConsumerInv'
    <3>1. \A k \in Nat : k <= size => k <= size + 1
      BY <2>3
    <3>2. offset(seen)' = offset(seen) /\ offset(seen) \in Int /\ want \in Nat
      BY <1>0, <2>1, SizeAssumption DEF offset, RingInv, TypeOK, Index
    <3> QED BY <2>1, <2>2, <2>3, <3>1, <3>2 DEF RingInv, ConsumerInv
  <2>8. InOrder'
    BY <2>1, <2>2 DEF RingInv, InOrder
  <2> QED BY <2>4, <2>5, <2>6, <2>7, <2>8 DEF RingInv
<1> QED BY <1>1, <1>2, <1>3 DEF Producer

-----------------------------------------------------------------------------
(***************************************************************************)
(* The consumer's steps: those that leave the ring alone, and those that    *)
(* move _tail.                                                              *)
(***************************************************************************)
RingSame == UNCHANGED <<buf, head, tail, ppc, pval>>

LEMMA RingSameInv ==
    ASSUME RingInv, RingSame
    PROVE  /\ ProducerInv' /\ Filled'
           /\ size' = size
           /\ \A i : slot(i)' = slot(i)
           /\ \A x : offset(x)' = offset(x)
  BY DEF RingInv, RingSame, ProducerInv, full, Filled, size, slot, offset

LEMMA TailInv ==
    ASSUME RingInv, NEW s \in Index, offset(s) <= size, tail' = s,
           UNCHANGED <<buf, head, ppc, pval>>
    PROVE  ProducerInv' /\ Filled'
<1>0. head \in Index /\ tail \in Index
  BY DEF RingInv, TypeOK
<1>1. /\ offset(s) \in Nat /\ size' = size - offset(s)
      /\ \A i \in 1..(N - offset(s)) : slot(i)' = slot(i + offset(s))
  BY <1>0, TailMoves
<1>2. size \in 0..(N - 1) /\ (full <=> size = N - 1)
  BY <1>0, Geometry
<1>3. full' <=> size' = N - 1
  <2>1. (head \in Index /\ tail \in Index)'
    BY <1>0
  <2>2. ASSUME NEW h \in Index, NEW t \in Index
        PROVE  succ(h) = t <=> (IF h >= t THEN h - t ELSE N - t + h) = N - 1
    BY SuccValue, SizeAssumption DEF Index
  <2>3. (head' \in Index) /\ (tail' \in Index)
    BY <2>1 DEF Index
  <2> QED BY <2>2, <2>3 DEF full, size
<1>4. full' => full
  BY <1>1, <1>2, <1>3, SizeAssumption
<1>5. ProducerInv'
  BY <1>4 DEF RingInv, ProducerInv
<1>6. ASSUME NEW i \in 1..size' PROVE buf'[slot(i)'] \in Data
  <2>1. i \in 1..(N - offset(s)) /\ i + offset(s) \in 1..size
    BY <1>1, <1>2, <1>6, SizeAssumption
  <2> QED BY <1>1, <2>1 DEF RingInv, Filled
<1> QED BY <1>5, <1>6 DEF Filled

LEMMA IdleInv ==
    ASSUME RingInv, idle, tail' \in Index, UNCHANGED <<buf, head, ppc, pval>>,
           ProducerInv', Filled'
    PROVE  RingInv'
<1>0. 0 \in Index /\ want' \in Nat
  BY SizeAssumption DEF Index, idle
<1>1. TypeOK'
  BY <1>0, EmptySeq DEF RingInv, TypeOK, idle
<1>2. ConsumerInv' /\ InOrder'
  BY DEF idle, ConsumerInv, InOrder
<1> QED BY <1>1, <1>2 DEF RingInv

LEMMA ConsumerStep ==
    ASSUME RingInv, Consumer
    PROVE  RingInv'
<1> USE DEF consVars, prodVars
<1>0. /\ head \in Index /\ tail \in Index
      /\ buf \in [Index -> Data \cup {NoData}]
      /\ want \in Nat /\ dest \in Seq(Data \cup {NoData}) /\ Len(dest) \in Nat
      /\ N \in Nat /\ N > 1
  BY SizeAssumption, LenProperties DEF RingInv, TypeOK
<1>a. size \in 0..(N - 1) /\ (is_empty <=> size = 0)
  BY <1>0, Geometry
<1>1. CASE getc
  <2>1. /\ RingSame /\ cpc' = "front" /\ size # 0 /\ cpc = "idle"
        /\ UNCHANGED <<want, cont, dest, seen>>
    BY <1>1, <1>a DEF getc, RingSame
  <2>2. ProducerInv' /\ Filled' /\ size' = size
    BY <2>1, RingSameInv
  <2>3. TypeOK'
    BY <2>1 DEF RingSame, RingInv, TypeOK
  <2>4. ConsumerInv'
    BY <1>a, <2>1, <2>2 DEF RingInv, ConsumerInv
  <2> QED BY <2>1, <2>2, <2>3, <2>4 DEF RingInv, InOrder
<1>2. CASE front
  <2>1. /\ RingSame /\ cpc' = "pop" /\ dest' = <<buf[tail]>> /\ want' = 1
        /\ UNCHANGED <<cont, seen>> /\ cpc = "front"
    BY <1>2 DEF front, RingSame
  <2>2. /\ ProducerInv' /\ Filled' /\ size' = size
        /\ \A i : slot(i)' = slot(i)
    BY <2>1, RingSameInv
  <2>3. buf[tail] \in Data \cup {NoData}
    BY <1>0
  <2>4. TypeOK'
    BY <2>1, <2>3 DEF RingSame, RingInv, TypeOK
  <2>5. ConsumerInv'
    BY <2>1, <2>2 DEF RingInv, ConsumerInv
  <2>6. slot(1) = tail
    BY <1>0, Geometry DEF Index
  <2>7. InOrder'
    BY <2>1, <2>2, <2>6 DEF InOrder, RingSame
  <2> QED BY <2>2, <2>4, <2>5, <2>7 DEF RingInv
<1>3. ASSUME NEW n \in 1..MaxAsk, discard(n) PROVE RingInv'
  <2>1. /\ RingSame /\ cpc' = "pop" /\ want' = n /\ cpc = "idle"
        /\ UNCHANGED <<cont, dest, seen>>
    BY <1>3 DEF discard, RingSame
  <2>2. ProducerInv' /\ Filled'
    BY <2>1, RingSameInv
  <2>3. TypeOK'
    BY <2>1, AskAssumption DEF RingSame, RingInv, TypeOK
  <2>4. dest' = <<>>
    BY <2>1 DEF RingInv, ConsumerInv
  <2> QED BY <2>1, <2>2, <2>3, <2>4 DEF RingInv, ConsumerInv, InOrder
<1>4. CASE pop
  <2>1. CASE want = 0 \/ is_empty
    <3>1. idle /\ RingSame
      BY <1>4, <2>1 DEF pop, RingSame
    <3> QED BY <1>0, <3>1, RingSameInv, IdleInv DEF RingSame
  <2>2. CASE ~(want = 0 \/ is_empty)
    <3>1. /\ tail' = succ(tail) /\ want' = want - 1 /\ cpc = "pop"
          /\ UNCHANGED <<buf, head, ppc, pval, cpc, cont, dest, seen>>
      BY <1>4, <2>2 DEF pop
    <3>2. succ(tail) \in Index /\ offset(succ(tail)) = 1
      BY <1>0, SuccOffset
    <3>3. ProducerInv' /\ Filled'
      BY <1>a, <2>2, <3>1, <3>2, TailInv
    <3>4. size' = size - 1 /\ \A i \in 1..(N - 1) : slot(i)' = slot(i + 1)
      BY <1>0, <1>a, <2>2, <3>1, <3>2, TailMoves
    <3>5. TypeOK'
      BY <1>0, <2>2, <3>1, <3>2 DEF RingInv, TypeOK
    <3>6. ConsumerInv'
      BY <1>0, <1>a, <2>2, <3>1, <3>4 DEF RingInv, ConsumerInv
    <3>7. ASSUME dest # <<>>, NEW i \in 1..(want - 1)
          PROVE  dest[Len(dest) - (want - 1) + i] = buf[slot(i)']
      <4>1. i + 1 \in 1..want /\ want <= size /\ want <= Len(dest)
        BY <1>0, <3>1, <3>7 DEF RingInv, ConsumerInv
      <4>2. i \in 1..(N - 1) /\ slot(i)' = slot(i + 1)
        BY <1>0, <1>a, <3>4, <4>1
      <4>3. dest[Len(dest) - want + (i + 1)] = buf[slot(i + 1)]
        BY <3>1, <3>7, <4>1 DEF RingInv, InOrder
      <4>4. Len(dest) - want + (i + 1) = Len(dest) - (want - 1) + i
        BY <1>0
      <4> QED BY <4>2, <4>3, <4>4
    <3>8. InOrder'
      BY <3>1, <3>7 DEF InOrder
    <3> QED BY <3>3, <3>5, <3>6, <3>8 DEF RingInv
  <2> QED BY <2>1, <2>2
<1>5. CASE clear
  <2>1. /\ RingSame /\ cpc' = "clear" /\ seen' = head /\ cpc = "idle"
        /\ UNCHANGED <<want, cont, dest>>
    BY <1>5 DEF clear, RingSame
  <2>2. /\ ProducerInv' /\ Filled' /\ size' = size
        /\ \A x : offset(x)' = offset(x)
    BY <2>1, RingSameInv
  <2>3. TypeOK'
    BY <1>0, <2>1 DEF RingSame, RingInv, TypeOK
  <2>4. offset(seen)' <= size'
    <3>1. offset(seen)' = offset(head) /\ offset(head) = size
      BY <2>1 DEF offset, size, RingSame
    <3> QED BY <1>a, <2>2, <3>1
  <2>5. dest' = <<>>
    BY <2>1 DEF RingInv, ConsumerInv
  <2> QED BY <2>1, <2>2, <2>3, <2>4, <2>5 DEF RingInv, ConsumerInv, InOrder
<1>6. CASE clear_write
  <2>1. /\ tail' = seen /\ idle /\ UNCHANGED <<buf, head, ppc, pval>>
        /\ seen \in Index /\ offset(seen) <= size
    BY <1>6 DEF clear_write, RingInv, ConsumerInv, TypeOK
  <2>2. ProducerInv' /\ Filled'
    BY <2>1, TailInv
  <2> QED BY <2>1, <2>2, IdleInv
<1>7. ASSUME NEW n \in Nat, copy_to(n) PROVE RingInv'
  <2>1. /\ RingSame /\ cpc' = "copy" /\ want' = n /\ cpc = "idle"
        /\ UNCHANGED <<cont, dest, seen>>
    BY <1>7 DEF copy_to, RingSame
  <2>2. ProducerInv' /\ Filled'
    BY <2>1, RingSameInv
  <2>3. TypeOK'
    BY <2>1 DEF RingSame, RingInv, TypeOK
  <2>4. dest' = <<>>
    BY <2>1 DEF RingInv, ConsumerInv
  <2> QED BY <2>1, <2>2, <2>3, <2>4 DEF RingInv, ConsumerInv, InOrder
<1>8. CASE copy_check
  <2>1. /\ RingSame /\ cpc = "copy"
        /\ cpc' = IF exceeds(want) THEN "clamp" ELSE "branch"
        /\ UNCHANGED <<want, cont, dest, seen>>
    BY <1>8 DEF copy_check, RingSame
  <2>2. ProducerInv' /\ Filled' /\ size' = size
    BY <2>1, RingSameInv
  <2>3. TypeOK'
    BY <2>1 DEF RingSame, RingInv, TypeOK
  <2>4. dest' = <<>> /\ (cpc' = "branch" => want' <= size')
    BY <1>0, <1>a, <2>1, <2>2 DEF RingInv, ConsumerInv, exceeds
  <2>5. cpc' \in {"clamp", "branch"}
    BY <2>1
  <2> QED BY <2>2, <2>3, <2>4, <2>5 DEF RingInv, ConsumerInv, InOrder
<1>9. CASE copy_clamp
  <2>1. /\ RingSame /\ cpc = "clamp" /\ want' = size /\ cpc' = "branch"
        /\ UNCHANGED <<cont, dest, seen>>
    BY <1>9 DEF copy_clamp, RingSame
  <2>2. ProducerInv' /\ Filled' /\ size' = size
    BY <2>1, RingSameInv
  <2>3. TypeOK'
    BY <1>a, <2>1 DEF RingSame, RingInv, TypeOK
  <2>4. dest' = <<>> /\ want' <= size'
    BY <1>a, <2>1, <2>2 DEF RingInv, ConsumerInv
  <2> QED BY <2>1, <2>2, <2>3, <2>4 DEF RingInv, ConsumerInv, InOrder
<1>10. CASE copy_branch
  <2>1. CASE want = 0
    <3>1. idle /\ RingSame
      BY <1>10, <2>1 DEF copy_branch, RingSame
    <3> QED BY <1>0, <3>1, RingSameInv, IdleInv DEF RingSame
  <2>2. CASE want # 0
    <3>1. /\ RingSame /\ cpc = "branch" /\ cpc' = "memcpy" /\ cont' = is_continuous
          /\ UNCHANGED <<want, dest, seen>>
      BY <1>10, <2>2 DEF copy_branch, RingSame
    <3>2. ProducerInv' /\ Filled' /\ size' = size
      BY <3>1, RingSameInv
    <3>3. TypeOK'
      BY <3>1 DEF RingSame, RingInv, TypeOK, is_continuous
    <3>4. want >= 1 /\ want <= size /\ dest = <<>>
      BY <1>0, <2>2, <3>1 DEF RingInv, ConsumerInv
    <3>5. is_continuous => tail + want <= N
      BY <1>0, <1>a, <3>4 DEF is_continuous, size, Index
    <3>6. Len(dest) = 0
      BY <3>4
    <3>7. ConsumerInv'
      BY <1>0, <3>1, <3>2, <3>4, <3>5, <3>6 DEF RingSame, ConsumerInv
    <3>8. InOrder'
      BY <3>1, <3>6 DEF InOrder
    <3> QED BY <3>2, <3>3, <3>7, <3>8 DEF RingInv
  <2> QED BY <2>1, <2>2
<1>11. CASE copy_step
  <2>1. /\ RingSame /\ cpc = "memcpy" /\ Len(dest) < want
        /\ dest' = Append(dest, buf[source(Len(dest))])
        /\ UNCHANGED <<cpc, want, cont, seen>>
    BY <1>11 DEF copy_step, RingSame
  <2>2. /\ ProducerInv' /\ Filled' /\ size' = size
        /\ \A i : slot(i)' = slot(i)
    BY <2>1, RingSameInv
  <2>3. want <= size /\ (cont => tail + want <= N)
    BY <2>1 DEF RingInv, ConsumerInv
  <2>4. Len(dest) + 1 \in 1..N
    BY <1>0, <1>a, <2>1, <2>3
  <2>5. slot(Len(dest) + 1) = IF tail + (Len(dest) + 1) - 1 < N
                              THEN tail + (Len(dest) + 1) - 1
                              ELSE tail + (Len(dest) + 1) - 1 - N
    BY <1>0, <2>4, Geometry
  <2>6. source(Len(dest)) = slot(Len(dest) + 1)
    BY <1>0, <1>a, <2>1, <2>3, <2>4, <2>5 DEF source, first, Index
  <2>7. slot(Len(dest) + 1) \in Index
    BY <1>0, <2>4, Geometry
  <2>8. buf[source(Len(dest))] \in Data \cup {NoData}
    BY <1>0, <2>6, <2>7
  <2>9. /\ dest' \in Seq(Data \cup {NoData}) /\ Len(dest') = Len(dest) + 1
        /\ \A i \in 1..Len(dest) : dest'[i] = dest[i]
        /\ dest'[Len(dest) + 1] = buf[source(Len(dest))]
    BY <1>0, <2>1, <2>8, AppendProperties
  <2>10. TypeOK'
    BY <2>1, <2>9 DEF RingSame, RingInv, TypeOK
  <2>11. ConsumerInv'
    BY <1>0, <2>1, <2>2, <2>9 DEF RingSame, RingInv, ConsumerInv
  <2>12. InOrder'
    <3>1. \A i \in 1..Len(dest) : dest[i] = buf[slot(i)]
      BY <2>1 DEF RingInv, InOrder
    <3>2. \A i \in 1..Len(dest') : i \in 1..Len(dest) \/ i = Len(dest) + 1
      BY <1>0, <2>9
    <3>3. \A i \in 1..Len(dest') : dest'[i] = buf[slot(i)]
      BY <2>6, <2>9, <3>1, <3>2
    <3> QED BY <2>1, <2>2, <3>3 DEF InOrder, RingSame
  <2> QED BY <2>2, <2>10, <2>11, <2>12 DEF RingInv
<1>12. ASSUME NEW popped \in BOOLEAN, copy_done(popped) PROVE RingInv'
  <2>1. CASE ~popped
    <3>1. idle /\ RingSame
      BY <1>12, <2>1 DEF copy_done, RingSame
    <3> QED BY <1>0, <3>1, RingSameInv, IdleInv DEF RingSame
  <2>2. CASE popped
    <3>1. /\ RingSame /\ cpc = "memcpy" /\ Len(dest) = want /\ cpc' = "pop"
          /\ UNCHANGED <<want, cont, dest, seen>>
      BY <1>12, <2>2 DEF copy_done, RingSame
    <3>2. /\ ProducerInv' /\ Filled' /\ size' = size
          /\ \A i : slot(i)' = slot(i)
      BY <3>1, RingSameInv
    <3>3. TypeOK'
      BY <3>1 DEF RingSame, RingInv, TypeOK
    <3>4. want <= size /\ want <= Len(dest)
      BY <1>0, <3>1 DEF RingInv, ConsumerInv
    <3>5. ConsumerInv'
      BY <3>1, <3>2, <3>4 DEF ConsumerInv
    <3>6. \A i \in 1..want : Len(dest) - want + i = i
      BY <1>0, <3>1
    <3>7. InOrder'
      BY <3>1, <3>2, <3>6 DEF RingInv, InOrder, RingSame
    <3> QED BY <3>2, <3>3, <3>5, <3>7 DEF RingInv
  <2> QED BY <2>1, <2>2
<1>13. CASE flush
  BY <1>7, <1>13, <1>a DEF flush
<1>14. \A n \in 1..MaxAsk : n \in Nat
  BY AskAssumption
<1> QED BY <1>1, <1>2, <1>3, <1>4, <1>5, <1>6, <1>7, <1>8, <1>9, <1>10, <1>11,
           <1>12, <1>13, <1>14 DEF Consumer

-----------------------------------------------------------------------------
(* The indices, the slots and what each side has read of the other's index
   agree in every reachable state (RingInv). *)
THEOREM Inductive == Spec => []RingInv
<1>1. RingInv /\ [Next]_vars => RingInv'
  <2> SUFFICES ASSUME RingInv, [Next]_vars PROVE RingInv'
    OBVIOUS
  <2>1. CASE Producer
    BY <2>1, ProducerStep
  <2>2. CASE Consumer
    BY <2>2, ConsumerStep
  <2>3. CASE UNCHANGED vars
    BY <2>3 DEF vars, RingInv, TypeOK, ProducerInv, full, Filled, ConsumerInv,
                InOrder, size, slot, offset
  <2> QED BY <2>1, <2>2, <2>3 DEF Next
<1> QED BY InitRing, <1>1, PTL DEF Spec

(* copy_to never reads outside the ring (CopyInBounds). *)
THEOREM InBounds == Spec => []CopyInBounds
<1>1. RingInv => CopyInBounds
  <2> SUFFICES ASSUME RingInv, cpc = "memcpy", Len(dest) < want
               PROVE  source(Len(dest)) \in Index
    BY DEF CopyInBounds
  <2>1. /\ head \in Index /\ tail \in Index /\ want \in Nat /\ want <= size
        /\ Len(dest) \in Nat /\ (cont => tail + want <= N)
    BY LenProperties DEF RingInv, TypeOK, ConsumerInv
  <2>2. size \in 0..(N - 1)
    BY <2>1, Geometry
  <2> QED BY <2>1, <2>2, SizeAssumption DEF source, first, Index
<1> QED BY <1>1, Inductive, PTL

(* What the consumer has been handed and not yet popped is the front of the
   queue (DeliveredInOrder). *)
THEOREM InOrderDelivery == Spec => []DeliveredInOrder
<1>1. RingInv => DeliveredInOrder
  <2> SUFFICES ASSUME RingInv, dest # <<>> PROVE DeliveredInOrder
    BY DEF DeliveredInOrder
  <2>1. /\ want \in Nat /\ dest \in Seq(Data \cup {NoData}) /\ Len(dest) \in Nat
        /\ head \in Index /\ tail \in Index
    BY LenProperties DEF RingInv, TypeOK
  <2>2. size \in Nat
    BY <2>1, Geometry
  <2>3. cpc \in {"memcpy", "pop"}
    BY DEF RingInv, ConsumerInv
  <2>4. ASSUME NEW u \in Seq(Data \cup {NoData}), Len(u) <= size,
               \A i \in 1..Len(u) : u[i] = buf[slot(i)]
        PROVE  u = SubSeq(contents, 1, Len(u))
    <3>1. Len(u) \in Nat /\ DOMAIN u = 1..Len(u)
      BY <2>4, LenProperties
    <3>2. SubSeq(contents, 1, Len(u)) = [i \in 1..Len(u) |-> contents[i]]
      BY <3>1
    <3>3. \A i \in 1..Len(u) : contents[i] = buf[slot(i)]
      BY <2>2, <2>4, <3>1 DEF contents
    <3>4. u = [i \in 1..Len(u) |-> u[i]]
      BY <3>1
    <3> QED BY <2>4, <3>2, <3>3, <3>4
  <2>5. CASE cpc = "memcpy"
    BY <2>1, <2>2, <2>4, <2>5 DEF DeliveredInOrder, Unpopped, RingInv, ConsumerInv, InOrder
  <2>6. CASE cpc = "pop"
    <3>1. want <= Len(dest) /\ want <= size
      BY <2>6 DEF RingInv, ConsumerInv
    <3>2. \A i \in 1..want : dest[Len(dest) - want + i] = buf[slot(i)]
      BY <2>6 DEF RingInv, InOrder
    <3>3. /\ Unpopped \in Seq(Data \cup {NoData}) /\ Len(Unpopped) = want
          /\ \A i \in 1..want : Unpopped[i] = dest[Len(dest) - want + i]
      <4>1. Unpopped = SubSeq(dest, Len(dest) - want + 1, Len(dest))
        BY <2>6 DEF Unpopped
      <4>2. Len(dest) - want + 1 \in 1..(Len(dest) + 1)
        BY <2>1, <3>1
      <4> QED BY <2>1, <3>1, <4>1, <4>2, SubSeqProperties
    <3> QED BY <2>4, <3>1, <3>2, <3>3 DEF DeliveredInOrder
  <2> QED BY <2>3, <2>5, <2>6
<1> QED BY <1>1, Inductive, PTL

-----------------------------------------------------------------------------
(***************************************************************************)
(* Refinement: publishing an element is Put, a step of _tail is Take, and   *)
(* every other step leaves the queue as it is.                              *)
(***************************************************************************)
LEMMA ContentsValue ==
    ASSUME RingInv
    PROVE  /\ size \in Nat /\ contents \in Seq(Data) /\ Len(contents) = size
           /\ \A i \in 1..size : contents[i] = buf[slot(i)]
<1>1. size \in Nat
  BY Geometry DEF RingInv, TypeOK
<1>2. \A i \in 1..size : buf[slot(i)] \in Data
  BY DEF RingInv, Filled
<1> QED BY <1>1, <1>2 DEF contents

LEMMA QueueSame ==
    ASSUME UNCHANGED <<buf, head, tail>>
    PROVE  UNCHANGED contents
  BY DEF contents, size, slot

\* push_write touches the one slot that is not in the queue.
LEMMA WriteStutters ==
    ASSUME RingInv, push_write
    PROVE  UNCHANGED contents
<1>1. /\ head \in Index /\ tail \in Index /\ buf \in [Index -> Data \cup {NoData}]
      /\ buf' = [buf EXCEPT ![head] = pval] /\ UNCHANGED <<head, tail>>
  BY DEF RingInv, TypeOK, push_write
<1>2. size' = size /\ \A i : slot(i)' = slot(i)
  BY <1>1 DEF size, slot
<1>3. \A i \in 1..size : buf'[slot(i)] = buf[slot(i)]
  BY <1>1, Geometry
<1> QED BY <1>2, <1>3 DEF contents

LEMMA PublishPuts ==
    ASSUME RingInv, RingInv', push_publish
    PROVE  Fifo!Put(pval) /\ pval \in Data
<1>1. /\ head \in Index /\ tail \in Index /\ ~full /\ pval \in Data
      /\ buf[head] = pval /\ head' = succ(head) /\ UNCHANGED <<buf, tail>>
  BY DEF RingInv, TypeOK, ProducerInv, push_publish
<1>2. size' = size + 1 /\ \A i : slot(i)' = slot(i)
  BY <1>1, HeadMoves
<1>3. slot(size + 1) = head /\ size \in 0..(N - 1) /\ size # N - 1
  BY <1>1, Geometry
<1>4. Len(contents) < N - 1
  BY <1>3, ContentsValue, SizeAssumption
<1>5. contents' = [i \in 1..(size + 1) |-> buf[slot(i)]]
  BY <1>1, <1>2 DEF contents
<1>6. Append(contents, pval) = [i \in 1..(size + 1) |-> buf[slot(i)]]
  <2>1. /\ Append(contents, pval) \in Seq(Data)
        /\ Len(Append(contents, pval)) = size + 1
        /\ \A i \in 1..size : Append(contents, pval)[i] = buf[slot(i)]
        /\ Append(contents, pval)[size + 1] = pval
    BY <1>1, ContentsValue, AppendProperties
  <2>2. \A i \in 1..(size + 1) : Append(contents, pval)[i] = buf[slot(i)]
    BY <1>1, <1>3, <2>1
  <2>3. ASSUME NEW u \in Seq(Data), Len(u) = size + 1
        PROVE  u = [i \in 1..(size + 1) |-> u[i]]
    BY <2>3
  <2> QED BY <2>1, <2>2, <2>3
<1> QED BY <1>1, <1>4, <1>5, <1>6 DEF Fifo!Put

\* _tail moves k elements on.
LEMMA TailTakes ==
    ASSUME RingInv, RingInv', NEW s \in Index, offset(s) <= size, tail' = s,
           UNCHANGED <<buf, head>>
    PROVE  UNCHANGED contents \/ \E k \in 1..Len(contents) : Fifo!Take(k)
<1>1. PICK k : k = offset(s)
  OBVIOUS
<1>2. head \in Index /\ tail \in Index
  BY DEF RingInv, TypeOK
<1>3. /\ k \in Nat /\ k <= size /\ size' = size - k
      /\ \A i \in 1..(N - k) : slot(i)' = slot(i + k)
  BY <1>1, <1>2, TailMoves
<1>4. /\ size \in 0..(N - 1) /\ Len(contents) = size /\ contents \in Seq(Data)
      /\ \A i \in 1..size : contents[i] = buf[slot(i)]
  BY <1>2, Geometry, ContentsValue
<1>5. contents' = [i \in 1..(size - k) |-> contents[i + k]]
  <2>1. \A i \in 1..(size - k) : i \in 1..(N - k) /\ i + k \in 1..size
    BY <1>3, <1>4, SizeAssumption
  <2>2. \A i \in 1..(size - k) : buf'[slot(i)'] = contents[i + k]
    BY <1>3, <1>4, <2>1
  <2> QED BY <1>3, <2>2 DEF contents
<1>6. CASE k = 0
  <2>1. contents' = [i \in 1..size |-> contents[i]]
    BY <1>4, <1>5, <1>6
  <2> QED BY <1>4, <2>1
<1>7. CASE k # 0
  <2>1. k \in 1..Len(contents)
    BY <1>3, <1>4, <1>7
  <2>2. \A i \in (k + 1)..size : contents[i] \in Data
    BY <1>3, <1>4
  <2>3. /\ SubSeq(contents, k + 1, Len(contents)) \in Seq(Data)
        /\ Len(SubSeq(contents, k + 1, Len(contents))) = size - k
        /\ \A i \in 1..(size - k) :
              SubSeq(contents, k + 1, Len(contents))[i] = contents[i + k]
    <3>1. PICK c \in Seq(Data), n \in Nat, m \in Nat :
              c = contents /\ n = size /\ n = Len(c) /\ m = k + 1 /\ m <= n + 1
      BY <1>3, <1>4
    <3>2. n - m + 1 = size - k /\ m \in Int /\ n \in Int
      BY <1>3, <1>4, <3>1
    <3>3. \A i \in m..n : c[i] \in Data
      BY <2>2, <3>1
    <3>4. /\ SubSeq(c, m, n) \in Seq(Data)
          /\ Len(SubSeq(c, m, n)) = IF m <= n THEN n - m + 1 ELSE 0
          /\ \A i \in 1..(n - m + 1) : SubSeq(c, m, n)[i] = c[m + i - 1]
      BY <3>2, <3>3, SubSeqProperties
    <3>5. Len(SubSeq(c, m, n)) = n - m + 1
      BY <3>1, <3>4
    <3>6. \A i \in 1..(size - k) : m + i - 1 = i + k
      BY <1>3, <1>4, <3>1
    <3> QED BY <3>1, <3>2, <3>4, <3>5, <3>6
  <2>4. contents' = SubSeq(contents, k + 1, Len(contents))
    BY <1>3, <1>4, <1>5, <2>3
  <2> QED BY <2>1, <2>4 DEF Fifo!Take
<1> QED BY <1>6, <1>7

(* The ring implements the bounded first-in first-out queue (IsFifo). *)
THEOREM Refinement == Spec => IsFifo
<1>1. Init => Fifo!Init
  BY DEF Init, Fifo!Init, contents, size
<1>2. RingInv /\ RingInv' /\ [Next]_vars => [Fifo!Next]_contents
  <2> SUFFICES ASSUME RingInv, RingInv', [Next]_vars
               PROVE  Fifo!Next \/ UNCHANGED contents
    OBVIOUS
  <2>1. CASE \E v \in Data : push(v)
    BY <2>1, QueueSame DEF push
  <2>2. CASE push_write
    BY <2>2, WriteStutters
  <2>3. CASE push_publish
    BY <2>3, PublishPuts DEF Fifo!Next
  <2>4. CASE pop
    <3>1. CASE want = 0 \/ is_empty
      BY <2>4, <3>1, QueueSame DEF pop
    <3>2. CASE ~(want = 0 \/ is_empty)
      <4>1. tail' = succ(tail) /\ UNCHANGED <<buf, head>> /\ tail \in Index
        BY <2>4, <3>2 DEF pop, RingInv, TypeOK
      <4>2. succ(tail) \in Index /\ offset(succ(tail)) = 1
        BY <4>1, SuccOffset
      <4>3. 1 <= size
        BY <3>2, Geometry, ContentsValue DEF RingInv, TypeOK
      <4> QED BY <4>1, <4>2, <4>3, TailTakes DEF Fifo!Next
    <3> QED BY <3>1, <3>2
  <2>5. CASE clear_write
    <3>1. tail' = seen /\ UNCHANGED <<buf, head>> /\ seen \in Index
          /\ offset(seen) <= size
      BY <2>5 DEF clear_write, RingInv, TypeOK, ConsumerInv
    <3> QED BY <3>1, TailTakes DEF Fifo!Next
  <2>6. CASE \/ getc \/ front \/ clear \/ flush
             \/ \E n \in 1..MaxAsk : discard(n) \/ copy_to(n)
             \/ copy_check \/ copy_clamp \/ copy_branch \/ copy_step
             \/ \E popped \in BOOLEAN : copy_done(popped)
    BY <2>6, QueueSame DEF getc, front, clear, flush, discard, copy_to,
       copy_check, copy_clamp, copy_branch, copy_step, copy_done
  <2>7. CASE UNCHANGED vars
    BY <2>7, QueueSame DEF vars
  <2> QED BY <2>1, <2>2, <2>3, <2>4, <2>5, <2>6, <2>7 DEF Next, Producer, Consumer
<1> QED BY <1>1, <1>2, Inductive, PTL DEF Spec, IsFifo, Fifo!Spec

-----------------------------------------------------------------------------
(***************************************************************************)
(* Sequences: a part of one, three put together, one element more or less.  *)
(***************************************************************************)
\* x is what s holds from m to n.
Piece(X, x, s, m, n) ==
    /\ x \in Seq(X) /\ Len(x) = n - m + 1
    /\ \A i \in 1..(n - m + 1) : x[i] = s[m + i - 1]

LEMMA Part ==
    ASSUME NEW X, NEW s \in Seq(X), NEW m \in Nat \ {0}, NEW n \in Nat, m <= n + 1, n <= Len(s)
    PROVE  Piece(X, SubSeq(s, m, n), s, m, n)
<1>1. Len(s) \in Nat
  BY LenProperties
<1>2. \A i \in m..n : s[i] \in X
  <2> SUFFICES ASSUME NEW i \in m..n PROVE s[i] \in X
    OBVIOUS
  <2>1. i \in 1..Len(s)
    BY <1>1
  <2> QED BY <2>1, ElementOfSeq
<1>3. m \in Int /\ n \in Int
  OBVIOUS
<1>4. /\ SubSeq(s, m, n) \in Seq(X)
      /\ Len(SubSeq(s, m, n)) = IF m <= n THEN n - m + 1 ELSE 0
      /\ \A i \in 1..(n - m + 1) : SubSeq(s, m, n)[i] = s[m + i - 1]
  BY <1>2, <1>3, SubSeqProperties
<1> QED BY <1>4 DEF Piece

\* Three parts of a row or a line put together.
LEMMA Threefold ==
    ASSUME NEW X, NEW a \in Seq(X), NEW b \in Seq(X), NEW c \in Seq(X)
    PROVE  /\ a \o b \o c \in Seq(X) /\ Len(a) \in Nat /\ Len(b) \in Nat /\ Len(c) \in Nat
           /\ Len(a \o b \o c) = Len(a) + Len(b) + Len(c)
           /\ \A i \in 1..Len(a) : (a \o b \o c)[i] = a[i]
           /\ \A i \in 1..Len(b) : (a \o b \o c)[Len(a) + i] = b[i]
           /\ \A i \in 1..Len(c) : (a \o b \o c)[Len(a) + Len(b) + i] = c[i]
<1>1. Len(a) \in Nat /\ Len(b) \in Nat /\ Len(c) \in Nat
  BY LenProperties
<1>2. PICK x : x = a \o b
  OBVIOUS
<1>3. /\ x \in Seq(X) /\ Len(x) = Len(a) + Len(b)
      /\ \A i \in 1..(Len(a) + Len(b)) : x[i] = IF i <= Len(a) THEN a[i] ELSE b[i - Len(a)]
  BY <1>2, ConcatProperties
<1>4. PICK y : y = x \o c
  OBVIOUS
<1>5. /\ y \in Seq(X) /\ Len(y) = Len(x) + Len(c)
      /\ \A i \in 1..(Len(x) + Len(c)) : y[i] = IF i <= Len(x) THEN x[i] ELSE c[i - Len(x)]
  <2>1. x \in Seq(X) /\ c \in Seq(X)
    BY <1>3
  <2> QED BY <1>4, <2>1, ConcatProperties
<1>6. \A i \in 1..Len(a) : y[i] = a[i]
  BY <1>1, <1>3, <1>5
<1>7. \A i \in 1..Len(b) : y[Len(a) + i] = b[i]
  <2> SUFFICES ASSUME NEW i \in 1..Len(b) PROVE y[Len(a) + i] = b[i]
    OBVIOUS
  <2>1. PICK j : j = Len(a) + i
    OBVIOUS
  <2>2. /\ j \in 1..(Len(a) + Len(b)) /\ ~(j <= Len(a)) /\ j - Len(a) = i
        /\ j <= Len(x) /\ j \in 1..(Len(x) + Len(c))
    BY <1>1, <1>3, <2>1
  <2> QED BY <1>3, <1>5, <2>1, <2>2
<1>8. \A i \in 1..Len(c) : y[Len(a) + Len(b) + i] = c[i]
  <2> SUFFICES ASSUME NEW i \in 1..Len(c) PROVE y[Len(a) + Len(b) + i] = c[i]
    OBVIOUS
  <2>1. PICK j : j = Len(a) + Len(b) + i
    OBVIOUS
  <2>2. j \in 1..(Len(x) + Len(c)) /\ ~(j <= Len(x)) /\ j - Len(x) = i
    BY <1>1, <1>3, <2>1
  <2> QED BY <1>5, <2>1, <2>2
<1> QED BY <1>1, <1>2, <1>3, <1>4, <1>5, <1>6, <1>7, <1>8

-----------------------------------------------------------------------------
(***************************************************************************)
(* Folds over positions.  A fold is a recursive function over sets of them,  *)
(* so that it exists, and what it gives, follow by induction over its prefixes. *)
(***************************************************************************)
\* A set of naturals has a least element; from it, the induction that the lemmas below use.
LEMMA NatLeast ==
    ASSUME NEW T, T \subseteq Nat, T # {}
    PROVE  \E x \in T : \A y \in T : x <= y
<1>1. PICK x \in T : \A y \in T : ~ (<<y, x>> \in OpToRel(<, Nat))
  BY NatLessThanWellFounded, WFMin
<1>2. ASSUME NEW y \in T PROVE x <= y
  <2>1. x \in Nat /\ y \in Nat
    OBVIOUS
  <2>2. y < x => <<y, x>> \in OpToRel(<, Nat)
    BY <2>1 DEF OpToRel
  <2>3. ~(y < x)
    BY <1>1, <2>2, Zenon
  <2> QED BY <2>1, <2>3
<1> QED BY <1>2

LEMMA Induct ==
    ASSUME NEW n \in Nat, NEW T, 0 \in T, \A k \in 1..n : k - 1 \in T => k \in T
    PROVE  0..n \subseteq T
<1> SUFFICES ASSUME (0..n) \ T # {} PROVE FALSE
  OBVIOUS
<1>1. PICK x \in (0..n) \ T : \A y \in (0..n) \ T : x <= y
  <2>1. (0..n) \ T \subseteq Nat
    OBVIOUS
  <2> QED BY <2>1, NatLeast
<1>2. x \in 1..n
  BY <1>1
<1>3. x - 1 \in 0..n /\ ~(x <= x - 1)
  BY <1>2
<1> QED BY <1>1, <1>2, <1>3

\* The greatest of some positions.
LEMMA MaxOf ==
    ASSUME NEW n \in Nat, NEW u \in SUBSET (1..n), u # {}
    PROVE  Max(u) \in u /\ \A y \in u : Max(u) >= y
<1> DEFINE T == {n - y : y \in u}
<1>1. T \subseteq Nat /\ T # {}
  <2>1. \A y \in u : n - y \in Nat
    OBVIOUS
  <2> QED BY <2>1
<1>2. PICK x \in T : \A y \in T : x <= y
  BY <1>1, NatLeast
<1>3. PICK z \in u : x = n - z
  BY <1>2
<1>4. \A y \in u : z >= y
  <2> SUFFICES ASSUME NEW y \in u PROVE z >= y
    OBVIOUS
  <2>1. n - y \in T
    OBVIOUS
  <2>2. n - z <= n - y
    BY <1>2, <1>3, <2>1
  <2> QED BY <2>2
<1> QED BY <1>3, <1>4 DEF Max

\* g is the fold of G over every set of the first n positions, from b.
IsFold(g, b, n, G) ==
    \A u \in SUBSET (1..n) : g[u] = IF u = {} THEN b ELSE G[<<g[u \ {Max(u)}], Max(u)>>]

\* f is the values that fold goes through, from b on.
Steps(f, b, n, G) == f[0] = b /\ \A k \in 1..n : f[k] = G[<<f[k - 1], k>>]

Through(g, n) == [k \in 0..n |-> g[1..k]]

\* Every fold over positions exists: the recursive function that folds are defined by.
LEMMA FoldExists ==
    ASSUME NEW X, NEW n \in Nat, NEW G \in [X \X (1..n) -> X], NEW b \in X
    PROVE  \E g \in [SUBSET (1..n) -> X] : IsFold(g, b, n, G)
<1> DEFINE T == {k \in 0..n : \E g \in [SUBSET (1..k) -> X] : IsFold(g, b, k, G)}
<1>1. 0 \in T
  <2> DEFINE g == [u \in SUBSET (1..0) |-> b]
  <2>1. \A u \in SUBSET (1..0) : u = {}
    OBVIOUS
  <2>2. g \in [SUBSET (1..0) -> X] /\ IsFold(g, b, 0, G)
    BY <2>1 DEF IsFold
  <2>3. 0 \in 0..n
    OBVIOUS
  <2>4. \E h \in [SUBSET (1..0) -> X] : IsFold(h, b, 0, G)
    BY <2>2
  <2> HIDE DEF g
  <2> QED BY <2>3, <2>4
<1>2. ASSUME NEW k \in 1..n, k - 1 \in T PROVE k \in T
  <2>1. PICK g \in [SUBSET (1..(k - 1)) -> X] : IsFold(g, b, k - 1, G)
    BY <1>2
  <2> DEFINE h == [u \in SUBSET (1..k) |-> IF k \in u THEN G[<<g[u \ {k}], k>>] ELSE g[u]]
  <2>2. ASSUME NEW u \in SUBSET (1..k)
        PROVE  u \ {k} \in SUBSET (1..(k - 1)) /\ (k \notin u => u \in SUBSET (1..(k - 1)))
    OBVIOUS
  <2>3. h \in [SUBSET (1..k) -> X]
    BY <2>1, <2>2
  <2>4. ASSUME NEW u \in SUBSET (1..k), k \in u PROVE h[u] = G[<<h[u \ {Max(u)}], Max(u)>>] /\ u # {}
    <3>1. Max(u) \in u /\ Max(u) >= k
      <4>1. k \in Nat /\ u # {}
        BY <2>4
      <4>2. Max(u) \in u /\ \A y \in u : Max(u) >= y
        BY <4>1, MaxOf
      <4> QED BY <2>4, <4>2
    <3>2. Max(u) = k
      <4>1. Max(u) \in 1..k
        BY <3>1
      <4> QED BY <3>1, <4>1
    <3>3. h[u \ {k}] = g[u \ {k}]
      BY <2>2
    <3> QED BY <2>4, <3>2, <3>3
  <2>5. ASSUME NEW u \in SUBSET (1..k), k \notin u, u # {} PROVE h[u] = G[<<h[u \ {Max(u)}], Max(u)>>]
    <3>1. u \in SUBSET (1..(k - 1)) /\ u \ {Max(u)} \in SUBSET (1..(k - 1))
      BY <2>2, <2>5
    <3>2. h[u] = g[u] /\ h[u \ {Max(u)}] = g[u \ {Max(u)}]
      BY <2>5, <3>1
    <3>3. g[u] = G[<<g[u \ {Max(u)}], Max(u)>>]
      BY <2>1, <2>5, <3>1 DEF IsFold
    <3> QED BY <3>2, <3>3
  <2>6. h[{}] = b
    BY <2>1 DEF IsFold
  <2>7. IsFold(h, b, k, G)
    <3> SUFFICES ASSUME NEW u \in SUBSET (1..k)
                 PROVE  h[u] = IF u = {} THEN b ELSE G[<<h[u \ {Max(u)}], Max(u)>>]
      BY DEF IsFold
    <3> HIDE DEF h
    <3> QED BY <2>4, <2>5, <2>6
  <2> HIDE DEF h
  <2> QED BY <2>3, <2>7
<1>3. 0..n \subseteq T
  <2> HIDE DEF T
  <2> QED BY <1>1, <1>2, Induct
<1>4. n \in T
  <2> HIDE DEF T
  <2> QED BY <1>3
<1> QED BY <1>4

\* The values of a fold over the prefixes are those it goes through.
LEMMA FoldedPrefixes ==
    ASSUME NEW n \in Nat, NEW X, NEW G, NEW b \in X, NEW g \in [SUBSET (1..n) -> X],
           IsFold(g, b, n, G)
    PROVE  Through(g, n) \in [0..n -> X] /\ Steps(Through(g, n), b, n, G)
<1>0. PICK f : f = Through(g, n) /\ f = [k \in 0..n |-> g[1..k]]
  BY DEF Through
<1>1. \A k \in 0..n : 1..k \in SUBSET (1..n)
  OBVIOUS
<1>2. f \in [0..n -> X]
  BY <1>0, <1>1
<1>3. f[0] = b
  <2>1. 0 \in 0..n /\ 1..0 = {} /\ {} \in SUBSET (1..n)
    OBVIOUS
  <2>2. f[0] = g[1..0] /\ g[{}] = b
    BY <1>0, <2>1 DEF IsFold
  <2> QED BY <2>1, <2>2
<1>4. ASSUME NEW k \in 1..n PROVE f[k] = G[<<f[k - 1], k>>]
  <2>1. 1..k \in SUBSET (1..n) /\ 1..k # {} /\ k \in 1..k /\ k - 1 \in 0..n
    OBVIOUS
  <2>2. Max(1..k) \in 1..k /\ Max(1..k) >= k
    BY <2>1, MaxOf
  <2>3. Max(1..k) = k /\ (1..k) \ {k} = 1..(k - 1)
    BY <2>2
  <2>4. g[1..k] = G[<<g[(1..k) \ {Max(1..k)}], Max(1..k)>>]
    BY <2>1 DEF IsFold
  <2>5. g[1..k] = G[<<g[1..(k - 1)], k>>]
    BY <2>3, <2>4
  <2> QED BY <1>0, <2>1, <2>5
<1>5. Steps(f, b, n, G)
  BY <1>3, <1>4 DEF Steps
<1> QED BY <1>0, <1>2, <1>5

LEMMA StepsExist ==
    ASSUME NEW X, NEW n \in Nat, NEW G \in [X \X (1..n) -> X], NEW b \in X
    PROVE  \E f \in [0..n -> X] : Steps(f, b, n, G)
<1>1. PICK g \in [SUBSET (1..n) -> X] : IsFold(g, b, n, G)
  BY FoldExists
<1>2. Through(g, n) \in [0..n -> X] /\ Steps(Through(g, n), b, n, G)
  BY <1>1, FoldedPrefixes
<1> QED BY <1>2

\* Two folds that take the same steps from the same value.
LEMMA FoldsAgree ==
    ASSUME NEW n \in Nat, NEW g, NEW h, g[{}] = h[{}],
           \A u \in SUBSET (1..n) : u # {} /\ g[u \ {Max(u)}] = h[u \ {Max(u)}] => g[u] = h[u]
    PROVE  g[1..n] = h[1..n]
<1> DEFINE T == {k \in 0..n : \A u \in SUBSET (1..k) : g[u] = h[u]}
<1>1. 0 \in T
  <2>1. \A u \in SUBSET (1..0) : u = {}
    OBVIOUS
  <2>2. 0 \in 0..n
    OBVIOUS
  <2> QED BY <2>1, <2>2
<1>2. ASSUME NEW k \in 1..n, k - 1 \in T PROVE k \in T
  <2>1. k \in 0..n /\ k \in Nat
    OBVIOUS
  <2>2. ASSUME NEW u \in SUBSET (1..k), u # {} PROVE g[u] = h[u]
    <3>1. u \in SUBSET (1..n)
      OBVIOUS
    <3>2. Max(u) \in u /\ \A y \in u : Max(u) >= y
      BY <2>1, <2>2, MaxOf
    <3>3. u \ {Max(u)} \in SUBSET (1..(k - 1))
      <4> SUFFICES ASSUME NEW y \in u, y # Max(u) PROVE y \in 1..(k - 1)
        OBVIOUS
      <4>1. y \in 1..k /\ Max(u) \in 1..k /\ Max(u) >= y
        BY <3>2
      <4> QED BY <4>1
    <3>4. g[u \ {Max(u)}] = h[u \ {Max(u)}]
      BY <1>2, <3>3
    <3> QED BY <2>2, <3>1, <3>4
  <2> QED BY <2>1, <2>2
<1>3. n \in T
  <2> HIDE DEF T
  <2>1. 0..n \subseteq T
    BY <1>1, <1>2, Induct
  <2> QED BY <2>1
<1> QED BY <1>3

-----------------------------------------------------------------------------
(***************************************************************************)
(* Sequences joined to one.                                                  *)
(***************************************************************************)
\* What the first k sequences of q are together.
Upto(q, k) == FlattenSeq(SubSeq(q, 1, k))

\* q is sequences over X.
Seqs(q, X) == q \in Seq(Seq(X))

\* h is that, sequence by sequence.
Joins(h, q, X) ==
    h \in [0..Len(q) -> Seq(X)] /\ h[0] = <<>> /\ \A k \in 1..Len(q) : h[k] = h[k - 1] \o q[k]

\* FlattenSeq and its prefixes: what the sequences give together, one after the other.
LEMMA JoinsExist == ASSUME NEW X, NEW q, Seqs(q, X) PROVE \E h : Joins(h, q, X)
<1>1. PICK n \in Nat : n = Len(q) /\ \A k \in 1..n : q[k] \in Seq(X)
  BY DEF Seqs
<1> DEFINE V == Seq(X)
           G == [z \in V \X (1..n) |-> z[1] \o q[z[2]]]
<1>2. G \in [V \X (1..n) -> V] /\ \A x \in V, k \in 1..n : G[<<x, k>>] = x \o q[k]
  <2>1. ASSUME NEW z \in V \X (1..n) PROVE z[1] \o q[z[2]] \in V
    <3>1. z[1] \in V /\ q[z[2]] \in V
      BY <1>1
    <3> QED BY <3>1, ConcatProperties
  <2> QED BY <2>1
<1>3. <<>> \in V
  OBVIOUS
<1> HIDE DEF G, V
<1>4. PICK h \in [0..n -> V] : Steps(h, <<>>, n, G)
  BY <1>2, <1>3, StepsExist
<1>5. ASSUME NEW k \in 1..n PROVE h[k] = h[k - 1] \o q[k]
  <2>1. k - 1 \in 0..n /\ h[k - 1] \in V /\ h[k] = G[<<h[k - 1], k>>]
    BY <1>4 DEF Steps
  <2> QED BY <1>2, <2>1
<1>6. h[0] = <<>>
  BY <1>4 DEF Steps
<1> QED BY <1>1, <1>4, <1>5, <1>6 DEF Joins, V

Adds(h, q) == h[0] = <<>> /\ \A k \in 1..Len(q) : h[k] = h[k - 1] \o q[k]

\* FlattenSeq is the last of the sequences that arise by joining one more at a time.
LEMMA FlattenIs ==
    ASSUME NEW X, NEW q, Seqs(q, X), NEW h,
           Adds(h, q)
    PROVE  FlattenSeq(q) = h[Len(q)]
<1>0. PICK n \in Nat : n = Len(q) /\ \A k \in 1..n : q[k] \in Seq(X)
  BY DEF Seqs
<1>a. h[0] = <<>> /\ \A k \in 1..n : h[k] = h[k - 1] \o q[k]
  BY <1>0, Zenon DEF Adds
<1>1. CASE n = 0
  <2>1. q = <<>>
    <3>1. Len(q) = 0
      BY <1>0, <1>1
    <3> QED BY <3>1, EmptySeq, Zenon DEF Seqs
  <2> QED BY <1>0, <1>1, <1>a, <2>1 DEF FlattenSeq
<1>2. CASE n # 0
  <2>1. PICK f : /\ f = CHOOSE x : x = [i \in 1..n |-> IF i = 1 THEN q[i] ELSE x[i - 1] \o q[i]]
                 /\ FlattenSeq(q) = f[n]
    BY <1>0, <1>2 DEF FlattenSeq
  <2>2. PICK g : g = [i \in 1..n |-> h[i]]
    OBVIOUS
  <2>3. g = [i \in 1..n |-> IF i = 1 THEN q[i] ELSE g[i - 1] \o q[i]]
    <3> SUFFICES ASSUME NEW i \in 1..n PROVE h[i] = IF i = 1 THEN q[i] ELSE g[i - 1] \o q[i]
      BY <2>2
    <3>1. CASE i = 1
      <4>1. i - 1 = 0
        BY <3>1
      <4>4. h[i] = h[i - 1] \o q[i]
        BY <1>a, Zenon
      <4>2. q[i] \in Seq(X)
        BY <1>0
      <4>3. <<>> \o q[i] = q[i]
        BY <4>2, ConcatEmptySeq, Zenon
      <4>5. h[i] = q[i]
        BY <1>a, <4>1, <4>3, <4>4, Zenon
      <4> QED BY <3>1, <4>5, Zenon
    <3>2. CASE i # 1
      <4>1. i - 1 \in 1..n
        BY <3>2
      <4> QED BY <1>a, <2>2, <3>2, <4>1
    <3> QED BY <3>1, <3>2
  <2>4. f = [i \in 1..n |-> IF i = 1 THEN q[i] ELSE f[i - 1] \o q[i]]
    BY <2>1, <2>3
  <2> DEFINE T == {k \in 0..n : k # 0 => f[k] = g[k]}
  <2>5. 0 \in T
    OBVIOUS
  <2>6. ASSUME NEW k \in 1..n, k - 1 \in T PROVE k \in T
    <3>1. CASE k = 1
      BY <2>3, <2>4, <3>1
    <3>2. CASE k # 1
      <4>1. k - 1 # 0 /\ f[k - 1] = g[k - 1] /\ k \in 0..n
        BY <2>6, <3>2
      <4>2. f[k] = f[k - 1] \o q[k] /\ g[k] = g[k - 1] \o q[k]
        BY <2>3, <2>4, <3>2
      <4> QED BY <4>1, <4>2
    <3> QED BY <3>1, <3>2
  <2>7. n \in T
    <3> HIDE DEF T
    <3>1. 0..n \subseteq T
      BY <2>5, <2>6, Induct
    <3> QED BY <3>1
  <2> QED BY <1>0, <1>2, <2>1, <2>2, <2>7
<1> QED BY <1>0, <1>1, <1>2

\* Upto(q, k) is the k-th of them.
LEMMA UptoIs ==
    ASSUME NEW X, NEW q, Seqs(q, X), NEW h, Joins(h, q, X), NEW k \in 0..Len(q)
    PROVE  Upto(q, k) = h[k]
<1>1. PICK n \in Nat : n = Len(q) /\ \A i \in 1..n : q[i] \in Seq(X)
  BY DEF Seqs
<1>2. PICK t : t = SubSeq(q, 1, k)
  OBVIOUS
<1>3. Seqs(t, X) /\ Len(t) = k /\ \A i \in 1..k : t[i] = q[i]
  BY <1>1, <1>2 DEF Seqs
<1>4. \A i \in 1..Len(t) : h[i] = h[i - 1] \o t[i]
  <2>1. \A i \in 1..k : i \in 1..n
    BY <1>1
  <2>2. \A i \in 1..n : h[i] = h[i - 1] \o q[i]
    BY <1>1 DEF Joins
  <2> QED BY <1>3, <2>1, <2>2, Zenon
<1>5. h[0] = <<>>
  BY DEF Joins
<1>6. k \in Nat
  BY <1>1
<1>7. FlattenSeq(t) = h[k]
  <2>1. FlattenSeq(t) = h[Len(t)]
    BY <1>3, <1>4, <1>5, FlattenIs, Zenon DEF Adds
  <2> QED BY <1>3, <2>1, Zenon
<1> QED BY <1>2, <1>7, Zenon DEF Upto

\* No sequence, all of them, and one more.
LEMMA UptoEmpty == ASSUME NEW X, NEW q, Seqs(q, X) PROVE Upto(q, 0) = <<>>
<1>1. 0 \in 0..Len(q)
  BY DEF Seqs
<1>2. PICK h : Joins(h, q, X)
  BY JoinsExist
<1>3. h[0] = <<>>
  BY <1>2 DEF Joins
<1> QED BY <1>1, <1>2, <1>3, UptoIs, Zenon

LEMMA UptoAll == ASSUME NEW X, NEW q, Seqs(q, X) PROVE Upto(q, Len(q)) = FlattenSeq(q)
<1>1. Len(q) \in 0..Len(q) /\ Len(q) \in Nat
  BY DEF Seqs
<1>2. PICK h : Joins(h, q, X)
  BY JoinsExist
<1>3. Adds(h, q)
  BY <1>2 DEF Joins, Adds
<1>4. FlattenSeq(q) = h[Len(q)]
  BY <1>1, <1>3, FlattenIs, Zenon
<1> QED BY <1>1, <1>2, <1>4, UptoIs, Zenon

LEMMA SeqLen == ASSUME NEW X, NEW s \in Seq(X) PROVE Len(s) \in Nat
OBVIOUS

LEMMA UptoSeq ==
    ASSUME NEW X, NEW q, Seqs(q, X), NEW k \in 0..Len(q)
    PROVE  Upto(q, k) \in Seq(X) /\ Len(Upto(q, k)) \in Nat
<1>1. PICK h : Joins(h, q, X)
  BY JoinsExist
<1>2. h[k] \in Seq(X)
  BY <1>1 DEF Joins
<1>3. Upto(q, k) = h[k]
  BY <1>1, UptoIs, Zenon
<1> QED BY <1>2, <1>3, SeqLen, Zenon

LEMMA UptoStep ==
    ASSUME NEW X, NEW q, Seqs(q, X), NEW k \in 1..Len(q)
    PROVE  /\ k - 1 \in 0..Len(q) /\ k \in 0..Len(q) /\ q[k] \in Seq(X)
           /\ Upto(q, k) = Upto(q, k - 1) \o q[k]
<1>1. k - 1 \in 0..Len(q) /\ k \in 0..Len(q) /\ q[k] \in Seq(X)
  BY DEF Seqs
<1>2. PICK h : Joins(h, q, X)
  BY JoinsExist
<1>3. h[k] = h[k - 1] \o q[k]
  BY <1>2 DEF Joins
<1>4. Upto(q, k) = h[k] /\ Upto(q, k - 1) = h[k - 1]
  BY <1>1, <1>2, UptoIs, Zenon
<1> QED BY <1>1, <1>3, <1>4, Zenon

-----------------------------------------------------------------------------
(****************************************************************************)
(* The widths of integers are powers of two.                               *)
(****************************************************************************)
\* Powers of two, of which the provers know nothing, are the numbers of subsets.
LEMMA Powers == ASSUME NEW n \in Nat PROVE 2^n \in Nat \ {0} /\ 2^(n + 1) = 2 * 2^n
<1> DEFINE A == 1..n
           m == n + 1
           B == {u \cup {m} : u \in SUBSET A}
<1>1. IsFiniteSet(A) /\ Cardinality(A) = n /\ IsFiniteSet(1..m) /\ Cardinality(1..m) = n + 1
  <2>1. 1 \in Int /\ n \in Int /\ m \in Int /\ ~(1 > m) /\ m - 1 + 1 = n + 1
        /\ (1 > n => n = 0) /\ n - 1 + 1 = n
    OBVIOUS
  <2> HIDE DEF m
  <2>2. IsFiniteSet(1..n) /\ Cardinality(1..n) = IF 1 > n THEN 0 ELSE n - 1 + 1
    BY <2>1, FS_Interval, Zenon
  <2>3. IsFiniteSet(1..m) /\ Cardinality(1..m) = IF 1 > m THEN 0 ELSE m - 1 + 1
    BY <2>1, FS_Interval, Zenon
  <2> QED BY <2>1, <2>2, <2>3
<1>2. IsFiniteSet(SUBSET A) /\ Cardinality(SUBSET A) = 2^n
  BY <1>1, FS_SUBSET, Zenon
<1>3. IsFiniteSet(SUBSET (1..m)) /\ Cardinality(SUBSET (1..m)) = 2^(n + 1)
  BY <1>1, FS_SUBSET, Zenon
<1>4. ExistsBijection(SUBSET A, B)
  <2> DEFINE f == [u \in SUBSET A |-> u \cup {m}]
  <2>1. f \in [SUBSET A -> B]
    BY Zenon
  <2>2. ASSUME NEW u \in SUBSET A, NEW v \in SUBSET A, f[u] = f[v] PROVE u = v
    <3>1. m \notin A
      OBVIOUS
    <3> HIDE DEF A, m
    <3>2. m \notin u /\ m \notin v /\ u \cup {m} = v \cup {m}
      BY <2>2, <3>1
    <3> QED BY <3>2
  <2>3. f \in Injection(SUBSET A, B)
    BY <2>1, <2>2, Zenon DEF Injection, IsInjective
  <2>4. f \in Surjection(SUBSET A, B)
    BY <2>1, Zenon DEF Surjection
  <2>5. f \in Bijection(SUBSET A, B)
    BY <2>3, <2>4, Zenon DEF Bijection
  <2> QED BY <2>5, Zenon DEF ExistsBijection
<1>5. IsFiniteSet(B) /\ Cardinality(B) = 2^n
  BY <1>2, <1>4, FS_Bijection, Zenon
<1>6. SUBSET (1..m) = (SUBSET A) \cup B /\ (SUBSET A) \cap B = {}
  <2>1. 1..m = A \cup {m} /\ m \notin A
    OBVIOUS
  <2>2. ASSUME NEW u \in SUBSET (1..m), m \in u PROVE u \in B
    <3>1. u \ {m} \in SUBSET A /\ u = (u \ {m}) \cup {m}
      BY <2>1, <2>2
    <3> QED BY <3>1
  <2>3. ASSUME NEW u \in SUBSET (1..m), m \notin u PROVE u \in SUBSET A
    BY <2>1, <2>3
  <2>4. ASSUME NEW u \in B PROVE u \in SUBSET (1..m) /\ m \in u
    BY <2>1
  <2>5. ASSUME NEW u \in SUBSET A PROVE u \in SUBSET (1..m) /\ m \notin u
    BY <2>1
  <2> HIDE DEF B, A, m
  <2> QED BY <2>2, <2>3, <2>4, <2>5
<1>7. Cardinality(SUBSET (1..m)) = Cardinality(SUBSET A) + Cardinality(B) - Cardinality((SUBSET A) \cap B)
  <2>1. Cardinality((SUBSET A) \cup B) = Cardinality(SUBSET A) + Cardinality(B) - Cardinality((SUBSET A) \cap B)
    BY <1>2, <1>5, FS_Union, Zenon
  <2> QED BY <1>6, <2>1, Zenon
<1>8. Cardinality((SUBSET A) \cap B) = 0
  BY <1>6, FS_EmptySet, Zenon
<1>9. 2^n \in Nat
  BY <1>2, FS_CardinalityType, Zenon
<1>10. 2^n # 0
  <2>1. SUBSET A # {}
    OBVIOUS
  <2> QED BY <1>2, <2>1, FS_EmptySet, Zenon
<1>11. 2^(n + 1) = 2^n + 2^n - 0
  BY <1>2, <1>3, <1>5, <1>7, <1>8, Zenon
<1> QED BY <1>9, <1>10, <1>11

\* A sequence of one.
LEMMA OnePlace == ASSUME NEW X, NEW x \in X PROVE <<x>> \in Seq(X)
OBVIOUS

-----------------------------------------------------------------------------
(****************************************************************************)
(* Views: the first and the last letter trim keeps, what split cuts; the text. *)
(****************************************************************************)
\* The views, and those within a text.
Places == [off : Nat, len : Nat]
Within(v, b) == v \in Places /\ end(v) <= Len(b)

\* i is the first, or the last, of the first n characters that are not in a set; or 0.
FirstOut(s, n, set, i) ==
    \/ i = 0 /\ \A k \in 1..n : s[k] \in set
    \/ i \in 1..n /\ s[i] \notin set /\ \A k \in 1..(i - 1) : s[k] \in set
LastOut(s, n, set, i) ==
    \/ i = 0 /\ \A k \in 1..n : s[k] \in set
    \/ i \in 1..n /\ s[i] \notin set /\ \A k \in (i + 1)..n : s[k] \in set

\* The first and the last position trim keeps.
LEMMA FirstNot ==
    ASSUME NEW n \in Nat, NEW s, NEW set, NEW I, I = {k \in 1..n : s[k] \notin set},
           NEW i, i = IF I # {} THEN Min(I) ELSE 0
    PROVE  FirstOut(s, n, set, i)
<1>1. CASE I = {}
  BY <1>1 DEF FirstOut
<1>2. CASE I # {}
  <2>1. I \subseteq Nat
    OBVIOUS
  <2>2. \E x \in I : \A y \in I : x <= y
    BY <1>2, <2>1, NatLeast, Zenon
  <2>3. i \in I /\ \A y \in I : i <= y
    BY <1>2, <2>2 DEF Min
  <2>4. ASSUME NEW k \in 1..(i - 1) PROVE s[k] \in set
    <3>1. k \in 1..n /\ ~(i <= k)
      BY <2>3
    <3> QED BY <2>3, <3>1
  <2> QED BY <2>3, <2>4 DEF FirstOut
<1> QED BY <1>1, <1>2

LEMMA LastNot ==
    ASSUME NEW n \in Nat, NEW s, NEW set, NEW I, I = {k \in 1..n : s[k] \notin set},
           NEW i, i = IF I # {} THEN Max(I) ELSE 0
    PROVE  LastOut(s, n, set, i)
<1>1. CASE I = {}
  BY <1>1 DEF LastOut
<1>2. CASE I # {}
  <2>1. I \in SUBSET (1..n)
    OBVIOUS
  <2>2. i \in I /\ \A y \in I : i >= y
    BY <1>2, <2>1, MaxOf, Zenon
  <2>3. ASSUME NEW k \in (i + 1)..n PROVE s[k] \in set
    <3>1. k \in 1..n /\ ~(i >= k)
      BY <2>1, <2>2
    <3> QED BY <2>2, <3>1
  <2> QED BY <2>2, <2>3 DEF LastOut
<1> QED BY <1>1, <1>2

\* What split keeps.
Cutting == [prev : Nat, out : Seq(Places)]
\* What split keeps is of this type; split is the fold of cut over the text.
LEMMA BetweenPlaces == ASSUME NEW i \in Nat, NEW j \in Nat PROVE between(i, j) \in Seq(Places)
<1>1. CASE j > i
  <2>1. View(i, j - i) \in Places
    BY <1>1 DEF View, Places
  <2> QED BY <1>1, <2>1, OnePlace DEF between
<1>2. CASE ~(j > i)
  BY <1>2 DEF between
<1> QED BY <1>1, <1>2

LEMMA CutKeeps ==
    ASSUME NEW b, NEW set, NEW i \in Nat, i # 0, NEW a \in Cutting
    PROVE  cut(b, set, a, i) \in Cutting
<1> DEFINE V == Seq(Places)
<1>1. PICK n \in Nat, w \in V : n = a.prev /\ w = a.out
  <2> HIDE DEF V
  <2>1. a \in [prev : Nat, out : V]
    BY DEF Cutting, V
  <2> QED BY <2>1
<1>2. i - 1 \in Nat
  OBVIOUS
<1>3. w \o between(n, i - 1) \in V
  BY <1>2, BetweenPlaces, ConcatProperties, Zenon
<1>4. \A u \in V : [prev |-> i, out |-> u] \in Cutting
  <2> HIDE DEF V
  <2>1. \A u \in V : [prev |-> i, out |-> u] \in [prev : Nat, out : V]
    OBVIOUS
  <2> QED BY <2>1 DEF Cutting, V
<1>5. [prev |-> i, out |-> w \o between(n, i - 1)] \in Cutting
  BY <1>3, <1>4, Zenon
<1>6. CASE b[i] \in set
  BY <1>1, <1>5, <1>6, Zenon DEF cut
<1>7. CASE b[i] \notin set
  BY <1>7, Zenon DEF cut
<1> QED BY <1>6, <1>7

LEMMA ConcatNothing == ASSUME NEW X, NEW w \in Seq(X) PROVE w \o <<>> = w
OBVIOUS

LEMMA JustOne == ASSUME NEW X, NEW q \in X PROVE <<q>> \in Seq(X) /\ Len(<<q>>) = 1 /\ <<q>>[1] = q
OBVIOUS

LEMMA SeqMore == ASSUME NEW X, NEW Y, NEW b \in Seq(X) PROVE b \in Seq(X \cup Y)
OBVIOUS

\* The string consists of its letters.
TextInv == call = "text" => text \in Seq(Letters)

\* A string is built one letter at a time.
LEMMA AppendSeq == ASSUME NEW X, NEW s \in Seq(X), NEW c \in X PROVE Append(s, c) \in Seq(X)
OBVIOUS

LEMMA EmptyText == ASSUME NEW X PROVE <<>> \in Seq(X)
OBVIOUS

\* So it stays made of them.
LEMMA TextKept == TextInv /\ [LibraryNext]_libraryVars => TextInv'
<1> SUFFICES ASSUME TextInv, [LibraryNext]_libraryVars PROVE TextInv'
  OBVIOUS
<1>1. CASE UNCHANGED <<call, text>>
  BY <1>1, Zenon DEF TextInv
<1>2. CASE call \in {"text", "numbers"} /\ grow /\ UNCHANGED call
  <2> SUFFICES ASSUME call' = "text" PROVE text' \in Seq(Letters)
    BY Zenon DEF TextInv
  <2>1. call = "text" /\ text \in Seq(Letters)
    BY <1>2, Zenon DEF TextInv
  <2>2. PICK c \in Letters : text' = Append(text, c)
    BY <1>2, <2>1, Zenon DEF grow
  <2> QED BY <2>1, <2>2, AppendSeq, Zenon
<1>3. [LibraryNext]_libraryVars => UNCHANGED <<call, text>> \/ (call \in {"text", "numbers"} /\ grow /\ UNCHANGED call)
  BY Zenon DEF LibraryNext, libraryVars
<1> QED BY <1>1, <1>2, <1>3, Zenon

-----------------------------------------------------------------------------
(***************************************************************************)
(* The containers: what they do to a sequence, and the sets and maps of it.  *)
(***************************************************************************)
\* Containers has its own instance of the community modules: the operators are the same.
LEMMA FlattenSame == ASSUME NEW q PROVE C!FlattenSeq(q) = FlattenSeq(q)
  BY DEF C!FlattenSeq, FlattenSeq

LEMMA CardSame == ASSUME NEW T PROVE C!Cardinality(T) = Cardinality(T)
  BY DEF C!Cardinality, Cardinality

\* The first k elements of v.
First(v, k) == SubSeq(v, 1, k)

\* What the first k elements are.
LEMMA FirstIs ==
    ASSUME NEW X, NEW v \in Seq(X), NEW k \in 0..Len(v)
    PROVE  /\ First(v, k) \in Seq(X) /\ Len(First(v, k)) = k /\ \A i \in 1..k : First(v, k)[i] = v[i]
           /\ Len(v) \in Nat
<1>1. Len(v) \in Nat
  BY LenProperties
<1>2. k \in Nat /\ k <= Len(v) /\ 1 \in Nat \ {0} /\ 1 <= k + 1
  BY <1>1
<1>3. Piece(X, SubSeq(v, 1, k), v, 1, k)
  BY <1>2, Part
<1> QED BY <1>1, <1>2, <1>3 DEF Piece, First

\* All of them, and none.
LEMMA FirstAll == ASSUME NEW X, NEW v \in Seq(X) PROVE First(v, Len(v)) = v /\ First(v, 0) = <<>>
<1>1. Len(v) \in Nat /\ Len(v) \in 0..Len(v) /\ 0 \in 0..Len(v)
  BY LenProperties
<1>2. First(v, Len(v)) \in Seq(X) /\ First(v, 0) \in Seq(X) /\ Len(First(v, 0)) = 0
      /\ Len(First(v, Len(v))) = Len(v) /\ \A i \in 1..Len(v) : First(v, Len(v))[i] = v[i]
  BY <1>1, FirstIs
<1>3. First(v, 0) = <<>>
  BY <1>2, EmptySeq
<1>4. First(v, Len(v)) = v
  BY <1>2, SeqEqual
<1> QED BY <1>3, <1>4

\* One more of them.
LEMMA FirstNext ==
    ASSUME NEW X, NEW v \in Seq(X), NEW k \in 1..Len(v)
    PROVE  First(v, k) = Append(First(v, k - 1), v[k]) /\ First(v, k - 1) \in Seq(X) /\ v[k] \in X
           /\ Len(First(v, k - 1)) = k - 1
<1>1. Len(v) \in Nat /\ k \in 0..Len(v) /\ k - 1 \in 0..Len(v)
  BY LenProperties
<1>2. v[k] \in X
  BY ElementOfSeq
<1> DEFINE a == First(v, k)
           b == First(v, k - 1)
           c == Append(b, v[k])
<1>3. a \in Seq(X) /\ Len(a) = k /\ \A i \in 1..k : a[i] = v[i]
  BY <1>1, FirstIs
<1>4. b \in Seq(X) /\ Len(b) = k - 1 /\ \A i \in 1..(k - 1) : b[i] = v[i]
  BY <1>1, FirstIs
<1>5. c \in Seq(X) /\ Len(c) = Len(b) + 1 /\ (\A i \in 1..Len(b) : c[i] = b[i]) /\ c[Len(b) + 1] = v[k]
  BY <1>2, <1>4, AppendProperties
<1>6. a = c
  <2>1. Len(c) = Len(a) /\ \A i \in 1..Len(a) : a[i] = c[i]
    <3> HIDE DEF a, b, c
    <3>1. Len(c) = k
      BY <1>1, <1>4, <1>5
    <3>2. ASSUME NEW i \in 1..k PROVE a[i] = c[i]
      <4>1. CASE i = k
        BY <1>3, <1>4, <1>5, <4>1
      <4>2. CASE i # k
        <5>1. i \in 1..(k - 1)
          BY <4>2
        <5> QED BY <1>3, <1>4, <1>5, <5>1
      <4> QED BY <4>1, <4>2
    <3> QED BY <1>3, <3>1, <3>2
  <2> HIDE DEF a, b, c
  <2> QED BY <1>3, <1>5, <2>1, SeqEqual
<1> QED BY <1>2, <1>4, <1>6

\* Induction over sequences, for a set of them.
LEMMA SeqInduct ==
    ASSUME NEW X, NEW T, <<>> \in T, \A s \in Seq(X), x \in X : s \in T => Append(s, x) \in T
    PROVE  Seq(X) \subseteq T
<1> SUFFICES ASSUME NEW v \in Seq(X) PROVE v \in T
  OBVIOUS
<1> DEFINE K == {k \in 0..Len(v) : First(v, k) \in T}
<1>1. Len(v) \in Nat
  BY LenProperties
<1>2. First(v, Len(v)) = v /\ First(v, 0) = <<>>
  BY FirstAll
<1>3. 0 \in K
  BY <1>1, <1>2
<1>4. ASSUME NEW k \in 1..Len(v), k - 1 \in K PROVE k \in K
  <2>1. First(v, k) = Append(First(v, k - 1), v[k]) /\ First(v, k - 1) \in Seq(X) /\ v[k] \in X
    BY FirstNext
  <2>2. First(v, k - 1) \in T /\ k \in 0..Len(v)
    BY <1>1, <1>4
  <2> QED BY <2>1, <2>2
<1>5. 0..Len(v) \subseteq K
  <2> HIDE DEF K
  <2> QED BY <1>1, <1>3, <1>4, Induct
<1> QED BY <1>1, <1>2, <1>5

\* An element behind a sequence.
LEMMA Appended ==
    ASSUME NEW X, NEW v \in Seq(X), NEW x \in X
    PROVE  /\ Append(v, x) \in Seq(X) /\ Len(Append(v, x)) = Len(v) + 1 /\ Append(v, x)[Len(v) + 1] = x
           /\ \A i \in 1..Len(v) : Append(v, x)[i] = v[i]
BY AppendProperties

\* The sequences that a selection joins: each element that is chosen, alone.
Choice(n, v, P) == [i \in 1..n |-> IF i \in P THEN <<v[i]>> ELSE <<>>]
Picked(v, P) == FlattenSeq(Choice(Len(v), v, P))

\* They are sequences of elements.
LEMMA ChoiceSeqs ==
    ASSUME NEW X, NEW v \in Seq(X), NEW P
    PROVE  Seqs(Choice(Len(v), v, P), X) /\ Len(Choice(Len(v), v, P)) = Len(v)
<1>1. Len(v) \in Nat
  BY LenProperties
<1>2. ASSUME NEW i \in 1..Len(v) PROVE (IF i \in P THEN <<v[i]>> ELSE <<>>) \in Seq(X)
  <2>1. v[i] \in X
    BY ElementOfSeq
  <2>2. <<v[i]>> \in Seq(X) /\ <<>> \in Seq(X)
    BY <2>1, JustOne, EmptySeq
  <2> QED BY <2>2
<1>3. Choice(Len(v), v, P) \in [1..Len(v) -> Seq(X)]
  BY <1>2 DEF Choice
<1> QED BY <1>1, <1>3 DEF Seqs

\* An element behind the sequence is picked behind the others.
LEMMA PickedNext ==
    ASSUME NEW X, NEW v \in Seq(X), NEW x \in X, NEW P
    PROVE  /\ Picked(Append(v, x), P) = IF Len(v) + 1 \in P THEN Append(Picked(v, P), x) ELSE Picked(v, P)
           /\ Picked(v, P) \in Seq(X)
<1> DEFINE w == Append(v, x)
<1>1. w \in Seq(X) /\ Len(w) = Len(v) + 1 /\ w[Len(v) + 1] = x /\ \A i \in 1..Len(v) : w[i] = v[i]
  BY Appended
<1>w. w = Append(v, x)
  OBVIOUS
<1> HIDE DEF w
<1>2. PICK n \in Nat : n = Len(v)
  BY LenProperties
<1>3. PICK q : q = Choice(n + 1, w, P) /\ Seqs(q, X) /\ Len(q) = n + 1
  BY <1>1, <1>2, ChoiceSeqs
<1>4. PICK r : r = Choice(n, v, P) /\ Seqs(r, X) /\ Len(r) = n
  BY <1>2, ChoiceSeqs
<1>5. SubSeq(q, 1, n) = r
  <2>1. q \in Seq(Seq(X)) /\ r \in Seq(Seq(X)) /\ n \in 0..Len(q)
    BY <1>3, <1>4 DEF Seqs
  <2>2. First(q, n) \in Seq(Seq(X)) /\ Len(First(q, n)) = n /\ \A i \in 1..n : First(q, n)[i] = q[i]
    BY <2>1, FirstIs
  <2>3. \A i \in 1..n : q[i] = r[i]
    BY <1>1, <1>2, <1>3, <1>4 DEF Choice
  <2>4. First(q, n) = r
    BY <1>4, <2>1, <2>2, <2>3, SeqEqual
  <2> QED BY <2>4 DEF First
<1>6. Picked(w, P) = Upto(q, n + 1)
  BY <1>1, <1>2, <1>3, UptoAll DEF Picked
<1>7. Picked(v, P) = Upto(q, n)
  BY <1>2, <1>4, <1>5 DEF Picked, Upto
<1>8. Upto(q, n + 1) = Upto(q, n) \o q[n + 1] /\ Upto(q, n) \in Seq(X)
  <2>1. n + 1 \in 1..Len(q) /\ (n + 1) - 1 = n /\ n \in 0..Len(q)
    BY <1>3
  <2> QED BY <1>3, <2>1, UptoStep, UptoSeq
<1>9. q[n + 1] = IF n + 1 \in P THEN <<x>> ELSE <<>>
  BY <1>1, <1>2, <1>3 DEF Choice
<1>10. Upto(q, n) \o <<>> = Upto(q, n) /\ Upto(q, n) \o <<x>> = Append(Upto(q, n), x)
  BY <1>8, ConcatEmptySeq, AppendIsConcat
<1>11. Picked(w, P) = IF n + 1 \in P THEN Append(Picked(v, P), x) ELSE Picked(v, P)
  BY <1>6, <1>7, <1>8, <1>9, <1>10
<1> QED BY <1>w, <1>2, <1>7, <1>8, <1>11

\* Only the positions in the sequence matter.
LEMMA PickedSame ==
    ASSUME NEW X, NEW v \in Seq(X), NEW P, NEW Q, \A i \in 1..Len(v) : i \in P <=> i \in Q
    PROVE  Picked(v, P) = Picked(v, Q)
<1>1. Choice(Len(v), v, P) = Choice(Len(v), v, Q)
  BY DEF Choice
<1> QED BY <1>1 DEF Picked

\* Nothing is picked of nothing.
LEMMA PickedNone == ASSUME NEW P PROVE Picked(<<>>, P) = <<>>
<1>1. <<>> \in Seq({}) /\ Len(<<>>) = 0
  BY EmptySeq
<1>2. Seqs(Choice(0, <<>>, P), {}) /\ Len(Choice(0, <<>>, P)) = 0
  BY <1>1, ChoiceSeqs
<1>3. Choice(0, <<>>, P) = <<>>
  BY <1>2, EmptySeq DEF Seqs
<1> QED BY <1>1, <1>3 DEF Picked, FlattenSeq

\* filter and filter_indexed pick the positions whose element they accept.
LEMMA FilterPicked ==
    ASSUME NEW v, NEW A
    PROVE  C!filter(v, A) = Picked(v, {i \in 1..Len(v) : v[i] \in A})
<1>1. [i \in 1..Len(v) |-> IF v[i] \in A THEN <<v[i]>> ELSE <<>>] = Choice(Len(v), v, {i \in 1..Len(v) : v[i] \in A})
  BY DEF Choice
<1> QED BY <1>1, FlattenSame DEF C!filter, Picked

LEMMA IndexedPicked ==
    ASSUME NEW v, NEW A
    PROVE  C!filter_indexed(v, A) = Picked(v, {i \in 1..Len(v) : <<v[i], i - 1>> \in A})
<1>1. [i \in 1..Len(v) |-> IF <<v[i], i - 1>> \in A THEN <<v[i]>> ELSE <<>>]
      = Choice(Len(v), v, {i \in 1..Len(v) : <<v[i], i - 1>> \in A})
  BY DEF Choice
<1> QED BY <1>1, FlattenSame DEF C!filter_indexed, Picked

\* filter, of nothing and of one element more.
LEMMA FilterNone == ASSUME NEW A PROVE C!filter(<<>>, A) = <<>>
BY FilterPicked, PickedNone

\* One element more is kept or is not.
LEMMA FilterNext ==
    ASSUME NEW X, NEW v \in Seq(X), NEW x \in X, NEW A
    PROVE  /\ C!filter(Append(v, x), A) = IF x \in A THEN Append(C!filter(v, A), x) ELSE C!filter(v, A)
           /\ C!filter(v, A) \in Seq(X)
<1> DEFINE w == Append(v, x)
<1>1. w \in Seq(X) /\ Len(w) = Len(v) + 1 /\ w[Len(v) + 1] = x /\ \A i \in 1..Len(v) : w[i] = v[i]
  BY Appended
<1>w. w = Append(v, x)
  OBVIOUS
<1> HIDE DEF w
<1>2. Len(v) \in Nat
  BY LenProperties
<1> DEFINE P == {i \in 1..Len(w) : w[i] \in A}
           Q == {i \in 1..Len(v) : v[i] \in A}
<1>3. C!filter(w, A) = Picked(w, P) /\ C!filter(v, A) = Picked(v, Q)
  BY FilterPicked
<1>4. Picked(v, P) = Picked(v, Q)
  <2>1. \A i \in 1..Len(v) : i \in P <=> i \in Q
    BY <1>1, <1>2
  <2> HIDE DEF P, Q
  <2> QED BY <2>1, PickedSame
<1>5. Len(v) + 1 \in P <=> x \in A
  BY <1>1, <1>2
<1>6. /\ Picked(w, P) = IF Len(v) + 1 \in P THEN Append(Picked(v, P), x) ELSE Picked(v, P)
      /\ Picked(v, P) \in Seq(X)
  <2> HIDE DEF P, Q
  <2>1. /\ Picked(Append(v, x), P) = IF Len(v) + 1 \in P THEN Append(Picked(v, P), x) ELSE Picked(v, P)
        /\ Picked(v, P) \in Seq(X)
    BY PickedNext
  <2> QED BY <1>w, <2>1
<1> HIDE DEF P, Q
<1> QED BY <1>w, <1>3, <1>4, <1>5, <1>6

\* What filter keeps are elements.
LEMMA FilterSeq == ASSUME NEW X, NEW v \in Seq(X), NEW A PROVE C!filter(v, A) \in Seq(X)
<1>1. CASE v = <<>>
  BY <1>1, FilterNone, EmptySeq
<1>2. CASE v # <<>>
  <2>1. v[1] \in X
    BY <1>2, EmptySeq, ElementOfSeq
  <2> QED BY <2>1, FilterNext
<1> QED BY <1>1, <1>2

\* An element behind the second of two sequences stands behind both.
LEMMA AppendConcat ==
    ASSUME NEW X, NEW a \in Seq(X), NEW b \in Seq(X), NEW x \in X
    PROVE  a \o Append(b, x) = Append(a \o b, x)
<1>1. a \o b \in Seq(X) /\ <<x>> \in Seq(X)
  BY ConcatProperties, JustOne
<1>2. Append(b, x) = b \o <<x>>
  BY AppendIsConcat
<1>3. Append(a \o b, x) = (a \o b) \o <<x>>
  BY <1>1, AppendIsConcat
<1>4. (a \o b) \o <<x>> = a \o (b \o <<x>>)
  BY <1>1, ConcatAssociative
<1> QED BY <1>2, <1>3, <1>4

\* filter passes through a concatenation.
LEMMA FilterConcat ==
    ASSUME NEW X, NEW a \in Seq(X), NEW b \in Seq(X), NEW A
    PROVE  C!filter(a \o b, A) = C!filter(a, A) \o C!filter(b, A)
<1> DEFINE T == {s \in Seq(X) : C!filter(a \o s, A) = C!filter(a, A) \o C!filter(s, A)}
<1>0. C!filter(a, A) \in Seq(X)
  BY FilterSeq
<1>1. <<>> \in T
  <2>1. a \o <<>> = a /\ C!filter(a, A) \o <<>> = C!filter(a, A) /\ <<>> \in Seq(X)
    BY <1>0, ConcatEmptySeq, EmptySeq
  <2> QED BY <2>1, FilterNone
<1>2. ASSUME NEW s \in Seq(X), NEW x \in X, s \in T PROVE Append(s, x) \in T
  <2>1. Append(s, x) = s \o <<x>> /\ <<x>> \in Seq(X) /\ a \o s \in Seq(X) /\ Append(s, x) \in Seq(X)
        /\ C!filter(s, A) \in Seq(X) /\ C!filter(a \o s, A) \in Seq(X)
    BY AppendIsConcat, JustOne, ConcatProperties, Appended, FilterSeq
  <2>2. a \o Append(s, x) = Append(a \o s, x)
    BY AppendConcat
  <2>3. C!filter(Append(a \o s, x), A) =
           IF x \in A THEN Append(C!filter(a \o s, A), x) ELSE C!filter(a \o s, A)
    <3> DEFINE w == a \o s
    <3>1. w \in Seq(X)
      BY <2>1
    <3> HIDE DEF w
    <3>2. C!filter(Append(w, x), A) = IF x \in A THEN Append(C!filter(w, A), x) ELSE C!filter(w, A)
      BY <3>1, FilterNext, SMTT(30)
    <3> USE DEF w
    <3> QED BY <3>2
  <2>4. C!filter(Append(s, x), A) = IF x \in A THEN Append(C!filter(s, A), x) ELSE C!filter(s, A)
    BY FilterNext
  <2>5. Append(C!filter(a, A) \o C!filter(s, A), x) = C!filter(a, A) \o Append(C!filter(s, A), x)
    BY <1>0, <2>1, AppendConcat
  <2>6. C!filter(a \o s, A) = C!filter(a, A) \o C!filter(s, A)
    BY <1>2
  <2> QED BY <2>1, <2>2, <2>3, <2>4, <2>5, <2>6
<1>3. Seq(X) \subseteq T
  <2> HIDE DEF T
  <2> QED BY <1>1, <1>2, SeqInduct
<1> QED BY <1>3

\* count_if, of nothing and of one element more; it counts what filter keeps.
LEMMA CountNone == ASSUME NEW x PROVE C!count_if(<<>>, x) = 0
<1>1. {i \in 1..Len(<<>>) : <<>>[i] = x} = {}
  <2>1. Len(<<>>) = 0
    BY EmptySeq
  <2> QED BY <2>1
<1> QED BY <1>1, CardSame, FS_EmptySet DEF C!count_if

\* One element more counts, or does not.
LEMMA CountNext ==
    ASSUME NEW X, NEW v \in Seq(X), NEW y \in X, NEW x
    PROVE  /\ C!count_if(Append(v, y), x) = IF y = x THEN C!count_if(v, x) + 1 ELSE C!count_if(v, x)
           /\ C!count_if(v, x) \in Nat
<1> DEFINE w == Append(v, y)
<1>1. w \in Seq(X) /\ Len(w) = Len(v) + 1 /\ w[Len(v) + 1] = y /\ \A i \in 1..Len(v) : w[i] = v[i]
  BY Appended
<1>w. w = Append(v, y)
  OBVIOUS
<1> HIDE DEF w
<1>2. PICK n \in Nat : n = Len(v)
  BY LenProperties
<1> DEFINE P == {i \in 1..(n + 1) : w[i] = x}
           Q == {i \in 1..n : v[i] = x}
<1>3. C!count_if(w, x) = Cardinality(P) /\ C!count_if(v, x) = Cardinality(Q)
  BY <1>1, <1>2, CardSame DEF C!count_if
<1>4. IsFiniteSet(Q) /\ n + 1 \notin Q
  <2>1. IsFiniteSet(1..n) /\ Q \subseteq 1..n
    BY FS_Interval
  <2>2. n + 1 \notin Q
    BY <1>2
  <2> QED BY <2>1, <2>2, FS_Subset
<1>5. P = IF y = x THEN Q \cup {n + 1} ELSE Q
  <2>1. ASSUME NEW i \in 1..(n + 1) PROVE i \in P <=> (i \in Q \/ (i = n + 1 /\ y = x))
    <3>1. CASE i = n + 1
      BY <1>1, <1>2, <3>1
    <3>2. CASE i # n + 1
      <4>1. i \in 1..n
        BY <3>2
      <4> QED BY <1>1, <1>2, <3>2, <4>1
    <3> QED BY <3>1, <3>2
  <2>2. P \subseteq 1..(n + 1) /\ Q \subseteq 1..(n + 1) /\ n + 1 \in 1..(n + 1)
    BY <1>2
  <2> HIDE DEF P, Q
  <2> QED BY <2>1, <2>2
<1>6. Cardinality(Q) \in Nat /\ Cardinality(Q \cup {n + 1}) = Cardinality(Q) + 1
  BY <1>4, FS_CardinalityType, FS_AddElement
<1> HIDE DEF P, Q
<1> QED BY <1>w, <1>3, <1>5, <1>6

\* count_if is the length of what filter keeps.
LEMMA CountFilter ==
    ASSUME NEW X, NEW v \in Seq(X), NEW x
    PROVE  C!count_if(v, x) = Len(C!filter(v, {x}))
<1> DEFINE T == {s \in Seq(X) : C!count_if(s, x) = Len(C!filter(s, {x}))}
<1>1. <<>> \in T
  BY FilterNone, CountNone, EmptySeq
<1>2. ASSUME NEW s \in Seq(X), NEW y \in X, s \in T PROVE Append(s, y) \in T
  <2>1. C!filter(Append(s, y), {x}) = (IF y \in {x} THEN Append(C!filter(s, {x}), y) ELSE C!filter(s, {x}))
        /\ C!filter(s, {x}) \in Seq(X)
    BY FilterNext
  <2>2. Len(Append(C!filter(s, {x}), y)) = Len(C!filter(s, {x})) + 1
    BY <2>1, Appended
  <2>3. C!count_if(Append(s, y), x) = IF y = x THEN C!count_if(s, x) + 1 ELSE C!count_if(s, x)
    BY CountNext
  <2>4. Append(s, y) \in Seq(X)
    BY Appended
  <2> QED BY <1>2, <2>1, <2>2, <2>3, <2>4
<1>3. Seq(X) \subseteq T
  <2> HIDE DEF T
  <2> QED BY <1>1, <1>2, SeqInduct
<1> QED BY <1>3

\* What follows the first k elements of v.
After(v, k) == SubSeq(v, k + 1, Len(v))

Follows_in(b, X, v, k, n) == b \in Seq(X) /\ Len(b) = n - k /\ \A i \in 1..(n - k) : b[i] = v[k + i]

\* What the elements behind the first k are.
LEMMA AfterIs ==
    ASSUME NEW X, NEW v \in Seq(X), NEW n, n = Len(v), NEW k \in 0..n
    PROVE  Follows_in(After(v, k), X, v, k, n)
<1>1. n \in Nat /\ n = Len(v)
  BY LenProperties
<1>2. k + 1 \in Nat \ {0} /\ k + 1 <= n + 1 /\ k \in Nat
  BY <1>1
<1>3. Piece(X, SubSeq(v, k + 1, n), v, k + 1, n)
  BY <1>1, <1>2, Part
<1>4. \A i \in 1..(n - k) : k + 1 + i - 1 = k + i
  BY <1>2
<1>5. n - (k + 1) + 1 = n - k
  BY <1>1, <1>2
<1> DEFINE b == SubSeq(v, k + 1, n)
<1>6. b = After(v, k)
  BY <1>1 DEF After
<1>7. b \in Seq(X) /\ Len(b) = n - (k + 1) + 1 /\ \A i \in 1..(n - (k + 1) + 1) : b[i] = v[k + 1 + i - 1]
  BY <1>3 DEF Piece
<1> HIDE DEF b
<1>8. b \in Seq(X) /\ Len(b) = n - k /\ \A i \in 1..(n - k) : b[i] = v[k + i]
  BY <1>4, <1>5, <1>7
<1>9. Follows_in(b, X, v, k, n)
  BY <1>8 DEF Follows_in
<1> QED BY <1>6, <1>9

\* A sequence is its first k elements and what follows.
LEMMA Divided ==
    ASSUME NEW X, NEW v \in Seq(X), NEW k \in 0..Len(v)
    PROVE  v = First(v, k) \o After(v, k)
<1>1. PICK n \in Nat : n = Len(v) /\ k \in 0..n
  BY LenProperties
<1> DEFINE a == First(v, k)
           b == After(v, k)
<1>2. a \in Seq(X) /\ Len(a) = k /\ \A i \in 1..k : a[i] = v[i]
  BY FirstIs
<1>3. b \in Seq(X) /\ Len(b) = n - k /\ \A i \in 1..(n - k) : b[i] = v[k + i]
  <2>1. Follows_in(b, X, v, k, n)
    BY <1>1, AfterIs
  <2> QED BY <2>1 DEF Follows_in
<1> HIDE DEF a, b
<1>4. /\ a \o b \in Seq(X) /\ Len(a \o b) = Len(a) + Len(b)
      /\ \A i \in 1..(Len(a) + Len(b)) : (a \o b)[i] = IF i <= Len(a) THEN a[i] ELSE b[i - Len(a)]
  BY <1>2, <1>3, ConcatProperties
<1>5. ASSUME NEW i \in 1..n PROVE (a \o b)[i] = v[i]
  <2>1. i \in 1..(Len(a) + Len(b))
    BY <1>1, <1>2, <1>3
  <2>2. CASE i <= k
    <3>1. i \in 1..k
      BY <1>1, <2>2
    <3> QED BY <1>2, <1>4, <2>1, <2>2, <3>1
  <2>3. CASE ~(i <= k)
    <3>1. i - k \in 1..(n - k) /\ k + (i - k) = i
      BY <1>1, <2>3
    <3> QED BY <1>2, <1>3, <1>4, <2>1, <2>3, <3>1
  <2> QED BY <2>2, <2>3
<1>6. Len(a \o b) = n
  BY <1>1, <1>2, <1>3, <1>4
<1>7. a \o b = v
  BY <1>1, <1>4, <1>5, <1>6, SeqEqual
<1> QED BY <1>7 DEF a, b

\* And so it is what is before an element, the element and what is behind it.
LEMMA Apart ==
    ASSUME NEW X, NEW v \in Seq(X), NEW k \in 1..Len(v)
    PROVE  v = First(v, k - 1) \o <<v[k]>> \o After(v, k)
<1>1. k \in 0..Len(v) /\ Len(v) \in Nat
  BY LenProperties
<1>2. First(v, k) = Append(First(v, k - 1), v[k]) /\ First(v, k - 1) \in Seq(X) /\ v[k] \in X
  BY FirstNext
<1>3. Append(First(v, k - 1), v[k]) = First(v, k - 1) \o <<v[k]>>
  BY <1>2, AppendIsConcat
<1>4. v = First(v, k) \o After(v, k)
  BY <1>1, Divided
<1> QED BY <1>2, <1>3, <1>4

\* insert_at and erase_at in those terms.
LEMMA InsertIs ==
    ASSUME NEW X, NEW v \in Seq(X), NEW i \in 0..Len(v), NEW x
    PROVE  C!insert_at(v, i, x) = First(v, i) \o <<x>> \o After(v, i)
<1>1. PICK j : j = i + 1
  OBVIOUS
<1>2. j - 1 = i
  BY <1>1
<1>3. C!insert_at(v, i, x) = SubSeq(v, 1, j - 1) \o <<x>> \o SubSeq(v, j, Len(v))
  BY <1>1 DEF C!insert_at, C!InsertAt
<1> QED BY <1>1, <1>2, <1>3 DEF First, After

LEMMA EraseIs ==
    ASSUME NEW v, NEW i \in Int
    PROVE  C!erase_at(v, i) = First(v, i) \o After(v, i + 1)
<1>1. PICK j : j = i + 1
  OBVIOUS
<1>2. j - 1 = i
  BY <1>1
<1>3. C!erase_at(v, i) = SubSeq(v, 1, j - 1) \o SubSeq(v, j + 1, Len(v))
  BY <1>1 DEF C!erase_at, C!RemoveAt
<1> QED BY <1>1, <1>2, <1>3 DEF First, After

\* Three put together: where the middle one stands, and the outer two.
Around(w, X, a, x, b) ==
    /\ w \in Seq(X) /\ Len(w) = Len(a) + 1 + Len(b) /\ w[Len(a) + 1] = x
    /\ \A i \in 1..Len(a) : w[i] = a[i]
    /\ First(w, Len(a)) = a /\ After(w, Len(a) + 1) = b /\ Len(a) \in Nat /\ Len(b) \in Nat

LEMMA Middle ==
    ASSUME NEW X, NEW a \in Seq(X), NEW x \in X, NEW b \in Seq(X), NEW w, w = a \o <<x>> \o b
    PROVE  Around(w, X, a, x, b)
<1>1. PICK m \in Nat, n \in Nat : m = Len(a) /\ n = Len(b)
  BY LenProperties
<1>2. <<x>> \in Seq(X) /\ Len(<<x>>) = 1 /\ <<x>>[1] = x
  BY JustOne
<1>3. /\ w \in Seq(X) /\ Len(w) = m + 1 + n
      /\ (\A i \in 1..m : w[i] = a[i])
      /\ (\A i \in 1..1 : w[m + i] = <<x>>[i])
      /\ \A i \in 1..n : w[m + 1 + i] = b[i]
  BY <1>1, <1>2, Threefold
<1>4. w[m + 1] = x
  BY <1>2, <1>3
<1>5. m \in 0..Len(w) /\ m + 1 \in 0..Len(w) /\ Len(w) - (m + 1) = n
  BY <1>3
<1>6. First(w, m) = a
  <2>1. First(w, m) \in Seq(X) /\ Len(First(w, m)) = m /\ \A i \in 1..m : First(w, m)[i] = w[i]
    BY <1>3, <1>5, FirstIs
  <2> QED BY <1>1, <1>3, <2>1, SeqEqual
<1>7. After(w, m + 1) = b
  <2>1. After(w, m + 1) \in Seq(X) /\ Len(After(w, m + 1)) = n /\ \A i \in 1..n : After(w, m + 1)[i] = w[m + 1 + i]
    <3>1. PICK k \in 0..Len(w) : k = m + 1 /\ Len(w) - k = n
      BY <1>5
    <3>2. Follows_in(After(w, k), X, w, k, Len(w))
      BY <1>3, AfterIs
    <3> QED BY <3>1, <3>2 DEF Follows_in
  <2> QED BY <1>1, <1>3, <2>1, SeqEqual
<1> QED BY <1>1, <1>3, <1>4, <1>6, <1>7 DEF Around

\* Where x is found in v, or -1.
Found(v, x, i) ==
    \/ i = -1 /\ \A k \in 1..Len(v) : v[k] # x
    \/ i \in 0..(Len(v) - 1) /\ v[i + 1] = x /\ \A k \in 1..i : v[k] # x

\* index_of finds the first x.
LEMMA IndexIs == ASSUME NEW X, NEW v \in Seq(X), NEW x PROVE Found(v, x, C!index_of(v, x))
<1>1. PICK n \in Nat : n = Len(v)
  BY LenProperties
<1> DEFINE J == {k \in 1..n : v[k] = x}
<1>2. C!index_of(v, x) = (IF J # {} THEN C!Min(J) ELSE 0) - 1
  BY <1>1 DEF C!index_of, C!SelectInSeq
<1>3. CASE J = {}
  <2>1. C!index_of(v, x) = -1
    BY <1>2, <1>3
  <2> QED BY <1>1, <1>3, <2>1 DEF Found
<1>4. CASE J # {}
  <2>1. PICK j : j = C!Min(J) /\ j \in J /\ \A k \in J : j <= k
    <3>1. \E j \in J : \A k \in J : j <= k
      <4>1. J \subseteq Nat
        OBVIOUS
      <4> HIDE DEF J
      <4> QED BY <1>4, <4>1, NatLeast
    <3> HIDE DEF J
    <3> QED BY <3>1 DEF C!Min
  <2>2. C!index_of(v, x) = j - 1 /\ j \in 1..n /\ v[j] = x
    BY <1>2, <1>4, <2>1
  <2>3. ASSUME NEW k \in 1..(j - 1) PROVE v[k] # x
    <3>1. k \in 1..n /\ ~(j <= k)
      BY <2>2
    <3> QED BY <2>1, <3>1
  <2>4. j - 1 \in 0..(n - 1) /\ (j - 1) + 1 = j
    BY <2>2
  <2> QED BY <1>1, <2>2, <2>3, <2>4 DEF Found
<1> QED BY <1>3, <1>4

\* There is one first place.
LEMMA FoundOnce ==
    ASSUME NEW X, NEW v \in Seq(X), NEW x, NEW i, NEW j, Found(v, x, i), Found(v, x, j)
    PROVE  i = j
<1>1. PICK n \in Nat : n = Len(v)
  BY LenProperties
<1>2. CASE i = -1 \/ j = -1
  BY <1>1, <1>2 DEF Found
<1>3. CASE i # -1 /\ j # -1
  <2>1. i \in 0..(n - 1) /\ v[i + 1] = x /\ \A k \in 1..i : v[k] # x
    BY <1>1, <1>3 DEF Found
  <2>2. j \in 0..(n - 1) /\ v[j + 1] = x /\ \A k \in 1..j : v[k] # x
    BY <1>1, <1>3 DEF Found
  <2>3. ~(i < j) /\ ~(j < i)
    <3>1. i < j => i + 1 \in 1..j
      BY <2>1, <2>2
    <3>2. j < i => j + 1 \in 1..i
      BY <2>1, <2>2
    <3> QED BY <2>1, <2>2, <3>1, <3>2
  <2> QED BY <2>1, <2>2, <2>3
<1> QED BY <1>2, <1>3

\* And find and contains go by it.
LEMMA FindIs ==
    ASSUME NEW X, NEW v \in Seq(X), NEW x, NEW i, Found(v, x, i)
    PROVE  /\ C!index_of(v, x) = i
           /\ C!find(v, x) = (IF i = -1 THEN Len(v) ELSE i) /\ (C!contains(v, x) <=> i # -1)
<1>1. PICK n \in Nat : n = Len(v)
  BY LenProperties
<1>2. Found(v, x, C!index_of(v, x))
  BY IndexIs
<1>3. C!index_of(v, x) = i
  BY <1>2, FoundOnce
<1>4. i = -1 \/ i \in 0..(n - 1)
  BY <1>1 DEF Found
<1>5. C!find(v, x) = IF i < 0 THEN n ELSE i
  BY <1>1, <1>3 DEF C!find
<1>6. C!find(v, x) = IF i = -1 THEN n ELSE i
  BY <1>4, <1>5
<1> QED BY <1>1, <1>3, <1>4, <1>6 DEF C!contains

\* remove takes the first x out.
LEMMA RemoveIs ==
    ASSUME NEW X, NEW v \in Seq(X), NEW x, NEW i, Found(v, x, i)
    PROVE  C!remove(v, x) = IF i = -1 THEN v ELSE First(v, i) \o After(v, i + 1)
<1>1. C!find(v, x) = (IF i = -1 THEN Len(v) ELSE i) /\ (C!contains(v, x) <=> i # -1)
  BY FindIs
<1>2. CASE i = -1
  BY <1>1, <1>2 DEF C!remove
<1>3. CASE i # -1
  <2>1. C!remove(v, x) = C!erase_at(v, i)
    BY <1>1, <1>3 DEF C!remove
  <2>2. i \in Int
    <3>1. Len(v) \in Nat
      BY LenProperties
    <3> QED BY <1>3, <3>1 DEF Found
  <2> QED BY <1>3, <2>1, <2>2, EraseIs
<1> QED BY <1>2, <1>3

\* All positions but one are picked: the elements around that one are left.
LEMMA PickedAll ==
    ASSUME NEW X, NEW v \in Seq(X), NEW P, \A i \in 1..Len(v) : i \in P
    PROVE  Picked(v, P) = v
<1> DEFINE T == {s \in Seq(X) : Picked(s, Nat) = s}
<1>1. <<>> \in T
  BY PickedNone, EmptySeq
<1>2. ASSUME NEW s \in Seq(X), NEW x \in X, s \in T PROVE Append(s, x) \in T
  <2>1. Len(s) + 1 \in Nat
    <3>1. Len(s) \in Nat
      BY LenProperties
    <3> QED BY <3>1
  <2>2. Picked(Append(s, x), Nat) = Append(Picked(s, Nat), x)
    BY <2>1, PickedNext
  <2>3. Append(s, x) \in Seq(X)
    BY Appended
  <2> QED BY <1>2, <2>2, <2>3
<1>3. v \in T
  <2> HIDE DEF T
  <2> QED BY <1>1, <1>2, SeqInduct
<1>4. Len(v) \in Nat
  BY LenProperties
<1>5. \A i \in 1..Len(v) : i \in P <=> i \in Nat
  BY <1>4
<1>6. Picked(v, P) = Picked(v, Nat)
  BY <1>5, PickedSame
<1> QED BY <1>3, <1>6

\* All positions but one: the sequence without its element.
LEMMA PickedBut ==
    ASSUME NEW X, NEW a \in Seq(X), NEW x \in X, NEW b \in Seq(X), NEW P,
           \A i \in Nat : i \in P <=> i # Len(a) + 1
    PROVE  Picked(a \o <<x>> \o b, P) = a \o b
<1> DEFINE T == {s \in Seq(X) : Picked(a \o <<x>> \o s, P) = a \o s}
           u == a \o <<x>>
<1>0. Len(a) \in Nat
  BY LenProperties
<1>1. u = Append(a, x) /\ u \in Seq(X) /\ Len(u) = Len(a) + 1
  BY AppendIsConcat, Appended
<1>2. <<>> \in T
  <2>1. u \o <<>> = u /\ a \o <<>> = a /\ <<>> \in Seq(X)
    BY <1>1, ConcatEmptySeq, EmptySeq
  <2>2. Picked(Append(a, x), P) = Picked(a, P)
    <3>1. Len(a) + 1 \notin P
      BY <1>0
    <3> QED BY <3>1, PickedNext
  <2>3. Picked(a, P) = a
    <3>1. \A i \in 1..Len(a) : i \in P
      BY <1>0
    <3> QED BY <3>1, PickedAll
  <2> QED BY <1>1, <2>1, <2>2, <2>3
<1>3. ASSUME NEW s \in Seq(X), NEW y \in X, s \in T PROVE Append(s, y) \in T
  <2>1. PICK w : w = u \o s
    OBVIOUS
  <2>2. w \in Seq(X) /\ Len(w) = Len(u) + Len(s) /\ Len(s) \in Nat
    BY <1>1, <2>1, ConcatProperties, LenProperties
  <2>3. u \o Append(s, y) = Append(w, y) /\ a \o Append(s, y) = Append(a \o s, y) /\ Append(s, y) \in Seq(X)
    BY <1>1, <2>1, AppendConcat, Appended
  <2>4. Len(w) + 1 \in P
    BY <1>0, <1>1, <2>2
  <2>5. Picked(Append(w, y), P) = Append(Picked(w, P), y)
    BY <2>2, <2>4, PickedNext
  <2>6. Picked(w, P) = a \o s
    BY <1>3, <2>1
  <2> QED BY <2>3, <2>5, <2>6
<1>4. Seq(X) \subseteq T
  <2> HIDE DEF T
  <2> QED BY <1>2, <1>3, SeqInduct
<1> QED BY <1>4

\* What remove leaves: filter without x, and one x less to count.
LEMMA FilterAround ==
    ASSUME NEW X, NEW a \in Seq(X), NEW x \in X, NEW b \in Seq(X), NEW A
    PROVE  /\ C!filter(a \o b, A) = C!filter(a, A) \o C!filter(b, A)
           /\ C!filter(a \o <<x>> \o b, A) = C!filter(a, A) \o (IF x \in A THEN <<x>> ELSE <<>>) \o C!filter(b, A)
           /\ C!filter(a, A) \in Seq(X) /\ C!filter(b, A) \in Seq(X)
<1>1. C!filter(a \o b, A) = C!filter(a, A) \o C!filter(b, A)
  BY FilterConcat
<1>2. C!filter(a, A) \in Seq(X) /\ C!filter(b, A) \in Seq(X)
  BY FilterSeq
<1>3. Append(a, x) = a \o <<x>> /\ Append(a, x) \in Seq(X)
  BY AppendIsConcat, Appended
<1>a. PICK u \in Seq(X) : u = Append(a, x)
  BY <1>3
<1>4. C!filter(u \o b, A) = C!filter(u, A) \o C!filter(b, A)
  BY FilterConcat
<1>5. C!filter(Append(a, x), A) = IF x \in A THEN Append(C!filter(a, A), x) ELSE C!filter(a, A)
  BY FilterNext
<1>6. Append(C!filter(a, A), x) = C!filter(a, A) \o <<x>> /\ C!filter(a, A) \o <<>> = C!filter(a, A)
  BY <1>2, AppendIsConcat, ConcatEmptySeq
<1>7. C!filter(u, A) = C!filter(a, A) \o (IF x \in A THEN <<x>> ELSE <<>>)
  BY <1>a, <1>5, <1>6
<1> QED BY <1>1, <1>2, <1>3, <1>a, <1>4, <1>7

\* An element that is not accepted is missed by no selection.
LEMMA FilterLess ==
    ASSUME NEW X, NEW a \in Seq(X), NEW x \in X, NEW b \in Seq(X), NEW A, x \notin A
    PROVE  C!filter(a \o <<x>> \o b, A) = C!filter(a \o b, A)
<1>1. /\ C!filter(a \o b, A) = C!filter(a, A) \o C!filter(b, A)
      /\ C!filter(a \o <<x>> \o b, A) = C!filter(a, A) \o (IF x \in A THEN <<x>> ELSE <<>>) \o C!filter(b, A)
      /\ C!filter(a, A) \in Seq(X) /\ C!filter(b, A) \in Seq(X)
  BY FilterAround
<1>2. C!filter(a, A) \o <<>> = C!filter(a, A)
  BY <1>1, ConcatEmptySeq
<1> QED BY <1>1, <1>2

\* Without one x, one less is counted.
LEMMA CountLess ==
    ASSUME NEW X, NEW a \in Seq(X), NEW x \in X, NEW b \in Seq(X)
    PROVE  C!count_if(a \o b, x) = C!count_if(a \o <<x>> \o b, x) - 1
<1>1. /\ C!filter(a \o b, {x}) = C!filter(a, {x}) \o C!filter(b, {x})
      /\ C!filter(a \o <<x>> \o b, {x}) = C!filter(a, {x}) \o (IF x \in {x} THEN <<x>> ELSE <<>>) \o C!filter(b, {x})
      /\ C!filter(a, {x}) \in Seq(X) /\ C!filter(b, {x}) \in Seq(X)
  <2>1. PICK A : A = {x}
    OBVIOUS
  <2>2. /\ C!filter(a \o b, A) = C!filter(a, A) \o C!filter(b, A)
        /\ C!filter(a \o <<x>> \o b, A) = C!filter(a, A) \o (IF x \in A THEN <<x>> ELSE <<>>) \o C!filter(b, A)
        /\ C!filter(a, A) \in Seq(X) /\ C!filter(b, A) \in Seq(X)
    BY FilterAround
  <2> QED BY <2>1, <2>2
<1>2. PICK d \in Seq(X), e \in Seq(X) : d = C!filter(a, {x}) /\ e = C!filter(b, {x})
  BY <1>1
<1>3. Len(d \o e) = Len(d) + Len(e) /\ Len(d \o <<x>> \o e) = Len(d) + 1 + Len(e) /\ Len(d) \in Nat /\ Len(e) \in Nat
  <2>1. <<x>> \in Seq(X) /\ Len(<<x>>) = 1
    BY JustOne
  <2>2. Len(d \o <<x>> \o e) = Len(d) + Len(<<x>>) + Len(e)
    BY <2>1, Threefold
  <2> QED BY <2>1, <2>2, ConcatProperties, LenProperties
<1>4. a \o b \in Seq(X) /\ a \o <<x>> \o b \in Seq(X)
  BY JustOne, Threefold, ConcatProperties
<1>5. C!count_if(a \o b, x) = Len(d \o e)
  BY <1>1, <1>2, <1>4, CountFilter
<1>6. C!count_if(a \o <<x>> \o b, x) = Len(d \o <<x>> \o e)
  BY <1>1, <1>2, <1>4, CountFilter
<1> QED BY <1>3, <1>5, <1>6

\* What was inserted is found at its position or before, and can be erased.
LEMMA InsertEdits ==
    ASSUME NEW X, NEW v \in Seq(X), NEW x \in X, NEW i \in 0..Len(v), NEW w, w = C!insert_at(v, i, x)
    PROVE  /\ C!at(w, i) = x /\ C!erase_at(w, i) = v /\ C!remove_at(w, Len(w)) = w
           /\ C!find(w, x) <= i /\ (~C!contains(SubSeq(v, 1, i), x) => C!remove(w, x) = v)
<1>1. PICK n \in Nat : n = Len(v) /\ i \in 0..n
  BY LenProperties
<1>2. PICK a \in Seq(X), b \in Seq(X) : a = First(v, i) /\ b = After(v, i) /\ Len(a) = i
  <2>1. First(v, i) \in Seq(X) /\ Len(First(v, i)) = i
    BY FirstIs
  <2>2. After(v, i) \in Seq(X)
    BY <1>1, AfterIs DEF Follows_in
  <2> QED BY <2>1, <2>2
<1>3. w = a \o <<x>> \o b
  BY <1>2, InsertIs
<1>4. v = a \o b
  BY <1>2, Divided
<1>5. /\ w \in Seq(X) /\ Len(w) = i + 1 + Len(b) /\ w[i + 1] = x /\ (\A k \in 1..i : w[k] = a[k])
      /\ First(w, i) = a /\ After(w, i + 1) = b /\ Len(b) \in Nat
  <2>1. Around(w, X, a, x, b)
    BY <1>3, Middle
  <2> QED BY <1>2, <2>1 DEF Around
<1>6. C!at(w, i) = x
  BY <1>5 DEF C!at
<1>7. C!erase_at(w, i) = v
  <2>1. i \in 0..(Len(w) - 1)
    BY <1>1, <1>5
  <2>2. C!erase_at(w, i) = First(w, i) \o After(w, i + 1)
    <3>1. i \in Int
      BY <1>1
    <3> QED BY <3>1, EraseIs
  <2> QED BY <1>4, <1>5, <2>2
<1>8. C!remove_at(w, Len(w)) = w
  <2>1. Len(w) \in Nat
    BY <1>1, <1>5
  <2> QED BY <2>1 DEF C!remove_at
<1>9. PICK j : j = C!index_of(w, x) /\ Found(w, x, j)
  BY <1>5, IndexIs
<1>10. j \in 0..(Len(w) - 1) /\ j <= i
  <2>1. i + 1 \in 1..Len(w)
    BY <1>1, <1>5
  <2>2. j # -1
    <3> SUFFICES ASSUME j = -1 PROVE FALSE
      OBVIOUS
    <3>1. \A k \in 1..Len(w) : w[k] # x
      BY <1>9 DEF Found
    <3> QED BY <1>5, <2>1, <3>1
  <2>3. j \in 0..(Len(w) - 1) /\ \A k \in 1..j : w[k] # x
    BY <1>9, <2>2 DEF Found
  <2>4. ~(i + 1 <= j)
    <3> SUFFICES ASSUME i + 1 <= j PROVE FALSE
      OBVIOUS
    <3>1. i + 1 \in 1..j
      BY <1>1, <2>3
    <3> QED BY <1>5, <2>3, <3>1
  <2> QED BY <1>1, <1>5, <2>3, <2>4
<1>11. C!find(w, x) <= i
  <2>1. C!find(w, x) = IF j = -1 THEN Len(w) ELSE j
    BY <1>5, <1>9, FindIs
  <2> QED BY <1>10, <2>1
<1>12. ASSUME ~C!contains(a, x) PROVE C!remove(w, x) = v
  <2>1. PICK k : Found(a, x, k)
    BY IndexIs
  <2>2. k = -1
    BY <1>12, <2>1, FindIs
  <2>3. \A m \in 1..i : a[m] # x
    BY <1>1, <1>2, <2>1, <2>2 DEF Found
  <2>4. Found(w, x, i)
    <3>1. i \in 0..(Len(w) - 1)
      BY <1>1, <1>5
    <3> QED BY <1>5, <2>3, <3>1 DEF Found
  <2>5. C!remove(w, x) = First(w, i) \o After(w, i + 1)
    <3>1. i # -1
      BY <1>1
    <3> QED BY <1>5, <2>4, <3>1, RemoveIs
  <2> QED BY <1>4, <1>5, <2>5
<1>13. SubSeq(v, 1, i) = a
  BY <1>2 DEF First
<1> QED BY <1>6, <1>7, <1>8, <1>11, <1>12, <1>13

\* remove takes one x, and leaves the others in their order.
LEMMA RemoveEdits ==
    ASSUME NEW X, NEW v \in Seq(X), NEW x \in X
    PROVE  /\ C!contains(v, x) => C!count_if(C!remove(v, x), x) = C!count_if(v, x) - 1
           /\ C!filter(C!remove(v, x), X \ {x}) = C!filter(v, X \ {x})
           /\ C!filter_indexed(v, {p \in X \X (0..Len(v)) : p[2] # C!index_of(v, x)}) = C!remove(v, x)
<1>1. PICK n \in Nat : n = Len(v)
  BY LenProperties
<1>2. PICK i : Found(v, x, i)
  BY IndexIs
<1>3. C!index_of(v, x) = i /\ (C!contains(v, x) <=> i # -1)
  BY <1>2, FindIs
<1>4. C!remove(v, x) = IF i = -1 THEN v ELSE First(v, i) \o After(v, i + 1)
  BY <1>2, RemoveIs
<1> DEFINE B == {p \in X \X (0..Len(v)) : p[2] # i}
           P == {k \in 1..Len(v) : <<v[k], k - 1>> \in B}
<1>5. \A k \in 1..n : k \in P <=> k # i + 1
  <2> SUFFICES ASSUME NEW k \in 1..n PROVE k \in P <=> k # i + 1
    OBVIOUS
  <2>1. v[k] \in X
    BY <1>1, ElementOfSeq
  <2>2. k - 1 \in 0..n
    OBVIOUS
  <2>3. <<v[k], k - 1>> \in B <=> k - 1 # i
    BY <1>1, <2>1, <2>2
  <2>4. k - 1 # i <=> k # i + 1
    <3>1. i \in Int
      BY <1>1, <1>2 DEF Found
    <3> QED BY <3>1
  <2> QED BY <1>1, <2>3, <2>4
<1>6. C!filter_indexed(v, B) = Picked(v, P)
  BY IndexedPicked
<1>7. CASE i = -1
  <2>1. Picked(v, P) = v
    <3>1. \A k \in 1..Len(v) : k \in P
      BY <1>1, <1>5, <1>7
    <3> HIDE DEF P
    <3> QED BY <3>1, PickedAll
  <2> HIDE DEF B, P
  <2>2. C!filter_indexed(v, B) = C!remove(v, x)
    BY <1>4, <1>6, <1>7, <2>1
  <2> USE DEF B
  <2> QED BY <1>3, <1>4, <1>7, <2>2
<1>8. CASE i # -1
  <2>1. i \in 0..(n - 1) /\ v[i + 1] = x
    BY <1>1, <1>2, <1>8 DEF Found
  <2>2. PICK k : k = i + 1 /\ k \in 1..n /\ k - 1 = i /\ k \in 0..n
    BY <2>1
  <2>3. PICK a \in Seq(X), b \in Seq(X) : a = First(v, i) /\ b = After(v, k) /\ Len(a) = i
    <3>1. First(v, i) \in Seq(X) /\ Len(First(v, i)) = i
      BY <1>1, <2>1, FirstIs
    <3>2. After(v, k) \in Seq(X)
      BY <1>1, <2>2, AfterIs DEF Follows_in
    <3> QED BY <3>1, <3>2
  <2>4. v = a \o <<x>> \o b
    BY <1>1, <2>1, <2>2, <2>3, Apart
  <2>5. C!remove(v, x) = a \o b
    BY <1>4, <1>8, <2>2, <2>3
  <2>6. C!count_if(a \o b, x) = C!count_if(v, x) - 1
    BY <2>4, CountLess
  <2>7. C!filter(a \o b, X \ {x}) = C!filter(v, X \ {x})
    <3>1. PICK A : A = X \ {x} /\ x \notin A
      <4>1. x \notin X \ {x}
        OBVIOUS
      <4> DEFINE D == X \ {x}
      <4>2. D = X \ {x} /\ x \notin D
        BY <4>1
      <4> HIDE DEF D
      <4> QED BY <4>2
    <3>2. C!filter(a \o <<x>> \o b, A) = C!filter(a \o b, A)
      BY <3>1, FilterLess
    <3> QED BY <2>4, <3>1, <3>2
  <2>8. Picked(v, P) = a \o b
    <3> DEFINE Q == Nat \ {k}
    <3>1. Picked(a \o <<x>> \o b, Q) = a \o b
      <4>1. \A m \in Nat : m \in Q <=> m # Len(a) + 1
        BY <2>2, <2>3
      <4> HIDE DEF Q
      <4> QED BY <4>1, PickedBut
    <3>2. \A m \in 1..Len(v) : m \in P <=> m \in Q
      <4> HIDE DEF P
      <4> QED BY <1>1, <1>5, <2>2
    <3> HIDE DEF P, Q
    <3>3. Picked(v, P) = Picked(v, Q)
      BY <3>2, PickedSame
    <3> QED BY <2>4, <3>1, <3>3
  <2> HIDE DEF B, P
  <2>9. C!filter_indexed(v, B) = C!remove(v, x)
    BY <1>6, <2>5, <2>8
  <2> USE DEF B
  <2> QED BY <1>3, <2>5, <2>6, <2>7, <2>9
<1> QED BY <1>7, <1>8

\* Vec and List, for sequences over any set.
LEMMA SequencesEdited == ASSUME NEW X, NEW v \in Seq(X) PROVE C!SequencesEdit(v, X)
<1> SUFFICES ASSUME NEW x \in X
    PROVE  /\ \A i \in 0..Len(v) :
                 LET w == C!insert_at(v, i, x)
                 IN  /\ C!at(w, i) = x /\ C!erase_at(w, i) = v /\ C!remove_at(w, Len(w)) = w
                     /\ C!find(w, x) <= i /\ (~C!contains(SubSeq(v, 1, i), x) => C!remove(w, x) = v)
           /\ C!count_if(v, x) = Len(C!filter(v, {x}))
           /\ C!contains(v, x) => C!count_if(C!remove(v, x), x) = C!count_if(v, x) - 1
           /\ C!filter(C!remove(v, x), X \ {x}) = C!filter(v, X \ {x})
           /\ C!filter_indexed(v, {p \in X \X (0..Len(v)) : p[2] # C!index_of(v, x)}) = C!remove(v, x)
           /\ C!prepend(v, x) = C!insert_at(v, 0, x) /\ C!append(v, x) = C!insert_at(v, Len(v), x)
  BY DEF C!SequencesEdit
<1>1. \A i \in 0..Len(v) :
         LET w == C!insert_at(v, i, x)
         IN  /\ C!at(w, i) = x /\ C!erase_at(w, i) = v /\ C!remove_at(w, Len(w)) = w
             /\ C!find(w, x) <= i /\ (~C!contains(SubSeq(v, 1, i), x) => C!remove(w, x) = v)
  BY InsertEdits
<1>2. C!count_if(v, x) = Len(C!filter(v, {x}))
  BY CountFilter
<1>3. /\ C!contains(v, x) => C!count_if(C!remove(v, x), x) = C!count_if(v, x) - 1
      /\ C!filter(C!remove(v, x), X \ {x}) = C!filter(v, X \ {x})
      /\ C!filter_indexed(v, {p \in X \X (0..Len(v)) : p[2] # C!index_of(v, x)}) = C!remove(v, x)
  BY RemoveEdits
<1>4. Len(v) \in Nat /\ 0 \in 0..Len(v) /\ Len(v) \in 0..Len(v)
  BY LenProperties
<1>5. C!prepend(v, x) = C!insert_at(v, 0, x)
  <2>1. C!insert_at(v, 0, x) = First(v, 0) \o <<x>> \o After(v, 0)
    BY <1>4, InsertIs
  <2>2. First(v, 0) = <<>> /\ v = First(v, 0) \o After(v, 0)
    BY <1>4, FirstAll, Divided
  <2>3. After(v, 0) \in Seq(X)
    BY <1>4, AfterIs DEF Follows_in
  <2>4. <<>> \o After(v, 0) = After(v, 0) /\ <<>> \o <<x>> = <<x>>
    BY <2>3, JustOne, ConcatEmptySeq
  <2> QED BY <2>1, <2>2, <2>4 DEF C!prepend
<1>6. C!append(v, x) = C!insert_at(v, Len(v), x)
  <2>1. C!insert_at(v, Len(v), x) = First(v, Len(v)) \o <<x>> \o After(v, Len(v))
    BY <1>4, InsertIs
  <2>2. After(v, Len(v)) = <<>>
    <3>1. After(v, Len(v)) \in Seq(X) /\ Len(After(v, Len(v))) = 0
      BY <1>4, AfterIs DEF Follows_in
    <3> QED BY <3>1, EmptySeq
  <2>3. First(v, Len(v)) = v /\ v \o <<x>> = Append(v, x) /\ Append(v, x) \in Seq(X)
    BY FirstAll, AppendIsConcat, Appended
  <2>4. Append(v, x) \o <<>> = Append(v, x)
    BY <2>3, ConcatEmptySeq
  <2> QED BY <2>1, <2>2, <2>3, <2>4 DEF C!append
<1> QED BY <1>1, <1>2, <1>3, <1>5, <1>6

Keeps(f, R, n, G) ==
    \A u \in SUBSET (1..n) : u # {} /\ f[u \ {Max(u)}] \in R => f[u] = G[<<f[u \ {Max(u)}], Max(u)>>]
Reaches(f, R, b, n, G) == \E h \in [0..n -> R] : Steps(h, b, n, G) /\ h[n] = f[1..n]

\* A fold that keeps to the steps of the table G goes through the values that G gives.
LEMMA FoldPrefix ==
    ASSUME NEW R, NEW n \in Nat, NEW G \in [R \X (1..n) -> R], NEW b \in R, NEW f, f[{}] = b, Keeps(f, R, n, G)
    PROVE  Reaches(f, R, b, n, G)
<1>1. PICK g \in [SUBSET (1..n) -> R] : IsFold(g, b, n, G)
  BY FoldExists
<1>2. PICK h : h = Through(g, n) /\ h \in [0..n -> R] /\ Steps(h, b, n, G)
  BY <1>1, FoldedPrefixes
<1>3. f[1..n] = g[1..n]
  <2>1. f[{}] = g[{}]
    BY <1>1 DEF IsFold
  <2>2. ASSUME NEW u \in SUBSET (1..n), u # {}, f[u \ {Max(u)}] = g[u \ {Max(u)}] PROVE f[u] = g[u]
    <3>1. u \ {Max(u)} \in SUBSET (1..n)
      OBVIOUS
    <3>2. g[u \ {Max(u)}] \in R /\ g[u] = G[<<g[u \ {Max(u)}], Max(u)>>]
      BY <1>1, <2>2, <3>1 DEF IsFold
    <3> QED BY <2>2, <3>2 DEF Keeps
  <2> QED BY <2>1, <2>2, FoldsAgree
<1>4. h[n] = g[1..n]
  BY <1>2 DEF Through
<1> QED BY <1>2, <1>3, <1>4 DEF Reaches

LEMMA MaxSame == ASSUME NEW T PROVE C!Max(T) = Max(T)
  BY DEF C!Max, Max

\* The elements of a sequence, and the set of it.
Elements(v) == {v[i] : i \in 1..Len(v)}

\* set_of goes through the sets of the prefixes, one element more at each step.
LEMMA SetSteps ==
    ASSUME NEW X, NEW v \in Seq(X), NEW n, n = Len(v)
    PROVE  \E h \in [0..n -> SUBSET X] :
              h[0] = {} /\ h[n] = C!set_of(v) /\ \A k \in 1..n : h[k] = h[k - 1] \cup {v[k]}
<1>1. n \in Nat /\ DOMAIN v = 1..n /\ \A k \in 1..n : v[k] \in X
  BY LenProperties, ElementOfSeq
<1> DEFINE R == SUBSET X
           G == [q \in R \X (1..n) |-> q[1] \cup {v[q[2]]}]
<1>2. G \in [R \X (1..n) -> R]
  BY <1>1
<1>3. \A r \in R, k \in 1..n : G[<<r, k>>] = r \cup {v[k]}
  <2> HIDE DEF R
  <2> QED OBVIOUS
<1>4. {} \in R
  OBVIOUS
<1> HIDE DEF G, R
<1>5. PICK g \in [SUBSET (1..n) -> R] : IsFold(g, {}, n, G)
  BY <1>1, <1>2, <1>4, FoldExists
<1>6. g = [u \in SUBSET (1..n) |-> IF u = {} THEN {} ELSE g[u \ {Max(u)}] \cup {v[Max(u)]}]
  <2>1. ASSUME NEW u \in SUBSET (1..n), u # {} PROVE g[u] = g[u \ {Max(u)}] \cup {v[Max(u)]}
    <3>1. Max(u) \in 1..n
      BY <1>1, <2>1, MaxOf
    <3>2. u \ {Max(u)} \in SUBSET (1..n)
      OBVIOUS
    <3>3. g[u] = G[<<g[u \ {Max(u)}], Max(u)>>]
      BY <1>5, <2>1 DEF IsFold
    <3> QED BY <1>3, <1>5, <3>1, <3>2, <3>3
  <2>2. g[{}] = {}
    BY <1>5 DEF IsFold
  <2> QED BY <1>5, <2>1, <2>2
<1>7. PICK f : /\ f = CHOOSE x : x = [u \in SUBSET (1..n) |->
                            IF u = {} THEN {} ELSE x[u \ {Max(u)}] \cup {v[Max(u)]}]
               /\ C!set_of(v) = f[1..n]
  BY <1>1, MaxSame DEF C!set_of, C!set_add, C!FoldLeft, C!MapThenFoldSet
<1>8. f = [u \in SUBSET (1..n) |-> IF u = {} THEN {} ELSE f[u \ {Max(u)}] \cup {v[Max(u)]}]
  BY <1>6, <1>7
<1>9. f[{}] = {}
  BY <1>8
<1>10. ASSUME NEW u \in SUBSET (1..n), u # {} /\ f[u \ {Max(u)}] \in R
       PROVE  f[u] = G[<<f[u \ {Max(u)}], Max(u)>>]
  <2>1. Max(u) \in 1..n
    BY <1>1, <1>10, MaxOf
  <2>2. f[u] = f[u \ {Max(u)}] \cup {v[Max(u)]}
    BY <1>8, <1>10
  <2> QED BY <1>3, <1>10, <2>1, <2>2
<1>11. PICK h \in [0..n -> R] : Steps(h, {}, n, G) /\ h[n] = f[1..n]
  <2>1. PICK e : e = {}
    OBVIOUS
  <2>2. Keeps(f, R, n, G)
    BY <1>10 DEF Keeps
  <2>3. Reaches(f, R, e, n, G)
    BY <1>1, <1>2, <1>4, <1>9, <2>1, <2>2, FoldPrefix
  <2> QED BY <2>1, <2>3 DEF Reaches
<1>12. ASSUME NEW k \in 1..n PROVE h[k] = h[k - 1] \cup {v[k]}
  <2>1. k - 1 \in 0..n
    BY <1>1
  <2>2. h[k - 1] \in R /\ h[k] = G[<<h[k - 1], k>>]
    BY <1>11, <2>1 DEF Steps
  <2> QED BY <1>3, <2>2
<1> QED BY <1>7, <1>11, <1>12 DEF Steps, R

\* And so it is the set of the elements.
LEMMA SetOfIs == ASSUME NEW X, NEW v \in Seq(X) PROVE C!set_of(v) = Elements(v)
<1>1. PICK n \in Nat : n = Len(v)
  BY LenProperties
<1>2. PICK h \in [0..n -> SUBSET X] :
         h[0] = {} /\ h[n] = C!set_of(v) /\ \A k \in 1..n : h[k] = h[k - 1] \cup {v[k]}
  BY <1>1, SetSteps
<1> DEFINE T == {k \in 0..n : h[k] = {v[i] : i \in 1..k}}
<1>3. 0 \in T
  <2>1. 1..0 = {} /\ 0 \in 0..n
    OBVIOUS
  <2> QED BY <1>2, <2>1
<1>4. ASSUME NEW k \in 1..n, k - 1 \in T PROVE k \in T
  <2>1. 1..k = 1..(k - 1) \cup {k} /\ k \in 0..n
    OBVIOUS
  <2>2. h[k] = {v[i] : i \in 1..(k - 1)} \cup {v[k]}
    BY <1>2, <1>4
  <2>3. {v[i] : i \in 1..k} = {v[i] : i \in 1..(k - 1)} \cup {v[k]}
    BY <2>1
  <2> QED BY <2>1, <2>2, <2>3
<1>5. n \in T
  <2>1. n \in 0..n
    OBVIOUS
  <2> HIDE DEF T
  <2> QED BY <1>3, <1>4, <2>1, Induct
<1> QED BY <1>1, <1>2, <1>5 DEF Elements

\* The elements of two sequences, one behind the other.
LEMMA ElementsConcat ==
    ASSUME NEW X, NEW a \in Seq(X), NEW b \in Seq(X)
    PROVE  Elements(a \o b) = Elements(a) \cup Elements(b)
<1>1. PICK m \in Nat, n \in Nat : m = Len(a) /\ n = Len(b)
  BY LenProperties
<1>2. PICK w : w = a \o b
  OBVIOUS
<1>3. Len(w) = m + n /\ (\A i \in 1..m : w[i] = a[i]) /\ \A i \in 1..n : w[m + i] = b[i]
  BY <1>1, <1>2, ConcatProperties
<1>4. Elements(w) \subseteq Elements(a) \cup Elements(b)
  <2> SUFFICES ASSUME NEW k \in 1..(m + n) PROVE w[k] \in Elements(a) \cup Elements(b)
    BY <1>3 DEF Elements
  <2>1. CASE k <= m
    BY <1>1, <1>3, <2>1 DEF Elements
  <2>2. CASE k > m
    <3>1. PICK i : i = k - m /\ i \in 1..n /\ k = m + i
      BY <2>2
    <3> QED BY <1>1, <1>3, <3>1 DEF Elements
  <2> QED BY <2>1, <2>2
<1>5. ASSUME NEW k \in 1..m PROVE a[k] \in Elements(w)
  <2>1. k \in 1..(m + n)
    OBVIOUS
  <2> QED BY <1>3, <2>1 DEF Elements
<1>6. ASSUME NEW k \in 1..n PROVE b[k] \in Elements(w)
  <2>1. m + k \in 1..(m + n)
    OBVIOUS
  <2> QED BY <1>3, <2>1 DEF Elements
<1>7. Elements(a) \subseteq Elements(w)
  BY <1>1, <1>5 DEF Elements
<1>8. Elements(b) \subseteq Elements(w)
  BY <1>1, <1>6 DEF Elements
<1> QED BY <1>2, <1>4, <1>7, <1>8

\* They are of the sequence's set.
LEMMA ElementsIn == ASSUME NEW X, NEW v \in Seq(X) PROVE Elements(v) \subseteq X
  BY LenProperties, ElementOfSeq DEF Elements

\* The comparison of sizes is no more than a way to be quick.
LEMMA SubsetIs ==
    ASSUME NEW s, NEW t, IsFiniteSet(t)
    PROVE  C!is_subset_of(s, t) <=> s \subseteq t
<1>1. ASSUME s \subseteq t PROVE Cardinality(s) <= Cardinality(t)
  BY <1>1, FS_Subset
<1> QED BY <1>1, CardSame DEF C!is_subset_of

Mapped(w, Y, v, f) == w \in Seq(Y) /\ Len(w) = Len(v) /\ \A i \in 1..Len(v) : w[i] = f[v[i]]

\* map, position by position.
LEMMA MapIs ==
    ASSUME NEW X, NEW v \in Seq(X), NEW f, NEW Y, \A x \in Elements(v) : f[x] \in Y
    PROVE  Mapped(C!map(v, f), Y, v, f)
<1>1. PICK n \in Nat : n = Len(v)
  BY LenProperties
<1>2. \A i \in 1..n : f[v[i]] \in Y
  BY <1>1 DEF Elements
<1>3. C!map(v, f) = [i \in 1..n |-> f[v[i]]]
  BY <1>1 DEF C!map
<1>4. C!map(v, f) \in [1..n -> Y]
  BY <1>2, <1>3
<1>5. C!map(v, f) \in Seq(Y) /\ Len(C!map(v, f)) = n
  <2>1. PICK w : w = C!map(v, f) /\ w \in [1..n -> Y]
    BY <1>4
  <2>2. w \in Seq(Y) /\ Len(w) = n
    BY <2>1
  <2> QED BY <2>1, <2>2
<1> QED BY <1>1, <1>3, <1>5 DEF Mapped

\* The set of a mapped sequence is the mapped set.
LEMMA SetMapped ==
    ASSUME NEW X, NEW v \in Seq(X), NEW f
    PROVE  C!set_of(C!map(v, f)) = C!set_map(Elements(v), f)
<1>1. PICK n \in Nat : n = Len(v)
  BY LenProperties
<1> DEFINE Y == {f[x] : x \in Elements(v)}
<1>2. \A x \in Elements(v) : f[x] \in Y
  OBVIOUS
<1>3. C!set_map(Elements(v), f) = Y
  BY DEF C!set_map
<1>4. Y = {f[v[i]] : i \in 1..n}
  BY <1>1 DEF Elements
<1> HIDE DEF Y
<1>5. PICK w : w = C!map(v, f) /\ w \in Seq(Y) /\ Len(w) = n /\ \A i \in 1..n : w[i] = f[v[i]]
  <2>1. Mapped(C!map(v, f), Y, v, f)
    BY <1>2, MapIs
  <2> QED BY <1>1, <2>1 DEF Mapped
<1>6. C!set_of(w) = Elements(w)
  BY <1>5, SetOfIs
<1>7. Elements(w) = Y
  BY <1>4, <1>5 DEF Elements
<1> QED BY <1>3, <1>5, <1>6, <1>7

\* Set, for the sets of the two parts of a sequence.
LEMMA SetsCompared == ASSUME NEW X, IsFiniteSet(X), NEW v \in Seq(X) PROVE C!SetsCompare(v)
<1> SUFFICES ASSUME NEW i \in 0..Len(v), NEW s, NEW t,
                    s = C!set_of(SubSeq(v, 1, i)), t = C!set_of(SubSeq(v, i + 1, Len(v)))
    PROVE  /\ C!union_with(s, t) = C!set_of(v)
           /\ C!is_subset_of(s, t) <=> C!difference_with(s, t) = {}
           /\ C!is_subset_of(s, t) <=> C!union_with(s, t) = t
           /\ C!is_superset_of(s, t) <=> C!intersection_with(s, t) = t
           /\ C!union_with(C!difference_with(s, t), C!intersection_with(s, t)) = s
           /\ C!set_filter(s, t) = C!intersection_with(s, t)
           /\ \A x \in s : C!set_remove(s, x) = C!difference_with(s, {x})
           /\ C!set_map(s, C!parity(s)) = C!set_of(C!map(SubSeq(v, 1, i), C!parity(s)))
  BY DEF C!SetsCompare
<1>1. PICK p \in Seq(X), q \in Seq(X) : p = SubSeq(v, 1, i) /\ q = SubSeq(v, i + 1, Len(v)) /\ v = p \o q
  <2>1. First(v, i) \in Seq(X)
    BY FirstIs
  <2>2. After(v, i) \in Seq(X)
    BY AfterIs DEF Follows_in
  <2>3. v = First(v, i) \o After(v, i)
    BY Divided
  <2> QED BY <2>1, <2>2, <2>3 DEF First, After
<1>2. s = Elements(p) /\ t = Elements(q) /\ C!set_of(v) = s \cup t
  <2>1. C!set_of(p) = Elements(p) /\ C!set_of(q) = Elements(q) /\ C!set_of(v) = Elements(v)
    BY SetOfIs
  <2>2. Elements(p \o q) = Elements(p) \cup Elements(q)
    BY ElementsConcat
  <2> QED BY <1>1, <2>1, <2>2
<1>3. IsFiniteSet(s) /\ IsFiniteSet(t)
  <2>1. s \subseteq X /\ t \subseteq X
    BY <1>2, ElementsIn
  <2> QED BY <2>1, FS_Subset
<1>4. (C!is_subset_of(s, t) <=> s \subseteq t) /\ (C!is_superset_of(s, t) <=> t \subseteq s)
  BY <1>3, SubsetIs DEF C!is_superset_of
<1>5. C!set_map(s, C!parity(s)) = C!set_of(C!map(p, C!parity(s)))
  BY <1>2, SetMapped
<1>6. \A x \in s : C!set_remove(s, x) = C!difference_with(s, {x})
  BY DEF C!set_remove, C!difference_with
<1>7. /\ C!union_with(s, t) = C!set_of(v)
      /\ s \subseteq t <=> C!difference_with(s, t) = {}
      /\ s \subseteq t <=> C!union_with(s, t) = t
      /\ t \subseteq s <=> C!intersection_with(s, t) = t
      /\ C!union_with(C!difference_with(s, t), C!intersection_with(s, t)) = s
      /\ C!set_filter(s, t) = C!intersection_with(s, t)
  BY <1>2 DEF C!union_with, C!difference_with, C!intersection_with, C!set_filter
<1> QED BY <1>1, <1>4, <1>5, <1>6, <1>7

\* One more of x, in a Map that counts.
Tally(m, x) == C!put(m, x, IF x \in DOMAIN m THEN m[x] + 1 ELSE 1)
Tallies(X) == UNION {[D -> Nat] : D \in SUBSET X}

\* A Map that counts stays one, and the empty one is one.
LEMMA TallyKeeps ==
    ASSUME NEW X, NEW m \in Tallies(X), NEW x \in X
    PROVE  Tally(m, x) \in Tallies(X)
<1>1. PICK D \in SUBSET X : m \in [D -> Nat]
  BY DEF Tallies
<1>2. Tally(m, x) \in [D \cup {x} -> Nat]
  BY <1>1 DEF Tally, C!put
<1>3. D \cup {x} \in SUBSET X
  BY <1>1
<1> QED BY <1>2, <1>3 DEF Tallies

LEMMA NoneTallied == ASSUME NEW X PROVE <<>> \in Tallies(X) /\ DOMAIN <<>> = {}
<1>1. <<>> \in [1..0 -> Nat] /\ 1..0 = {}
  OBVIOUS
<1>2. <<>> \in [{} -> Nat]
  BY <1>1
<1> QED BY <1>2 DEF Tallies

\* counts goes through the Maps of the prefixes.
LEMMA CountSteps ==
    ASSUME NEW X, NEW v \in Seq(X), NEW n, n = Len(v)
    PROVE  \E h \in [0..n -> Tallies(X)] :
              h[0] = <<>> /\ h[n] = C!counts(v) /\ \A k \in 1..n : h[k] = Tally(h[k - 1], v[k])
<1>1. n \in Nat /\ DOMAIN v = 1..n /\ \A k \in 1..n : v[k] \in X
  BY LenProperties, ElementOfSeq
<1> DEFINE R == Tallies(X)
           G == [q \in R \X (1..n) |-> Tally(q[1], v[q[2]])]
           b == <<>>
<1>2. G \in [R \X (1..n) -> R]
  <2>1. ASSUME NEW q \in R \X (1..n) PROVE Tally(q[1], v[q[2]]) \in R
    <3>1. q[1] \in R /\ v[q[2]] \in X
      BY <1>1
    <3> QED BY <3>1, TallyKeeps
  <2> HIDE DEF R
  <2> QED BY <2>1
<1>3. \A r \in R, k \in 1..n : G[<<r, k>>] = Tally(r, v[k])
  <2> HIDE DEF R
  <2> QED OBVIOUS
<1>4. b \in R
  BY NoneTallied
<1> HIDE DEF G, R
<1>5. PICK g \in [SUBSET (1..n) -> R] : IsFold(g, b, n, G)
  <2> HIDE DEF b
  <2> QED BY <1>1, <1>2, <1>4, FoldExists
<1>6. g = [u \in SUBSET (1..n) |-> IF u = {} THEN b ELSE Tally(g[u \ {Max(u)}], v[Max(u)])]
  <2> HIDE DEF b
  <2>1. ASSUME NEW u \in SUBSET (1..n), u # {} PROVE g[u] = Tally(g[u \ {Max(u)}], v[Max(u)])
    <3>1. Max(u) \in 1..n
      BY <1>1, <2>1, MaxOf
    <3>2. u \ {Max(u)} \in SUBSET (1..n)
      OBVIOUS
    <3>3. g[u] = G[<<g[u \ {Max(u)}], Max(u)>>]
      BY <1>5, <2>1 DEF IsFold
    <3> QED BY <1>3, <1>5, <3>1, <3>2, <3>3
  <2>2. g[{}] = b
    BY <1>5 DEF IsFold
  <2> QED BY <1>5, <2>1, <2>2
<1>7. PICK f : /\ f = CHOOSE x : x = [u \in SUBSET (1..n) |->
                            IF u = {} THEN b ELSE Tally(x[u \ {Max(u)}], v[Max(u)])]
               /\ C!counts(v) = f[1..n]
  BY <1>1, MaxSame DEF C!counts, Tally, C!FoldLeft, C!MapThenFoldSet
<1> HIDE DEF b
<1>8. f = [u \in SUBSET (1..n) |-> IF u = {} THEN b ELSE Tally(f[u \ {Max(u)}], v[Max(u)])]
  BY <1>6, <1>7
<1>9. f[{}] = b
  BY <1>8
<1>10. ASSUME NEW u \in SUBSET (1..n), u # {} /\ f[u \ {Max(u)}] \in R
       PROVE  f[u] = G[<<f[u \ {Max(u)}], Max(u)>>]
  <2>1. Max(u) \in 1..n
    BY <1>1, <1>10, MaxOf
  <2>2. f[u] = Tally(f[u \ {Max(u)}], v[Max(u)])
    BY <1>8, <1>10
  <2> QED BY <1>3, <1>10, <2>1, <2>2
<1>11. PICK h \in [0..n -> R] : Steps(h, b, n, G) /\ h[n] = f[1..n]
  <2>1. Keeps(f, R, n, G)
    BY <1>10 DEF Keeps
  <2>2. Reaches(f, R, b, n, G)
    BY <1>1, <1>2, <1>4, <1>9, <2>1, FoldPrefix
  <2> QED BY <2>2 DEF Reaches
<1>12. ASSUME NEW k \in 1..n PROVE h[k] = Tally(h[k - 1], v[k])
  <2>1. k - 1 \in 0..n
    BY <1>1
  <2>2. h[k - 1] \in R /\ h[k] = G[<<h[k - 1], k>>]
    BY <1>11, <2>1 DEF Steps
  <2> QED BY <1>3, <2>2
<1>13. h[0] = b
  BY <1>11 DEF Steps
<1>14. h[n] = C!counts(v) /\ h \in [0..n -> R]
  BY <1>7, <1>11
<1> QED BY <1>12, <1>13, <1>14 DEF b, R

\* How often each element occurs.
Occurs(v) == [x \in Elements(v) |-> C!count_if(v, x)]

\* An element more in the set, and in what occurs.
LEMMA ElementsNext ==
    ASSUME NEW X, NEW v \in Seq(X), NEW x \in X
    PROVE  Elements(Append(v, x)) = Elements(v) \cup {x}
<1>1. Append(v, x) = v \o <<x>> /\ <<x>> \in Seq(X) /\ Len(<<x>>) = 1 /\ <<x>>[1] = x
  BY AppendIsConcat, JustOne
<1>2. Elements(<<x>>) = {x}
  <2>1. 1..1 = {1}
    OBVIOUS
  <2> QED BY <1>1, <2>1 DEF Elements
<1>3. Elements(v \o <<x>>) = Elements(v) \cup Elements(<<x>>)
  BY <1>1, ElementsConcat
<1> QED BY <1>1, <1>2, <1>3

\* What is no element does not occur.
LEMMA CountOutside ==
    ASSUME NEW X, NEW v \in Seq(X), NEW x, x \notin Elements(v)
    PROVE  C!count_if(v, x) = 0
<1>1. {i \in 1..Len(v) : v[i] = x} = {}
  BY DEF Elements
<1> QED BY <1>1, CardSame, FS_EmptySet DEF C!count_if

\* One more of x occurs, and nothing else changes.
LEMMA OccursNext ==
    ASSUME NEW X, NEW v \in Seq(X), NEW x \in X
    PROVE  Occurs(Append(v, x)) = Tally(Occurs(v), x)
<1>1. Elements(Append(v, x)) = Elements(v) \cup {x}
  BY ElementsNext
<1>2. ASSUME NEW y \in Elements(v) \cup {x}
      PROVE  C!count_if(Append(v, x), y)
             = IF y = x THEN (IF x \in Elements(v) THEN C!count_if(v, x) + 1 ELSE 1) ELSE C!count_if(v, y)
  <2>1. /\ C!count_if(Append(v, x), y) = IF x = y THEN C!count_if(v, y) + 1 ELSE C!count_if(v, y)
        /\ C!count_if(v, y) \in Nat
    BY CountNext
  <2>2. x \notin Elements(v) => C!count_if(v, x) = 0
    BY CountOutside
  <2> QED BY <2>1, <2>2
<1> QED BY <1>1, <1>2 DEF Occurs, Tally, C!put

\* counts counts how often each element occurs.
LEMMA CountsIs == ASSUME NEW X, NEW v \in Seq(X) PROVE C!counts(v) = Occurs(v)
<1>1. PICK n \in Nat : n = Len(v)
  BY LenProperties
<1>2. PICK h \in [0..n -> Tallies(X)] :
         h[0] = <<>> /\ h[n] = C!counts(v) /\ \A k \in 1..n : h[k] = Tally(h[k - 1], v[k])
  BY <1>1, CountSteps
<1> DEFINE T == {k \in 0..n : h[k] = Occurs(First(v, k))}
<1>3. 0 \in T
  <2>1. First(v, 0) = <<>> /\ Len(<<>>) = 0 /\ 1..0 = {}
    BY FirstAll, EmptySeq
  <2>2. Elements(<<>>) = {}
    BY <2>1 DEF Elements
  <2>3. Occurs(<<>>) = [x \in {} |-> C!count_if(<<>>, x)]
    BY <2>2 DEF Occurs
  <2>4. <<>> = [x \in {} |-> C!count_if(<<>>, x)]
    <3>1. <<>> = [x \in 1..0 |-> C!count_if(<<>>, x)]
      OBVIOUS
    <3> QED BY <2>1, <3>1
  <2> QED BY <1>2, <2>1, <2>3, <2>4
<1>4. ASSUME NEW k \in 1..n, k - 1 \in T PROVE k \in T
  <2>1. First(v, k) = Append(First(v, k - 1), v[k]) /\ First(v, k - 1) \in Seq(X) /\ v[k] \in X
    BY <1>1, FirstNext
  <2>2. Occurs(First(v, k)) = Tally(Occurs(First(v, k - 1)), v[k])
    BY <2>1, OccursNext
  <2>3. h[k] = Tally(h[k - 1], v[k]) /\ k \in 0..n
    BY <1>2
  <2> QED BY <1>4, <2>2, <2>3
<1>5. n \in T
  <2>1. n \in 0..n
    OBVIOUS
  <2> HIDE DEF T
  <2> QED BY <1>3, <1>4, <2>1, Induct
<1>6. First(v, n) = v
  BY <1>1, FirstAll
<1> QED BY <1>2, <1>5, <1>6

\* What a selection keeps of the elements, and how often.
LEMMA FilterKeeps ==
    ASSUME NEW X, NEW v \in Seq(X), NEW A
    PROVE  /\ Elements(C!filter(v, A)) = Elements(v) \cap A
           /\ \A y \in A : C!count_if(C!filter(v, A), y) = C!count_if(v, y)
<1> DEFINE T == {s \in Seq(X) : /\ Elements(C!filter(s, A)) = Elements(s) \cap A
                                /\ \A y \in A : C!count_if(C!filter(s, A), y) = C!count_if(s, y)}
<1>1. <<>> \in T
  <2>1. Elements(<<>>) = {}
    <3>1. Len(<<>>) = 0 /\ 1..0 = {}
      BY EmptySeq
    <3> QED BY <3>1 DEF Elements
  <2>2. <<>> \in Seq(X) /\ C!filter(<<>>, A) = <<>>
    BY EmptySeq, FilterNone
  <2> QED BY <2>1, <2>2
<1>2. ASSUME NEW s \in Seq(X), NEW x \in X, s \in T PROVE Append(s, x) \in T
  <2>1. C!filter(Append(s, x), A) = IF x \in A THEN Append(C!filter(s, A), x) ELSE C!filter(s, A)
    BY FilterNext
  <2>2. PICK u \in Seq(X) : u = C!filter(s, A)
    BY FilterSeq
  <2>3. /\ Elements(u) = Elements(s) \cap A /\ \A y \in A : C!count_if(u, y) = C!count_if(s, y)
    BY <1>2, <2>2
  <2>4. Elements(Append(s, x)) = Elements(s) \cup {x} /\ Elements(Append(u, x)) = Elements(u) \cup {x}
    BY ElementsNext
  <2>5. PICK w : w = C!filter(Append(s, x), A) /\ w = IF x \in A THEN Append(u, x) ELSE u
    BY <2>1, <2>2
  <2>6. Elements(w) = Elements(Append(s, x)) \cap A
    BY <2>3, <2>4, <2>5
  <2>7. ASSUME NEW y \in A PROVE C!count_if(w, y) = C!count_if(Append(s, x), y)
    <3>1. C!count_if(Append(s, x), y) = IF x = y THEN C!count_if(s, y) + 1 ELSE C!count_if(s, y)
      BY CountNext
    <3>2. C!count_if(Append(u, x), y) = IF x = y THEN C!count_if(u, y) + 1 ELSE C!count_if(u, y)
      BY CountNext
    <3> QED BY <2>3, <2>5, <3>1, <3>2
  <2>8. Append(s, x) \in Seq(X)
    BY Appended
  <2> QED BY <2>5, <2>6, <2>7, <2>8
<1>3. v \in T
  <2> HIDE DEF T
  <2>1. \A s \in Seq(X), x \in X : s \in T => Append(s, x) \in T
    BY <1>2
  <2>2. Seq(X) \subseteq T
    BY <1>1, <2>1, SeqInduct
  <2> QED BY <2>2
<1> QED BY <1>3

\* A set of positions is finite, and has one ascending sequence: what the code's red-black
\* tree iterates over.
Ascends(q, s) ==
    q \in [1..Cardinality(s) -> s] /\ \A i, j \in 1..Cardinality(s) : i < j => q[i] < q[j]

\* The least elements first, the greatest behind them.
LEMMA SomeAscends ==
    ASSUME NEW n \in Nat, NEW s \in SUBSET (1..n)
    PROVE  (\E q : Ascends(q, s)) /\ Cardinality(s) \in Nat
<1>0. ASSUME NEW u \in SUBSET (1..n) PROVE IsFiniteSet(u) /\ Cardinality(u) \in Nat
  <2>1. IsFiniteSet(1..n)
    BY FS_Interval
  <2>2. IsFiniteSet(u)
    BY <2>1, FS_Subset
  <2> QED BY <2>2, FS_CardinalityType
<1>1. PICK m \in Nat : m = Cardinality(s)
  BY <1>0
<1> DEFINE T == {k \in 0..m : \A u \in SUBSET (1..n) : Cardinality(u) = k => \E q : Ascends(q, u)}
<1>2. 0 \in T
  <2> SUFFICES ASSUME NEW u \in SUBSET (1..n), Cardinality(u) = 0 PROVE \E q : Ascends(q, u)
    OBVIOUS
  <2>1. 1..0 = {}
    OBVIOUS
  <2>2. [i \in 1..0 |-> i] \in [1..0 -> u]
    BY <2>1
  <2>3. Ascends([i \in 1..0 |-> i], u)
    BY <2>1, <2>2 DEF Ascends
  <2> QED BY <2>3
<1>3. ASSUME NEW k \in 1..m, k - 1 \in T PROVE k \in T
  <2> SUFFICES ASSUME NEW u \in SUBSET (1..n), Cardinality(u) = k PROVE \E q : Ascends(q, u)
    OBVIOUS
  <2>1. u # {} /\ IsFiniteSet(u)
    BY <1>0, FS_EmptySet
  <2>2. PICK x : x = Max(u) /\ x \in u /\ \A y \in u : x >= y
    BY <2>1, MaxOf
  <2>3. PICK w : w = u \ {x} /\ w \in SUBSET (1..n) /\ Cardinality(w) = k - 1
    <3>1. Cardinality(u \ {x}) = k - 1
      BY <2>1, <2>2, FS_RemoveElement
    <3>2. u \ {x} \in SUBSET (1..n)
      OBVIOUS
    <3> QED BY <3>1, <3>2
  <2>4. PICK q : Ascends(q, w)
    BY <1>3, <2>3
  <2>5. /\ q \in [1..(k - 1) -> w] /\ \A i, j \in 1..(k - 1) : i < j => q[i] < q[j]
    BY <2>3, <2>4 DEF Ascends
  <2> DEFINE r == [i \in 1..k |-> IF i = k THEN x ELSE q[i]]
  <2>6. \A i \in 1..k : i # k => i \in 1..(k - 1) /\ q[i] \in w
    BY <2>5
  <2>7. r \in [1..k -> u]
    BY <2>2, <2>3, <2>6
  <2>8. \A y \in w : y < x
    <3> SUFFICES ASSUME NEW y \in w PROVE y < x
      OBVIOUS
    <3>1. y \in u /\ y # x /\ y \in 1..n /\ x \in 1..n
      BY <2>2, <2>3
    <3> QED BY <2>2, <3>1
  <2>9. ASSUME NEW i \in 1..k, NEW j \in 1..k, i < j PROVE r[i] < r[j]
    <3>1. i # k /\ r[i] = q[i] /\ q[i] \in w
      BY <2>6, <2>9
    <3>2. CASE j = k
      BY <2>8, <3>1, <3>2
    <3>3. CASE j # k
      BY <2>5, <2>6, <2>9, <3>1, <3>3
    <3> QED BY <3>2, <3>3
  <2>10. Ascends(r, u)
    <3> HIDE DEF r
    <3> QED BY <2>7, <2>9 DEF Ascends
  <2> QED BY <2>10
<1>4. m \in T
  <2>1. m \in 0..m
    OBVIOUS
  <2> HIDE DEF T
  <2> QED BY <1>2, <1>3, <2>1, Induct
<1> QED BY <1>1, <1>4

\* So what ascending chooses is a sequence of the elements.
LEMMA AscendingIs ==
    ASSUME NEW n \in Nat, NEW s \in SUBSET (1..n)
    PROVE  /\ C!ascending(s) \in Seq(s) /\ Len(C!ascending(s)) \in Nat
           /\ \A i \in 1..Len(C!ascending(s)) : C!ascending(s)[i] \in s
<1>1. PICK m \in Nat : m = Cardinality(s) /\ m = C!Cardinality(s)
  BY SomeAscends, CardSame
<1>2. PICK q \in [1..m -> s] : \A i, j \in DOMAIN q : i < j => q[i] < q[j]
  <2>1. PICK q : Ascends(q, s)
    BY SomeAscends
  <2>2. q \in [1..m -> s] /\ \A i, j \in 1..m : i < j => q[i] < q[j]
    BY <1>1, <2>1 DEF Ascends
  <2> QED BY <2>2
<1>3. C!ascending(s) = CHOOSE r \in [1..m -> s] : \A i, j \in DOMAIN r : i < j => r[i] < r[j]
  BY <1>1 DEF C!ascending
<1>4. C!ascending(s) \in [1..m -> s]
  BY <1>2, <1>3
<1>5. PICK r : r = C!ascending(s) /\ r \in [1..m -> s]
  BY <1>4
<1>6. r \in Seq(s) /\ Len(r) = m
  BY <1>5
<1> QED BY <1>5, <1>6

\* The values of a Map, mapped, stand where the values did.
LEMMA ValuesMapped ==
    ASSUME NEW n \in Nat, NEW s \in SUBSET (1..n), NEW m, DOMAIN m = s, NEW f
    PROVE  C!values(C!map_values(m, f)) = C!map(C!values(m), f)
<1>1. PICK q : q = C!ascending(s) /\ Len(q) \in Nat /\ \A i \in 1..Len(q) : q[i] \in s
  BY AscendingIs
<1>2. PICK r : r = C!map_values(m, f) /\ r = [k \in s |-> f[m[k]]]
  BY DEF C!map_values
<1>3. C!keys(m) = q /\ C!keys(r) = q
  BY <1>1, <1>2 DEF C!keys
<1>4. C!values(m) = [i \in 1..Len(q) |-> m[q[i]]] /\ Len(C!values(m)) = Len(q)
  <2>1. C!values(m) = [i \in 1..Len(q) |-> m[q[i]]]
    BY <1>3 DEF C!values
  <2>2. PICK w : w = [i \in 1..Len(q) |-> m[q[i]]]
    OBVIOUS
  <2>3. Len(w) = Len(q)
    BY <1>1, <2>2
  <2> QED BY <2>1, <2>2, <2>3
<1>5. C!map(C!values(m), f) = [i \in 1..Len(q) |-> f[m[q[i]]]]
  BY <1>4 DEF C!map
<1>6. C!values(r) = [i \in 1..Len(q) |-> f[m[q[i]]]]
  <2>1. C!values(r) = [i \in 1..Len(q) |-> r[q[i]]]
    BY <1>3 DEF C!values
  <2>2. \A i \in 1..Len(q) : r[q[i]] = f[m[q[i]]]
    BY <1>1, <1>2
  <2> QED BY <2>1, <2>2
<1> QED BY <1>2, <1>5, <1>6

\* Restrict, in Containers' instance.
LEMMA RestrictSame == ASSUME NEW f, NEW D PROVE C!Restrict(f, D) = [x \in D |-> f[x]]
  BY DEF C!Restrict

\* Map, for the one that counts the elements of a sequence.
LEMMA MapsCounted ==
    ASSUME NEW n \in Nat, NEW v \in Seq(1..n)
    PROVE  C!MapsCount(v)
<1> DEFINE E == Elements(v)
           c == C!counts(v)
<1>1. c = [k \in E |-> C!count_if(v, k)] /\ C!set_of(v) = E /\ E \in SUBSET (1..n)
  BY CountsIs, SetOfIs, ElementsIn DEF Occurs
<1> HIDE DEF E, c
<1>2. DOMAIN c = E /\ \A k \in E : c[k] = C!count_if(v, k)
  BY <1>1
<1>3. C!keys(c) = C!to_vec(E)
  BY <1>2 DEF C!keys, C!to_vec
<1>4. C!values(C!map_values(c, C!successor(v))) = C!map(C!values(c), C!successor(v))
  BY <1>1, <1>2, ValuesMapped
<1>5. C!values(c) = C!map(C!keys(c), [k \in E |-> C!count_if(v, k)])
  BY <1>1 DEF C!values, C!map
<1>6. ASSUME NEW k \in E PROVE C!map_remove(c, k) = C!counts(C!filter(v, E \ {k}))
  <2>1. PICK A : A = E \ {k}
    OBVIOUS
  <2>2. C!map_remove(c, k) = [x \in A |-> c[x]]
    BY <1>2, <2>1, RestrictSame DEF C!map_remove
  <2>3. PICK w \in Seq(1..n) : w = C!filter(v, A)
    BY FilterSeq
  <2>4. /\ Elements(w) = Elements(v) \cap A
        /\ \A y \in A : C!count_if(w, y) = C!count_if(v, y)
    BY <2>3, FilterKeeps
  <2>5. Elements(w) = A
    BY <2>1, <2>4 DEF E
  <2>6. C!counts(w) = [x \in A |-> C!count_if(w, x)]
    BY <2>5, CountsIs DEF Occurs
  <2>7. \A x \in A : c[x] = C!count_if(w, x)
    BY <1>2, <2>1, <2>4
  <2>8. C!map_remove(c, k) = C!counts(w)
    BY <2>2, <2>6, <2>7
  <2> QED BY <2>1, <2>3, <2>8
<1>7. C!map_filter(c, E \X {1}) = C!Restrict(c, {k \in E : C!count_if(v, k) = 1})
  <2>1. {k \in DOMAIN c : <<k, c[k]>> \in E \X {1}} = {k \in E : C!count_if(v, k) = 1}
    BY <1>2
  <2> QED BY <2>1 DEF C!map_filter
<1> QED BY <1>1, <1>2, <1>3, <1>4, <1>5, <1>6, <1>7 DEF C!MapsCount, c

\* Array: of another size, it keeps what it has room for.
LEMMA ToArrayIs ==
    ASSUME NEW v, NEW n \in Nat
    PROVE  /\ Len(C!to_array(n, v)) = n
           /\ \A i \in 1..n : C!to_array(n, v)[i] = IF i <= Len(v) THEN v[i] ELSE 0
<1>1. PICK w : w = C!to_array(n, v) /\ w = [i \in 1..n |-> IF i <= Len(v) THEN v[i] ELSE 0]
  BY DEF C!to_array
<1>2. Len(w) = n
  BY <1>1
<1> QED BY <1>1, <1>2

\* Array, for every size in between.
LEMMA ArraysConverted == ASSUME NEW X, NEW v \in Seq(X) PROVE C!ArraysConvert(v)
<1>1. PICK l \in Nat : l = Len(v)
  BY LenProperties
<1> SUFFICES ASSUME NEW n \in 1..(l + 1), NEW m \in 1..(l + 1), n >= m \/ n >= l
    PROVE  C!to_array(m, C!to_array(n, v)) = C!to_array(m, v)
  BY <1>1 DEF C!ArraysConvert
<1>2. PICK w : /\ w = C!to_array(n, v) /\ Len(w) = n
               /\ \A i \in 1..n : w[i] = IF i <= l THEN v[i] ELSE 0
  BY <1>1, ToArrayIs
<1>3. ASSUME NEW i \in 1..m
      PROVE  (IF i <= Len(w) THEN w[i] ELSE 0) = (IF i <= Len(v) THEN v[i] ELSE 0)
  <2>1. CASE i <= n
    <3>1. i \in 1..n
      BY <2>1
    <3> QED BY <1>1, <1>2, <2>1, <3>1
  <2>2. CASE ~(i <= n)
    <3>1. ~(i <= l)
      BY <2>2
    <3> QED BY <1>1, <1>2, <2>2, <3>1
  <2> QED BY <2>1, <2>2
<1>4. C!to_array(m, w) = C!to_array(m, v)
  BY <1>3 DEF C!to_array
<1> QED BY <1>2, <1>4

\* The sequence consists of its numbers.
NumbersInv == call = "numbers" => text \in Seq(1..3)

\* The containers agree on every sequence of numbers: ContainersAgree.
THEOREM ContainersAgreeing == LibrarySpec => []ContainersAgree
<1>1. LibraryInit => NumbersInv
  BY EmptyText, Zenon DEF LibraryInit, NumbersInv
<1>2. NumbersInv /\ [LibraryNext]_libraryVars => NumbersInv'
  <2> SUFFICES ASSUME NumbersInv, [LibraryNext]_libraryVars PROVE NumbersInv'
    OBVIOUS
  <2>1. CASE UNCHANGED <<call, text>>
    BY <2>1, Zenon DEF NumbersInv
  <2>2. CASE call \in {"text", "numbers"} /\ grow /\ UNCHANGED call
    <3> SUFFICES ASSUME call' = "numbers" PROVE text' \in Seq(1..3)
      BY Zenon DEF NumbersInv
    <3>1. call = "numbers" /\ text \in Seq(1..3) /\ call # "text"
      BY <2>2 DEF NumbersInv
    <3>2. PICK c \in 1..3 : text' = Append(text, c)
      BY <2>2, <3>1, Zenon DEF grow
    <3> QED BY <3>1, <3>2, AppendSeq, Zenon
  <2>3. [LibraryNext]_libraryVars => UNCHANGED <<call, text>> \/ (call \in {"text", "numbers"} /\ grow /\ UNCHANGED call)
    BY Zenon DEF LibraryNext, libraryVars
  <2> QED BY <2>1, <2>2, <2>3, Zenon
<1>3. NumbersInv => ContainersAgree
  <2> SUFFICES ASSUME NumbersInv, call = "numbers"
      PROVE  /\ C!SequencesEdit(text, 1..3) /\ C!SetsCompare(text)
             /\ C!MapsCount(text) /\ C!ArraysConvert(text)
    BY DEF ContainersAgree
  <2>1. PICK n \in Nat : n = 3
    OBVIOUS
  <2>2. PICK X : X = 1..n
    OBVIOUS
  <2>3. text \in Seq(X)
    BY <2>1, <2>2 DEF NumbersInv
  <2>4. IsFiniteSet(X)
    <3>1. 1 \in Int /\ n \in Int
      OBVIOUS
    <3> QED BY <2>2, <3>1, FS_Interval
  <2>5. C!SequencesEdit(text, X)
    BY <2>3, SequencesEdited
  <2>6. C!SetsCompare(text) /\ C!ArraysConvert(text)
    BY <2>3, <2>4, SetsCompared, ArraysConverted
  <2>7. C!MapsCount(text)
    <3>1. text \in Seq(1..n)
      BY <2>2, <2>3
    <3> QED BY <3>1, MapsCounted
  <2> QED BY <2>1, <2>2, <2>5, <2>6, <2>7
<1> QED BY <1>1, <1>2, <1>3, PTL DEF LibrarySpec

-----------------------------------------------------------------------------
(***************************************************************************)
(* Views and strings.  A view shows a part of the string, so that each search,*)
(* trim and split of it finds what the same one finds in a copy (ViewsAgreed).*)
(***************************************************************************)
\* A view of b, and the characters it shows.
Seen(s, b, v, L) ==
    /\ v.off \in Nat /\ v.len \in Nat /\ v.off + v.len <= Len(b) /\ Len(b) \in Nat
    /\ s \in Seq(L) /\ Len(s) = v.len /\ \A i \in 1..v.len : s[i] = b[v.off + i]

\* What a view shows are characters of the string.
LEMMA ViewSeen ==
    ASSUME NEW L, NEW b \in Seq(L), NEW v, Within(v, b)
    PROVE  Seen(chars(b, v), b, v, L)
<1>1. PICK n \in Nat : n = Len(b)
  BY LenProperties
<1>2. PICK o \in Nat, m \in Nat : o = v.off /\ m = v.len /\ o + m <= n /\ end(v) = o + m
  BY <1>1 DEF Within, Places, end
<1>3. Piece(L, SubSeq(b, o + 1, o + m), b, o + 1, o + m)
  <2>1. o + 1 \in Nat \ {0} /\ o + m \in Nat /\ o + 1 <= o + m + 1
    BY <1>2
  <2> QED BY <1>1, <1>2, <2>1, Part
<1>4. chars(b, v) = SubSeq(b, o + 1, o + m)
  BY <1>2 DEF chars
<1>5. (o + m) - (o + 1) + 1 = m /\ \A i \in 1..m : (o + 1) + i - 1 = o + i
  BY <1>2
<1> QED BY <1>1, <1>2, <1>3, <1>4, <1>5 DEF Seen, Piece

\* A part of what a view shows is that part of the text.
Ranges(v, i, j) == i \in Nat \ {0} /\ j \in Nat /\ i <= j + 1 /\ j <= v.len
SamePart(s, b, v, i, j) == SubSeq(s, i, j) = SubSeq(b, v.off + i, v.off + j)

\* So a part of what it shows is a part of the string.
LEMMA PartSeen ==
    ASSUME NEW L, NEW b \in Seq(L), NEW v, NEW s, Seen(s, b, v, L), NEW i, NEW j, Ranges(v, i, j)
    PROVE  SamePart(s, b, v, i, j)
<1>0. i \in Nat \ {0} /\ j \in Nat /\ i <= j + 1 /\ j <= v.len
  BY DEF Ranges
<1>1. PICK o \in Nat, m \in Nat, n \in Nat : o = v.off /\ m = v.len /\ n = Len(b) /\ o + m <= n /\ j <= m
  BY <1>0 DEF Seen
<1>2. s \in Seq(L) /\ Len(s) = m /\ \A k \in 1..m : s[k] = b[o + k]
  BY <1>1 DEF Seen
<1>3. PICK x : x = SubSeq(s, i, j) /\ Piece(L, x, s, i, j)
  BY <1>0, <1>1, <1>2, Part
<1>4. PICK y : y = SubSeq(b, o + i, o + j) /\ Piece(L, y, b, o + i, o + j)
  <2>1. o + i \in Nat \ {0} /\ o + j \in Nat /\ o + i <= o + j + 1 /\ o + j <= n
    <3>1. j <= m /\ o + m <= n
      BY <1>0, <1>1
    <3> QED BY <1>0, <3>1
  <2> QED BY <1>1, <2>1, Part
<1>5. (o + j) - (o + i) + 1 = j - i + 1
  BY <1>0, <1>1
<1>6. ASSUME NEW k \in 1..(j - i + 1) PROVE x[k] = y[k]
  <2>1. x[k] = s[i + k - 1]
    BY <1>3 DEF Piece
  <2>2. y[k] = b[(o + i) + k - 1]
    BY <1>4, <1>5 DEF Piece
  <2>3. i + k - 1 \in 1..m /\ o + (i + k - 1) = (o + i) + k - 1
    BY <1>0, <1>1
  <2> QED BY <1>2, <2>1, <2>2, <2>3
<1>7. x \in Seq(L) /\ y \in Seq(L) /\ Len(x) = j - i + 1 /\ Len(y) = j - i + 1
  BY <1>0, <1>3, <1>4, <1>5 DEF Piece
<1>8. x = y
  BY <1>0, <1>6, <1>7, SeqEqual
<1> QED BY <1>1, <1>3, <1>4, <1>8 DEF SamePart

\* substr of the whole text, both as a view and as a string.
LEMMA SubstrSeen ==
    ASSUME NEW L, NEW b \in Seq(L), NEW off \in 0..Len(b), NEW n \in 0..Len(b), NEW v, v = substr(whole(b), off, n)
    PROVE  Within(v, b) /\ chars(b, v) = S!substr(b, off, n)
<1>1. PICK l \in Nat : l = Len(b) /\ off \in 0..l /\ n \in 0..l
  BY LenProperties
<1>2. (whole(b)).off = 0 /\ (whole(b)).len = l
  BY <1>1 DEF whole, View
<1>3. CASE off >= l
  <2>1. v = [off |-> 0, len |-> 0]
    BY <1>2, <1>3 DEF substr, Nothing, View
  <2>2. v \in Places /\ v.off = 0 /\ v.len = 0 /\ end(v) = 0
    BY <2>1 DEF Places, end
  <2>3. Within(v, b)
    BY <1>1, <2>2 DEF Within
  <2>4. chars(b, v) = <<>>
    <3>1. Seen(chars(b, v), b, v, L)
      BY <2>3, ViewSeen
    <3> QED BY <2>2, <3>1, EmptySeq DEF Seen
  <2> QED BY <1>1, <1>3, <2>3, <2>4 DEF S!substr
<1>4. CASE ~(off >= l)
  <2>1. PICK m \in Nat : m = (IF n < l - off THEN n ELSE l - off) /\ off + m <= l
    BY <1>1, <1>4
  <2>2. v = [off |-> off, len |-> m]
    <3>1. v = View(0 + off, IF n < l - off THEN n ELSE l - off)
      BY <1>2, <1>4 DEF substr, least
    <3> QED BY <1>1, <2>1, <3>1 DEF View
  <2>3. v \in Places /\ v.off = off /\ end(v) = off + m
    BY <1>1, <2>1, <2>2 DEF Places, end
  <2>4. off + m = IF off + n > l THEN l ELSE off + n
    BY <1>1, <1>4, <2>1
  <2> QED BY <1>1, <1>4, <2>1, <2>3, <2>4 DEF Within, chars, S!substr
<1> QED BY <1>3, <1>4

\* A view begins or ends with t as its characters do.
LEMMA StartsSeen ==
    ASSUME NEW L, NEW b \in Seq(L), NEW v, NEW s, Seen(s, b, v, L), NEW t \in Seq(L)
    PROVE  starts_with(b, v, t) <=> S!starts_with(s, t)
<1>1. PICK o \in Nat, m \in Nat, k \in Nat : o = v.off /\ m = v.len /\ k = Len(t) /\ Len(s) = m
  BY LenProperties DEF Seen
<1>2. s \in Seq(L)
  BY DEF Seen
<1>3. CASE k <= m
  <2>1. SubSeq(s, 1, k) = SubSeq(b, o + 1, o + k)
    <3>1. 1 \in Nat \ {0} /\ 1 <= k + 1 /\ k <= v.len
      BY <1>1, <1>3
    <3>2. Ranges(v, 1, k)
      BY <3>1 DEF Ranges
    <3>3. SamePart(s, b, v, 1, k)
      BY <3>2, PartSeen
    <3> QED BY <1>1, <3>3 DEF SamePart
  <2>2. chars(b, View(o, k)) = SubSeq(b, o + 1, o + k)
    BY DEF chars, View, end
  <2>3. (IF k < m THEN k ELSE m) = k
    BY <1>1, <1>3
  <2> QED BY <1>1, <1>3, <2>1, <2>2, <2>3 DEF starts_with, S!starts_with
<1>4. CASE ~(k <= m)
  <2>1. (IF k < m THEN k ELSE m) = m
    BY <1>1, <1>4
  <2>2. SubSeq(s, 1, m) = s
    BY <1>1, <1>2, FirstAll DEF First
  <2>3. s # t
    BY <1>1, <1>4
  <2> QED BY <1>1, <1>4, <2>1, <2>2, <2>3 DEF starts_with, S!starts_with
<1> QED BY <1>3, <1>4

\* And ends_with.
LEMMA EndsSeen ==
    ASSUME NEW L, NEW b \in Seq(L), NEW v, NEW s, Seen(s, b, v, L), NEW t \in Seq(L)
    PROVE  ends_with(b, v, t) <=> S!ends_with(s, t)
<1>1. PICK o \in Nat, m \in Nat, k \in Nat : o = v.off /\ m = v.len /\ k = Len(t) /\ Len(s) = m
  BY LenProperties DEF Seen
<1>2. CASE k <= m
  <2>1. PICK i \in Nat \ {0} : i = m - k + 1
    BY <1>2
  <2>2. SubSeq(s, i, m) = SubSeq(b, o + i, o + m)
    <3>1. i <= m + 1 /\ m <= v.len
      BY <1>1, <2>1
    <3>2. Ranges(v, i, m)
      BY <3>1 DEF Ranges
    <3>3. SamePart(s, b, v, i, m)
      BY <3>2, PartSeen
    <3> QED BY <1>1, <3>3 DEF SamePart
  <2>3. chars(b, View(end(v) - k, k)) = SubSeq(b, o + i, o + m)
    <3>1. chars(b, View(end(v) - k, k)) = SubSeq(b, ((o + m) - k) + 1, ((o + m) - k) + k)
      BY <1>1 DEF chars, View, end
    <3>2. ((o + m) - k) + 1 = o + i /\ ((o + m) - k) + k = o + m
      BY <1>1, <2>1
    <3> QED BY <3>1, <3>2
  <2> QED BY <1>1, <1>2, <2>1, <2>2, <2>3 DEF ends_with, S!ends_with, S!from
<1>3. CASE ~(k <= m)
  BY <1>1, <1>3 DEF ends_with, S!ends_with
<1> QED BY <1>2, <1>3

\* Where t stands in a string.
Spots(s, t, pos) == {i \in pos..(Len(s) - Len(t) + 1) : SubSeq(s, i, i + Len(t) - 1) = t}

\* The places where t stands in a view count from 0, those in a string from 1.
LEMMA StandsSeen ==
    ASSUME NEW L, NEW b \in Seq(L), NEW v, NEW s, Seen(s, b, v, L), NEW t \in Seq(L), NEW n \in Int
    PROVE  /\ n \in Stands(b, v, t) <=> n + 1 \in Spots(s, t, 1)
           /\ n \in Stands(b, v, t) => n \in Nat
<1>1. PICK o \in Nat, m \in Nat, k \in Nat : o = v.off /\ m = v.len /\ k = Len(t) /\ Len(s) = m
  BY LenProperties DEF Seen
<1>2. n \in Stands(b, v, t) <=> n \in 0..m /\ k <= m - n /\ SubSeq(b, (o + n) + 1, (o + n) + k) = t
  BY <1>1 DEF Stands, starts_with, remove_prefix, chars, View, end
<1>3. n + 1 \in Spots(s, t, 1) <=> n + 1 \in 1..(m - k + 1) /\ SubSeq(s, n + 1, (n + 1) + k - 1) = t
  BY <1>1 DEF Spots
<1>4. n \in 0..m /\ k <= m - n <=> n + 1 \in 1..(m - k + 1)
  BY <1>1
<1>5. ASSUME n \in 0..m, k <= m - n PROVE SubSeq(b, (o + n) + 1, (o + n) + k) = SubSeq(s, n + 1, (n + 1) + k - 1)
  <2>1. PICK i \in Nat \ {0}, j \in Nat : i = n + 1 /\ j = n + k /\ i <= j + 1 /\ j <= m
    <3>1. n + 1 \in Nat \ {0} /\ n + k \in Nat /\ n + 1 <= (n + k) + 1 /\ n + k <= m
      BY <1>5
    <3> QED BY <3>1
  <2>2. SubSeq(s, i, j) = SubSeq(b, o + i, o + j)
    <3>1. j <= v.len
      BY <1>1, <2>1
    <3>2. Ranges(v, i, j)
      BY <2>1, <3>1 DEF Ranges
    <3>3. SamePart(s, b, v, i, j)
      BY <3>2, PartSeen
    <3> QED BY <1>1, <3>3 DEF SamePart
  <2>3. (n + 1) + k - 1 = j /\ (o + n) + 1 = o + i /\ (o + n) + k = o + j
    <3>1. n \in Int /\ i = n + 1 /\ j = n + k
      BY <2>1
    <3> QED BY <3>1
  <2> QED BY <2>1, <2>2, <2>3
<1>6. n \in Stands(b, v, t) <=> n + 1 \in Spots(s, t, 1)
  BY <1>2, <1>3, <1>4, <1>5, Zenon
<1>7. n \in Stands(b, v, t) => n \in Nat
  BY <1>2
<1> QED BY <1>6, <1>7

\* The least and the greatest of the places, each in its way of counting.
LEMMA LeastMoved ==
    ASSUME NEW A, NEW B, A \subseteq Nat, B \subseteq Int, \A n \in Int : n \in A <=> n + 1 \in B, A # {}
    PROVE  (CHOOSE n \in A : \A m \in A : n <= m) + 1 = CHOOSE i \in B : \A j \in B : i <= j
<1>1. PICK n \in A : \A m \in A : n <= m
  BY NatLeast
<1>2. (CHOOSE k \in A : \A m \in A : k <= m) = n
  <2>1. \A k \in A : (\A m \in A : k <= m) => k = n
    BY <1>1
  <2> QED BY <1>1, <2>1
<1>3. n + 1 \in B /\ \A j \in B : n + 1 <= j
  <2>1. n \in Int
    BY <1>1
  <2>2. ASSUME NEW j \in B PROVE n + 1 <= j
    <3>1. j \in Int /\ j - 1 \in Int /\ (j - 1) + 1 = j
      OBVIOUS
    <3>2. j - 1 \in A
      BY <3>1
    <3> QED BY <1>1, <2>1, <3>1, <3>2
  <2> QED BY <1>1, <2>1, <2>2
<1>4. (CHOOSE i \in B : \A j \in B : i <= j) = n + 1
  <2>1. \A i \in B : (\A j \in B : i <= j) => i = n + 1
    BY <1>1, <1>3
  <2> QED BY <1>3, <2>1
<1> QED BY <1>2, <1>4

\* And so with the last one.
LEMMA GreatestMoved ==
    ASSUME NEW A, NEW B, NEW l \in Nat, A \subseteq 0..l, B \subseteq Int,
           \A n \in Int : n \in A <=> n + 1 \in B, A # {}
    PROVE  (CHOOSE n \in A : \A m \in A : n >= m) + 1 = CHOOSE i \in B : \A j \in B : i >= j
<1>1. PICK n \in A : \A m \in A : n >= m
  <2> DEFINE D == {l - m : m \in A}
  <2>1. D \subseteq Nat /\ D # {}
    <3>1. \A m \in A : l - m \in Nat
      OBVIOUS
    <3> QED BY <3>1
  <2>2. PICK d \in D : \A e \in D : d <= e
    <3> HIDE DEF D
    <3> QED BY <2>1, NatLeast
  <2>3. PICK n \in A : d = l - n
    OBVIOUS
  <2>4. \A m \in A : l - n <= l - m
    BY <2>2, <2>3
  <2>5. \A m \in A : n >= m
    BY <2>4
  <2> QED BY <2>5
<1>2. (CHOOSE k \in A : \A m \in A : k >= m) = n
  <2>1. \A k \in A : (\A m \in A : k >= m) => k = n
    BY <1>1
  <2> QED BY <1>1, <2>1
<1>3. n + 1 \in B /\ \A j \in B : n + 1 >= j
  <2>1. n \in Int
    BY <1>1
  <2>2. ASSUME NEW j \in B PROVE n + 1 >= j
    <3>1. j \in Int /\ j - 1 \in Int /\ (j - 1) + 1 = j
      OBVIOUS
    <3>2. j - 1 \in A
      BY <3>1
    <3> QED BY <1>1, <2>1, <3>1, <3>2
  <2> QED BY <1>1, <2>1, <2>2
<1>4. (CHOOSE i \in B : \A j \in B : i >= j) = n + 1
  <2>1. \A i \in B : (\A j \in B : i >= j) => i = n + 1
    BY <1>1, <1>3
  <2> QED BY <1>3, <2>1
<1> QED BY <1>2, <1>4

\* Searching for t in a view is searching for it in its characters.
LEMMA SearchSeen ==
    ASSUME NEW L, NEW b \in Seq(L), NEW v, NEW s, Seen(s, b, v, L), NEW t \in Seq(L)
    PROVE  /\ contains(b, v, t) <=> S!contains(s, t)
           /\ find(b, v, t) = S!find(s, t, 1) /\ rfind(b, v, t) = S!rfind(s, t)
<1>0. PICK l \in Nat : l = v.len
  BY DEF Seen
<1>1. PICK A : A = Stands(b, v, t) /\ A \subseteq 0..l /\ A \subseteq Nat
  <2>1. Stands(b, v, t) \subseteq 0..l
    BY <1>0 DEF Stands
  <2>2. \A A : A \subseteq 0..l => A \subseteq Nat
    OBVIOUS
  <2> QED BY <2>1, <2>2
<1>2. PICK B : B = Spots(s, t, 1) /\ B \subseteq Int /\ 0 \notin B
  <2>1. Spots(s, t, 1) \subseteq Int /\ 0 \notin Spots(s, t, 1)
    BY DEF Spots
  <2> QED BY <2>1
<1>3. \A n \in Int : n \in A <=> n + 1 \in B
  BY <1>1, <1>2, StandsSeen
<1>4. A = {} <=> B = {}
  <2>1. ASSUME B # {} PROVE A # {}
    <3>1. PICK j : j \in B /\ j \in Int /\ j - 1 \in Int /\ (j - 1) + 1 = j
      BY <1>2, <2>1
    <3> QED BY <1>3, <3>1
  <2>2. ASSUME A # {} PROVE B # {}
    <3>1. PICK j : j \in A /\ j \in Int
      BY <1>1, <2>2
    <3> QED BY <1>3, <3>1
  <2> QED BY <2>1, <2>2
<1>5. find(b, v, t) = IF A = {} THEN 0 ELSE (CHOOSE n \in A : \A m \in A : n <= m) + 1
  BY <1>1 DEF find
<1>6. rfind(b, v, t) = IF A = {} THEN 0 ELSE (CHOOSE n \in A : \A m \in A : n >= m) + 1
  BY <1>1 DEF rfind
<1>7. S!find(s, t, 1) = IF B = {} THEN 0 ELSE CHOOSE i \in B : \A j \in B : i <= j
  BY <1>2 DEF S!find, Spots
<1>8. S!rfind(s, t) = IF B = {} THEN 0 ELSE CHOOSE i \in B : \A j \in B : i >= j
  BY <1>2 DEF S!rfind, Spots
<1>9. find(b, v, t) = S!find(s, t, 1)
  <2>1. CASE A = {}
    BY <1>4, <1>5, <1>7, <2>1
  <2>2. CASE A # {}
    <3>1. (CHOOSE n \in A : \A m \in A : n <= m) + 1 = CHOOSE i \in B : \A j \in B : i <= j
      BY <1>1, <1>2, <1>3, <2>2, LeastMoved
    <3> QED BY <1>4, <1>5, <1>7, <2>2, <3>1
  <2> QED BY <2>1, <2>2
<1>10. rfind(b, v, t) = S!rfind(s, t)
  <2>1. CASE A = {}
    BY <1>4, <1>6, <1>8, <2>1
  <2>2. CASE A # {}
    <3>1. (CHOOSE n \in A : \A m \in A : n >= m) + 1 = CHOOSE i \in B : \A j \in B : i >= j
      BY <1>1, <1>2, <1>3, <2>2, GreatestMoved
    <3> QED BY <1>4, <1>6, <1>8, <2>2, <3>1
  <2> QED BY <2>1, <2>2
<1>11. contains(b, v, t) <=> S!contains(s, t)
  <2>1. S!contains(s, t) <=> B # {}
    <3>1. CASE B # {}
      <4>1. PICK n \in A : \A m \in A : n <= m
        BY <1>1, <1>4, <3>1, NatLeast
      <4>2. (CHOOSE k \in A : \A m \in A : k <= m) \in A
        BY <4>1
      <4>3. find(b, v, t) # 0
        <5>1. PICK k : k = (CHOOSE j \in A : \A m \in A : j <= m) /\ k \in Nat
          BY <1>1, <4>2
        <5>2. find(b, v, t) = k + 1
          BY <1>4, <1>5, <3>1, <5>1
        <5> QED BY <5>1, <5>2
      <4> QED BY <1>9, <3>1, <4>3 DEF S!contains
    <3>2. CASE B = {}
      BY <1>7, <3>2 DEF S!contains
    <3> QED BY <3>1, <3>2
  <2> QED BY <1>1, <1>4, <2>1 DEF contains
<1> QED BY <1>9, <1>10, <1>11

\* The part of a view from i to j, as a view.
LEMMA CutSeen ==
    ASSUME NEW L, NEW b \in Seq(L), NEW v, NEW s, Seen(s, b, v, L), NEW i, NEW j, Ranges(v, i, j),
           NEW w, w = [off |-> v.off + (i - 1), len |-> j - i + 1]
    PROVE  chars(b, w) = SubSeq(s, i, j) /\ Inside(w, v)
<1>1. PICK o \in Nat, m \in Nat : o = v.off /\ m = v.len /\ j <= m
  BY DEF Seen, Ranges
<1>2. i \in Nat \ {0} /\ j \in Nat /\ i <= j + 1
  BY DEF Ranges
<1>3. SamePart(s, b, v, i, j)
  BY PartSeen
<1>4. w.off = o + (i - 1) /\ w.len = j - i + 1
  BY <1>1
<1>5. end(w) = o + j /\ w.off + 1 = o + i /\ end(v) = o + m
  BY <1>1, <1>2, <1>4 DEF end
<1>6. chars(b, w) = SubSeq(s, i, j)
  BY <1>1, <1>3, <1>5 DEF chars, SamePart
<1>7. Inside(w, v)
  <2>1. o + (i - 1) >= o /\ o + j <= o + m
    BY <1>1, <1>2
  <2> QED BY <1>1, <1>4, <1>5, <2>1 DEF Inside
<1> QED BY <1>6, <1>7

\* The empty view shows nothing.
LEMMA NothingSeen == ASSUME NEW L, NEW b \in Seq(L), NEW v PROVE chars(b, Nothing) = <<>> /\ Inside(Nothing, v)
<1>1. PICK w : w = Nothing /\ w = [off |-> 0, len |-> 0]
  BY DEF Nothing, View
<1>2. w \in Places /\ end(w) = 0 /\ w.len = 0
  BY <1>1 DEF Places, end
<1>3. Within(w, b)
  BY <1>2, LenProperties DEF Within
<1>4. Seen(chars(b, w), b, w, L)
  BY <1>3, ViewSeen
<1>5. chars(b, w) = <<>>
  BY <1>2, <1>4, EmptySeq DEF Seen
<1> QED BY <1>1, <1>2, <1>5 DEF Inside

\* The positions of the first and the last character in a set, or outside of it.
LEMMA SelectSame ==
    ASSUME NEW b, NEW v, NEW s, s = chars(b, v), NEW set
    PROVE  /\ find_first_of(b, v, set) = S!find_first_of(s, set)
           /\ find_last_of(b, v, set) = S!find_last_of(s, set)
           /\ find_first_not_of(b, v, set) = S!find_first_not_of(s, set)
           /\ find_last_not_of(b, v, set) = S!find_last_not_of(s, set)
<1>1. \A I : S!Min(I) = Min(I) /\ S!Max(I) = Max(I)
  BY DEF S!Min, S!Max, Min, Max
<1>2. find_first_of(b, v, set) = S!find_first_of(s, set)
  BY <1>1 DEF find_first_of, S!find_first_of, SelectInSeq, S!SelectInSeq
<1>3. find_last_of(b, v, set) = S!find_last_of(s, set)
  BY <1>1 DEF find_last_of, S!find_last_of, SelectLastInSeq, S!SelectLastInSeq
<1>4. find_first_not_of(b, v, set) = S!find_first_not_of(s, set)
  BY <1>1 DEF find_first_not_of, S!find_first_not_of, SelectInSeq, S!SelectInSeq
<1>5. find_last_not_of(b, v, set) = S!find_last_not_of(s, set)
  BY <1>1 DEF find_last_not_of, S!find_last_not_of, SelectLastInSeq, S!SelectLastInSeq
<1> QED BY <1>2, <1>3, <1>4, <1>5

\* They are the first and the last character outside of the set.
LEMMA SelectAre ==
    ASSUME NEW L, NEW b \in Seq(L), NEW v, NEW s, Seen(s, b, v, L), s = chars(b, v), NEW set
    PROVE  /\ FirstOut(s, v.len, set, find_first_not_of(b, v, set))
           /\ LastOut(s, v.len, set, find_last_not_of(b, v, set))
<1>1. PICK m \in Nat : m = v.len /\ Len(s) = m
  BY DEF Seen
<1> DEFINE I == {k \in 1..m : s[k] \notin set}
<1>2. /\ find_first_not_of(b, v, set) = (IF I # {} THEN Min(I) ELSE 0)
      /\ find_last_not_of(b, v, set) = (IF I # {} THEN Max(I) ELSE 0)
  BY <1>1 DEF find_first_not_of, find_last_not_of, SelectInSeq, SelectLastInSeq
<1>3. I = {k \in 1..m : s[k] \notin set}
  OBVIOUS
<1> HIDE DEF I
<1>4. FirstOut(s, m, set, find_first_not_of(b, v, set))
  BY <1>2, <1>3, FirstNot
<1>5. LastOut(s, m, set, find_last_not_of(b, v, set))
  BY <1>2, <1>3, LastNot
<1> QED BY <1>1, <1>4, <1>5

\* Trimming a view is trimming its characters.
LEMMA TrimsSeen ==
    ASSUME NEW L, NEW b \in Seq(L), NEW v, NEW s, Seen(s, b, v, L), s = chars(b, v), NEW set
    PROVE  /\ Inside(trim(b, v, set), v) /\ chars(b, trim(b, v, set)) = S!trim(s, set)
           /\ Inside(trim_start(b, v, set), v) /\ chars(b, trim_start(b, v, set)) = S!trim_start(s, set)
           /\ Inside(trim_end(b, v, set), v) /\ chars(b, trim_end(b, v, set)) = S!trim_end(s, set)
<1>1. PICK o \in Nat, m \in Nat : o = v.off /\ m = v.len /\ Len(s) = m /\ s \in Seq(L)
  BY DEF Seen
<1>2. PICK i, j : /\ i = find_first_not_of(b, v, set) /\ i = S!find_first_not_of(s, set)
                  /\ j = find_last_not_of(b, v, set) /\ j = S!find_last_not_of(s, set)
  BY SelectSame
<1>3. /\ (i = 0 /\ \A k \in 1..m : s[k] \in set) \/ (i \in 1..m /\ s[i] \notin set)
      /\ \/ j = 0 /\ \A k \in 1..m : s[k] \in set
         \/ j \in 1..m /\ s[j] \notin set /\ \A k \in (j + 1)..m : s[k] \in set
  <2>1. FirstOut(s, m, set, i) /\ LastOut(s, m, set, j)
    BY <1>1, <1>2, SelectAre
  <2> QED BY <2>1, Zenon DEF FirstOut, LastOut
<1>4. i \in 0..m /\ j \in 0..m /\ (i # 0 => i <= j) /\ (i = 0 <=> j = 0)
  <2>1. CASE i = 0
    BY <1>3, <2>1
  <2>2. CASE i # 0
    <3>1. i \in 1..m /\ s[i] \notin set
      BY <1>3, <2>2
    <3>2. j \in 1..m /\ ~(i \in (j + 1)..m)
      BY <1>3, <3>1
    <3> QED BY <3>1, <3>2
  <2> QED BY <2>1, <2>2
<1>5. chars(b, Nothing) = <<>> /\ Inside(Nothing, v)
  BY NothingSeen
<1>6. Inside(trim(b, v, set), v) /\ chars(b, trim(b, v, set)) = S!trim(s, set)
  <2>1. CASE i = 0
    BY <1>2, <1>5, <2>1 DEF trim, S!trim
  <2>2. CASE i # 0
    <3>1. Ranges(v, i, j)
      BY <1>1, <1>4, <2>2 DEF Ranges
    <3>2. PICK w : w = [off |-> v.off + (i - 1), len |-> j - i + 1]
      OBVIOUS
    <3>3. chars(b, w) = SubSeq(s, i, j) /\ Inside(w, v)
      BY <3>1, <3>2, CutSeen
    <3>4. trim(b, v, set) = w
      <4>1. v.off + i - 1 = v.off + (i - 1)
        BY <1>1, <1>4
      <4> QED BY <1>2, <2>2, <3>2, <4>1 DEF trim, View
    <3> QED BY <1>2, <2>2, <3>3, <3>4 DEF S!trim
  <2> QED BY <2>1, <2>2
<1>7. Inside(trim_start(b, v, set), v) /\ chars(b, trim_start(b, v, set)) = S!trim_start(s, set)
  <2>1. CASE i = 0
    BY <1>2, <1>5, <2>1 DEF trim_start, S!trim_start
  <2>2. CASE i # 0
    <3>1. Ranges(v, i, m)
      BY <1>1, <1>4, <2>2 DEF Ranges
    <3>2. PICK w : w = [off |-> v.off + (i - 1), len |-> m - i + 1]
      OBVIOUS
    <3>3. chars(b, w) = SubSeq(s, i, m) /\ Inside(w, v)
      BY <3>1, <3>2, CutSeen
    <3>4. trim_start(b, v, set) = w
      <4>1. v.len - (i - 1) = m - i + 1
        BY <1>1, <1>4
      <4> QED BY <1>2, <2>2, <3>2, <4>1 DEF trim_start, remove_prefix, View
    <3> QED BY <1>1, <1>2, <2>2, <3>3, <3>4 DEF S!trim_start, S!from
  <2> QED BY <2>1, <2>2
<1>8. Inside(trim_end(b, v, set), v) /\ chars(b, trim_end(b, v, set)) = S!trim_end(s, set)
  <2>1. CASE j = 0
    <3>1. SubSeq(s, 1, 0) = <<>>
      BY <1>1, FirstAll DEF First
    <3> QED BY <1>2, <1>5, <2>1, <3>1 DEF trim_end, S!trim_end
  <2>2. CASE j # 0
    <3>1. Ranges(v, 1, j)
      BY <1>1, <1>4, <2>2 DEF Ranges
    <3>2. PICK w : w = [off |-> v.off + (1 - 1), len |-> j - 1 + 1]
      OBVIOUS
    <3>3. chars(b, w) = SubSeq(s, 1, j) /\ Inside(w, v)
      BY <3>1, <3>2, CutSeen
    <3>4. trim_end(b, v, set) = w
      <4>1. v.off + (1 - 1) = v.off /\ j - 1 + 1 = j
        BY <1>1, <1>4
      <4> QED BY <1>2, <2>2, <3>2, <4>1 DEF trim_end, View
    <3> QED BY <1>2, <2>2, <3>3, <3>4 DEF S!trim_end
  <2> QED BY <2>1, <2>2
<1> QED BY <1>6, <1>7, <1>8

\* The first one is the last one of the reversed string.
LEMMA ReversedSeen ==
    ASSUME NEW L, NEW s \in Seq(L), NEW set, NEW n, n = S!find_first_of(s, set)
    PROVE  S!find_last_of(Reverse(s), set) = (IF n = 0 THEN 0 ELSE Len(s) - n + 1)
<1>1. PICK m \in Nat : m = Len(s)
  BY LenProperties
<1>2. PICK r : r = Reverse(s) /\ Len(r) = m /\ \A i \in 1..m : r[i] = s[(m - i) + 1]
  <2>1. PICK q : q = [i \in 1..m |-> s[(m - i) + 1]]
    OBVIOUS
  <2>2. Len(q) = m
    BY <2>1
  <2>3. Reverse(s) = q
    BY <1>1, <2>1 DEF Reverse
  <2> QED BY <2>1, <2>2, <2>3
<1>3. PICK A : A = {k \in 1..m : s[k] \in set}
  OBVIOUS
<1>4. PICK B : B = {k \in 1..m : r[k] \in set}
  OBVIOUS
<1>5. n = (IF A # {} THEN Min(A) ELSE 0)
  BY <1>1, <1>3 DEF S!find_first_of, S!SelectInSeq, S!Min, Min
<1>6. S!find_last_of(r, set) = (IF B # {} THEN Max(B) ELSE 0)
  BY <1>2, <1>4 DEF S!find_last_of, S!SelectLastInSeq, S!Max, Max
<1>7. \A k \in 1..m : (m - k) + 1 \in 1..m /\ (k \in B <=> (m - k) + 1 \in A)
  BY <1>2, <1>3, <1>4
<1>8. \A k \in A : k \in 1..m /\ (m - k) + 1 \in B
  <2> SUFFICES ASSUME NEW k \in A PROVE k \in 1..m /\ (m - k) + 1 \in B
    OBVIOUS
  <2>1. k \in 1..m
    BY <1>3
  <2>2. (m - k) + 1 \in 1..m /\ (m - ((m - k) + 1)) + 1 = k
    BY <2>1
  <2> QED BY <1>7, <2>1, <2>2
<1>9. \A k \in B : k \in 1..m /\ (m - k) + 1 \in A
  BY <1>4, <1>7
<1>10. CASE A = {}
  <2>1. B = {}
    BY <1>9, <1>10
  <2> QED BY <1>2, <1>5, <1>6, <1>10, <2>1
<1>11. CASE A # {}
  <2>1. A \subseteq Nat
    BY <1>3
  <2>2. n \in A /\ \A k \in A : n <= k
    <3>1. PICK k \in A : \A y \in A : k <= y
      BY <1>11, <2>1, NatLeast
    <3> QED BY <1>5, <1>11, <3>1 DEF Min
  <2>3. (m - n) + 1 \in B
    BY <1>8, <2>2
  <2>4. \A k \in B : (m - n) + 1 >= k
    <3> SUFFICES ASSUME NEW k \in B PROVE (m - n) + 1 >= k
      OBVIOUS
    <3>1. k \in 1..m /\ n <= (m - k) + 1 /\ n \in 1..m
      BY <1>8, <1>9, <2>2
    <3> QED BY <3>1
  <2>5. Max(B) = (m - n) + 1
    <3>1. \A x \in B : (\A y \in B : x >= y) => x = (m - n) + 1
      <4>1. B \subseteq Int /\ n \in Int
        BY <1>4, <2>1, <2>2
      <4> QED BY <2>3, <2>4, <4>1
    <3> QED BY <2>3, <2>4, <3>1 DEF Max
  <2>6. n # 0 /\ Len(s) - n + 1 = (m - n) + 1
    BY <1>1, <1>8, <2>2
  <2> QED BY <1>2, <1>6, <2>3, <2>5, <2>6
<1> QED BY <1>10, <1>11

\* Str's split goes through these values, one character after the other.
Pieces(L) == [piece : Seq(L), out : Seq(Seq(L))]

\* What kept and cut make of a piece and of those before it.
LEMMA KeptIs ==
    ASSUME NEW L, NEW x \in Seq(L), NEW z \in Seq(Seq(L))
    PROVE  /\ S!kept([piece |-> x, out |-> z]) = IF x = <<>> THEN z ELSE Append(z, x)
           /\ S!kept([piece |-> x, out |-> z]) \in Seq(Seq(L))
<1>1. S!kept([piece |-> x, out |-> z]) = IF x = <<>> THEN z ELSE Append(z, x)
  BY DEF S!kept
<1>2. Append(z, x) \in Seq(Seq(L))
  BY Appended
<1> QED BY <1>1, <1>2

\* They keep both of their kind.
LEMMA PieceKeeps ==
    ASSUME NEW L, NEW set, NEW r \in Pieces(L), NEW c \in L
    PROVE  S!cut(r, set, c) \in Pieces(L)
<1> DEFINE D == Seq(L)
           E == Seq(D)
<1>1. PICK x \in D, z \in E : r = [piece |-> x, out |-> z]
  <2> HIDE DEF D, E
  <2>1. r \in [piece : D, out : E]
    BY DEF Pieces, D, E
  <2> QED BY <2>1
<1>2. S!kept(r) \in E
  BY <1>1, KeptIs
<1>3. <<>> \in D /\ Append(x, c) \in D
  BY EmptySeq, Appended
<1>4. r.piece = x /\ r.out = z
  BY <1>1
<1> HIDE DEF D, E
<1>5. [piece |-> <<>>, out |-> S!kept(r)] \in [piece : D, out : E]
  BY <1>2, <1>3
<1>6. [piece |-> Append(x, c), out |-> z] \in [piece : D, out : E]
  BY <1>3
<1>7. S!cut(r, set, c) \in [piece : D, out : E]
  BY <1>4, <1>5, <1>6 DEF S!cut
<1> QED BY <1>7 DEF Pieces, D, E

\* Str has its own instance of the community modules.
LEMMA MaxOfStr == ASSUME NEW T PROVE S!Max(T) = Max(T)
  BY DEF S!Max, Max

NoPiece == [piece |-> <<>>, out |-> <<>>]

\* Where the loop has come to behind s, before it keeps the last piece.
Looped(s, set) == S!FoldLeft(LAMBDA r, c : S!cut(r, set, c), NoPiece, s)

\* split is that loop, and what is left at its end.
LEMMA SplitLooped == ASSUME NEW L, NEW s \in Seq(L), NEW set PROVE S!split(s, set) = S!kept(Looped(s, set))
BY Zenon DEF S!split, Looped, S!FoldLeft, S!MapThenFoldSet, NoPiece

CutsPieces(L, s, set, n) ==
    \E h \in [0..n -> Pieces(L)] :
        h[0] = NoPiece /\ Looped(s, set) = h[n] /\ \A k \in 1..n : h[k] = S!cut(h[k - 1], set, s[k])

\* The loop goes through the pieces, one character more at each step.
LEMMA PieceSteps == ASSUME NEW L, NEW s \in Seq(L), NEW set, NEW n, n = Len(s) PROVE CutsPieces(L, s, set, n)
<1>1. n \in Nat /\ DOMAIN s = 1..n /\ \A k \in 1..n : s[k] \in L
  BY LenProperties, ElementOfSeq
<1> DEFINE R == Pieces(L)
           G == [q \in R \X (1..n) |-> S!cut(q[1], set, s[q[2]])]
           b == NoPiece
<1>2. G \in [R \X (1..n) -> R]
  <2>1. ASSUME NEW q \in R \X (1..n) PROVE S!cut(q[1], set, s[q[2]]) \in R
    <3>1. q[1] \in R /\ s[q[2]] \in L
      BY <1>1
    <3> QED BY <3>1, PieceKeeps
  <2> HIDE DEF R
  <2> QED BY <2>1
<1>3. \A r \in R, k \in 1..n : G[<<r, k>>] = S!cut(r, set, s[k])
  <2> HIDE DEF R
  <2> QED OBVIOUS
<1>4. b \in R
  <2> DEFINE D == Seq(L)
             E == Seq(D)
  <2>1. <<>> \in D /\ <<>> \in E
    BY EmptySeq
  <2> HIDE DEF D, E
  <2>2. [piece |-> <<>>, out |-> <<>>] \in [piece : D, out : E]
    BY <2>1
  <2> QED BY <2>2 DEF Pieces, D, E, NoPiece
<1> HIDE DEF G, R
<1>5. PICK g \in [SUBSET (1..n) -> R] : IsFold(g, b, n, G)
  <2> HIDE DEF b
  <2> QED BY <1>1, <1>2, <1>4, FoldExists
<1>6. g = [u \in SUBSET (1..n) |-> IF u = {} THEN b ELSE S!cut(g[u \ {Max(u)}], set, s[Max(u)])]
  <2> HIDE DEF b
  <2>1. ASSUME NEW u \in SUBSET (1..n), u # {} PROVE g[u] = S!cut(g[u \ {Max(u)}], set, s[Max(u)])
    <3>1. Max(u) \in 1..n
      BY <1>1, <2>1, MaxOf
    <3>2. u \ {Max(u)} \in SUBSET (1..n)
      OBVIOUS
    <3>3. g[u] = G[<<g[u \ {Max(u)}], Max(u)>>]
      BY <1>5, <2>1 DEF IsFold
    <3> QED BY <1>3, <1>5, <3>1, <3>2, <3>3
  <2>2. g[{}] = b
    BY <1>5 DEF IsFold
  <2> QED BY <1>5, <2>1, <2>2
<1>7. PICK f : /\ f = CHOOSE x : x = [u \in SUBSET (1..n) |->
                            IF u = {} THEN b ELSE S!cut(x[u \ {Max(u)}], set, s[Max(u)])]
               /\ Looped(s, set) = f[1..n]
  BY <1>1, MaxOfStr DEF Looped, S!FoldLeft, S!MapThenFoldSet, NoPiece
<1> HIDE DEF b
<1>8. f = [u \in SUBSET (1..n) |-> IF u = {} THEN b ELSE S!cut(f[u \ {Max(u)}], set, s[Max(u)])]
  BY <1>6, <1>7
<1>9. f[{}] = b
  BY <1>8
<1>10. ASSUME NEW u \in SUBSET (1..n), u # {} /\ f[u \ {Max(u)}] \in R
       PROVE  f[u] = G[<<f[u \ {Max(u)}], Max(u)>>]
  <2>1. Max(u) \in 1..n
    BY <1>1, <1>10, MaxOf
  <2>2. f[u] = S!cut(f[u \ {Max(u)}], set, s[Max(u)])
    BY <1>8, <1>10
  <2> QED BY <1>3, <1>10, <2>1, <2>2
<1>11. PICK h \in [0..n -> R] : Steps(h, b, n, G) /\ h[n] = f[1..n]
  <2>1. Keeps(f, R, n, G)
    BY <1>10 DEF Keeps
  <2>2. Reaches(f, R, b, n, G)
    BY <1>1, <1>2, <1>4, <1>9, <2>1, FoldPrefix
  <2> QED BY <2>2 DEF Reaches
<1>12. ASSUME NEW k \in 1..n PROVE h[k] = S!cut(h[k - 1], set, s[k])
  <2>1. k - 1 \in 0..n
    BY <1>1
  <2>2. h[k - 1] \in R /\ h[k] = G[<<h[k - 1], k>>]
    BY <1>11, <2>1 DEF Steps
  <2> QED BY <1>3, <2>2
<1>13. h[0] = b
  BY <1>11 DEF Steps
<1>14. Looped(s, set) = h[n] /\ h \in [0..n -> R]
  BY <1>7, <1>11
<1> QED BY <1>12, <1>13, <1>14 DEF b, R, CutsPieces

\* And so does the split of a view, by its positions.
CutsView(b, v, set, o, n) ==
    \E h \in [0..n -> Cutting] :
        /\ h[0] = [prev |-> o, out |-> <<>>] /\ \A k \in 1..n : h[k] = cut(b, set, h[k - 1], o + k)
        /\ split(b, v, set) = h[n].out \o between(h[n].prev, o + n)

\* StrView's loop goes through positions in the same way.
LEMMA ViewCuts ==
    ASSUME NEW L, NEW b \in Seq(L), NEW v, Within(v, b), NEW set, NEW o, NEW n, o = v.off, n = v.len
    PROVE  CutsView(b, v, set, o, n)
<1>1. n \in Nat /\ o \in Nat /\ end(v) = o + n
  BY DEF Within, Places, end
<1> DEFINE R == Cutting
           G == [q \in R \X (1..n) |-> cut(b, set, q[1], o + q[2])]
           c == [prev |-> o, out |-> <<>>]
<1>2. G \in [R \X (1..n) -> R]
  <2>1. ASSUME NEW q \in R \X (1..n) PROVE cut(b, set, q[1], o + q[2]) \in R
    <3>1. q[1] \in Cutting /\ o + q[2] \in Nat /\ o + q[2] # 0
      BY <1>1
    <3> QED BY <3>1, CutKeeps
  <2> HIDE DEF R
  <2> QED BY <2>1
<1>3. \A r \in R, k \in 1..n : G[<<r, k>>] = cut(b, set, r, o + k)
  <2> HIDE DEF R
  <2> QED OBVIOUS
<1>4. c \in R
  <2> DEFINE V == Seq(Places)
  <2>1. <<>> \in V /\ o \in Nat
    BY <1>1
  <2> HIDE DEF V
  <2>2. c \in [prev : Nat, out : V]
    BY <2>1
  <2> QED BY <2>2 DEF V, Cutting
<1> HIDE DEF G, R
<1>5. PICK g \in [SUBSET (1..n) -> R] : IsFold(g, c, n, G)
  <2> HIDE DEF c
  <2> QED BY <1>1, <1>2, <1>4, FoldExists
<1>q. PICK q : q = [i \in 1..n |-> o + i]
  OBVIOUS
<1>0. DOMAIN q = 1..n /\ \A i \in 1..n : q[i] = o + i
  BY <1>q
<1>6. g = [u \in SUBSET (1..n) |-> IF u = {} THEN c ELSE cut(b, set, g[u \ {Max(u)}], q[Max(u)])]
  <2> HIDE DEF c
  <2>1. ASSUME NEW u \in SUBSET (1..n), u # {} PROVE g[u] = cut(b, set, g[u \ {Max(u)}], q[Max(u)])
    <3>1. Max(u) \in 1..n
      BY <1>1, <2>1, MaxOf
    <3>2. u \ {Max(u)} \in SUBSET (1..n)
      OBVIOUS
    <3>3. g[u] = G[<<g[u \ {Max(u)}], Max(u)>>]
      BY <1>5, <2>1 DEF IsFold
    <3>4. q[Max(u)] = o + Max(u)
      BY <1>0, <3>1
    <3> QED BY <1>3, <1>5, <3>1, <3>2, <3>3, <3>4
  <2>2. g[{}] = c
    BY <1>5 DEF IsFold
  <2> QED BY <1>5, <2>1, <2>2
<1>7. PICK f : /\ f = CHOOSE x : x = [u \in SUBSET (1..n) |->
                            IF u = {} THEN c ELSE cut(b, set, x[u \ {Max(u)}], q[Max(u)])]
               /\ FoldLeft(LAMBDA r, i : cut(b, set, r, i), c, q) = f[1..n]
  BY <1>0 DEF FoldLeft, MapThenFoldSet
<1>15. split(b, v, set) = f[1..n].out \o between(f[1..n].prev, o + n)
  <2>1. q = [i \in 1..v.len |-> v.off + i] /\ c = [prev |-> v.off, out |-> <<>>]
    BY <1>q
  <2>2. split(b, v, set) = FoldLeft(LAMBDA r, i : cut(b, set, r, i), c, q).out
                           \o between(FoldLeft(LAMBDA r, i : cut(b, set, r, i), c, q).prev, end(v))
    BY <2>1 DEF split
  <2> QED BY <1>1, <1>7, <2>2
<1> HIDE DEF c
<1>8. f = [u \in SUBSET (1..n) |-> IF u = {} THEN c ELSE cut(b, set, f[u \ {Max(u)}], q[Max(u)])]
  BY <1>6, <1>7
<1>9. f[{}] = c
  BY <1>8
<1>10. ASSUME NEW u \in SUBSET (1..n), u # {} /\ f[u \ {Max(u)}] \in R
       PROVE  f[u] = G[<<f[u \ {Max(u)}], Max(u)>>]
  <2>1. Max(u) \in 1..n /\ q[Max(u)] = o + Max(u)
    BY <1>0, <1>1, <1>10, MaxOf
  <2>2. f[u] = cut(b, set, f[u \ {Max(u)}], q[Max(u)])
    BY <1>8, <1>10
  <2> QED BY <1>3, <1>10, <2>1, <2>2
<1>11. PICK h \in [0..n -> R] : Steps(h, c, n, G) /\ h[n] = f[1..n]
  <2>1. Keeps(f, R, n, G)
    BY <1>10 DEF Keeps
  <2>2. Reaches(f, R, c, n, G)
    BY <1>1, <1>2, <1>4, <1>9, <2>1, FoldPrefix
  <2> QED BY <2>2 DEF Reaches
<1>12. ASSUME NEW k \in 1..n PROVE h[k] = cut(b, set, h[k - 1], o + k)
  <2>1. k - 1 \in 0..n
    BY <1>1
  <2>2. h[k - 1] \in R /\ h[k] = G[<<h[k - 1], k>>]
    BY <1>11, <2>1 DEF Steps
  <2> QED BY <1>3, <2>2
<1>13. h[0] = c
  BY <1>11 DEF Steps
<1>14. split(b, v, set) = h[n].out \o between(h[n].prev, o + n) /\ h \in [0..n -> R]
  BY <1>11, <1>15
<1> QED BY <1>12, <1>13, <1>14 DEF c, R, CutsView

\* What views show, one view more.
LEMMA TextsNext ==
    ASSUME NEW b, NEW w \in Seq(Places), NEW u \in Places
    PROVE  texts(b, Append(w, u)) = Append(texts(b, w), chars(b, u))
<1>1. PICK n \in Nat : n = Len(w)
  BY LenProperties
<1>2. PICK y : /\ y = Append(w, u) /\ Len(y) = n + 1 /\ y[n + 1] = u /\ \A i \in 1..n : y[i] = w[i]
  <2> DEFINE y == Append(w, u)
  <2>1. Len(y) = n + 1 /\ y[n + 1] = u /\ \A i \in 1..n : y[i] = w[i]
    BY <1>1, Appended
  <2> HIDE DEF y
  <2>2. \E x : x = y /\ Len(x) = n + 1 /\ x[n + 1] = u /\ \A i \in 1..n : x[i] = w[i]
    BY <2>1
  <2> QED BY <2>2 DEF y
<1> DEFINE X == {chars(b, w[i]) : i \in 1..n} \cup {chars(b, u)}
<1>3. PICK p : p = [i \in 1..n |-> chars(b, w[i])]
  OBVIOUS
<1>4. p \in Seq(X) /\ Len(p) = n
  <2>1. \A i \in 1..n : chars(b, w[i]) \in X
    OBVIOUS
  <2> HIDE DEF X
  <2> QED BY <1>3, <2>1
<1>5. PICK r : r = [i \in 1..(n + 1) |-> chars(b, y[i])]
  OBVIOUS
<1>6. chars(b, u) \in X
  OBVIOUS
<1> HIDE DEF X
<1>7. PICK c : c = chars(b, u) /\ c \in X
  BY <1>6
<1>8. Append(p, c) \in Seq(X) /\ Len(Append(p, c)) = n + 1 /\ Append(p, c)[n + 1] = c
      /\ \A i \in 1..n : Append(p, c)[i] = p[i]
  BY <1>4, <1>7, Appended
<1>9. \A i \in 1..n : p[i] = chars(b, w[i]) /\ p[i] \in X
  BY <1>3, <1>4, ElementOfSeq
<1>10. ASSUME NEW i \in 1..(n + 1) PROVE r[i] = Append(p, c)[i] /\ r[i] \in X
  <2>1. CASE i = n + 1
    BY <1>2, <1>5, <1>7, <1>8, <2>1
  <2>2. CASE i # n + 1
    <3>1. i \in 1..n
      BY <2>2
    <3> QED BY <1>2, <1>5, <1>8, <1>9, <3>1
  <2> QED BY <2>1, <2>2
<1>11. r \in Seq(X) /\ Len(r) = n + 1
  <2>1. \A i \in 1..(n + 1) : chars(b, y[i]) \in X
    BY <1>5, <1>10
  <2> QED BY <1>5, <2>1
<1>12. r = Append(p, c)
  BY <1>8, <1>10, <1>11, SeqEqual
<1> QED BY <1>1, <1>2, <1>3, <1>5, <1>7, <1>12 DEF texts

\* The piece between two positions is dropped or kept by both.
Insides(w, v) == \A i \in 1..Len(w) : Inside(w[i], v)

BothKept(L, b, v, p, q, w, x, z) ==
    /\ texts(b, w \o between(p, q)) = S!kept([piece |-> x, out |-> z])
    /\ Insides(w \o between(p, q), v) /\ w \o between(p, q) \in Seq(Places)

\* A piece that ends is kept by both, or dropped by both.
LEMMA BothKeep ==
    ASSUME NEW L, NEW b \in Seq(L), NEW v, Within(v, b), NEW p \in Nat, NEW q \in Nat,
           v.off <= p, p <= q, q <= end(v), NEW w \in Seq(Places), Insides(w, v), NEW x \in Seq(L), NEW z \in Seq(Seq(L)),
           x = SubSeq(b, p + 1, q), texts(b, w) = z
    PROVE  BothKept(L, b, v, p, q, w, x, z)
<1>1. PICK n \in Nat, o \in Nat, e \in Nat : n = Len(b) /\ o = v.off /\ e = end(v) /\ e <= n
  BY LenProperties DEF Within, Places, end
<1>2. Len(x) = q - p
  <2>1. Piece(L, x, b, p + 1, q)
    <3>1. p + 1 \in Nat \ {0} /\ p + 1 <= q + 1 /\ q <= Len(b)
      BY <1>1
    <3> QED BY <3>1, Part
  <2> QED BY <2>1 DEF Piece
<1>3. S!kept([piece |-> x, out |-> z]) = IF x = <<>> THEN z ELSE Append(z, x)
  BY KeptIs
<1>4. CASE p = q
  <2>1. between(p, q) = <<>> /\ x = <<>>
    BY <1>2, <1>4, EmptySeq DEF between
  <2>2. w \o <<>> = w
    BY ConcatNothing
  <2> QED BY <1>3, <2>1, <2>2 DEF BothKept
<1>5. CASE p # q
  <2>1. q > p /\ q - p \in Nat
    BY <1>5
  <2>2. PICK u : u = [off |-> p, len |-> q - p]
    OBVIOUS
  <2>3. u \in Places /\ u.off = p /\ u.len = q - p /\ end(u) = q
    BY <2>1, <2>2 DEF Places, end
  <2>4. between(p, q) = <<u>>
    BY <2>1, <2>2 DEF between, View
  <2>5. chars(b, u) = x
    BY <2>3 DEF chars
  <2>6. w \o <<u>> = Append(w, u) /\ Append(w, u) \in Seq(Places) /\ Len(Append(w, u)) = Len(w) + 1
        /\ Append(w, u)[Len(w) + 1] = u /\ \A i \in 1..Len(w) : Append(w, u)[i] = w[i]
    BY <2>3, AppendIsConcat, Appended
  <2>7. x # <<>>
    <3>1. Len(x) # 0
      BY <1>2, <2>1
    <3>2. Len(<<>>) = 0
      BY EmptySeq
    <3> QED BY <3>1, <3>2
  <2>8. texts(b, Append(w, u)) = Append(z, x)
    BY <2>3, <2>5, TextsNext
  <2>9. Inside(u, v)
    BY <1>1, <2>3 DEF Inside
  <2>10. Insides(Append(w, u), v)
    <3>1. PICK l \in Nat : l = Len(w)
      BY LenProperties
    <3>2. ASSUME NEW i \in 1..(l + 1) PROVE Inside(Append(w, u)[i], v)
      <4>1. CASE i = l + 1
        BY <2>6, <2>9, <3>1, <4>1
      <4>2. CASE i # l + 1
        <5>1. i \in 1..l
          BY <4>2
        <5> QED BY <2>6, <3>1, <5>1 DEF Insides
      <4> QED BY <4>1, <4>2
    <3> QED BY <2>6, <3>1, <3>2 DEF Insides
  <2> QED BY <1>3, <2>4, <2>6, <2>7, <2>8, <2>10 DEF BothKept
<1> QED BY <1>4, <1>5

\* After k characters, both have the same pieces.
SplitAt(b, v, L, g, h, k) ==
    \E p \in Nat, w \in Seq(Places), x \in Seq(L), z \in Seq(Seq(L)) :
        /\ v.off <= p /\ p <= v.off + k /\ Insides(w, v)
        /\ g = [prev |-> p, out |-> w] /\ h = [piece |-> x, out |-> z]
        /\ x = SubSeq(b, p + 1, v.off + k) /\ texts(b, w) = z

\* One character more: both loops cut, or neither.
LEMMA SplitNext ==
    ASSUME NEW L, NEW b \in Seq(L), NEW v, Within(v, b), NEW set, NEW k \in 1..v.len, NEW g, NEW h,
           SplitAt(b, v, L, g, h, k - 1)
    PROVE  SplitAt(b, v, L, cut(b, set, g, v.off + k), S!cut(h, set, b[v.off + k]), k)
<1>1. PICK n \in Nat, o \in Nat, m \in Nat : n = Len(b) /\ o = v.off /\ m = v.len /\ end(v) = o + m /\ o + m <= n
  BY LenProperties DEF Within, Places, end
<1>2. PICK p \in Nat, w \in Seq(Places), x \in Seq(L), z \in Seq(Seq(L)) :
        /\ o <= p /\ p <= o + (k - 1) /\ Insides(w, v)
        /\ g = [prev |-> p, out |-> w] /\ h = [piece |-> x, out |-> z]
        /\ x = SubSeq(b, p + 1, o + (k - 1)) /\ texts(b, w) = z
  BY <1>1 DEF SplitAt
<1>3. PICK q \in Nat : q = o + (k - 1) /\ q + 1 = o + k /\ (o + k) - 1 = q /\ q < o + m /\ q + 1 \in 1..n
                    /\ q <= n /\ q + 1 <= n /\ q <= o + m
  <2>1. k \in 1..m
    BY <1>1
  <2>2. PICK q \in Nat : q + 1 = k
    BY <2>1
  <2>3. q + 1 <= m /\ o + m <= n
    BY <1>1, <2>1, <2>2
  <2>4. o + q = o + (k - 1)
    BY <2>2
  <2> QED BY <2>1, <2>2, <2>3, <2>4
<1>4. PICK c \in L : c = b[q + 1]
  BY <1>1, <1>3, ElementOfSeq
<1>5. g.prev = p /\ g.out = w /\ h.piece = x /\ h.out = z
  BY <1>2
<1>8. p <= q /\ p <= n /\ p + 1 <= q + 1 /\ p + 1 <= (q + 1) + 1 /\ p <= q + 1 /\ o <= q + 1
  BY <1>2, <1>3
<1>6. CASE c \in set
  <2>1. PICK y : /\ y = w \o between(p, q) /\ y \in Seq(Places) /\ Insides(y, v)
                 /\ texts(b, y) = S!kept([piece |-> x, out |-> z])
    <3>1. v.off <= p /\ p <= q /\ q <= end(v)
      BY <1>1, <1>2, <1>3, <1>8
    <3>2. x = SubSeq(b, p + 1, q)
      BY <1>2, <1>3
    <3>3. BothKept(L, b, v, p, q, w, x, z)
      BY <1>2, <3>1, <3>2, BothKeep
    <3>4. \E y : y = w \o between(p, q)
      OBVIOUS
    <3> QED BY <3>3, <3>4 DEF BothKept
  <2>2. S!kept(h) \in Seq(Seq(L)) /\ texts(b, y) = S!kept(h)
    BY <1>2, <2>1, KeptIs
  <2>3. cut(b, set, g, q + 1) = [prev |-> q + 1, out |-> y]
    BY <1>3, <1>4, <1>5, <1>6, <2>1 DEF cut
  <2>4. S!cut(h, set, c) = [piece |-> <<>>, out |-> S!kept(h)]
    BY <1>6 DEF S!cut
  <2>5. <<>> = SubSeq(b, (q + 1) + 1, q + 1) /\ <<>> \in Seq(L)
    <3>1. Piece(L, SubSeq(b, (q + 1) + 1, q + 1), b, (q + 1) + 1, q + 1)
      <4>1. (q + 1) + 1 \in Nat \ {0} /\ q + 1 \in Nat /\ q + 1 <= Len(b)
        BY <1>1, <1>3
      <4> QED BY <4>1, Part
    <3>2. (q + 1) - ((q + 1) + 1) + 1 = 0
      OBVIOUS
    <3> QED BY <3>1, <3>2, EmptySeq DEF Piece
  <2>6. q + 1 \in Nat /\ o <= q + 1 /\ q + 1 <= o + k
    BY <1>2, <1>3
  <2> QED BY <1>1, <1>3, <1>4, <2>1, <2>2, <2>3, <2>4, <2>5, <2>6 DEF SplitAt
<1>7. CASE c \notin set
  <2>1. cut(b, set, g, q + 1) = g
    BY <1>4, <1>7 DEF cut
  <2>2. S!cut(h, set, c) = [piece |-> Append(x, c), out |-> z]
    BY <1>5, <1>7 DEF S!cut
  <2>3. Append(x, c) = SubSeq(b, p + 1, q + 1) /\ Append(x, c) \in Seq(L)
    <3>1. PICK y : y = SubSeq(b, p + 1, q + 1) /\ Piece(L, y, b, p + 1, q + 1)
      <4>1. p + 1 \in Nat \ {0} /\ q + 1 \in Nat /\ p + 1 <= (q + 1) + 1 /\ q + 1 <= Len(b)
        <5>1. q + 1 <= Len(b)
          BY <1>1, <1>3
        <5> QED BY <1>8, <5>1
      <4> QED BY <4>1, Part
    <3>2. Piece(L, x, b, p + 1, q)
      <4>1. p + 1 \in Nat \ {0} /\ p + 1 <= q + 1 /\ q <= Len(b) /\ x = SubSeq(b, p + 1, q)
        BY <1>1, <1>2, <1>3, <1>8
      <4> QED BY <4>1, Part
    <3>3. PICK l \in Nat : l = q - p /\ (q + 1) - (p + 1) + 1 = l + 1 /\ q - (p + 1) + 1 = l
      BY <1>8
    <3>4. y \in Seq(L) /\ Len(y) = l + 1 /\ \A i \in 1..(l + 1) : y[i] = b[(p + 1) + i - 1]
      BY <3>1, <3>3 DEF Piece
    <3>5. Len(x) = l /\ \A i \in 1..l : x[i] = b[(p + 1) + i - 1]
      BY <3>2, <3>3 DEF Piece
    <3>6. Append(x, c) \in Seq(L) /\ Len(Append(x, c)) = l + 1 /\ Append(x, c)[l + 1] = c
          /\ \A i \in 1..l : Append(x, c)[i] = x[i]
      <4>1. /\ Append(x, c) \in Seq(L) /\ Len(Append(x, c)) = Len(x) + 1 /\ Append(x, c)[Len(x) + 1] = c
            /\ \A i \in 1..Len(x) : Append(x, c)[i] = x[i]
        BY Appended
      <4>2. Len(x) = l
        BY <3>5
      <4> QED BY <4>1, <4>2, Zenon
    <3>7. (p + 1) + (l + 1) - 1 = q + 1
      BY <3>3
    <3>8. ASSUME NEW i \in 1..(l + 1) PROVE y[i] = Append(x, c)[i]
      <4>1. CASE i = l + 1
        BY <1>4, <3>4, <3>6, <3>7, <4>1
      <4>2. CASE i # l + 1
        <5>1. i \in 1..l
          BY <4>2
        <5> QED BY <3>4, <3>5, <3>6, <5>1
      <4> QED BY <4>1, <4>2
    <3>9. y = Append(x, c)
      BY <3>4, <3>6, <3>8, SeqEqual
    <3> QED BY <3>1, <3>6, <3>9
  <2>4. p <= o + k
    BY <1>2, <1>3
  <2> QED BY <1>1, <1>2, <1>3, <1>4, <2>1, <2>2, <2>3, <2>4 DEF SplitAt
<1> QED BY <1>6, <1>7

\* So split gives the same pieces, and none outside of the view.
LEMMA SplitSeen ==
    ASSUME NEW L, NEW b \in Seq(L), NEW v, Within(v, b), NEW set, NEW s, s = chars(b, v)
    PROVE  /\ texts(b, split(b, v, set)) = S!split(s, set)
           /\ Insides(split(b, v, set), v) /\ split(b, v, set) \in Seq(Places)
<1>1. PICK o \in Nat, m \in Nat, n \in Nat : o = v.off /\ m = v.len /\ n = Len(b) /\ end(v) = o + m /\ o + m <= n
  BY LenProperties DEF Within, Places, end
<1>2. s \in Seq(L) /\ Len(s) = m /\ \A i \in 1..m : s[i] = b[o + i]
  BY <1>1, ViewSeen DEF Seen
<1>3. PICK h \in [0..m -> Pieces(L)] :
         h[0] = NoPiece /\ S!split(s, set) = S!kept(h[m]) /\ \A k \in 1..m : h[k] = S!cut(h[k - 1], set, s[k])
  <2>1. CutsPieces(L, s, set, m)
    BY <1>2, PieceSteps
  <2> QED BY <1>2, <2>1, SplitLooped DEF CutsPieces
<1>4. PICK g \in [0..m -> Cutting] :
         /\ g[0] = [prev |-> o, out |-> <<>>] /\ \A k \in 1..m : g[k] = cut(b, set, g[k - 1], o + k)
         /\ split(b, v, set) = g[m].out \o between(g[m].prev, o + m)
  <2>1. CutsView(b, v, set, o, m)
    BY <1>1, ViewCuts
  <2> QED BY <2>1 DEF CutsView
<1> DEFINE T == {k \in 0..m : SplitAt(b, v, L, g[k], h[k], k)}
<1>5. 0 \in T
  <2>1. SubSeq(b, o + 1, o) = <<>>
    <3>1. o + 1 \in Nat \ {0} /\ o + 1 <= o + 1 /\ o <= n /\ o - (o + 1) + 1 = 0
      BY <1>1
    <3>2. Piece(L, SubSeq(b, o + 1, o), b, o + 1, o)
      BY <1>1, <3>1, Part
    <3> QED BY <3>1, <3>2, EmptySeq DEF Piece
  <2>2. <<>> \in Seq(Places) /\ <<>> \in Seq(L) /\ <<>> \in Seq(Seq(L)) /\ Len(<<>>) = 0
    BY EmptySeq
  <2>3. Insides(<<>>, v) /\ texts(b, <<>>) = <<>>
    <3>1. 1..Len(<<>>) = {}
      BY <2>2
    <3>2. PICK e : e = texts(b, <<>>) /\ e = [i \in {} |-> chars(b, <<>>[i])]
      BY <3>1 DEF texts
    <3>3. e = <<>>
      BY <3>2
    <3> QED BY <3>1, <3>2, <3>3 DEF Insides
  <2>4. o <= o /\ o <= o + 0 /\ o + 0 = o
    OBVIOUS
  <2>5. SplitAt(b, v, L, [prev |-> o, out |-> <<>>], NoPiece, 0)
    BY <1>1, <2>1, <2>2, <2>3, <2>4 DEF SplitAt, NoPiece
  <2>6. 0 \in 0..m
    BY <1>1
  <2> QED BY <1>3, <1>4, <2>5, <2>6
<1>6. ASSUME NEW k \in 1..m, k - 1 \in T PROVE k \in T
  <2>1. SplitAt(b, v, L, g[k - 1], h[k - 1], k - 1)
    BY <1>6
  <2>2. SplitAt(b, v, L, cut(b, set, g[k - 1], v.off + k), S!cut(h[k - 1], set, b[v.off + k]), k)
    BY <1>1, <2>1, SplitNext
  <2>3. g[k] = cut(b, set, g[k - 1], o + k) /\ h[k] = S!cut(h[k - 1], set, b[o + k])
    BY <1>2, <1>3, <1>4
  <2>4. SplitAt(b, v, L, g[k], h[k], k)
    BY <1>1, <2>2, <2>3
  <2> QED BY <2>4
<1>7. SplitAt(b, v, L, g[m], h[m], m)
  <2>1. 0..m \subseteq T
    <3> HIDE DEF T
    <3> QED BY <1>5, <1>6, Induct
  <2> QED BY <2>1
<1>8. PICK p \in Nat, w \in Seq(Places), x \in Seq(L), z \in Seq(Seq(L)) :
        /\ o <= p /\ p <= o + m /\ Insides(w, v)
        /\ g[m] = [prev |-> p, out |-> w] /\ h[m] = [piece |-> x, out |-> z]
        /\ x = SubSeq(b, p + 1, o + m) /\ texts(b, w) = z
  BY <1>1, <1>7 DEF SplitAt
<1>9. BothKept(L, b, v, p, o + m, w, x, z)
  <2>1. PICK q \in Nat : q = o + m
    BY <1>1
  <2>2. v.off <= p /\ p <= q /\ q <= end(v) /\ x = SubSeq(b, p + 1, q)
    BY <1>1, <1>8, <2>1
  <2>3. BothKept(L, b, v, p, q, w, x, z)
    BY <1>8, <2>2, BothKeep
  <2> QED BY <2>1, <2>3
<1>10. g[m].out = w /\ g[m].prev = p
  BY <1>8
<1> QED BY <1>3, <1>4, <1>8, <1>9, <1>10 DEF BothKept

\* Every operation of a view, on the characters it shows.
LEMMA ViewDenotes ==
    ASSUME NEW L, NEW b \in Seq(L), NEW v, Within(v, b), NEW set
    PROVE  Denotes(b, v, set)
<1>1. PICK s : s = chars(b, v) /\ Seen(s, b, v, L) /\ s \in Seq(L)
  BY ViewSeen DEF Seen
<1>2. /\ Inside(trim(b, v, set), v) /\ chars(b, trim(b, v, set)) = S!trim(s, set)
      /\ Inside(trim_start(b, v, set), v) /\ chars(b, trim_start(b, v, set)) = S!trim_start(s, set)
      /\ Inside(trim_end(b, v, set), v) /\ chars(b, trim_end(b, v, set)) = S!trim_end(s, set)
  BY <1>1, TrimsSeen
<1>3. PICK w : w = split(b, v, set) /\ texts(b, w) = S!split(s, set) /\ Insides(w, v) /\ w \in Seq(Places)
  BY <1>1, SplitSeen
<1>4. \A i \in DOMAIN w : Inside(w[i], v)
  <2>1. DOMAIN w = 1..Len(w)
    BY <1>3, LenProperties
  <2> QED BY <1>3, <2>1 DEF Insides
<1>5. find_first_of(b, v, set) = S!find_first_of(s, set) /\ find_last_of(b, v, set) = S!find_last_of(s, set)
  BY <1>1, SelectSame
<1>6. LET n == S!find_first_of(s, set)
          m == S!find_last_of(Reverse(s), set)
      IN  m = (IF n = 0 THEN 0 ELSE Len(s) - n + 1)
  BY <1>1, ReversedSeen
<1> QED BY <1>1, <1>2, <1>3, <1>4, <1>5, <1>6, Zenon DEF Denotes

LEMMA PieceSeq == ASSUME NEW L, NEW b \in Seq(L), NEW m \in 0..Len(b) PROVE piece(b, m) \in Seq(L)
<1>1. PICK n \in Nat : n = Len(b) /\ m \in 0..n
  BY LenProperties
<1>2. PICK j \in Nat : j = least(m + 2, n) /\ m + 1 <= j + 1 /\ j <= n /\ m + 1 \in Nat \ {0}
  BY <1>1 DEF least
<1>3. Piece(L, SubSeq(b, m + 1, j), b, m + 1, j)
  BY <1>1, <1>2, Part
<1> QED BY <1>1, <1>2, <1>3 DEF piece, Piece

\* A view and a string show and find the same.
Agrees(b, v, s) ==
    /\ chars(b, v) = s /\ to_bool(b, v) = S!to_bool(s)
    /\ \A set \in {Blank, Quotes, Blank \cup {"a"}} : Denotes(b, v, set)
    /\ \A m \in 0..Len(b) :
          LET t == piece(b, m)
          IN  /\ starts_with(b, v, t) = S!starts_with(s, t)
              /\ ends_with(b, v, t) = S!ends_with(s, t)
              /\ contains(b, v, t) = S!contains(s, t)
              /\ find(b, v, t) = S!find(s, t, 1) /\ rfind(b, v, t) = S!rfind(s, t)

\* StrView and Str agree on every string: ViewsAgree.
LEMMA ViewsAgreed == ASSUME NEW L, NEW b \in Seq(L) PROVE ViewsAgree(b)
<1> SUFFICES ASSUME NEW off \in 0..Len(b), NEW n \in 0..Len(b)
             PROVE  Agrees(b, substr(whole(b), off, n), S!substr(b, off, n))
  BY Zenon DEF ViewsAgree, Agrees
<1> SUFFICES ASSUME NEW v, v = substr(whole(b), off, n), NEW s, s = S!substr(b, off, n) PROVE Agrees(b, v, s)
  BY Zenon
<1>1. Within(v, b) /\ chars(b, v) = s
  BY SubstrSeen
<1>2. Seen(s, b, v, L)
  BY <1>1, ViewSeen
<1>3. to_bool(b, v) = S!to_bool(s)
  BY <1>1, Zenon DEF to_bool, S!to_bool
<1>4. \A set : Denotes(b, v, set)
  BY <1>1, ViewDenotes
<1>5. ASSUME NEW m \in 0..Len(b), NEW t, t = piece(b, m)
      PROVE  /\ starts_with(b, v, t) = S!starts_with(s, t)
             /\ ends_with(b, v, t) = S!ends_with(s, t)
             /\ contains(b, v, t) = S!contains(s, t)
             /\ find(b, v, t) = S!find(s, t, 1) /\ rfind(b, v, t) = S!rfind(s, t)
  <2>1. t \in Seq(L)
    BY <1>5, PieceSeq
  <2>2. starts_with(b, v, t) <=> S!starts_with(s, t)
    BY <1>2, <2>1, StartsSeen
  <2>3. ends_with(b, v, t) <=> S!ends_with(s, t)
    BY <1>2, <2>1, EndsSeen
  <2>4. contains(b, v, t) <=> S!contains(s, t)
    BY <1>2, <2>1, SearchSeen
  <2>5. find(b, v, t) = S!find(s, t, 1) /\ rfind(b, v, t) = S!rfind(s, t)
    BY <1>2, <2>1, SearchSeen
  <2>6. starts_with(b, v, t) = S!starts_with(s, t)
    BY <2>2, Zenon DEF starts_with, S!starts_with
  <2>7. ends_with(b, v, t) = S!ends_with(s, t)
    BY <2>3, Zenon DEF ends_with, S!ends_with
  <2>8. contains(b, v, t) = S!contains(s, t)
    BY <2>4, Zenon DEF contains, S!contains
  <2> QED BY <2>5, <2>6, <2>7, <2>8
<1> QED BY <1>1, <1>3, <1>4, <1>5, Zenon DEF Agrees

-----------------------------------------------------------------------------
(***************************************************************************)
(* split of what was joined: the words come back.                          *)
(***************************************************************************)
\* The loop takes one character more.
LEMMA LoopedNext ==
    ASSUME NEW L, NEW s \in Seq(L), NEW c \in L, NEW set
    PROVE  Looped(Append(s, c), set) = S!cut(Looped(s, set), set, c)
<1>1. PICK n \in Nat : n = Len(s)
  BY LenProperties
<1>2. PICK t : t = Append(s, c) /\ t \in Seq(L) /\ Len(t) = n + 1 /\ t[n + 1] = c /\ \A i \in 1..n : t[i] = s[i]
  <2> DEFINE t == Append(s, c)
  <2>1. t \in Seq(L) /\ Len(t) = n + 1 /\ t[n + 1] = c /\ \A i \in 1..n : t[i] = s[i]
    BY <1>1, Appended
  <2> HIDE DEF t
  <2>2. \E x : x = t /\ x \in Seq(L) /\ Len(x) = n + 1 /\ x[n + 1] = c /\ \A i \in 1..n : x[i] = s[i]
    BY <2>1
  <2> QED BY <2>2 DEF t
<1>3. PICK h \in [0..n -> Pieces(L)] :
         h[0] = NoPiece /\ Looped(s, set) = h[n] /\ \A k \in 1..n : h[k] = S!cut(h[k - 1], set, s[k])
  <2>1. CutsPieces(L, s, set, n)
    BY <1>1, PieceSteps
  <2> QED BY <2>1 DEF CutsPieces
<1>4. PICK g \in [0..(n + 1) -> Pieces(L)] :
         g[0] = NoPiece /\ Looped(t, set) = g[n + 1] /\ \A k \in 1..(n + 1) : g[k] = S!cut(g[k - 1], set, t[k])
  <2>1. CutsPieces(L, t, set, n + 1)
    BY <1>2, PieceSteps
  <2> QED BY <2>1 DEF CutsPieces
<1> DEFINE T == {k \in 0..n : g[k] = h[k]}
<1>5. 0 \in T
  BY <1>3, <1>4
<1>6. ASSUME NEW k \in 1..n, k - 1 \in T PROVE k \in T
  <2>1. k \in 1..(n + 1) /\ k \in 0..n
    OBVIOUS
  <2> QED BY <1>2, <1>3, <1>4, <1>6, <2>1
<1>7. 0..n \subseteq T
  <2> HIDE DEF T
  <2> QED BY <1>5, <1>6, Induct
<1>8. g[n] = h[n]
  BY <1>7
<1>9. n + 1 \in 1..(n + 1) /\ (n + 1) - 1 = n
  OBVIOUS
<1> QED BY <1>2, <1>3, <1>4, <1>8, <1>9

LEMMA LoopedNone == ASSUME NEW set PROVE Looped(<<>>, set) = NoPiece
<1>1. <<>> \in Seq({}) /\ Len(<<>>) = 0
  BY EmptySeq
<1>2. CutsPieces({}, <<>>, set, 0)
  BY <1>1, PieceSteps
<1> QED BY <1>2 DEF CutsPieces

\* The pieces are words: they have characters, and no delimiter among them.
WordsOf(M) == Seq(M) \ {<<>>}
Wordy(r, M) == \E x \in Seq(M), z \in Seq(WordsOf(M)) : r = [piece |-> x, out |-> z]

\* What is kept is no empty word.
LEMMA KeptWords ==
    ASSUME NEW M, NEW x \in Seq(M), NEW z \in Seq(WordsOf(M))
    PROVE  /\ S!kept([piece |-> x, out |-> z]) = IF x = <<>> THEN z ELSE Append(z, x)
           /\ S!kept([piece |-> x, out |-> z]) \in Seq(WordsOf(M))
<1>1. S!kept([piece |-> x, out |-> z]) = IF x = <<>> THEN z ELSE Append(z, x)
  BY DEF S!kept
<1>2. CASE x = <<>>
  BY <1>1, <1>2
<1>3. CASE x # <<>>
  <2>1. x \in WordsOf(M)
    BY <1>3 DEF WordsOf
  <2>2. Append(z, x) \in Seq(WordsOf(M))
    BY <2>1, AppendSeq
  <2> QED BY <1>1, <1>3, <2>2
<1> QED BY <1>2, <1>3

\* The loop keeps words, and the one it is in.
LEMMA LoopedWordy ==
    ASSUME NEW L, NEW s \in Seq(L), NEW set
    PROVE  Wordy(Looped(s, set), L \ set)
<1> DEFINE M == L \ set
           T == {t \in Seq(L) : Wordy(Looped(t, set), M)}
<1>1. <<>> \in T
  <2>1. <<>> \in Seq(L) /\ <<>> \in Seq(M) /\ <<>> \in Seq(WordsOf(M))
    BY EmptySeq
  <2>2. Wordy(NoPiece, M)
    <3> HIDE DEF M
    <3> QED BY <2>1 DEF Wordy, NoPiece
  <2> QED BY <2>1, <2>2, LoopedNone
<1>2. ASSUME NEW t \in Seq(L), NEW c \in L, t \in T PROVE Append(t, c) \in T
  <2>1. PICK r : r = Looped(t, set) /\ Wordy(r, M)
    BY <1>2
  <2>2. PICK x \in Seq(M), z \in Seq(WordsOf(M)) : r = [piece |-> x, out |-> z]
    BY <2>1 DEF Wordy
  <2>3. Append(t, c) \in Seq(L) /\ Looped(Append(t, c), set) = S!cut(r, set, c)
    BY <1>2, <2>1, AppendSeq, LoopedNext
  <2>4. CASE c \in set
    <3>1. S!cut(r, set, c) = [piece |-> <<>>, out |-> S!kept(r)]
      BY <2>4 DEF S!cut
    <3>2. S!kept(r) \in Seq(WordsOf(M)) /\ <<>> \in Seq(M)
      <4> HIDE DEF M
      <4> QED BY <2>2, KeptWords, EmptySeq
    <3>3. Wordy(S!cut(r, set, c), M)
      BY <3>1, <3>2 DEF Wordy
    <3> QED BY <2>3, <3>3
  <2>5. CASE c \notin set
    <3>1. r.piece = x /\ r.out = z
      BY <2>2
    <3>2. S!cut(r, set, c) = [piece |-> Append(x, c), out |-> z]
      BY <2>5, <3>1 DEF S!cut
    <3>3. Append(x, c) \in Seq(M)
      <4>1. c \in M
        BY <2>5
      <4> HIDE DEF M
      <4> QED BY <4>1, AppendSeq
    <3>4. Wordy(S!cut(r, set, c), M)
      BY <3>2, <3>3 DEF Wordy
    <3> QED BY <2>3, <3>4
  <2> QED BY <2>4, <2>5
<1>3. Seq(L) \subseteq T
  <2> HIDE DEF T
  <2> QED BY <1>1, <1>2, SeqInduct
<1> QED BY <1>3

\* split gives words without a delimiter.
LEMMA SplitWords == ASSUME NEW L, NEW s \in Seq(L), NEW set PROVE S!split(s, set) \in Seq(WordsOf(L \ set))
<1>1. PICK r : r = Looped(s, set) /\ Wordy(r, L \ set)
  BY LoopedWordy
<1>2. PICK x \in Seq(L \ set), z \in Seq(WordsOf(L \ set)) : r = [piece |-> x, out |-> z]
  BY <1>1 DEF Wordy
<1>3. S!kept(r) \in Seq(WordsOf(L \ set))
  <2> DEFINE M == L \ set
  <2> HIDE DEF M
  <2>1. ASSUME NEW K, K = M, NEW y \in Seq(K), NEW q \in Seq(WordsOf(K)), r = [piece |-> y, out |-> q]
        PROVE  S!kept(r) \in Seq(WordsOf(K))
    BY <2>1, KeptWords
  <2> QED BY <1>2, <2>1 DEF M
<1> QED BY <1>1, <1>3, SplitLooped

\* A word behind a delimiter, or alone, is the piece the loop is in.
LEMMA LoopedWord ==
    ASSUME NEW L, NEW s \in Seq(L), NEW set, NEW z, Looped(s, set) = [piece |-> <<>>, out |-> z],
           NEW M, M \subseteq L, M \cap set = {}, NEW x \in Seq(M)
    PROVE  Looped(s \o x, set) = [piece |-> x, out |-> z]
<1> DEFINE T == {t \in Seq(M) : Looped(s \o t, set) = [piece |-> t, out |-> z]}
<1>1. <<>> \in T
  <2>1. s \o <<>> = s
    BY ConcatNothing
  <2>2. <<>> \in Seq(M)
    BY EmptySeq
  <2> QED BY <2>1, <2>2
<1>2. ASSUME NEW t \in Seq(M), NEW c \in M, t \in T PROVE Append(t, c) \in T
  <2>1. t \in Seq(L) /\ c \in L /\ c \notin set
    BY <1>2
  <2>2. s \o Append(t, c) = Append(s \o t, c)
    BY <2>1, AppendConcat
  <2>3. s \o t \in Seq(L)
    BY <2>1, ConcatProperties
  <2>4. PICK r : r = Looped(s \o t, set) /\ r.piece = t /\ r.out = z
    BY <1>2
  <2>5. Looped(Append(s \o t, c), set) = S!cut(r, set, c)
    BY <2>1, <2>3, <2>4, LoopedNext
  <2>6. S!cut(r, set, c) = [piece |-> Append(t, c), out |-> z]
    BY <2>1, <2>4 DEF S!cut
  <2>7. Append(t, c) \in Seq(M)
    BY AppendSeq
  <2> QED BY <2>2, <2>5, <2>6, <2>7
<1>3. Seq(M) \subseteq T
  <2> HIDE DEF T
  <2> QED BY <1>1, <1>2, SeqInduct
<1> QED BY <1>3

\* What join puts behind the first string.
Separated(v, sep, n) == [i \in 1..n |-> sep \o v[i + 1]]

\* join puts the separator in front of every string but the first.
LEMMA JoinIs ==
    ASSUME NEW v, v # <<>>, NEW sep
    PROVE  C!join(v, sep) = Head(v) \o FlattenSeq(Separated(v, sep, Len(v) - 1))
  BY FlattenSame, Zenon DEF C!join, Separated

LEMMA SeparatedSeqs ==
    ASSUME NEW X, NEW v \in Seq(Seq(X)), NEW sep \in Seq(X), NEW n \in Nat, n + 1 = Len(v)
    PROVE  Seqs(Separated(v, sep, n), X) /\ Len(Separated(v, sep, n)) = n
<1>1. ASSUME NEW i \in 1..n PROVE sep \o v[i + 1] \in Seq(X)
  <2>1. i + 1 \in 1..Len(v)
    OBVIOUS
  <2>2. v[i + 1] \in Seq(X)
    <3> DEFINE D == Seq(X)
    <3>1. v \in Seq(D)
      OBVIOUS
    <3> HIDE DEF D
    <3>2. v[i + 1] \in D
      BY <2>1, <3>1, ElementOfSeq
    <3> QED BY <3>2 DEF D
  <2>3. \A e \in Seq(X) : sep \o e \in Seq(X)
    BY ConcatProperties
  <2> QED BY <2>2, <2>3
<1>2. Separated(v, sep, n) \in [1..n -> Seq(X)]
  BY <1>1 DEF Separated
<1> QED BY <1>2 DEF Seqs

Associates(a, c, e) == (a \o c) \o e = a \o (c \o e)

LEMMA ThreeGlued ==
    ASSUME NEW X, NEW a \in Seq(X), NEW c \in Seq(X), NEW e \in Seq(X)
    PROVE  Associates(a, c, e)
BY ConcatAssociative DEF Associates

JoinsOn(X, v, w, sep) ==
    C!join(v, sep) \in Seq(X) /\ C!join(Append(v, w), sep) = C!join(v, sep) \o (sep \o w)

\* One string more is joined behind the others.
LEMMA JoinNext ==
    ASSUME NEW X, NEW v \in Seq(Seq(X)), v # <<>>, NEW w \in Seq(X), NEW sep \in Seq(X)
    PROVE  JoinsOn(X, v, w, sep)
<1>1. PICK n \in Nat : n + 1 = Len(v)
  <2> DEFINE D == Seq(X)
  <2>1. v \in Seq(D)
    OBVIOUS
  <2> HIDE DEF D
  <2>2. Len(v) \in Nat /\ Len(v) # 0
    BY <2>1, EmptySeq, LenProperties
  <2>3. Len(v) - 1 \in Nat /\ (Len(v) - 1) + 1 = Len(v)
    BY <2>2
  <2> QED BY <2>3
<1>2. PICK y : /\ y = Append(v, w) /\ y \in Seq(Seq(X)) /\ Len(y) = (n + 1) + 1 /\ y[(n + 1) + 1] = w
               /\ \A i \in 1..(n + 1) : y[i] = v[i]
  <2> DEFINE D == Seq(X)
             y == Append(v, w)
  <2>0. v \in Seq(D) /\ w \in D
    OBVIOUS
  <2> HIDE DEF D
  <2>1. y \in Seq(D) /\ Len(y) = (n + 1) + 1 /\ y[(n + 1) + 1] = w /\ \A i \in 1..(n + 1) : y[i] = v[i]
    BY <1>1, <2>0, Appended
  <2> HIDE DEF y
  <2>2. \E x : x = y /\ x \in Seq(D) /\ Len(x) = (n + 1) + 1 /\ x[(n + 1) + 1] = w
               /\ \A i \in 1..(n + 1) : x[i] = v[i]
    BY <2>1
  <2> QED BY <2>2 DEF y, D
<1>3. PICK q : q = Separated(v, sep, n) /\ Seqs(q, X) /\ Len(q) = n
  <2>1. Seqs(Separated(v, sep, n), X) /\ Len(Separated(v, sep, n)) = n
    BY <1>1, SeparatedSeqs
  <2> QED BY <2>1
<1>4. PICK r : r = Separated(y, sep, n + 1) /\ Seqs(r, X) /\ Len(r) = n + 1
  <2>1. Seqs(Separated(y, sep, n + 1), X) /\ Len(Separated(y, sep, n + 1)) = n + 1
    <3>1. n + 1 \in Nat /\ (n + 1) + 1 = Len(y)
      BY <1>2
    <3> QED BY <1>2, <3>1, SeparatedSeqs
  <2> QED BY <2>1
<1>5. SubSeq(r, 1, n) = q
  <2>1. r \in Seq(Seq(X)) /\ q \in Seq(Seq(X)) /\ n \in 0..Len(r)
    BY <1>3, <1>4 DEF Seqs
  <2> DEFINE D == Seq(X)
  <2>d. r \in Seq(D) /\ q \in Seq(D)
    BY <2>1
  <2> HIDE DEF D
  <2>2. First(r, n) \in Seq(D) /\ Len(First(r, n)) = n /\ \A i \in 1..n : First(r, n)[i] = r[i]
    BY <2>1, <2>d, FirstIs
  <2>3. ASSUME NEW i \in 1..n PROVE r[i] = q[i]
    <3>1. i \in 1..(n + 1) /\ i + 1 \in 1..(n + 1)
      OBVIOUS
    <3> QED BY <1>2, <1>3, <1>4, <3>1 DEF Separated
  <2>4. First(r, n) = q
    BY <1>3, <2>d, <2>2, <2>3, SeqEqual
  <2> QED BY <2>4 DEF First
<1>6. FlattenSeq(r) = Upto(r, n + 1) /\ FlattenSeq(q) = Upto(r, n)
  <2>1. FlattenSeq(r) = Upto(r, Len(r))
    BY <1>4, UptoAll, Zenon
  <2> QED BY <1>4, <1>5, <2>1, Zenon DEF Upto
<1>7. Upto(r, n + 1) = Upto(r, n) \o r[n + 1] /\ Upto(r, n) \in Seq(X)
  <2>1. n + 1 \in 1..Len(r) /\ (n + 1) - 1 = n /\ n \in 0..Len(r)
    BY <1>4
  <2> QED BY <1>4, <2>1, UptoStep, UptoSeq
<1>8. r[n + 1] = sep \o w
  <2>1. n + 1 \in 1..(n + 1)
    OBVIOUS
  <2> QED BY <1>2, <1>4, <2>1 DEF Separated
<1>9. v[1] \in Seq(X) /\ Head(v) = v[1] /\ Head(y) = y[1] /\ y[1] = v[1] /\ y # <<>>
  <2>1. 1 \in 1..(n + 1) /\ Len(y) # 0
    BY <1>2
  <2>2. v[1] \in Seq(X)
    <3> DEFINE D == Seq(X)
    <3>1. v \in Seq(D)
      OBVIOUS
    <3> HIDE DEF D
    <3>2. v[1] \in D
      BY <1>1, <2>1, <3>1, ElementOfSeq
    <3> QED BY <3>2 DEF D
  <2>3. Len(<<>>) = 0
    BY EmptySeq
  <2>4. y # <<>>
    BY <2>1, <2>3
  <2>5. 1 \in 1..(n + 1)
    OBVIOUS
  <2>6. y[1] = v[1]
    BY <1>2, <2>5
  <2>7. Head(v) = v[1] /\ Head(y) = y[1]
    BY <1>2
  <2> QED BY <2>2, <2>4, <2>6, <2>7
<1>10. C!join(v, sep) = v[1] \o Upto(r, n) /\ C!join(y, sep) = v[1] \o Upto(r, n + 1)
  <2>1. Len(v) - 1 = n /\ Len(y) - 1 = n + 1
    BY <1>1, <1>2
  <2> QED BY <1>3, <1>4, <1>6, <1>9, <2>1, JoinIs
<1>11. sep \o w \in Seq(X)
  BY ConcatProperties
<1>12. v[1] \o (Upto(r, n) \o (sep \o w)) = (v[1] \o Upto(r, n)) \o (sep \o w)
  <2>1. PICK a \in Seq(X), c \in Seq(X), e \in Seq(X) : a = v[1] /\ c = Upto(r, n) /\ e = sep \o w
    BY <1>7, <1>9, <1>11
  <2>2. Associates(a, c, e)
    BY ThreeGlued, Zenon
  <2> QED BY <2>1, <2>2 DEF Associates
<1>13. v[1] \o Upto(r, n) \in Seq(X)
  BY <1>7, <1>9, ConcatProperties
<1> QED BY <1>2, <1>7, <1>8, <1>10, <1>12, <1>13 DEF JoinsOn

\* One string alone is joined with nothing.
LEMMA JoinOne == ASSUME NEW X, NEW w \in Seq(X), NEW sep PROVE C!join(<<w>>, sep) = w
<1>1. PICK v : v = <<w>> /\ Len(v) = 1 /\ v # <<>> /\ Head(v) = w
  <2>1. Len(<<w>>) = 1 /\ <<w>> # <<>> /\ Head(<<w>>) = w
    OBVIOUS
  <2> QED BY <2>1
<1>2. PICK q : q = Separated(v, sep, 0)
  OBVIOUS
<1>3. q = <<>>
  BY <1>2 DEF Separated
<1>4. FlattenSeq(<<>>) = <<>>
  <2>1. Seqs(<<>>, X) /\ Len(<<>>) = 0
    BY EmptySeq DEF Seqs
  <2> QED BY <2>1, UptoEmpty, UptoAll
<1>5. Len(v) - 1 = 0
  BY <1>1
<1>6. C!join(v, sep) = w \o <<>>
  BY <1>1, <1>2, <1>3, <1>4, <1>5, JoinIs
<1>7. w \o <<>> = w
  BY ConcatNothing
<1> QED BY <1>1, <1>6, <1>7

\* Joined words: the loop has kept all but the last.
Loops(v, L, M, set, d) ==
    \E u \in Seq(WordsOf(M)), w \in WordsOf(M) :
        v = Append(u, w) /\ Looped(C!join(v, <<d>>), set) = [piece |-> w, out |-> u]

\* Going through words that were joined finds all of them: the last is the piece the loop is in.
LEMMA JoinedLoops ==
    ASSUME NEW L, NEW M, M \subseteq L, NEW set, M \cap set = {}, NEW d \in L, d \in set,
           NEW v \in Seq(WordsOf(M))
    PROVE  v = <<>> \/ Loops(v, L, M, set, d)
<1> DEFINE W == WordsOf(M)
           T == {y \in Seq(W) : y = <<>> \/ Loops(y, L, M, set, d)}
<1>0. W \subseteq Seq(M) /\ W \subseteq Seq(L) /\ <<>> \notin W
  BY DEF WordsOf
<1>w. W = WordsOf(M)
  OBVIOUS
<1> HIDE DEF W
<1>l. \A s, z, x : s \in Seq(L) /\ x \in Seq(M) /\ Looped(s, set) = [piece |-> <<>>, out |-> z]
                   => Looped(s \o x, set) = [piece |-> x, out |-> z]
  BY LoopedWord
<1>1. <<>> \in T
  BY EmptySeq
<1>2. ASSUME NEW y \in Seq(W), NEW x \in W, y \in T PROVE Append(y, x) \in T
  <2>1. Append(y, x) \in Seq(W) /\ x \in Seq(M) /\ x \in Seq(L)
    BY <1>0, AppendSeq
  <2>2. <<>> \in Seq(L) /\ <<d>> \in Seq(L)
    BY EmptySeq, JustOne
  <2>3. CASE y = <<>>
    <3>1. Append(y, x) = <<x>>
      BY <2>3
    <3>2. C!join(<<x>>, <<d>>) = x
      BY <2>1, JoinOne
    <3>3. Looped(<<>>, set) = [piece |-> <<>>, out |-> <<>>]
      BY LoopedNone DEF NoPiece
    <3>4. Looped(<<>> \o x, set) = [piece |-> x, out |-> <<>>]
      <4>1. \A z : Looped(<<>>, set) = [piece |-> <<>>, out |-> z] => Looped(<<>> \o x, set) = [piece |-> x, out |-> z]
        BY <1>l, <2>1, <2>2, Zenon
      <4> QED BY <3>3, <4>1, Zenon
    <3>5. <<>> \o x = x
      BY <2>1, ConcatEmptySeq
    <3>6. Loops(Append(y, x), L, M, set, d)
      BY <1>w, <2>3, <3>1, <3>2, <3>4, <3>5 DEF Loops
    <3> QED BY <2>1, <3>6
  <2>4. CASE y # <<>>
    <3>1. PICK u \in Seq(W), w \in W : y = Append(u, w) /\ Looped(C!join(y, <<d>>), set) = [piece |-> w, out |-> u]
      BY <1>2, <1>w, <2>4 DEF Loops
    <3>2. PICK j : j = C!join(y, <<d>>)
      OBVIOUS
    <3>3. y \in Seq(Seq(L))
      BY <1>0
    <3>4. j \in Seq(L) /\ C!join(Append(y, x), <<d>>) = j \o (<<d>> \o x)
      <4>1. PICK e : e = <<d>> /\ e \in Seq(L)
        BY <2>2
      <4>2. C!join(y, e) \in Seq(L) /\ C!join(Append(y, x), e) = C!join(y, e) \o (e \o x)
        <5>1. JoinsOn(L, y, x, e)
          BY <2>1, <2>4, <3>3, <4>1, JoinNext, Zenon
        <5> QED BY <5>1 DEF JoinsOn
      <4> QED BY <3>2, <4>1, <4>2
    <3>5. j \o (<<d>> \o x) = Append(j, d) \o x
      <4>1. j \o (<<d>> \o x) = (j \o <<d>>) \o x
        <5>1. PICK e : e = <<d>> /\ e \in Seq(L)
          BY <2>2
        <5>2. Associates(j, e, x)
          BY <2>1, <3>4, <5>1, ThreeGlued
        <5> QED BY <5>1, <5>2 DEF Associates
      <4> QED BY <3>4, <4>1, AppendIsConcat
    <3>6. PICK r : r = Looped(j, set) /\ r.piece = w /\ r.out = u
      BY <3>1, <3>2
    <3>7. Looped(Append(j, d), set) = S!cut(r, set, d)
      BY <3>4, <3>6, LoopedNext
    <3>8. S!cut(r, set, d) = [piece |-> <<>>, out |-> S!kept(r)]
      BY DEF S!cut
    <3>9. S!kept(r) = y
      <4>1. w # <<>>
        BY <1>0
      <4> QED BY <3>1, <3>6, <4>1 DEF S!kept
    <3>10. Append(j, d) \in Seq(L)
      BY <3>4, AppendSeq
    <3>11. Looped(Append(j, d) \o x, set) = [piece |-> x, out |-> y]
      <4>1. Looped(Append(j, d), set) = [piece |-> <<>>, out |-> y]
        BY <3>7, <3>8, <3>9
      <4> QED BY <1>l, <2>1, <3>10, <4>1
    <3>12. Looped(C!join(Append(y, x), <<d>>), set) = [piece |-> x, out |-> y]
      BY <3>4, <3>5, <3>11
    <3>13. Loops(Append(y, x), L, M, set, d)
      BY <1>w, <3>12 DEF Loops
    <3> QED BY <2>1, <3>13
  <2> QED BY <2>3, <2>4
<1>3. Seq(W) \subseteq T
  <2> HIDE DEF T
  <2> QED BY <1>1, <1>2, SeqInduct
<1>4. v \in Seq(W)
  BY <1>w
<1> QED BY <1>3, <1>4

\* What was split and joined is split into the same words.
LEMMA JoinedSplits ==
    ASSUME NEW L, NEW s \in Seq(L)
    PROVE  S!split(C!join(S!split(s, Blank), <<" ">>), Blank) = S!split(s, Blank)
<1>1. PICK K, M : K = L \cup {" "} /\ M = L \ Blank /\ M \subseteq K /\ M \cap Blank = {} /\ " " \in K /\ " " \in Blank
  <2>1. L \ Blank \subseteq L \cup {" "} /\ (L \ Blank) \cap Blank = {} /\ " " \in L \cup {" "} /\ " " \in Blank
    BY DEF Blank
  <2> QED BY <2>1
<1>2. PICK v : v = S!split(s, Blank) /\ v \in Seq(WordsOf(M))
  BY <1>1, SplitWords
<1>3. CASE v = <<>>
  <2>1. C!join(v, <<" ">>) = <<>>
    BY <1>3 DEF C!join
  <2>2. <<>> \in Seq({}) /\ <<>> \in Seq(Seq({}))
    BY EmptySeq
  <2>3. S!split(<<>>, Blank) = S!kept(NoPiece)
    BY <2>2, SplitLooped, LoopedNone
  <2>4. S!kept(NoPiece) = <<>>
    BY <2>2, KeptIs DEF NoPiece
  <2> QED BY <1>2, <1>3, <2>1, <2>3, <2>4
<1>4. CASE v # <<>>
  <2>1. Loops(v, K, M, Blank, " ")
    BY <1>1, <1>2, <1>4, JoinedLoops
  <2>2. PICK u \in Seq(WordsOf(M)), w \in WordsOf(M) :
           v = Append(u, w) /\ Looped(C!join(v, <<" ">>), Blank) = [piece |-> w, out |-> u]
    BY <2>1 DEF Loops
  <2>3. C!join(v, <<" ">>) \in Seq(K)
    <3>1. WordsOf(M) \subseteq Seq(K) /\ v \in Seq(Seq(K))
      <4>1. WordsOf(M) \subseteq Seq(K)
        <5>1. M \subseteq K
          BY <1>1
        <5>2. Seq(M) \subseteq Seq(K)
          BY <5>1
        <5> QED BY <5>2 DEF WordsOf
      <4> QED BY <1>2, <4>1
    <3>2. <<" ">> \in Seq(K) /\ <<>> \in Seq(K)
      BY <1>1, JustOne, EmptySeq
    <3>3. JoinsOn(K, v, <<>>, <<" ">>)
      BY <1>4, <3>1, <3>2, JoinNext
    <3> QED BY <3>3 DEF JoinsOn
  <2>4. S!split(C!join(v, <<" ">>), Blank) = S!kept([piece |-> w, out |-> u])
    BY <2>2, <2>3, SplitLooped
  <2>5. w \in Seq(M) /\ w # <<>>
    BY DEF WordsOf
  <2>6. S!kept([piece |-> w, out |-> u]) = Append(u, w)
    BY <2>2, <2>5, KeptWords
  <2> QED BY <1>2, <2>2, <2>4, <2>6
<1> QED BY <1>3, <1>4

-----------------------------------------------------------------------------
(***************************************************************************)
(* Edits: what is inserted can be erased, and replace_all replaces each    *)
(* occurrence once.                                                        *)
(***************************************************************************)
\* Two parts of a sequence that touch make one.
Parted(s, i, j, k) == SubSeq(s, i, j) \o SubSeq(s, j + 1, k) = SubSeq(s, i, k)

LEMMA PartsJoin ==
    ASSUME NEW X, NEW s \in Seq(X), NEW i \in Nat \ {0}, NEW j \in Nat, NEW k \in Nat, i <= j + 1, j <= k, k <= Len(s)
    PROVE  Parted(s, i, j, k)
<1>1. PICK n \in Nat : n = Len(s) /\ j <= n /\ k <= n
  BY LenProperties
<1>2. PICK x : x = SubSeq(s, i, j) /\ Piece(X, x, s, i, j)
  BY <1>1, Part
<1>3. PICK y : y = SubSeq(s, j + 1, k) /\ Piece(X, y, s, j + 1, k)
  <2>1. j + 1 \in Nat \ {0} /\ j + 1 <= k + 1
    OBVIOUS
  <2> QED BY <2>1, Part
<1>4. PICK z : z = SubSeq(s, i, k) /\ Piece(X, z, s, i, k)
  <2>1. i <= k + 1
    OBVIOUS
  <2> QED BY <2>1, Part
<1>5. PICK l \in Nat, m \in Nat : l = j - i + 1 /\ m = k - (j + 1) + 1 /\ l + m = k - i + 1
  <2>1. j - i + 1 \in Nat /\ k - (j + 1) + 1 \in Nat /\ (j - i + 1) + (k - (j + 1) + 1) = k - i + 1
    OBVIOUS
  <2> QED BY <2>1
<1>6. x \in Seq(X) /\ Len(x) = l /\ \A e \in 1..l : x[e] = s[i + e - 1]
  BY <1>2, <1>5 DEF Piece
<1>7. y \in Seq(X) /\ Len(y) = m /\ \A e \in 1..m : y[e] = s[j + 1 + e - 1]
  BY <1>3, <1>5 DEF Piece
<1>8. z \in Seq(X) /\ Len(z) = l + m /\ \A e \in 1..(l + m) : z[e] = s[i + e - 1]
  BY <1>4, <1>5 DEF Piece
<1>9. /\ x \o y \in Seq(X) /\ Len(x \o y) = l + m
      /\ \A e \in 1..(l + m) : (x \o y)[e] = IF e <= l THEN x[e] ELSE y[e - l]
  BY <1>6, <1>7, ConcatProperties
<1>10. ASSUME NEW e \in 1..(l + m) PROVE (x \o y)[e] = z[e]
  <2>1. CASE e <= l
    <3>1. e \in 1..l
      BY <2>1
    <3> QED BY <1>6, <1>8, <1>9, <2>1, <3>1
  <2>2. CASE ~(e <= l)
    <3>1. e - l \in 1..m /\ j + 1 + (e - l) - 1 = i + e - 1
      BY <1>5, <2>2
    <3> QED BY <1>7, <1>8, <1>9, <2>2, <3>1
  <2> QED BY <2>1, <2>2
<1>11. x \o y = z
  BY <1>8, <1>9, <1>10, SeqEqual
<1> QED BY <1>2, <1>3, <1>4, <1>11 DEF Parted

\* In three parts put together the outer two can be told.
Outer(w, a, t, c) == SubSeq(w, 1, Len(a)) = a /\ SubSeq(w, Len(a) + Len(t) + 1, Len(w)) = c

LEMMA OuterAre ==
    ASSUME NEW X, NEW a \in Seq(X), NEW t \in Seq(X), NEW c \in Seq(X), NEW w, w = a \o t \o c
    PROVE  Outer(w, a, t, c)
<1>1. PICK m \in Nat, k \in Nat, n \in Nat : m = Len(a) /\ k = Len(t) /\ n = Len(c)
  BY LenProperties
<1>2. /\ w \in Seq(X) /\ Len(w) = m + k + n
      /\ (\A i \in 1..m : w[i] = a[i]) /\ \A i \in 1..n : w[m + k + i] = c[i]
  BY <1>1, Threefold
<1>3. SubSeq(w, 1, m) = a
  <2>1. PICK x : x = SubSeq(w, 1, m) /\ Piece(X, x, w, 1, m)
    <3>1. 1 \in Nat \ {0} /\ 1 <= m + 1 /\ m <= Len(w)
      BY <1>1, <1>2
    <3>2. Piece(X, SubSeq(w, 1, m), w, 1, m)
      BY <1>2, <3>1, Part
    <3> QED BY <3>2
  <2>2. m - 1 + 1 = m /\ \A i \in 1..m : 1 + i - 1 = i
    BY <1>1
  <2>3. x \in Seq(X) /\ Len(x) = m /\ \A i \in 1..m : x[i] = a[i]
    BY <1>2, <2>1, <2>2 DEF Piece
  <2> QED BY <1>1, <2>1, <2>3, SeqEqual
<1>4. SubSeq(w, m + k + 1, m + k + n) = c
  <2>1. PICK x : x = SubSeq(w, m + k + 1, m + k + n) /\ Piece(X, x, w, m + k + 1, m + k + n)
    <3>1. PICK i \in Nat \ {0}, j \in Nat : i = m + k + 1 /\ j = m + k + n /\ i <= j + 1 /\ j <= Len(w)
      BY <1>1, <1>2
    <3>2. Piece(X, SubSeq(w, i, j), w, i, j)
      BY <1>2, <3>1, Part
    <3> QED BY <3>1, <3>2
  <2>2. (m + k + n) - (m + k + 1) + 1 = n /\ \A i \in 1..n : (m + k + 1) + i - 1 = m + k + i
    BY <1>1
  <2>3. x \in Seq(X) /\ Len(x) = n /\ \A i \in 1..n : x[i] = w[(m + k + 1) + i - 1]
    BY <2>1, <2>2 DEF Piece
  <2>4. \A i \in 1..n : x[i] = c[i]
    BY <1>2, <2>2, <2>3
  <2> QED BY <1>1, <2>1, <2>3, <2>4, SeqEqual
<1> QED BY <1>1, <1>2, <1>3, <1>4 DEF Outer

\* What is inserted can be erased.
LEMMA InsertErases ==
    ASSUME NEW X, NEW b \in Seq(X), NEW m \in 0..Len(b), NEW t \in Seq(X)
    PROVE  S!erase(S!insert(b, m, t), m, Len(t)) = b
<1>1. PICK n \in Nat, k \in Nat : n = Len(b) /\ k = Len(t) /\ m \in 0..n /\ m + 1 \in Nat \ {0}
  BY LenProperties
<1>2. PICK a : a = SubSeq(b, 1, m) /\ a \in Seq(X) /\ Len(a) = m
  <2>1. Piece(X, SubSeq(b, 1, m), b, 1, m)
    BY <1>1, Part
  <2>2. m - 1 + 1 = m
    BY <1>1
  <2> QED BY <2>1, <2>2 DEF Piece
<1>3. PICK c : c = SubSeq(b, m + 1, n) /\ c \in Seq(X)
  <2>1. m + 1 <= n + 1
    BY <1>1
  <2>2. Piece(X, SubSeq(b, m + 1, n), b, m + 1, n)
    BY <1>1, <2>1, Part
  <2> QED BY <2>2 DEF Piece
<1>4. PICK w : w = a \o t \o c
  OBVIOUS
<1>5. Outer(w, a, t, c)
  BY <1>2, <1>3, <1>4, OuterAre
<1>6. S!insert(b, m, t) = w
  BY <1>1, <1>2, <1>3, <1>4 DEF S!insert, S!from
<1>7. S!erase(w, m, k) = a \o c
  BY <1>1, <1>2, <1>5 DEF S!erase, S!from, Outer
<1>8. Parted(b, 1, m, n)
  <2>1. 1 \in Nat \ {0} /\ 1 <= m + 1 /\ m <= n /\ m \in Nat
    BY <1>1
  <2> QED BY <1>1, <2>1, PartsJoin
<1>9. a \o c = SubSeq(b, 1, n)
  BY <1>2, <1>3, <1>8 DEF Parted
<1>10. SubSeq(b, 1, n) = b
  BY <1>1, FirstAll DEF First
<1> QED BY <1>1, <1>6, <1>7, <1>9, <1>10

\* What substr gives of a string, in front of a place and behind it.
LEMMA SubstrTo ==
    ASSUME NEW X, NEW b \in Seq(X), NEW m \in 0..Len(b)
    PROVE  S!substr(b, 0, m) = SubSeq(b, 1, m)
<1>1. PICK n \in Nat : n = Len(b) /\ m \in 0..n /\ m \in Nat /\ ~(m > n)
  BY LenProperties
<1>2. CASE n = 0
  <2>1. S!substr(b, 0, m) = <<>>
    BY <1>1, <1>2 DEF S!substr
  <2>2. SubSeq(b, 1, 0) = <<>> /\ m = 0
    BY <1>1, <1>2, FirstAll DEF First
  <2> QED BY <2>1, <2>2
<1>3. CASE n # 0
  <2>1. ~(0 >= n) /\ 0 + m = m /\ 0 + 1 = 1
    BY <1>1, <1>3
  <2> QED BY <1>1, <2>1 DEF S!substr
<1> QED BY <1>2, <1>3

\* And from there on.
LEMMA SubstrFrom ==
    ASSUME NEW X, NEW b \in Seq(X), NEW m \in 0..Len(b)
    PROVE  S!substr(b, m, Len(b)) = SubSeq(b, m + 1, Len(b))
<1>1. PICK n \in Nat : n = Len(b) /\ m \in 0..n /\ m \in Nat /\ ~(m > n)
  BY LenProperties
<1>2. CASE m = n
  <2>1. S!substr(b, m, n) = <<>>
    BY <1>1, <1>2 DEF S!substr
  <2>2. SubSeq(b, n + 1, n) = <<>>
    <3>1. n + 1 \in Nat \ {0} /\ n + 1 <= n + 1 /\ n <= Len(b) /\ n - (n + 1) + 1 = 0
      BY <1>1
    <3>2. Piece(X, SubSeq(b, n + 1, n), b, n + 1, n)
      BY <3>1, Part
    <3> QED BY <3>1, <3>2, EmptySeq DEF Piece
  <2> QED BY <1>1, <1>2, <2>1, <2>2
<1>3. CASE m # n
  <2>1. ~(m >= n) /\ (IF m + n > n THEN n ELSE m + n) = n
    BY <1>1, <1>3
  <2> QED BY <1>1, <2>1 DEF S!substr
<1> QED BY <1>2, <1>3

\* The two parts of a string, put together.
LEMMA PartsAppend ==
    ASSUME NEW X, NEW b \in Seq(X), NEW m \in 0..Len(b)
    PROVE  S!append(S!substr(b, 0, m), S!substr(b, m, Len(b))) = b
<1>1. PICK n \in Nat : n = Len(b) /\ m \in Nat /\ m <= n
  BY LenProperties
<1>2. SubSeq(b, 1, n) = b
  BY <1>1, FirstAll DEF First
<1>3. Parted(b, 1, m, n)
  <2>1. 1 \in Nat \ {0} /\ 1 <= m + 1
    BY <1>1
  <2> QED BY <1>1, <2>1, PartsJoin
<1>4. S!substr(b, 0, m) = SubSeq(b, 1, m) /\ S!substr(b, m, n) = SubSeq(b, m + 1, n)
  BY <1>1, SubstrTo, SubstrFrom
<1> QED BY <1>1, <1>2, <1>3, <1>4 DEF S!append, Parted

\* find gives the first place, if there is one.
IsSpot(s, u, pos, i) ==
    /\ i \in Nat \ {0} /\ pos <= i /\ i + Len(u) <= Len(s) + 1 /\ SubSeq(s, i, i + Len(u) - 1) = u
Finds(s, u, pos, i) ==
    \/ i = 0 /\ \A j \in Nat : ~IsSpot(s, u, pos, j)
    \/ IsSpot(s, u, pos, i) /\ \A j \in Nat : IsSpot(s, u, pos, j) => i <= j

\* find finds.
LEMMA FindFinds ==
    ASSUME NEW X, NEW s \in Seq(X), NEW Y, NEW u \in Seq(Y), NEW pos \in Nat \ {0}
    PROVE  Finds(s, u, pos, S!find(s, u, pos))
<1>1. PICK n \in Nat, k \in Nat : n = Len(s) /\ k = Len(u)
  BY LenProperties
<1>2. \A j \in Int : j \in Spots(s, u, pos) <=> IsSpot(s, u, pos, j)
  <2> SUFFICES ASSUME NEW j \in Int PROVE j \in Spots(s, u, pos) <=> IsSpot(s, u, pos, j)
    OBVIOUS
  <2>1. j \in pos..(n - k + 1) <=> j \in Nat \ {0} /\ pos <= j /\ j + k <= n + 1
    BY <1>1
  <2> QED BY <1>1, <2>1 DEF Spots, IsSpot
<1>3. PICK A : A = Spots(s, u, pos) /\ A \subseteq Nat
  <2>1. Spots(s, u, pos) \subseteq pos..(Len(s) - Len(u) + 1)
    BY DEF Spots
  <2>2. Spots(s, u, pos) \subseteq Nat
    BY <1>1, <2>1
  <2> QED BY <2>2
<1>4. S!find(s, u, pos) = IF A = {} THEN 0 ELSE CHOOSE i \in A : \A j \in A : i <= j
  BY <1>3 DEF S!find, Spots
<1>5. CASE A = {}
  <2>1. \A j \in Nat : ~IsSpot(s, u, pos, j)
    BY <1>2, <1>3, <1>5
  <2> QED BY <1>4, <1>5, <2>1 DEF Finds
<1>6. CASE A # {}
  <2>1. \E i \in A : \A j \in A : i <= j
    BY <1>3, <1>6, NatLeast
  <2>2. PICK i : i = S!find(s, u, pos) /\ i \in A /\ \A j \in A : i <= j
    <3>1. (CHOOSE i \in A : \A j \in A : i <= j) \in A
      BY <2>1
    <3>2. \A j \in A : (CHOOSE i \in A : \A l \in A : i <= l) <= j
      BY <2>1
    <3> QED BY <1>4, <1>6, <3>1, <3>2
  <2>3. IsSpot(s, u, pos, i) /\ \A j \in Nat : IsSpot(s, u, pos, j) => i <= j
    BY <1>2, <1>3, <2>2
  <2> QED BY <2>2, <2>3 DEF Finds
<1> QED BY <1>5, <1>6

\* A sequence is what is before a place where u stands, u, and the rest.
LEMMA SpotParts ==
    ASSUME NEW X, NEW s \in Seq(X), NEW u \in Seq(X), NEW pos \in Nat \ {0}, NEW i, IsSpot(s, u, pos, i), NEW q \in Nat \ {0}, q <= i
    PROVE  SubSeq(s, q, i - 1) \o u \o SubSeq(s, i + Len(u), Len(s)) = SubSeq(s, q, Len(s))
<1>1. PICK n \in Nat, k \in Nat : n = Len(s) /\ k = Len(u)
  BY LenProperties
<1>2. i \in Nat \ {0} /\ i + k <= n + 1 /\ SubSeq(s, i, i + k - 1) = u
  BY <1>1 DEF IsSpot
<1>3. PICK p \in Nat, e \in Nat : p = i - 1 /\ e = i + k - 1 /\ p + 1 = i /\ e + 1 = i + k /\ p <= e /\ e <= n /\ q <= p + 1 /\ q <= e + 1
  <2>1. i - 1 \in Nat /\ i + k - 1 \in Nat
    BY <1>2
  <2> QED BY <1>2, <2>1
<1>4. Parted(s, q, p, e)
  BY <1>1, <1>3, PartsJoin
<1>5. Parted(s, q, e, n)
  BY <1>1, <1>3, PartsJoin
<1> QED BY <1>1, <1>2, <1>3, <1>4, <1>5 DEF Parted

\* Replacing something by itself leaves the string.
LEMMA ReplaceSame == ASSUME NEW X, NEW b \in Seq(X), NEW u \in Seq(X) PROVE S!replace(b, u, u) = b
<1>1. PICK i : i = S!find(b, u, 1) /\ Finds(b, u, 1, i)
  BY FindFinds
<1>2. CASE i = 0
  BY <1>1, <1>2 DEF S!replace
<1>3. CASE i # 0
  <2>1. IsSpot(b, u, 1, i)
    BY <1>1, <1>3 DEF Finds
  <2>2. S!replace(b, u, u) = SubSeq(b, 1, i - 1) \o u \o SubSeq(b, i + Len(u), Len(b))
    BY <1>1, <1>3 DEF S!replace, S!from
  <2>3. 1 <= i /\ 1 \in Nat \ {0}
    BY <2>1 DEF IsSpot
  <2>4. SubSeq(b, 1, i - 1) \o u \o SubSeq(b, i + Len(u), Len(b)) = SubSeq(b, 1, Len(b))
    BY <2>1, <2>3, SpotParts
  <2>5. SubSeq(b, 1, Len(b)) = b
    BY FirstAll DEF First
  <2> QED BY <2>2, <2>4, <2>5
<1> QED BY <1>2, <1>3

\* A piece of the string stands in it.
LEMMA PieceStands ==
    ASSUME NEW X, NEW b \in Seq(X), NEW m \in 0..Len(b), NEW u, u = piece(b, m), u # <<>>
    PROVE  IsSpot(b, u, 1, m + 1)
<1>1. PICK n \in Nat : n = Len(b) /\ m \in Nat /\ m <= n
  BY LenProperties
<1>2. PICK j \in Nat : j = least(m + 2, n) /\ m + 1 <= j + 1 /\ j <= n /\ m + 1 \in Nat \ {0}
  <2>1. least(m + 2, n) \in Nat /\ m + 1 <= least(m + 2, n) + 1 /\ least(m + 2, n) <= n /\ m + 1 \in Nat \ {0}
    BY <1>1 DEF least
  <2> QED BY <2>1
<1>3. u = SubSeq(b, m + 1, j) /\ Piece(X, u, b, m + 1, j)
  BY <1>1, <1>2, Part DEF piece
<1>4. Len(u) = j - (m + 1) + 1
  BY <1>3 DEF Piece
<1>5. (m + 1) + Len(u) - 1 = j /\ (m + 1) + Len(u) <= n + 1
  BY <1>1, <1>2, <1>4
<1> QED BY <1>1, <1>2, <1>3, <1>5 DEF IsSpot

\* replace puts t where u stood.
LEMMA ReplaceOther ==
    ASSUME NEW X, NEW b \in Seq(X), NEW m \in 0..Len(b), NEW u, u = piece(b, m), u # <<>>, NEW t \in Seq(X),
           NEW f, f = S!find(b, u, 1) - 1
    PROVE  S!replace(b, u, t) = S!plus(S!substr(b, 0, f), S!plus(t, S!substr(b, f + Len(u), Len(b))))
<1>0. u \in Seq(X)
  BY PieceSeq
<1>1. PICK i : i = S!find(b, u, 1) /\ Finds(b, u, 1, i)
  BY <1>0, FindFinds
<1>2. IsSpot(b, u, 1, i)
  <2>1. IsSpot(b, u, 1, m + 1) /\ m + 1 \in Nat
    BY PieceStands, LenProperties
  <2> QED BY <1>1, <2>1 DEF Finds
<1>3. PICK n \in Nat, k \in Nat : n = Len(b) /\ k = Len(u)
  BY <1>0, LenProperties
<1>4. f \in Nat /\ f + 1 = i /\ f = i - 1 /\ f + k <= n /\ f \in 0..n /\ f + k \in 0..n /\ (f + k) + 1 = i + k
  <2>1. i \in Nat \ {0} /\ i + k <= n + 1
    BY <1>2, <1>3 DEF IsSpot
  <2>2. f = i - 1
    BY <1>1
  <2> QED BY <2>1, <2>2
<1>5. PICK a : a = SubSeq(b, 1, f) /\ a \in Seq(X)
  <2>1. Piece(X, SubSeq(b, 1, f), b, 1, f)
    BY <1>3, <1>4, Part
  <2> QED BY <2>1 DEF Piece
<1>6. PICK c : c = SubSeq(b, i + k, n) /\ c \in Seq(X)
  <2>1. i + k \in Nat \ {0} /\ i + k <= n + 1
    BY <1>3, <1>4
  <2>2. Piece(X, SubSeq(b, i + k, n), b, i + k, n)
    BY <1>3, <2>1, Part
  <2> QED BY <2>2 DEF Piece
<1>7. S!substr(b, 0, f) = a
  BY <1>3, <1>4, <1>5, SubstrTo
<1>8. S!substr(b, f + k, n) = c
  BY <1>3, <1>4, <1>6, SubstrFrom
<1>9. S!replace(b, u, t) = a \o t \o c
  <2>1. i # 0
    BY <1>4
  <2> QED BY <1>1, <1>3, <1>4, <1>5, <1>6, <2>1 DEF S!replace, S!from
<1>10. Associates(a, t, c)
  BY <1>5, <1>6, ThreeGlued
<1> QED BY <1>3, <1>7, <1>8, <1>9, <1>10 DEF S!plus, Associates

\* What replace_all makes of the string from pos on, if r is what it makes of the rest.
Onward(r, s, u, t, pos) ==
    IF S!find(s, u, pos) = 0 THEN SubSeq(s, pos, Len(s))
    ELSE SubSeq(s, pos, S!find(s, u, pos) - 1) \o t \o r[S!find(s, u, pos) + Len(u)]
Rests(r, s, u, t) == r = [pos \in 1..(Len(s) + 1) |-> Onward(r, s, u, t, pos)]

\* It takes the rest behind pos only.
LEMMA OnwardSeq ==
    ASSUME NEW X, NEW s \in Seq(X), NEW u \in Seq(X), u # <<>>, NEW t \in Seq(X), NEW pos \in 1..(Len(s) + 1),
           NEW r, \A p \in (pos + 1)..(Len(s) + 1) : r[p] \in Seq(X)
    PROVE  /\ Onward(r, s, u, t, pos) \in Seq(X)
           /\ \A g : (\A p \in (pos + 1)..(Len(s) + 1) : g[p] = r[p]) => Onward(g, s, u, t, pos) = Onward(r, s, u, t, pos)
<1>1. PICK n \in Nat, k \in Nat \ {0} : n = Len(s) /\ k = Len(u) /\ pos \in 1..(n + 1) /\ pos \in Nat \ {0}
  <2>1. Len(s) \in Nat /\ Len(u) \in Nat /\ Len(u) # 0
    BY EmptySeq, LenProperties
  <2> QED BY <2>1
<1>2. PICK i : i = S!find(s, u, pos) /\ Finds(s, u, pos, i)
  <2>1. Finds(s, u, pos, S!find(s, u, pos))
    BY <1>1, FindFinds
  <2> QED BY <2>1
<1>3. CASE i = 0
  <2>1. Piece(X, SubSeq(s, pos, n), s, pos, n)
    BY <1>1, Part
  <2>2. SubSeq(s, pos, n) \in Seq(X)
    BY <2>1 DEF Piece
  <2> QED BY <1>1, <1>2, <1>3, <2>2 DEF Onward
<1>4. CASE i # 0
  <2>1. IsSpot(s, u, pos, i)
    BY <1>2, <1>4 DEF Finds
  <2>2. i \in Nat \ {0} /\ pos <= i /\ i + k <= n + 1
    BY <1>1, <2>1 DEF IsSpot
  <2>3. i + k \in (pos + 1)..(n + 1)
    BY <1>1, <2>2
  <2>4. PICK e : e = r[i + k] /\ e \in Seq(X)
    BY <1>1, <2>3
  <2>5. PICK a : a = SubSeq(s, pos, i - 1) /\ a \in Seq(X)
    <3>1. i - 1 \in Nat /\ pos <= (i - 1) + 1 /\ i - 1 <= n
      BY <1>1, <2>2
    <3>2. Piece(X, SubSeq(s, pos, i - 1), s, pos, i - 1)
      BY <1>1, <3>1, Part
    <3> QED BY <3>2 DEF Piece
  <2>6. Onward(r, s, u, t, pos) = a \o t \o e
    BY <1>1, <1>2, <1>4, <2>4, <2>5 DEF Onward
  <2>7. a \o t \o e \in Seq(X)
    BY <2>4, <2>5, ConcatProperties
  <2>8. ASSUME NEW g, \A p \in (pos + 1)..(Len(s) + 1) : g[p] = r[p] PROVE Onward(g, s, u, t, pos) = a \o t \o e
    <3>1. g[i + k] = e
      BY <1>1, <2>3, <2>4, <2>8
    <3> QED BY <1>1, <1>2, <1>4, <2>5, <3>1 DEF Onward
  <2> QED BY <2>6, <2>7, <2>8
<1> QED BY <1>3, <1>4

\* So the recursion of replace_all has a solution, found from the end.
RestsFrom(r, s, u, t, X, j) ==
    /\ r \in [1..(Len(s) + 1) -> Seq(X)]
    /\ \A pos \in (Len(s) + 1 - j)..(Len(s) + 1) : pos \in 1..(Len(s) + 1) => r[pos] = Onward(r, s, u, t, pos)

\* One place more from the end, up to the first.
LEMMA RestsExist ==
    ASSUME NEW X, NEW s \in Seq(X), NEW u \in Seq(X), u # <<>>, NEW t \in Seq(X)
    PROVE  \E r : Rests(r, s, u, t)
<1>1. PICK n \in Nat : n = Len(s)
  BY LenProperties
<1> DEFINE T == {j \in 0..(n + 1) : \E r : RestsFrom(r, s, u, t, X, j - 1)}
<1>2. 0 \in T
  <2>1. PICK r : r = [pos \in 1..(n + 1) |-> <<>>]
    OBVIOUS
  <2>2. <<>> \in Seq(X)
    BY EmptySeq
  <2>3. r \in [1..(n + 1) -> Seq(X)]
    BY <2>1, <2>2
  <2>4. (n + 1 - (0 - 1))..(n + 1) = {} /\ 0 \in 0..(n + 1)
    BY <1>1
  <2>5. RestsFrom(r, s, u, t, X, 0 - 1)
    BY <1>1, <2>3, <2>4 DEF RestsFrom
  <2> QED BY <2>4, <2>5
<1>3. ASSUME NEW j \in 1..(n + 1), j - 1 \in T PROVE j \in T
  <2>1. PICK r : RestsFrom(r, s, u, t, X, (j - 1) - 1)
    BY <1>3
  <2>2. PICK q \in 1..(n + 1) : q = n + 1 - (j - 1) /\ (n + 1) - ((j - 1) - 1) = q + 1 /\ (n + 1) - (j - 1) = q
    <3>1. n + 2 - j \in 1..(n + 1) /\ n + 2 - j = n + 1 - (j - 1) /\ (n + 1) - ((j - 1) - 1) = (n + 2 - j) + 1
          /\ (n + 1) - (j - 1) = n + 2 - j
      BY <1>1
    <3> QED BY <3>1
  <2>3. r \in [1..(n + 1) -> Seq(X)]
    BY <1>1, <2>1 DEF RestsFrom
  <2>4. \A p \in (q + 1)..(n + 1) : r[p] \in Seq(X)
    <3>1. \A p \in (q + 1)..(n + 1) : p \in 1..(n + 1)
      BY <2>2
    <3> QED BY <2>3, <3>1
  <2>5. PICK x : x = Onward(r, s, u, t, q) /\ x \in Seq(X)
    BY <1>1, <2>2, <2>4, OnwardSeq
  <2>6. PICK g : g = [p \in 1..(n + 1) |-> IF p = q THEN x ELSE r[p]]
    OBVIOUS
  <2>7. g \in [1..(n + 1) -> Seq(X)] /\ g[q] = x /\ \A p \in (q + 1)..(n + 1) : g[p] = r[p]
    <3>1. \A p \in (q + 1)..(n + 1) : p \in 1..(n + 1) /\ p # q
      BY <2>2
    <3> QED BY <2>3, <2>5, <2>6, <3>1
  <2>8. ASSUME NEW pos \in q..(n + 1) PROVE g[pos] = Onward(g, s, u, t, pos)
    <3>0. pos \in 1..(n + 1) /\ \A p \in (pos + 1)..(n + 1) : p \in (q + 1)..(n + 1)
      BY <2>2
    <3>1. \A p \in (pos + 1)..(n + 1) : g[p] = r[p] /\ r[p] \in Seq(X)
      BY <2>4, <2>7, <3>0
    <3>2. Onward(g, s, u, t, pos) = Onward(r, s, u, t, pos)
      BY <1>1, <3>0, <3>1, OnwardSeq
    <3>3. CASE pos = q
      BY <2>5, <2>7, <3>2, <3>3
    <3>4. CASE pos # q
      <4>1. pos \in (q + 1)..(n + 1)
        BY <2>2, <3>4
      <4>2. r[pos] = Onward(r, s, u, t, pos)
        BY <1>1, <2>1, <2>2, <3>0, <4>1 DEF RestsFrom
      <4> QED BY <2>7, <3>2, <4>1, <4>2
    <3> QED BY <3>3, <3>4
  <2>9. RestsFrom(g, s, u, t, X, j - 1)
    BY <1>1, <2>2, <2>7, <2>8 DEF RestsFrom
  <2>10. j \in 0..(n + 1)
    BY <1>1
  <2> QED BY <2>9, <2>10
<1>4. n + 1 \in T
  <2>1. n + 1 \in Nat
    OBVIOUS
  <2>2. 0..(n + 1) \subseteq T
    <3> HIDE DEF T
    <3> QED BY <1>2, <1>3, <2>1, Induct
  <2>3. n + 1 \in 0..(n + 1)
    BY <2>1
  <2> HIDE DEF T
  <2> QED BY <2>2, <2>3
<1>5. PICK r : RestsFrom(r, s, u, t, X, (n + 1) - 1)
  BY <1>4
<1>6. (n + 1) - ((n + 1) - 1) = 1
  OBVIOUS
<1>7. r \in [1..(n + 1) -> Seq(X)] /\ \A pos \in 1..(n + 1) : r[pos] = Onward(r, s, u, t, pos)
  BY <1>1, <1>5, <1>6 DEF RestsFrom
<1>8. r = [pos \in 1..(n + 1) |-> Onward(r, s, u, t, pos)]
  BY <1>7
<1> QED BY <1>1, <1>8 DEF Rests

\* And replace_all follows it.
LEMMA ReplaceAllIs ==
    ASSUME NEW X, NEW s \in Seq(X), NEW u \in Seq(X), u # <<>>, NEW t \in Seq(X)
    PROVE  \E r : Rests(r, s, u, t) /\ S!replace_all(s, u, t) = r[1]
<1>1. PICK f : f = CHOOSE r : Rests(r, s, u, t)
  OBVIOUS
<1>2. Rests(f, s, u, t)
  BY <1>1, RestsExist
<1>3. S!replace_all(s, u, t) = f[1]
  BY <1>1, Zenon DEF S!replace_all, S!from, Rests, Onward
<1> QED BY <1>2, <1>3

\* What the rest is made into, behind the end and in front of it.
LEMMA RestsAre ==
    ASSUME NEW X, NEW s \in Seq(X), NEW u \in Seq(X), u # <<>>, NEW t \in Seq(X), NEW r, Rests(r, s, u, t)
    PROVE  \A pos \in 1..(Len(s) + 1) : r[pos] \in Seq(X) /\ r[pos] = Onward(r, s, u, t, pos)
<1>1. PICK n \in Nat : n = Len(s)
  BY LenProperties
<1>2. \A pos \in 1..(n + 1) : r[pos] = Onward(r, s, u, t, pos)
  BY <1>1 DEF Rests
<1> DEFINE T == {j \in 0..(n + 1) : \A pos \in (n + 1 - (j - 1))..(n + 1) : r[pos] \in Seq(X)}
<1>3. 0 \in T
  <2>1. (n + 1 - (0 - 1))..(n + 1) = {} /\ 0 \in 0..(n + 1)
    BY <1>1
  <2> QED BY <2>1
<1>4. ASSUME NEW j \in 1..(n + 1), j - 1 \in T PROVE j \in T
  <2>1. PICK q \in 1..(n + 1) : q = n + 1 - (j - 1) /\ (n + 1) - ((j - 1) - 1) = q + 1 /\ (n + 1) - (j - 1) = q
    <3>1. n + 2 - j \in 1..(n + 1) /\ n + 2 - j = n + 1 - (j - 1) /\ (n + 1) - ((j - 1) - 1) = (n + 2 - j) + 1
          /\ (n + 1) - (j - 1) = n + 2 - j
      BY <1>1
    <3> QED BY <3>1
  <2>2. \A p \in (q + 1)..(n + 1) : r[p] \in Seq(X)
    BY <1>4, <2>1
  <2>3. Onward(r, s, u, t, q) \in Seq(X)
    BY <1>1, <2>1, <2>2, OnwardSeq
  <2>4. r[q] \in Seq(X)
    BY <1>2, <2>3
  <2>5. \A p \in q..(n + 1) : p = q \/ p \in (q + 1)..(n + 1)
    BY <2>1
  <2>6. j \in 0..(n + 1)
    BY <1>1
  <2> QED BY <2>1, <2>2, <2>4, <2>5, <2>6
<1>5. 0..(n + 1) \subseteq T
  <2>1. n + 1 \in Nat
    OBVIOUS
  <2> HIDE DEF T
  <2> QED BY <1>3, <1>4, <2>1, Induct
<1>6. n + 1 \in T
  BY <1>5
<1>7. n + 1 - ((n + 1) - 1) = 1
  OBVIOUS
<1>8. \A pos \in 1..(n + 1) : r[pos] \in Seq(X)
  BY <1>6, <1>7
<1> QED BY <1>1, <1>2, <1>8

\* Replacing everything by itself leaves the string.
LEMMA ReplaceAllSame == ASSUME NEW X, NEW b \in Seq(X), NEW u \in Seq(X) PROVE S!replace_all(b, u, u) = b
<1>1. PICK n \in Nat, k \in Nat : n = Len(b) /\ k = Len(u)
  BY LenProperties
<1>2. CASE u = <<>>
  BY <1>2 DEF S!replace_all
<1>3. CASE u # <<>>
  <2>1. PICK r : Rests(r, b, u, u) /\ S!replace_all(b, u, u) = r[1]
    BY <1>3, ReplaceAllIs
  <2>2. \A pos \in 1..(n + 1) : r[pos] = Onward(r, b, u, u, pos)
    BY <1>1, <1>3, <2>1, RestsAre
  <2>3. k # 0
    BY <1>1, <1>3, EmptySeq
  <2> DEFINE T == {j \in 0..(n + 1) : \A pos \in (n + 1 - (j - 1))..(n + 1) : r[pos] = SubSeq(b, pos, n)}
  <2>4. 0 \in T
    <3>1. (n + 1 - (0 - 1))..(n + 1) = {} /\ 0 \in 0..(n + 1)
      BY <1>1
    <3> QED BY <3>1
  <2>5. ASSUME NEW j \in 1..(n + 1), j - 1 \in T PROVE j \in T
    <3>1. PICK q \in 1..(n + 1) : q = n + 1 - (j - 1) /\ (n + 1) - ((j - 1) - 1) = q + 1 /\ (n + 1) - (j - 1) = q
      <4>1. n + 2 - j \in 1..(n + 1) /\ n + 2 - j = n + 1 - (j - 1) /\ (n + 1) - ((j - 1) - 1) = (n + 2 - j) + 1
            /\ (n + 1) - (j - 1) = n + 2 - j
        BY <1>1
      <4> QED BY <4>1
    <3>2. \A p \in (q + 1)..(n + 1) : r[p] = SubSeq(b, p, n)
      BY <2>5, <3>1
    <3>3. PICK i : i = S!find(b, u, q) /\ Finds(b, u, q, i)
      <4>1. Finds(b, u, q, S!find(b, u, q))
        BY <3>1, FindFinds
      <4> QED BY <4>1
    <3>4. r[q] = SubSeq(b, q, n)
      <4>1. CASE i = 0
        BY <1>1, <2>2, <3>1, <3>3, <4>1 DEF Onward
      <4>2. CASE i # 0
        <5>1. IsSpot(b, u, q, i)
          BY <3>3, <4>2 DEF Finds
        <5>2. i \in Nat \ {0} /\ q <= i /\ i + k <= n + 1
          BY <1>1, <5>1 DEF IsSpot
        <5>3. i + k \in (q + 1)..(n + 1)
          BY <1>1, <2>3, <5>2
        <5>4. r[i + k] = SubSeq(b, i + k, n)
          BY <3>2, <5>3
        <5>5. r[q] = SubSeq(b, q, i - 1) \o u \o r[i + k]
          BY <1>1, <2>2, <3>1, <3>3, <4>2 DEF Onward
        <5>6. q \in Nat \ {0}
          BY <3>1
        <5>7. SubSeq(b, q, i - 1) \o u \o SubSeq(b, i + k, n) = SubSeq(b, q, n)
          BY <1>1, <5>1, <5>2, <5>6, SpotParts
        <5> QED BY <5>4, <5>5, <5>7
      <4> QED BY <4>1, <4>2
    <3>5. \A p \in q..(n + 1) : p = q \/ p \in (q + 1)..(n + 1)
      BY <3>1
    <3>6. j \in 0..(n + 1)
      BY <1>1
    <3> QED BY <3>1, <3>2, <3>4, <3>5, <3>6
  <2>6. 0..(n + 1) \subseteq T
    <3>1. n + 1 \in Nat
      OBVIOUS
    <3> HIDE DEF T
    <3> QED BY <2>4, <2>5, <3>1, Induct
  <2>7. n + 1 \in T
    BY <2>6
  <2>8. n + 1 - ((n + 1) - 1) = 1 /\ 1 \in 1..(n + 1)
    OBVIOUS
  <2>9. r[1] = SubSeq(b, 1, n)
    BY <2>7, <2>8
  <2>10. SubSeq(b, 1, n) = b
    BY <1>1, FirstAll DEF First
  <2> QED BY <2>1, <2>9, <2>10
<1> QED BY <1>2, <1>3

\* replaced goes through the string once, and skips what it has replaced.
Skipping(X) == [skip : Nat, out : Seq(X)]
Skips(b, u, t, r, i) ==
    IF r.skip > 0 THEN [r EXCEPT !.skip = @ - 1]
    ELSE IF i + Len(u) - 1 <= Len(b) /\ SubSeq(b, i, least(i + Len(u) - 1, Len(b))) = u
    THEN [skip |-> Len(u) - 1, out |-> r.out \o t]
    ELSE [r EXCEPT !.out = Append(@, b[i])]

SkippedBy(X, b, u, t, i, e, o, x) ==
    /\ x \in Skipping(X)
    /\ e > 0 => x = [skip |-> e - 1, out |-> o]
    /\ e = 0 /\ IsSpot(b, u, i, i) => x = [skip |-> Len(u) - 1, out |-> o \o t]
    /\ e = 0 /\ ~IsSpot(b, u, i, i) => x = [skip |-> 0, out |-> Append(o, b[i])]

\* The four cases of a step.
LEMMA SkipsIs ==
    ASSUME NEW X, NEW b \in Seq(X), NEW u \in Seq(X), u # <<>>, NEW t \in Seq(X), NEW i \in 1..Len(b),
           NEW e \in Nat, NEW o \in Seq(X), NEW r, r = [skip |-> e, out |-> o]
    PROVE  SkippedBy(X, b, u, t, i, e, o, Skips(b, u, t, r, i))
<1>1. PICK n \in Nat, k \in Nat \ {0} : n = Len(b) /\ k = Len(u) /\ i \in 1..n
  <2>1. Len(b) \in Nat /\ Len(u) \in Nat /\ Len(u) # 0
    BY EmptySeq, LenProperties
  <2> QED BY <2>1
<1>2. b[i] \in X /\ Append(o, b[i]) \in Seq(X)
  <2>1. b[i] \in X
    BY ElementOfSeq
  <2> QED BY <2>1, AppendSeq
<1>3. o \o t \in Seq(X)
  BY ConcatProperties
<1>4. CASE e > 0
  <2>1. Skips(b, u, t, r, i) = [skip |-> e - 1, out |-> o]
    BY <1>4 DEF Skips
  <2>2. e - 1 \in Nat /\ ~(e = 0)
    BY <1>4
  <2> QED BY <1>4, <2>1, <2>2 DEF Skipping, SkippedBy
<1>5. IsSpot(b, u, i, i) <=> i + k - 1 <= n /\ SubSeq(b, i, least(i + k - 1, n)) = u
  <2>1. i + k <= n + 1 <=> i + k - 1 <= n
    BY <1>1
  <2>2. i + k - 1 <= n => least(i + k - 1, n) = i + k - 1
    BY <1>1 DEF least
  <2> QED BY <1>1, <2>1, <2>2 DEF IsSpot
<1>6. CASE e = 0 /\ IsSpot(b, u, i, i)
  <2>1. Skips(b, u, t, r, i) = [skip |-> k - 1, out |-> o \o t]
    BY <1>1, <1>5, <1>6 DEF Skips
  <2>0. k - 1 \in Nat
    BY <1>1
  <2>2. PICK w, l : w = o \o t /\ w \in Seq(X) /\ l = k - 1 /\ l \in Nat
    <3> DEFINE ww == o \o t
    <3>1. ww \in Seq(X)
      BY <1>3
    <3> HIDE DEF ww
    <3>2. \E w, l : w = ww /\ w \in Seq(X) /\ l = k - 1 /\ l \in Nat
      BY <2>0, <3>1
    <3> QED BY <3>2 DEF ww
  <2>3. [skip |-> l, out |-> w] \in Skipping(X)
    BY <2>2 DEF Skipping
  <2>4. ~(e > 0)
    BY <1>6
  <2> QED BY <1>1, <1>6, <2>1, <2>2, <2>3, <2>4 DEF SkippedBy
<1>7. CASE e = 0 /\ ~IsSpot(b, u, i, i)
  <2>1. Skips(b, u, t, r, i) = [r EXCEPT !.out = Append(@, b[i])]
    BY <1>1, <1>5, <1>7 DEF Skips
  <2>2. PICK w : w = Append(o, b[i]) /\ w \in Seq(X)
    BY <1>2
  <2>3. r.out = o /\ r = [skip |-> 0, out |-> o]
    BY <1>7
  <2>6. Append(r.out, b[i]) = w
    BY <2>2, <2>3
  <2>4. [r EXCEPT !.out = Append(@, b[i])] = [skip |-> 0, out |-> w]
    <3>1. [r EXCEPT !.out = Append(@, b[i])] = [r EXCEPT !.out = w]
      BY <2>6
    <3>2. [r EXCEPT !.out = w] = [skip |-> 0, out |-> w]
      BY <2>3
    <3> QED BY <3>1, <3>2
  <2>5. [skip |-> 0, out |-> w] \in Skipping(X)
    BY <2>2 DEF Skipping
  <2>7. ~(e > 0)
    BY <1>7
  <2> QED BY <1>7, <2>1, <2>2, <2>4, <2>5, <2>7 DEF SkippedBy
<1>8. e > 0 \/ e = 0
  OBVIOUS
<1> QED BY <1>4, <1>6, <1>7, <1>8 DEF SkippedBy

SkipsThrough(X, b, u, t, n) ==
    \E h \in [0..n -> Skipping(X)] :
        /\ h[0] = [skip |-> 0, out |-> <<>>] /\ \A i \in 1..n : h[i] = Skips(b, u, t, h[i - 1], i)
        /\ replaced(b, u, t) = h[n].out

\* replaced takes these steps.
LEMMA ReplacedSkips ==
    ASSUME NEW X, NEW b \in Seq(X), NEW u \in Seq(X), u # <<>>, NEW t \in Seq(X), NEW n, n = Len(b)
    PROVE  SkipsThrough(X, b, u, t, n)
<1>1. n \in Nat
  BY LenProperties
<1> DEFINE R == Skipping(X)
           G == [q \in R \X (1..n) |-> Skips(b, u, t, q[1], q[2])]
           c == [skip |-> 0, out |-> <<>>]
<1>2. G \in [R \X (1..n) -> R]
  <2>1. ASSUME NEW q \in R \X (1..n) PROVE Skips(b, u, t, q[1], q[2]) \in R
    <3>1. PICK r, i : r = q[1] /\ i = q[2] /\ r \in Skipping(X) /\ i \in 1..Len(b)
      OBVIOUS
    <3>2. PICK e \in Nat, o \in Seq(X) : r = [skip |-> e, out |-> o]
      BY <3>1 DEF Skipping
    <3>3. Skips(b, u, t, r, i) \in Skipping(X)
      <4>1. SkippedBy(X, b, u, t, i, e, o, Skips(b, u, t, r, i))
        BY <3>1, <3>2, SkipsIs
      <4> QED BY <4>1 DEF SkippedBy
    <3> QED BY <3>1, <3>3
  <2> HIDE DEF R
  <2> QED BY <2>1
<1>3. \A r \in R, k \in 1..n : G[<<r, k>>] = Skips(b, u, t, r, k)
  <2> HIDE DEF R
  <2> QED OBVIOUS
<1>4. c \in R
  <2> DEFINE V == Seq(X)
  <2>1. <<>> \in V
    BY EmptySeq
  <2> HIDE DEF V
  <2>2. c \in [skip : Nat, out : V]
    BY <2>1
  <2> QED BY <2>2 DEF V, Skipping
<1> HIDE DEF G, R
<1>5. PICK g \in [SUBSET (1..n) -> R] : IsFold(g, c, n, G)
  <2> HIDE DEF c
  <2> QED BY <1>1, <1>2, <1>4, FoldExists
<1>q. PICK q : q = [i \in 1..n |-> i]
  OBVIOUS
<1>0. DOMAIN q = 1..n /\ \A i \in 1..n : q[i] = i
  BY <1>q
<1>6. g = [v \in SUBSET (1..n) |-> IF v = {} THEN c ELSE Skips(b, u, t, g[v \ {Max(v)}], q[Max(v)])]
  <2> HIDE DEF c
  <2>1. ASSUME NEW v \in SUBSET (1..n), v # {} PROVE g[v] = Skips(b, u, t, g[v \ {Max(v)}], q[Max(v)])
    <3>1. Max(v) \in 1..n
      BY <1>1, <2>1, MaxOf
    <3>2. v \ {Max(v)} \in SUBSET (1..n)
      OBVIOUS
    <3>3. g[v] = G[<<g[v \ {Max(v)}], Max(v)>>]
      BY <1>5, <2>1 DEF IsFold
    <3>4. q[Max(v)] = Max(v)
      BY <1>0, <3>1
    <3> QED BY <1>3, <1>5, <3>1, <3>2, <3>3, <3>4
  <2>2. g[{}] = c
    BY <1>5 DEF IsFold
  <2> QED BY <1>5, <2>1, <2>2
<1>7. PICK f : /\ f = CHOOSE x : x = [v \in SUBSET (1..n) |->
                            IF v = {} THEN c ELSE Skips(b, u, t, x[v \ {Max(v)}], q[Max(v)])]
               /\ FoldLeft(LAMBDA r, i : Skips(b, u, t, r, i), c, q) = f[1..n]
  <2> HIDE DEF c
  <2>1. PICK f : f = CHOOSE x : x = [v \in SUBSET (1..n) |->
                            IF v = {} THEN c ELSE Skips(b, u, t, x[v \ {Max(v)}], q[Max(v)])]
    OBVIOUS
  <2>2. FoldLeft(LAMBDA r, i : Skips(b, u, t, r, i), c, q) = f[1..n]
    BY <1>0, <2>1 DEF FoldLeft, MapThenFoldSet
  <2> QED BY <2>1, <2>2
<1>15. replaced(b, u, t) = f[1..n].out
  <2>1. q = [i \in 1..Len(b) |-> i]
    BY <1>q
  <2>2. replaced(b, u, t) = FoldLeft(LAMBDA r, i : Skips(b, u, t, r, i), c, q).out
    BY <2>1 DEF replaced, Skips
  <2> QED BY <1>7, <2>2
<1> HIDE DEF c
<1>8. f = [v \in SUBSET (1..n) |-> IF v = {} THEN c ELSE Skips(b, u, t, f[v \ {Max(v)}], q[Max(v)])]
  BY <1>6, <1>7
<1>9. f[{}] = c
  BY <1>8
<1>10. ASSUME NEW v \in SUBSET (1..n), v # {} /\ f[v \ {Max(v)}] \in R
       PROVE  f[v] = G[<<f[v \ {Max(v)}], Max(v)>>]
  <2>1. Max(v) \in 1..n /\ q[Max(v)] = Max(v)
    BY <1>0, <1>1, <1>10, MaxOf
  <2>2. f[v] = Skips(b, u, t, f[v \ {Max(v)}], q[Max(v)])
    BY <1>8, <1>10
  <2> QED BY <1>3, <1>10, <2>1, <2>2
<1>11. PICK h \in [0..n -> R] : Steps(h, c, n, G) /\ h[n] = f[1..n]
  <2>1. Keeps(f, R, n, G)
    BY <1>10 DEF Keeps
  <2>2. Reaches(f, R, c, n, G)
    BY <1>1, <1>2, <1>4, <1>9, <2>1, FoldPrefix
  <2> QED BY <2>2 DEF Reaches
<1>12. ASSUME NEW k \in 1..n PROVE h[k] = Skips(b, u, t, h[k - 1], k)
  <2>1. k - 1 \in 0..n
    BY <1>1
  <2>2. h[k - 1] \in R /\ h[k] = G[<<h[k - 1], k>>]
    BY <1>11, <2>1 DEF Steps
  <2> QED BY <1>3, <2>2
<1>13. h[0] = c
  BY <1>11 DEF Steps
<1>14. replaced(b, u, t) = h[n].out /\ h \in [0..n -> R]
  BY <1>11, <1>15
<1> QED BY <1>12, <1>13, <1>14 DEF c, R, SkipsThrough

\* Where u stands, the rest begins with t and goes on behind u.
LEMMA SpotRests ==
    ASSUME NEW X, NEW s \in Seq(X), NEW u \in Seq(X), u # <<>>, NEW t \in Seq(X), NEW r, Rests(r, s, u, t),
           NEW p \in Nat \ {0}, IsSpot(s, u, p, p)
    PROVE  /\ p + Len(u) \in 1..(Len(s) + 1) /\ r[p] = t \o r[p + Len(u)]
<1>1. PICK n \in Nat, k \in Nat : n = Len(s) /\ k = Len(u)
  BY LenProperties
<1>2. p + k <= n + 1 /\ p + k \in 1..(n + 1) /\ p \in 1..(n + 1)
  BY <1>1 DEF IsSpot
<1>3. r[p + k] \in Seq(X) /\ r[p] = Onward(r, s, u, t, p)
  BY <1>1, <1>2, RestsAre
<1>4. PICK i : i = S!find(s, u, p) /\ Finds(s, u, p, i)
  <2>1. Finds(s, u, p, S!find(s, u, p))
    BY FindFinds
  <2> QED BY <2>1
<1>5. i = p
  <2>1. i \in Nat \ {0} /\ p <= i /\ i <= p
    BY <1>4 DEF Finds, IsSpot
  <2> QED BY <2>1
<1>6. SubSeq(s, p, p - 1) = <<>>
  <2>1. p - 1 \in Nat /\ p <= (p - 1) + 1 /\ p - 1 <= n /\ (p - 1) - p + 1 = 0
    BY <1>2
  <2>2. Piece(X, SubSeq(s, p, p - 1), s, p, p - 1)
    BY <1>1, <2>1, Part
  <2> QED BY <2>1, <2>2, EmptySeq DEF Piece
<1>7. PICK e : e = r[p + k] /\ e \in Seq(X)
  BY <1>3
<1>8. r[p] = <<>> \o t \o e
  BY <1>1, <1>2, <1>3, <1>4, <1>5, <1>6, <1>7 DEF Onward
<1>9. <<>> \o t = t
  BY ConcatEmptySeq
<1> QED BY <1>1, <1>2, <1>7, <1>8, <1>9

\* Where it does not, the character stays.
LEMMA OtherRests ==
    ASSUME NEW X, NEW s \in Seq(X), NEW u \in Seq(X), u # <<>>, NEW t \in Seq(X), NEW r, Rests(r, s, u, t),
           NEW p \in 1..Len(s), ~IsSpot(s, u, p, p)
    PROVE  r[p] = <<s[p]>> \o r[p + 1]
<1>1. PICK n \in Nat, k \in Nat : n = Len(s) /\ k = Len(u) /\ p \in 1..n /\ p + 1 \in 1..(n + 1) /\ p \in 1..(n + 1)
  <2>1. Len(s) \in Nat /\ Len(u) \in Nat
    BY LenProperties
  <2> QED BY <2>1
<1>2. r[p] = Onward(r, s, u, t, p) /\ r[p + 1] = Onward(r, s, u, t, p + 1)
  BY <1>1, RestsAre
<1>3. \A j \in Nat : IsSpot(s, u, p, j) <=> IsSpot(s, u, p + 1, j)
  <2> SUFFICES ASSUME NEW j \in Nat PROVE IsSpot(s, u, p, j) <=> IsSpot(s, u, p + 1, j)
    OBVIOUS
  <2>1. CASE j = p
    <3>1. ~(p + 1 <= p)
      BY <1>1
    <3> QED BY <2>1, <3>1 DEF IsSpot
  <2>2. CASE j # p
    <3>1. p <= j <=> p + 1 <= j
      BY <1>1, <2>2
    <3> QED BY <3>1 DEF IsSpot
  <2> QED BY <2>1, <2>2
<1>4. PICK i : i = S!find(s, u, p + 1) /\ Finds(s, u, p + 1, i)
  <2>1. Finds(s, u, p + 1, S!find(s, u, p + 1))
    BY <1>1, FindFinds
  <2> QED BY <2>1
<1>5. PICK m : m = S!find(s, u, p) /\ Finds(s, u, p, m)
  <2>1. Finds(s, u, p, S!find(s, u, p))
    BY <1>1, FindFinds
  <2> QED BY <2>1
<1>6. i \in Nat /\ m \in Nat /\ i = m
  <2>1. i \in Nat /\ m \in Nat
    BY <1>4, <1>5 DEF Finds, IsSpot
  <2>2. CASE i = 0
    <3>1. \A j \in Nat : ~IsSpot(s, u, p, j)
      <4>1. ~IsSpot(s, u, p + 1, 0)
        BY DEF IsSpot
      <4> QED BY <1>3, <1>4, <2>2, <4>1 DEF Finds
    <3> QED BY <1>5, <2>1, <2>2, <3>1 DEF Finds
  <2>3. CASE i # 0
    <3>1. IsSpot(s, u, p, i) /\ \A j \in Nat : IsSpot(s, u, p, j) => i <= j
      BY <1>3, <1>4, <2>1, <2>3 DEF Finds
    <3>2. IsSpot(s, u, p, m) /\ m <= i
      BY <1>5, <2>1, <3>1 DEF Finds
    <3> QED BY <2>1, <3>1, <3>2
  <2> QED BY <2>1, <2>2, <2>3
<1>7. SubSeq(s, p, p) = <<s[p]>> /\ <<s[p]>> \in Seq(X)
  <2>1. p \in Nat \ {0} /\ p <= p + 1 /\ p <= n /\ p - p + 1 = 1 /\ 1 \in 1..1 /\ p + 1 - 1 = p /\ 1..1 = {1}
    BY <1>1
  <2>2. Piece(X, SubSeq(s, p, p), s, p, p)
    BY <1>1, <2>1, Part
  <2>3. PICK x : x = SubSeq(s, p, p) /\ x \in Seq(X) /\ Len(x) = 1 /\ x[1] = s[p]
    BY <2>1, <2>2 DEF Piece
  <2>4. s[p] \in X
    BY <1>1, ElementOfSeq
  <2>5. PICK y : y = <<s[p]>> /\ y \in Seq(X) /\ Len(y) = 1 /\ y[1] = s[p]
    BY <2>4, JustOne
  <2>6. x = y
    BY <2>1, <2>3, <2>5, SeqEqual
  <2> QED BY <2>3, <2>5, <2>6
<1>8. \A l \in Nat : p <= l /\ l <= n => SubSeq(s, p, l) = <<s[p]>> \o SubSeq(s, p + 1, l) /\ SubSeq(s, p + 1, l) \in Seq(X)
  <2> SUFFICES ASSUME NEW l \in Nat, p <= l, l <= n
               PROVE  SubSeq(s, p, l) = <<s[p]>> \o SubSeq(s, p + 1, l) /\ SubSeq(s, p + 1, l) \in Seq(X)
    OBVIOUS
  <2>1. p \in Nat \ {0} /\ p \in Nat /\ p <= p + 1 /\ p + 1 \in Nat \ {0} /\ p + 1 <= l + 1
    BY <1>1
  <2>2. Parted(s, p, p, l)
    BY <1>1, <2>1, PartsJoin
  <2>3. Piece(X, SubSeq(s, p + 1, l), s, p + 1, l)
    BY <1>1, <2>1, Part
  <2> QED BY <1>7, <2>2, <2>3 DEF Parted, Piece
<1>9. CASE i = 0
  <2>1. r[p] = SubSeq(s, p, n) /\ r[p + 1] = SubSeq(s, p + 1, n)
    BY <1>1, <1>2, <1>4, <1>5, <1>6, <1>9 DEF Onward
  <2>2. p <= n
    BY <1>1
  <2> QED BY <1>1, <1>8, <2>1, <2>2
<1>10. CASE i # 0
  <2>1. IsSpot(s, u, p + 1, i)
    BY <1>4, <1>10 DEF Finds
  <2>2. p + 1 <= i /\ i + k <= n + 1 /\ i - 1 \in Nat /\ p <= i - 1 /\ i - 1 <= n /\ i + k \in 1..(n + 1)
    <3>1. p + 1 <= i /\ i + k <= n + 1
      BY <1>1, <2>1 DEF IsSpot
    <3> QED BY <1>1, <1>6, <3>1
  <2>3. PICK e : e = r[i + k] /\ e \in Seq(X)
    BY <1>1, <2>2, RestsAre
  <2>4. PICK a, c : a = <<s[p]>> /\ c = SubSeq(s, p + 1, i - 1) /\ SubSeq(s, p, i - 1) = a \o c /\ a \in Seq(X) /\ c \in Seq(X)
    BY <1>7, <1>8, <2>2
  <2>5. r[p] = (a \o c) \o t \o e /\ r[p + 1] = c \o t \o e
    BY <1>1, <1>2, <1>4, <1>5, <1>6, <1>10, <2>3, <2>4 DEF Onward
  <2>6. c \o t \in Seq(X)
    BY <2>4, ConcatProperties
  <2>7. Associates(a, c, t) /\ Associates(a, c \o t, e)
    <3>1. Associates(a, c, t)
      BY <2>4, ThreeGlued
    <3> DEFINE ct == c \o t
    <3>2. ct \in Seq(X)
      BY <2>6
    <3> HIDE DEF ct
    <3>3. Associates(a, ct, e)
      BY <2>3, <2>4, <3>2, ThreeGlued
    <3> QED BY <3>1, <3>3 DEF ct
  <2> QED BY <2>4, <2>5, <2>7, Zenon DEF Associates
<1> QED BY <1>9, <1>10

\* What is done and what is left make the whole, while the characters of u are skipped.
Halfway(h, r, X, n, i) ==
    \E e \in Nat, o \in Seq(X) :
        /\ h[i] = [skip |-> e, out |-> o] /\ i + e <= n /\ o \o r[(i + e) + 1] = r[1]

\* A step of replaced keeps the whole.
LEMMA HalfwayNext ==
    ASSUME NEW X, NEW b \in Seq(X), NEW u \in Seq(X), u # <<>>, NEW t \in Seq(X), NEW n, n = Len(b),
           NEW r, Rests(r, b, u, t), NEW h, NEW i \in 1..n, h[i] = Skips(b, u, t, h[i - 1], i),
           Halfway(h, r, X, n, i - 1)
    PROVE  Halfway(h, r, X, n, i)
<1>1. PICK k \in Nat \ {0} : k = Len(u) /\ n \in Nat /\ i \in 1..Len(b) /\ i \in Nat \ {0}
  <2>1. Len(b) \in Nat /\ Len(u) \in Nat /\ Len(u) # 0
    BY EmptySeq, LenProperties
  <2> QED BY <2>1
<1>2. PICK e \in Nat, o \in Seq(X) : h[i - 1] = [skip |-> e, out |-> o] /\ (i - 1) + e <= n /\ o \o r[((i - 1) + e) + 1] = r[1]
  BY DEF Halfway
<1>3. PICK g : g = h[i - 1] /\ g = [skip |-> e, out |-> o] /\ h[i] = Skips(b, u, t, g, i)
  BY <1>2
<1>6. SkippedBy(X, b, u, t, i, e, o, Skips(b, u, t, g, i))
  BY <1>1, <1>3, SkipsIs
<1>4. CASE e > 0
  <2>1. h[i] = [skip |-> e - 1, out |-> o]
    BY <1>3, <1>4, <1>6 DEF SkippedBy
  <2>2. e - 1 \in Nat /\ i + (e - 1) = (i - 1) + e
    BY <1>1, <1>4
  <2>3. PICK d \in Nat : d = e - 1 /\ i + d = (i - 1) + e
    BY <2>2
  <2> QED BY <1>2, <2>1, <2>3 DEF Halfway
<1>5. CASE e = 0
  <2>1. o \o r[i] = r[1] /\ i <= n
    <3>1. ((i - 1) + e) + 1 = i
      BY <1>1, <1>5
    <3> QED BY <1>1, <1>2, <3>1
  <2>2. CASE IsSpot(b, u, i, i)
    <3>1. h[i] = [skip |-> k - 1, out |-> o \o t]
      BY <1>1, <1>3, <1>5, <1>6, <2>2 DEF SkippedBy
    <3>2. i + k \in 1..(n + 1) /\ r[i] = t \o r[i + k]
      BY <1>1, <2>2, SpotRests
    <3>3. PICK d \in Nat : d = k - 1 /\ (i + d) + 1 = i + k /\ i + d <= n
      <4>1. k - 1 \in Nat /\ (i + (k - 1)) + 1 = i + k /\ i + (k - 1) <= n
        BY <1>1, <3>2
      <4> QED BY <4>1
    <3>4. PICK z : z = r[i + k] /\ z \in Seq(X)
      BY <3>2, RestsAre
    <3>5. o \o (t \o z) = (o \o t) \o z
      <4>1. Associates(o, t, z)
        BY <3>4, ThreeGlued
      <4> QED BY <4>1 DEF Associates
    <3> DEFINE w == o \o t
    <3>6. w \in Seq(X) /\ w \o r[(i + d) + 1] = r[1] /\ h[i] = [skip |-> d, out |-> w]
      <4>1. w \in Seq(X)
        BY ConcatProperties
      <4>2. w \o r[(i + d) + 1] = r[1]
        BY <2>1, <3>2, <3>3, <3>4, <3>5, Zenon
      <4> QED BY <3>1, <3>3, <4>1, <4>2
    <3> HIDE DEF w
    <3> QED BY <3>3, <3>6 DEF Halfway
  <2>3. CASE ~IsSpot(b, u, i, i)
    <3>1. h[i] = [skip |-> 0, out |-> Append(o, b[i])]
      BY <1>3, <1>5, <1>6, <2>3 DEF SkippedBy
    <3>2. r[i] = <<b[i]>> \o r[i + 1] /\ i + 1 \in 1..(n + 1)
      BY <1>1, <2>3, OtherRests
    <3>3. b[i] \in X
      BY <1>1, ElementOfSeq
    <3>4. PICK z : z = r[i + 1] /\ z \in Seq(X)
      BY <3>2, RestsAre
    <3> DEFINE w == Append(o, b[i])
               x == <<b[i]>>
    <3>5. w \in Seq(X) /\ w = o \o x /\ x \in Seq(X)
      BY <3>3, AppendSeq, AppendIsConcat, OnePlace
    <3>6. o \o (x \o z) = w \o z
      <4> HIDE DEF w, x
      <4>1. Associates(o, x, z)
        BY <3>4, <3>5, ThreeGlued
      <4> QED BY <3>5, <4>1 DEF Associates
    <3>7. r[1] = o \o (x \o z)
      BY <2>1, <3>2, <3>4
    <3>8. 0 \in Nat /\ (i + 0) + 1 = i + 1 /\ i + 0 <= n /\ h[i] = [skip |-> 0, out |-> w]
      BY <1>1, <3>1
    <3>9. w \o r[(i + 0) + 1] = r[1]
      BY <3>4, <3>6, <3>7, <3>8, Zenon
    <3> HIDE DEF w
    <3> QED BY <3>5, <3>8, <3>9 DEF Halfway
  <2> QED BY <2>2, <2>3
<1> QED BY <1>2, <1>4, <1>5

\* replace_all replaces each occurrence once, from the left.
LEMMA ReplacedAll ==
    ASSUME NEW X, NEW b \in Seq(X), NEW u \in Seq(X), u # <<>>, NEW t \in Seq(X)
    PROVE  S!replace_all(b, u, t) = replaced(b, u, t)
<1>1. PICK n \in Nat : n = Len(b)
  BY LenProperties
<1>2. PICK r : Rests(r, b, u, t) /\ S!replace_all(b, u, t) = r[1]
  BY ReplaceAllIs
<1>3. PICK h \in [0..n -> Skipping(X)] :
        /\ h[0] = [skip |-> 0, out |-> <<>>] /\ \A i \in 1..n : h[i] = Skips(b, u, t, h[i - 1], i)
        /\ replaced(b, u, t) = h[n].out
  <2>1. SkipsThrough(X, b, u, t, n)
    BY <1>1, ReplacedSkips
  <2> QED BY <2>1 DEF SkipsThrough
<1>4. \A p \in 1..(n + 1) : r[p] \in Seq(X) /\ r[p] = Onward(r, b, u, t, p)
  BY <1>1, <1>2, RestsAre
<1> DEFINE T == {i \in 0..n : Halfway(h, r, X, n, i)}
<1>5. 0 \in T
  <2>1. 1 \in 1..(n + 1) /\ 0 \in Nat /\ 0 + 0 <= n /\ (0 + 0) + 1 = 1 /\ 0 \in 0..n
    BY <1>1
  <2>2. <<>> \o r[1] = r[1] /\ <<>> \in Seq(X)
    <3>1. PICK z : z = r[1] /\ z \in Seq(X)
      BY <1>4, <2>1
    <3> QED BY <3>1, ConcatEmptySeq, EmptySeq
  <2>3. \E o : o = <<>> /\ o \in Seq(X)
    BY <2>2
  <2>4. PICK o : o = <<>> /\ o \in Seq(X)
    BY <2>3
  <2>5. h[0] = [skip |-> 0, out |-> o] /\ o \o r[(0 + 0) + 1] = r[1]
    BY <1>3, <2>1, <2>2, <2>4
  <2> QED BY <2>1, <2>4, <2>5 DEF Halfway
<1>6. ASSUME NEW i \in 1..n, i - 1 \in T PROVE i \in T
  <2>1. Halfway(h, r, X, n, i - 1) /\ h[i] = Skips(b, u, t, h[i - 1], i) /\ i \in 0..n
    BY <1>3, <1>6
  <2>2. Halfway(h, r, X, n, i)
    BY <1>1, <1>2, <2>1, HalfwayNext
  <2> QED BY <2>1, <2>2
<1>7. n \in T
  <2> HIDE DEF T
  <2>1. 0..n \subseteq T
    BY <1>5, <1>6, Induct
  <2> QED BY <2>1
<1>8. PICK e \in Nat, o \in Seq(X) : h[n] = [skip |-> e, out |-> o] /\ n + e <= n /\ o \o r[(n + e) + 1] = r[1]
  BY <1>7 DEF Halfway
<1>9. (n + e) + 1 = n + 1 /\ n + 1 \in 1..(n + 1)
  BY <1>8
<1>10. r[n + 1] = <<>>
  <2>1. PICK i : i = S!find(b, u, n + 1) /\ Finds(b, u, n + 1, i)
    <3>1. Finds(b, u, n + 1, S!find(b, u, n + 1))
      BY <1>9, FindFinds
    <3> QED BY <3>1
  <2>2. i = 0
    <3>1. Len(u) \in Nat /\ Len(u) # 0
      BY EmptySeq, LenProperties
    <3>2. i # 0 => i \in Nat /\ n + 1 <= i /\ i + Len(u) <= n + 1
      BY <1>1, <2>1 DEF Finds, IsSpot
    <3> QED BY <3>1, <3>2
  <2>3. r[n + 1] = SubSeq(b, n + 1, n)
    BY <1>1, <1>4, <1>9, <2>1, <2>2 DEF Onward
  <2>4. n + 1 \in Nat \ {0} /\ n + 1 <= n + 1 /\ n <= n /\ n - (n + 1) + 1 = 0
    OBVIOUS
  <2>5. Piece(X, SubSeq(b, n + 1, n), b, n + 1, n)
    BY <1>1, <2>4, Part
  <2> QED BY <2>3, <2>4, <2>5, EmptySeq DEF Piece
<1>11. o \o <<>> = o
  BY ConcatNothing
<1>12. h[n].out = o
  BY <1>8
<1> QED BY <1>2, <1>3, <1>8, <1>9, <1>10, <1>11, <1>12

\* The edits of a string: Edits.
LEMMA EditsAre == ASSUME NEW L, NEW b \in Seq(L) PROVE Edits(b)
<1> DEFINE K == L \cup {"a", "b"}
<1>1. b \in Seq(K)
  BY SeqMore
<1>2. \A t \in {<<>>, <<"a">>, <<"b", "a">>} : t \in Seq(K)
  <2>1. "a" \in K /\ "b" \in K
    OBVIOUS
  <2> HIDE DEF K
  <2>2. <<"a">> \in Seq(K) /\ <<"b", "a">> \in Seq(K) /\ <<>> \in Seq(K)
    BY <2>1
  <2> QED BY <2>2
<1>3. ASSUME NEW m \in 0..Len(b), NEW t \in Seq(K), NEW u, u = piece(b, m)
      PROVE  /\ S!erase(S!insert(b, m, t), m, Len(t)) = b
             /\ u # <<>> => S!replace_all(b, u, t) = replaced(b, u, t)
             /\ S!replace_all(b, u, u) = b /\ S!replace(b, u, u) = b
             /\ S!append(S!substr(b, 0, m), S!substr(b, m, Len(b))) = b
             /\ u # <<>> => LET f == S!find(b, u, 1) - 1 IN
                   S!replace(b, u, t) = S!plus(S!substr(b, 0, f), S!plus(t, S!substr(b, f + Len(u), Len(b))))
  <2> HIDE DEF K
  <2>1. u \in Seq(K)
    BY <1>1, <1>3, PieceSeq
  <2>2. S!erase(S!insert(b, m, t), m, Len(t)) = b
    BY <1>1, InsertErases
  <2>3. u # <<>> => S!replace_all(b, u, t) = replaced(b, u, t)
    BY <1>1, <2>1, ReplacedAll
  <2>4. S!replace_all(b, u, u) = b /\ S!replace(b, u, u) = b
    BY <1>1, <2>1, ReplaceAllSame, ReplaceSame
  <2>5. S!append(S!substr(b, 0, m), S!substr(b, m, Len(b))) = b
    BY <1>1, PartsAppend
  <2>6. u # <<>> => LET f == S!find(b, u, 1) - 1 IN
                   S!replace(b, u, t) = S!plus(S!substr(b, 0, f), S!plus(t, S!substr(b, f + Len(u), Len(b))))
    BY <1>1, <1>3, ReplaceOther
  <2> QED BY <2>2, <2>3, <2>4, <2>5, <2>6
<1> HIDE DEF K
<1> QED BY <1>2, <1>3 DEF Edits

-----------------------------------------------------------------------------
(***************************************************************************)
(* Digits: a number is written as its definition says.                      *)
(***************************************************************************)
\* The characters that are written.
Glyph == {Lower[i] : i \in 1..16} \cup {Upper[i] : i \in 1..16} \cup {"-", "+", " ", ".", "x", "X"}

\* The bases that are written, and their digits.
Radixes == {2, 8, 10, 16}
DigitRows == {Lower, Upper}

LEMMA RowGlyphs == ASSUME NEW D \in DigitRows, NEW i \in 1..16 PROVE D[i] \in Glyph
BY DEF DigitRows, Glyph

\* What is left of k before its last digit, and that digit's place in the row.
Rest(k, base) == k \div base
Place(k, base) == (k % base) + 1

LEMMA LeavesLess ==
    ASSUME NEW base \in Radixes, NEW k \in Nat
    PROVE  /\ Rest(k, base) \in Nat /\ (k >= base => Rest(k, base) < k)
           /\ Place(k, base) \in 1..16 /\ (k < base => k + 1 \in 1..16)
<1>1. CASE base = 2
  BY <1>1 DEF Rest, Place
<1>2. CASE base = 8
  BY <1>2 DEF Rest, Place
<1>3. CASE base = 10
  BY <1>3 DEF Rest, Place
<1>4. CASE base = 16
  BY <1>4 DEF Rest, Place
<1> QED BY <1>1, <1>2, <1>3, <1>4 DEF Radixes

\* How a number is written, if d is how the smaller ones are.
Figure(d, base, D, k) ==
    IF k < base THEN <<D[k + 1]>> ELSE Append(d[Rest(k, base)], D[Place(k, base)])
Figures(d, base, D, n) == d = [k \in 0..n |-> Figure(d, base, D, k)]

LEMMA FigureSeq ==
    ASSUME NEW base \in Radixes, NEW D \in DigitRows, NEW n \in Nat, NEW d \in [0..n -> Seq(Glyph)], NEW k \in 0..n
    PROVE  /\ Figure(d, base, D, k) \in Seq(Glyph)
           /\ \A e : (\A j \in 0..n : j < k => e[j] = d[j]) => Figure(e, base, D, k) = Figure(d, base, D, k)
<1>1. CASE k < base
  <2>1. D[k + 1] \in Glyph
    <3>1. k \in Nat
      OBVIOUS
    <3>2. k + 1 \in 1..16
      BY <1>1, <3>1, LeavesLess
    <3> QED BY <3>2, RowGlyphs
  <2>2. \A e : Figure(e, base, D, k) = <<D[k + 1]>>
    BY <1>1 DEF Figure
  <2>3. \A g \in Glyph : <<g>> \in Seq(Glyph)
    OBVIOUS
  <2> QED BY <2>1, <2>2, <2>3
<1>2. CASE ~(k < base)
  <2>1. PICK q, m : q = Rest(k, base) /\ m = Place(k, base) /\ q \in 0..n /\ q < k /\ m \in 1..16
    <3>1. k \in Nat /\ k >= base
      BY <1>2 DEF Radixes
    <3>2. Rest(k, base) \in Nat /\ Rest(k, base) < k /\ Place(k, base) \in 1..16
      BY <3>1, LeavesLess
    <3>3. Rest(k, base) \in 0..n
      BY <3>2
    <3> QED BY <3>2, <3>3
  <2>2. D[m] \in Glyph
    BY <2>1, RowGlyphs
  <2>3. \A e : Figure(e, base, D, k) = Append(e[q], D[m])
    BY <1>2, <2>1 DEF Figure
  <2>4. d[q] \in Seq(Glyph)
    BY <2>1
  <2>5. Append(d[q], D[m]) \in Seq(Glyph)
    BY <2>2, <2>4, AppendProperties
  <2> QED BY <2>1, <2>3, <2>5
<1> QED BY <1>1, <1>2

\* Found from 0 on.
FiguresUpto(d, base, D, n, j) ==
    /\ d \in [0..n -> Seq(Glyph)]
    /\ \A k \in 0..n : k < j => d[k] = Figure(d, base, D, k)

LEMMA FiguresExist ==
    ASSUME NEW base \in Radixes, NEW D \in DigitRows, NEW n \in Nat
    PROVE  \E d : Figures(d, base, D, n) /\ d \in [0..n -> Seq(Glyph)]
<1> DEFINE T == {j \in 0..(n + 1) : \E d : FiguresUpto(d, base, D, n, j)}
           R == Seq(Glyph)
<1>1. 0 \in T
  <2>1. <<>> \in R
    BY EmptySeq
  <2> HIDE DEF R
  <2>2. [k \in 0..n |-> <<>>] \in [0..n -> R]
    BY <2>1
  <2>3. FiguresUpto([k \in 0..n |-> <<>>], base, D, n, 0)
    BY <2>2 DEF R, FiguresUpto
  <2>4. 0 \in 0..(n + 1)
    OBVIOUS
  <2> QED BY <2>3, <2>4
<1>2. ASSUME NEW j \in 1..(n + 1), j - 1 \in T PROVE j \in T
  <2>1. PICK d : FiguresUpto(d, base, D, n, j - 1)
    BY <1>2
  <2>2. PICK q \in 0..n : q = j - 1 /\ j \in 0..(n + 1) /\ \A k \in 0..n : k < j => k = q \/ k < q
    <3>1. j - 1 \in 0..n /\ \A k \in 0..n : k < j => k = j - 1 \/ k < j - 1
      OBVIOUS
    <3> QED BY <3>1
  <2>3. d \in [0..n -> R] /\ \A k \in 0..n : k < q => d[k] = Figure(d, base, D, k)
    BY <2>1, <2>2 DEF FiguresUpto
  <2>4. PICK x : x = Figure(d, base, D, q) /\ x \in R
    BY <2>3, FigureSeq
  <2>5. PICK e : e = [k \in 0..n |-> IF k = q THEN x ELSE d[k]]
    OBVIOUS
  <2>6. e \in [0..n -> R] /\ e[q] = x /\ \A k \in 0..n : k < q => e[k] = d[k]
    <3> HIDE DEF R
    <3> QED BY <2>3, <2>4, <2>5
  <2>7. ASSUME NEW k \in 0..n, k < j PROVE e[k] = Figure(e, base, D, k)
    <3>1. k = q \/ k < q
      BY <2>2, <2>7
    <3>2. \A i \in 0..n : i < k => i < q
      BY <3>1
    <3>3. Figure(e, base, D, k) = Figure(d, base, D, k)
      BY <2>3, <2>6, <3>2, FigureSeq
    <3> QED BY <2>3, <2>4, <2>6, <3>1, <3>3
  <2>8. FiguresUpto(e, base, D, n, j)
    BY <2>6, <2>7 DEF FiguresUpto
  <2> QED BY <2>2, <2>8
<1>3. n + 1 \in T
  <2>1. n + 1 \in Nat /\ n + 1 \in 0..(n + 1)
    OBVIOUS
  <2> HIDE DEF T
  <2>2. 0..(n + 1) \subseteq T
    BY <1>1, <1>2, <2>1, Induct
  <2> QED BY <2>1, <2>2
<1>4. PICK d : FiguresUpto(d, base, D, n, n + 1)
  BY <1>3
<1>5. \A k \in 0..n : k < n + 1
  OBVIOUS
<1>6. d \in [0..n -> R] /\ \A k \in 0..n : d[k] = Figure(d, base, D, k)
  BY <1>4, <1>5 DEF FiguresUpto
<1>7. d = [k \in 0..n |-> Figure(d, base, D, k)]
  <2> HIDE DEF R
  <2> QED BY <1>6
<1> QED BY <1>6, <1>7 DEF Figures

\* Only one way.
LEMMA FiguresSame ==
    ASSUME NEW base \in Radixes, NEW D \in DigitRows, NEW n \in Nat, NEW m \in 0..n,
           NEW d, Figures(d, base, D, n), NEW e, Figures(e, base, D, m)
    PROVE  \A k \in 0..m : d[k] = e[k]
<1> DEFINE T == {k \in 0..m : d[k] # e[k]}
<1> SUFFICES ASSUME T # {} PROVE FALSE
  OBVIOUS
<1>1. PICK k \in T : \A y \in T : k <= y
  <2>1. T \subseteq Nat
    OBVIOUS
  <2> QED BY <2>1, NatLeast
<1>2. k \in 0..m /\ k \in 0..n /\ k \in Nat
  OBVIOUS
<1>3. d[k] = Figure(d, base, D, k)
  BY <1>2, Zenon DEF Figures
<1>4. e[k] = Figure(e, base, D, k)
  BY <1>2, Zenon DEF Figures
<1>5. CASE k < base
  BY <1>3, <1>4, <1>5 DEF Figure
<1>6. CASE ~(k < base)
  <2>1. PICK q \in 0..m : q = Rest(k, base) /\ q < k
    <3>1. k >= base
      BY <1>2, <1>6 DEF Radixes
    <3>2. Rest(k, base) \in Nat /\ Rest(k, base) < k
      BY <1>2, <3>1, LeavesLess
    <3> QED BY <1>2, <3>2
  <2>2. q \notin T
    BY <1>1, <1>2, <2>1
  <2>3. d[q] = e[q]
    BY <2>2
  <2> QED BY <1>3, <1>4, <1>6, <2>1, <2>3 DEF Figure
<1> QED BY <1>5, <1>6

\* So to_digits follows its definition.
LEMMA Digitized ==
    ASSUME NEW base \in Radixes, NEW D \in DigitRows, NEW n \in Nat
    PROVE  \E d \in [0..n -> Seq(Glyph)] : Figures(d, base, D, n) /\ to_digits(n, base, D) = d[n]
<1>1. PICK f : f = CHOOSE d : Figures(d, base, D, n)
  OBVIOUS
<1>2. PICK d : Figures(d, base, D, n) /\ d \in [0..n -> Seq(Glyph)]
  BY FiguresExist
<1>3. Figures(f, base, D, n)
  BY <1>1, <1>2
<1>4. to_digits(n, base, D) = f[n]
  BY <1>1, Zenon DEF to_digits, Figures, Figure, Rest, Place
<1>5. f[n] = d[n]
  <2>1. n \in 0..n
    OBVIOUS
  <2> QED BY <1>2, <1>3, <2>1, FiguresSame
<1> QED BY <1>2, <1>4, <1>5

LEMMA DigitsStep ==
    ASSUME NEW base \in Radixes, NEW D \in DigitRows, NEW n \in Nat
    PROVE  /\ to_digits(n, base, D) \in Seq(Glyph)
           /\ n < base => to_digits(n, base, D) = <<D[n + 1]>>
           /\ n >= base => to_digits(n, base, D) = Append(to_digits(Rest(n, base), base, D), D[Place(n, base)])
<1>0. ASSUME NEW d, Figures(d, base, D, n), NEW q \in 0..n, NEW e, Figures(e, base, D, q)
      PROVE  \A k \in 0..q : d[k] = e[k]
  BY <1>0, FiguresSame
<1>1. PICK d \in [0..n -> Seq(Glyph)] : Figures(d, base, D, n) /\ to_digits(n, base, D) = d[n]
  BY Digitized
<1>2. n \in 0..n
  OBVIOUS
<1>3. to_digits(n, base, D) = Figure(d, base, D, n) /\ to_digits(n, base, D) \in Seq(Glyph)
  <2>1. d[n] = Figure(d, base, D, n)
    BY <1>1, <1>2, Zenon DEF Figures
  <2> QED BY <1>1, <1>2, <2>1
<1>4. CASE n < base
  <2>1. ~(n >= base)
    BY <1>4 DEF Radixes
  <2> QED BY <1>3, <1>4, <2>1 DEF Figure
<1>5. CASE ~(n < base)
  <2>1. PICK q \in 0..n : q = Rest(n, base) /\ q \in Nat
    <3>1. n >= base
      BY <1>5 DEF Radixes
    <3>2. Rest(n, base) \in Nat /\ Rest(n, base) < n
      BY <3>1, LeavesLess
    <3> QED BY <3>2
  <2>2. PICK e \in [0..q -> Seq(Glyph)] : Figures(e, base, D, q) /\ to_digits(q, base, D) = e[q]
    BY <2>1, Digitized
  <2>3. d[q] = e[q]
    <3>1. q \in 0..q
      BY <2>1
    <3>2. \A k \in 0..q : d[k] = e[k]
      BY <1>0, <1>1, <2>2, Zenon
    <3> QED BY <3>1, <3>2
  <2> QED BY <1>3, <1>5, <2>1, <2>2, <2>3 DEF Figure
<1> QED BY <1>4, <1>5

-----------------------------------------------------------------------------
(***************************************************************************)
(* Numbers: the digits add up to the number again, and the widths of the   *)
(* integers leave it as it was.                                            *)
(***************************************************************************)
\* The digits of a base.
Bases == {8, 10, 16}
Digs(base) == {S!Lower[i] : i \in 1..base}

\* A digit counts what its place among the digits says, and none is a sign.
LEMMA DigitValue ==
    ASSUME NEW i \in 1..16
    PROVE  S!digit_of(S!Lower[i]) = i - 1 /\ S!Lower[i] # "-"
<1>1. \A k \in 1..16, j \in 1..16 : S!Lower[k] = S!Lower[j] => k = j
  BY DEF S!Lower
<1>2. \A j \in 1..16 : S!Lower[j] # "-"
  BY DEF S!Lower
<1>3. (CHOOSE j \in 1..16 : S!Lower[j] = S!Lower[i]) = i
  BY <1>1
<1> QED BY <1>2, <1>3 DEF S!digit_of

\* So each digit of a base counts less than the base.
LEMMA DigsAre ==
    ASSUME NEW base \in Bases, NEW c \in Digs(base)
    PROVE  S!digit_of(c) \in 0..(base - 1) /\ c # "-"
<1>1. PICK i \in 1..base : c = S!Lower[i]
  BY DEF Digs
<1>2. i \in 1..16 /\ i - 1 \in 0..(base - 1)
  BY DEF Bases
<1> QED BY <1>1, <1>2, DigitValue

\* Division by a base leaves less.
LEMMA Divides ==
    ASSUME NEW base \in Bases, NEW k \in Nat
    PROVE  /\ k \div base \in Nat /\ k % base \in 0..(base - 1) /\ k = (k \div base) * base + (k % base)
           /\ k >= base => k \div base < k
           /\ (k % base) + 1 \in 1..base
<1>1. CASE base = 8
  BY <1>1
<1>2. CASE base = 10
  BY <1>2
<1>3. CASE base = 16
  BY <1>3
<1> QED BY <1>1, <1>2, <1>3 DEF Bases

\* What the digits add up to.
Added(n, base, c) == n * base + S!digit_of(c)
Summed(s, base) == S!FoldLeft(LAMBDA n, c : n * base + S!digit_of(c), 0, s)

LEMMA AddedNat ==
    ASSUME NEW base \in Bases, NEW n \in Nat, NEW c \in Digs(base)
    PROVE  Added(n, base, c) \in Nat
<1>1. S!digit_of(c) \in Nat
  <2>1. S!digit_of(c) \in 0..(base - 1)
    BY DigsAre
  <2> QED BY <2>1
<1>2. base \in Nat
  BY DEF Bases
<1> QED BY <1>1, <1>2 DEF Added

SumsDigits(s, base, n) ==
    \E h \in [0..n -> Nat] :
        h[0] = 0 /\ Summed(s, base) = h[n] /\ \A k \in 1..n : h[k] = Added(h[k - 1], base, s[k])

\* The sum goes through the sums of the prefixes.
LEMMA SumSteps ==
    ASSUME NEW base \in Bases, NEW s \in Seq(Digs(base)), NEW n, n = Len(s)
    PROVE  SumsDigits(s, base, n)
<1>1. n \in Nat /\ DOMAIN s = 1..n /\ \A k \in 1..n : s[k] \in Digs(base)
  BY LenProperties, ElementOfSeq
<1> DEFINE R == Nat
           G == [q \in R \X (1..n) |-> Added(q[1], base, s[q[2]])]
           b == 0
<1>2. G \in [R \X (1..n) -> R]
  <2>1. ASSUME NEW q \in R \X (1..n) PROVE Added(q[1], base, s[q[2]]) \in R
    <3>1. q[1] \in R /\ s[q[2]] \in Digs(base)
      BY <1>1
    <3> QED BY <3>1, AddedNat
  <2> HIDE DEF R
  <2> QED BY <2>1
<1>3. \A r \in R, k \in 1..n : G[<<r, k>>] = Added(r, base, s[k])
  <2> HIDE DEF R
  <2> QED OBVIOUS
<1>4. b \in R
  OBVIOUS
<1> HIDE DEF G, R
<1>5. PICK g \in [SUBSET (1..n) -> R] : IsFold(g, b, n, G)
  <2> HIDE DEF b
  <2> QED BY <1>1, <1>2, <1>4, FoldExists
<1>6. g = [u \in SUBSET (1..n) |-> IF u = {} THEN b ELSE Added(g[u \ {Max(u)}], base, s[Max(u)])]
  <2> HIDE DEF b
  <2>1. ASSUME NEW u \in SUBSET (1..n), u # {} PROVE g[u] = Added(g[u \ {Max(u)}], base, s[Max(u)])
    <3>1. Max(u) \in 1..n
      BY <1>1, <2>1, MaxOf
    <3>2. u \ {Max(u)} \in SUBSET (1..n)
      OBVIOUS
    <3>3. g[u] = G[<<g[u \ {Max(u)}], Max(u)>>]
      BY <1>5, <2>1 DEF IsFold
    <3> QED BY <1>3, <1>5, <3>1, <3>2, <3>3
  <2>2. g[{}] = b
    BY <1>5 DEF IsFold
  <2> QED BY <1>5, <2>1, <2>2
<1>7. PICK f : /\ f = CHOOSE x : x = [u \in SUBSET (1..n) |->
                            IF u = {} THEN b ELSE Added(x[u \ {Max(u)}], base, s[Max(u)])]
               /\ Summed(s, base) = f[1..n]
  BY <1>1, MaxOfStr DEF Summed, Added, S!FoldLeft, S!MapThenFoldSet
<1> HIDE DEF b
<1>8. f = [u \in SUBSET (1..n) |-> IF u = {} THEN b ELSE Added(f[u \ {Max(u)}], base, s[Max(u)])]
  BY <1>6, <1>7
<1>9. f[{}] = b
  BY <1>8
<1>10. ASSUME NEW u \in SUBSET (1..n), u # {} /\ f[u \ {Max(u)}] \in R
       PROVE  f[u] = G[<<f[u \ {Max(u)}], Max(u)>>]
  <2>1. Max(u) \in 1..n
    BY <1>1, <1>10, MaxOf
  <2>2. f[u] = Added(f[u \ {Max(u)}], base, s[Max(u)])
    BY <1>8, <1>10
  <2> QED BY <1>3, <1>10, <2>1, <2>2
<1>11. PICK h \in [0..n -> R] : Steps(h, b, n, G) /\ h[n] = f[1..n]
  <2>1. Keeps(f, R, n, G)
    BY <1>10 DEF Keeps
  <2>2. Reaches(f, R, b, n, G)
    BY <1>1, <1>2, <1>4, <1>9, <2>1, FoldPrefix
  <2> QED BY <2>2 DEF Reaches
<1>12. ASSUME NEW k \in 1..n PROVE h[k] = Added(h[k - 1], base, s[k])
  <2>1. k - 1 \in 0..n
    BY <1>1
  <2>2. h[k - 1] \in R /\ h[k] = G[<<h[k - 1], k>>]
    BY <1>11, <2>1 DEF Steps
  <2> QED BY <1>3, <2>2
<1>13. h[0] = b
  BY <1>11 DEF Steps
<1>14. Summed(s, base) = h[n] /\ h \in [0..n -> R]
  BY <1>7, <1>11
<1> QED BY <1>12, <1>13, <1>14 DEF b, R, SumsDigits

\* One digit more.
LEMMA SumNext ==
    ASSUME NEW base \in Bases, NEW s \in Seq(Digs(base)), NEW c \in Digs(base)
    PROVE  Summed(Append(s, c), base) = Added(Summed(s, base), base, c) /\ Summed(s, base) \in Nat
<1>1. PICK n \in Nat : n = Len(s)
  BY LenProperties
<1>2. PICK t : t = Append(s, c) /\ t \in Seq(Digs(base)) /\ Len(t) = n + 1 /\ t[n + 1] = c /\ \A i \in 1..n : t[i] = s[i]
  <2> DEFINE t == Append(s, c)
  <2>1. t \in Seq(Digs(base)) /\ Len(t) = n + 1 /\ t[n + 1] = c /\ \A i \in 1..n : t[i] = s[i]
    BY <1>1, Appended
  <2> HIDE DEF t
  <2>2. \E x : x = t /\ x \in Seq(Digs(base)) /\ Len(x) = n + 1 /\ x[n + 1] = c /\ \A i \in 1..n : x[i] = s[i]
    BY <2>1
  <2> QED BY <2>2 DEF t
<1>3. PICK h \in [0..n -> Nat] :
         h[0] = 0 /\ Summed(s, base) = h[n] /\ \A k \in 1..n : h[k] = Added(h[k - 1], base, s[k])
  <2>1. SumsDigits(s, base, n)
    BY <1>1, SumSteps
  <2> QED BY <2>1 DEF SumsDigits
<1>4. PICK g \in [0..(n + 1) -> Nat] :
         g[0] = 0 /\ Summed(t, base) = g[n + 1] /\ \A k \in 1..(n + 1) : g[k] = Added(g[k - 1], base, t[k])
  <2>1. SumsDigits(t, base, n + 1)
    BY <1>2, SumSteps
  <2> QED BY <2>1 DEF SumsDigits
<1> DEFINE T == {k \in 0..n : g[k] = h[k]}
<1>5. 0 \in T
  BY <1>3, <1>4
<1>6. ASSUME NEW k \in 1..n, k - 1 \in T PROVE k \in T
  <2>1. k \in 1..(n + 1) /\ k \in 0..n
    OBVIOUS
  <2> QED BY <1>2, <1>3, <1>4, <1>6, <2>1
<1>7. 0..n \subseteq T
  <2> HIDE DEF T
  <2> QED BY <1>5, <1>6, Induct
<1>8. g[n] = h[n]
  BY <1>7
<1>9. n + 1 \in 1..(n + 1) /\ (n + 1) - 1 = n
  OBVIOUS
<1> QED BY <1>2, <1>3, <1>4, <1>8, <1>9

LEMMA SumNone == ASSUME NEW base \in Bases PROVE Summed(<<>>, base) = 0
<1>1. <<>> \in Seq(Digs(base)) /\ Len(<<>>) = 0
  BY EmptySeq
<1>2. SumsDigits(<<>>, base, 0)
  BY <1>1, SumSteps
<1> QED BY <1>2 DEF SumsDigits

\* The digits of a number, which add up to it.
Reads(s, base, n) == s \in Seq(Digs(base)) /\ s # <<>> /\ Summed(s, base) = n

\* One digit, and one more behind those of the quotient.
LEMMA OneDigit ==
    ASSUME NEW base \in Bases, NEW k \in Nat, k < base
    PROVE  Reads(<<S!Lower[k + 1]>>, base, k)
<1>1. k + 1 \in 1..base /\ k + 1 \in 1..16 /\ (k + 1) - 1 = k /\ base \in Nat
  BY DEF Bases
<1>2. PICK c \in Digs(base) : c = S!Lower[k + 1] /\ S!digit_of(c) = k
  <2>1. S!Lower[k + 1] \in Digs(base)
    BY <1>1 DEF Digs
  <2>2. S!digit_of(S!Lower[k + 1]) = (k + 1) - 1
    BY <1>1, DigitValue
  <2> QED BY <1>1, <2>1, <2>2
<1>3. <<>> \in Seq(Digs(base)) /\ Append(<<>>, c) = <<c>> /\ <<c>> \in Seq(Digs(base)) /\ <<c>> # <<>>
  OBVIOUS
<1>4. Summed(<<c>>, base) = Added(0, base, c)
  BY <1>3, SumNext, SumNone
<1>5. Added(0, base, c) = k
  BY <1>1, <1>2 DEF Added
<1> QED BY <1>2, <1>3, <1>4, <1>5 DEF Reads

LEMMA NextDigit ==
    ASSUME NEW base \in Bases, NEW k \in Nat, NEW s, Reads(s, base, k \div base)
    PROVE  Reads(Append(s, S!Lower[(k % base) + 1]), base, k)
<1>1. PICK m \in 0..(base - 1) : m = k % base /\ m + 1 \in 1..base /\ m + 1 \in 1..16 /\ (m + 1) - 1 = m
  <2>1. k % base \in 0..(base - 1)
    BY Divides
  <2>2. base <= 16 /\ base \in Nat
    BY DEF Bases
  <2> QED BY <2>1, <2>2
<1>2. PICK q \in Nat : q = k \div base /\ k = q * base + m
  BY <1>1, Divides
<1>3. PICK c \in Digs(base) : c = S!Lower[m + 1] /\ S!digit_of(c) = m
  <2>1. S!Lower[m + 1] \in Digs(base)
    BY <1>1 DEF Digs
  <2>2. S!digit_of(S!Lower[m + 1]) = (m + 1) - 1
    BY <1>1, DigitValue
  <2> QED BY <1>1, <2>1, <2>2
<1>4. s \in Seq(Digs(base)) /\ Summed(s, base) = q
  BY <1>2 DEF Reads
<1>5. Append(s, c) \in Seq(Digs(base)) /\ Append(s, c) # <<>>
  <2>1. Append(s, c) \in Seq(Digs(base)) /\ Len(Append(s, c)) = Len(s) + 1 /\ Len(s) \in Nat
    BY <1>4, Appended, LenProperties
  <2>2. Len(<<>>) = 0
    BY EmptySeq
  <2> QED BY <2>1, <2>2
<1>6. Summed(Append(s, c), base) = Added(q, base, c)
  BY <1>4, SumNext
<1>7. Added(q, base, c) = k
  BY <1>2, <1>3 DEF Added
<1> QED BY <1>1, <1>3, <1>5, <1>6, <1>7 DEF Reads

\* The digits of every number add up to it.
LEMMA DigitsRead ==
    ASSUME NEW base \in Bases, NEW n \in Nat
    PROVE  Reads(S!to_digits(n, base, S!Lower), base, n)
<1> DEFINE T == {k \in Nat : ~Reads(to_digits(k, base, Lower), base, k)}
<1>1. S!Lower = Lower /\ S!to_digits(n, base, S!Lower) = to_digits(n, base, Lower)
  BY Zenon DEF S!Lower, Lower, S!to_digits, to_digits
<1>2. base \in Radixes /\ Lower \in DigitRows /\ base \in Nat
  BY DEF Bases, Radixes, DigitRows
<1>3. ASSUME T # {} PROVE FALSE
  <2>1. PICK k \in T : \A y \in T : k <= y
    <3>1. T \subseteq Nat
      OBVIOUS
    <3> QED BY <1>3, <3>1, NatLeast
  <2>2. k \in Nat /\ ~Reads(to_digits(k, base, Lower), base, k)
    OBVIOUS
  <2>3. CASE k < base
    <3>1. Reads(<<Lower[k + 1]>>, base, k)
      BY <1>1, <2>2, <2>3, OneDigit
    <3>2. to_digits(k, base, Lower) = <<Lower[k + 1]>>
      BY <1>2, <2>2, <2>3, DigitsStep
    <3> QED BY <2>2, <3>1, <3>2, Zenon
  <2>4. CASE ~(k < base)
    <3>1. PICK q \in Nat : q = Rest(k, base) /\ q = k \div base /\ q < k
      <4>1. k >= base
        BY <1>2, <2>2, <2>4
      <4> QED BY <1>2, <2>2, <4>1, LeavesLess DEF Rest
    <3>2. Reads(to_digits(q, base, Lower), base, k \div base)
      BY <2>1, <2>2, <3>1
    <3>3. Reads(Append(to_digits(q, base, Lower), Lower[Place(k, base)]), base, k)
      <4>1. PICK s : s = to_digits(q, base, Lower)
        OBVIOUS
      <4>2. Reads(s, base, k \div base)
        BY <3>2, <4>1
      <4>3. Reads(Append(s, S!Lower[(k % base) + 1]), base, k)
        BY <2>2, <4>2, NextDigit
      <4>4. S!Lower[(k % base) + 1] = Lower[Place(k, base)]
        BY <1>1 DEF Place
      <4> QED BY <4>1, <4>3, <4>4, Zenon
    <3>4. to_digits(k, base, Lower) = Append(to_digits(q, base, Lower), Lower[Place(k, base)])
      <4>1. k >= base
        BY <1>2, <2>2, <2>4
      <4>2. to_digits(k, base, Lower) = Append(to_digits(Rest(k, base), base, Lower), Lower[Place(k, base)])
        BY <1>2, <2>2, <4>1, DigitsStep
      <4> QED BY <3>1, <4>2
    <3> QED BY <2>2, <3>3, <3>4, Zenon
  <2> QED BY <2>3, <2>4
<1>4. Reads(to_digits(n, base, Lower), base, n)
  BY <1>3
<1> QED BY <1>1, <1>4, Zenon

\* Reading goes to the end of the digits, behind a sign.
LEMMA DigitsStop ==
    ASSUME NEW base \in Bases, NEW s \in Seq(Digs(base))
    PROVE  S!SelectInSeq(s, LAMBDA c : c \notin Digs(base)) = 0
<1>1. \A i \in 1..Len(s) : s[i] \in Digs(base)
  BY ElementOfSeq
<1> DEFINE I == {i \in 1..Len(s) : s[i] \notin Digs(base)}
<1>2. I = {}
  BY <1>1
<1> QED BY <1>2 DEF S!SelectInSeq

LEMMA PlainRead ==
    ASSUME NEW base \in Bases, NEW n, NEW s, Reads(s, base, n)
    PROVE  ~S!negative(s) /\ S!magnitude(s, base) = n
<1>1. s \in Seq(Digs(base)) /\ s # <<>> /\ Summed(s, base) = n
  BY DEF Reads
<1>2. ~S!negative(s)
  <2>1. Len(s) \in Nat /\ Len(s) # 0
    BY <1>1, EmptySeq, LenProperties
  <2>2. 1 \in 1..Len(s)
    BY <2>1
  <2>3. s[1] \in Digs(base)
    BY <1>1, <2>2, ElementOfSeq
  <2>4. Head(s) = s[1]
    BY <1>1
  <2> QED BY <2>3, <2>4, DigsAre DEF S!negative
<1>3. S!SelectInSeq(s, LAMBDA c : c \notin Digs(base)) = 0
  BY <1>1, DigitsStop
<1>4. S!magnitude(s, base) = Summed(s, base)
  BY <1>2, <1>3, Zenon DEF S!magnitude, Summed, Digs
<1> QED BY <1>1, <1>2, <1>4

LEMMA SignedRead ==
    ASSUME NEW base \in Bases, NEW n, NEW s, Reads(s, base, n), NEW t, t = <<"-">> \o s
    PROVE  S!negative(t) /\ S!magnitude(t, base) = n
<1>1. s \in Seq(Digs(base)) /\ Summed(s, base) = n
  BY DEF Reads
<1>2. t # <<>> /\ Head(t) = "-" /\ Tail(t) = s
  <2> DEFINE K == Digs(base) \cup {"-"}
  <2>1. s \in Seq(K) /\ "-" \in K
    BY <1>1, SeqMore
  <2> HIDE DEF K
  <2>2. <<"-">> \in Seq(K)
    BY <2>1
  <2> QED BY <2>1, <2>2
<1>3. S!SelectInSeq(s, LAMBDA c : c \notin Digs(base)) = 0
  BY <1>1, DigitsStop
<1>4. S!negative(t)
  BY <1>2 DEF S!negative
<1>5. S!magnitude(t, base) = Summed(s, base)
  BY <1>2, <1>3, <1>4, Zenon DEF S!magnitude, Summed, Digs
<1> QED BY <1>1, <1>4, <1>5

\* Powers of two grow.
LEMMA PowersGrow == ASSUME NEW m \in Nat, NEW n \in Nat, m <= n PROVE 2^m <= 2^n
<1> DEFINE T == {j \in 0..(n - m) : 2^m <= 2^(m + j)}
<1>1. PICK k \in Nat : k = n - m /\ m + k = n
  <2>1. n - m \in Nat /\ m + (n - m) = n
    OBVIOUS
  <2> QED BY <2>1
<1>2. 0 \in T
  <2>1. m + 0 = m /\ 2^m \in Nat /\ 0 \in 0..(n - m)
    BY Powers
  <2>2. 2^(m + 0) = 2^m
    BY <2>1, Zenon
  <2>3. 2^m <= 2^(m + 0)
    BY <2>1, <2>2
  <2> QED BY <2>1, <2>3
<1>3. ASSUME NEW j \in 1..(n - m), j - 1 \in T PROVE j \in T
  <2>1. PICK i \in Nat : i = m + (j - 1) /\ i + 1 = m + j
    <3>1. m + (j - 1) \in Nat /\ (m + (j - 1)) + 1 = m + j
      OBVIOUS
    <3> QED BY <3>1
  <2>2. 2^m \in Nat /\ 2^i \in Nat /\ 2^(i + 1) = 2 * 2^i
    BY Powers
  <2>3. 2^m <= 2^i
    BY <1>3, <2>1
  <2>4. 2^(m + j) = 2 * 2^i
    BY <2>1, <2>2, Zenon
  <2>5. 2^m <= 2^(m + j)
    BY <2>2, <2>3, <2>4
  <2>6. j \in 0..(n - m)
    OBVIOUS
  <2> QED BY <2>5, <2>6
<1>4. k \in T
  <2>1. k \in Nat /\ 0..(n - m) = 0..k /\ 1..(n - m) = 1..k
    BY <1>1
  <2> HIDE DEF T
  <2>2. 0..k \subseteq T
    BY <1>2, <1>3, <2>1, Induct
  <2> QED BY <2>1, <2>2
<1>5. 2^m <= 2^(m + k)
  BY <1>4
<1> QED BY <1>1, <1>5, Zenon

\* The ranges of the integers: i and w are half of what an int and what a long holds.
Widths(i, w) ==
    /\ i \in Nat \ {0} /\ w \in Nat \ {0} /\ i <= w /\ (LongBits > IntBits => 2 * i <= w)
    /\ 2^(IntBits - 1) = i /\ 2^IntBits = 2 * i /\ 2^(LongBits - 1) = w /\ 2^LongBits = 2 * w

LEMMA WidthsAre == \E i, w : Widths(i, w)
<1>1. PICK p \in Nat, q \in Nat : p = IntBits - 1 /\ p + 1 = IntBits /\ q = LongBits - 1 /\ q + 1 = LongBits
                                  /\ p <= q /\ (LongBits > IntBits => p + 1 <= q)
  <2>1. IntBits - 1 \in Nat /\ LongBits - 1 \in Nat /\ (IntBits - 1) + 1 = IntBits /\ (LongBits - 1) + 1 = LongBits
        /\ IntBits - 1 <= LongBits - 1 /\ (LongBits > IntBits => (IntBits - 1) + 1 <= LongBits - 1)
    BY WidthAssumption
  <2> QED BY <2>1
<1>2. PICK i : i = 2^p /\ i \in Nat \ {0} /\ 2^(p + 1) = 2 * i
  BY Powers
<1>3. PICK w : w = 2^q /\ w \in Nat \ {0} /\ 2^(q + 1) = 2 * w
  BY Powers
<1>4. i <= w
  BY <1>1, <1>2, <1>3, PowersGrow
<1>5. ASSUME LongBits > IntBits PROVE 2 * i <= w
  <2>1. p + 1 \in Nat /\ p + 1 <= q
    BY <1>1, <1>5
  <2>2. 2^(p + 1) <= 2^q
    BY <2>1, PowersGrow
  <2> QED BY <1>2, <1>3, <2>2
<1>6. 2^(IntBits - 1) = i /\ 2^IntBits = 2 * i /\ 2^(LongBits - 1) = w /\ 2^LongBits = 2 * w
  BY <1>1, <1>2, <1>3, Zenon
<1> QED BY <1>2, <1>3, <1>4, <1>5, <1>6 DEF Widths

\* What is left of an integer that is cut to y values.
LEMMA Modulus ==
    ASSUME NEW y \in Nat \ {0}, NEW z \in Int
    PROVE  /\ z \in 0..(y - 1) => z % y = z
           /\ z \in (0 - y)..(0 - 1) => z % y = z + y
           /\ z \in y..(2 * y - 1) => z % y = z - y
OBVIOUS

\* What an unsigned integer, and a signed one, is written as.
LEMMA UnsignedWritten ==
    ASSUME NEW base \in Bases, NEW bits, NEW y \in Nat \ {0}, 2^bits = y, NEW x \in 0..(y - 1)
    PROVE  Reads(S!written(x, bits, base), base, x)
<1>1. x \in Nat /\ x % y = x /\ ~(x < 0)
  BY Modulus
<1>2. PICK s : s = S!to_digits(x, base, S!Lower) /\ Reads(s, base, x)
  <2>1. Reads(S!to_digits(x, base, S!Lower), base, x)
    BY <1>1, DigitsRead
  <2> QED BY <2>1
<1>3. <<>> \o s = s
  <2>1. s \in Seq(Digs(base))
    BY <1>2 DEF Reads
  <2> QED BY <2>1, ConcatEmptySeq
<1>4. base \notin {8, 16} => base = 10
  BY DEF Bases
<1>5. S!written(x, bits, base) = s
  BY <1>1, <1>2, <1>3, <1>4 DEF S!written
<1> QED BY <1>2, <1>5

Minus(t, base, n) == \E s : Reads(s, base, n) /\ t = <<"-">> \o s

\* A negative one is written with its sign in decimal, and as unsigned otherwise.
LEMMA NegativeWritten ==
    ASSUME NEW base \in Bases, NEW bits, NEW h \in Nat \ {0}, 2^bits = 2 * h, NEW n \in (0 - h)..(0 - 1)
    PROVE  /\ base = 10 => Minus(S!written(n, bits, base), base, 0 - n)
           /\ base # 10 => Reads(S!written(n, bits, base), base, n + 2 * h)
<1>1. n < 0 /\ 0 - n \in Nat /\ n + 2 * h \in Nat /\ n % (2 * h) = n + 2 * h
  <2>1. PICK y \in Nat \ {0} : y = 2 * h /\ n \in (0 - y)..(0 - 1) /\ n \in Int
    <3>1. 2 * h \in Nat \ {0} /\ n \in (0 - (2 * h))..(0 - 1)
      OBVIOUS
    <3> QED BY <3>1
  <2>2. n % y = n + y
    BY <2>1, Modulus
  <2> QED BY <2>1, <2>2
<1>2. CASE base = 10
  <2>1. PICK s : s = S!to_digits(0 - n, 10, S!Lower) /\ Reads(s, base, 0 - n)
    <3>1. Reads(S!to_digits(0 - n, base, S!Lower), base, 0 - n)
      BY <1>1, DigitsRead
    <3> QED BY <1>2, <3>1
  <2>2. S!written(n, bits, base) = <<"-">> \o s
    BY <1>1, <1>2, <2>1 DEF S!written
  <2> QED BY <1>2, <2>1, <2>2 DEF Minus
<1>3. CASE base # 10
  <2>1. base \in {8, 16}
    BY <1>3 DEF Bases
  <2>2. S!written(n, bits, base) = S!to_digits(n + 2 * h, base, S!Lower)
    BY <1>1, <2>1 DEF S!written
  <2>3. Reads(S!to_digits(n + 2 * h, base, S!Lower), base, n + 2 * h)
    BY <1>1, DigitsRead
  <2> QED BY <1>3, <2>2, <2>3
<1> QED BY <1>2, <1>3

\* What strtol and strtoul make of it.
LEMMA LongRead ==
    ASSUME NEW i, NEW w, Widths(i, w), NEW base \in Bases, NEW s, NEW n \in Nat
    PROVE  /\ Reads(s, base, n) => S!strtol(s, base) = (IF n > w - 1 THEN w - 1 ELSE n)
           /\ Reads(s, base, n) => S!strtoul(s, base) = (IF n > 2 * w - 1 THEN 2 * w - 1 ELSE n)
           /\ Minus(s, base, n) => S!strtol(s, base) = 0 - (IF n > w THEN w ELSE n)
<1>1. w \in Nat \ {0} /\ 2^(LongBits - 1) = w /\ 2^LongBits = 2 * w /\ (w - 1) + 1 = w
  BY DEF Widths
<1>2. ASSUME Reads(s, base, n)
      PROVE  /\ S!strtol(s, base) = (IF n > w - 1 THEN w - 1 ELSE n)
             /\ S!strtoul(s, base) = (IF n > 2 * w - 1 THEN 2 * w - 1 ELSE n)
  <2>1. ~S!negative(s) /\ S!magnitude(s, base) = n
    BY <1>2, PlainRead
  <2> QED BY <1>1, <2>1 DEF S!strtol, S!strtoul, S!limited
<1>3. ASSUME Minus(s, base, n) PROVE S!strtol(s, base) = 0 - (IF n > w THEN w ELSE n)
  <2>1. S!negative(s) /\ S!magnitude(s, base) = n
    BY <1>3, SignedRead DEF Minus
  <2> QED BY <1>1, <2>1 DEF S!strtol, S!limited
<1> QED BY <1>2, <1>3

\* An int is read back as it was written.
LEMMA IntRead ==
    ASSUME NEW i, NEW w, Widths(i, w), NEW base \in Bases, NEW n \in (0 - i)..(i - 1),
           LongBits > IntBits \/ n >= 0 \/ base = 10
    PROVE  S!to_int(S!from_int(n, base), base) = n
<1>1. i \in Nat \ {0} /\ w \in Nat \ {0} /\ i <= w /\ 2^(IntBits - 1) = i /\ 2^IntBits = 2 * i
  BY DEF Widths
<1>2. PICK s : s = S!from_int(n, base) /\ s = S!written(n, IntBits, base)
  BY DEF S!from_int
<1>3. PICK y \in Nat \ {0} : y = 2 * i
  BY <1>1
<1>4. \A x : S!wrap(x, IntBits) = ((x + i) % y) - i
  BY <1>1, <1>3 DEF S!wrap
<1>5. CASE n >= 0
  <2>1. n \in 0..(y - 1) /\ n \in Nat /\ n + i \in 0..(y - 1) /\ n + i \in Int
    BY <1>1, <1>3, <1>5
  <2>2. Reads(s, base, n)
    BY <1>1, <1>2, <1>3, <2>1, UnsignedWritten
  <2>3. S!strtol(s, base) = (IF n > w - 1 THEN w - 1 ELSE n)
    BY <2>1, <2>2, LongRead
  <2>4. S!strtol(s, base) = n
    BY <1>1, <2>1, <2>3
  <2>5. (n + i) % y = n + i
    BY <2>1, Modulus
  <2> QED BY <1>1, <1>2, <1>4, <2>4, <2>5 DEF S!to_int
<1>6. CASE n < 0 /\ base = 10
  <2>1. n \in (0 - i)..(0 - 1) /\ 0 - n \in Nat /\ n + i \in 0..(y - 1) /\ n + i \in Int
    BY <1>1, <1>3, <1>6
  <2>2. Minus(s, base, 0 - n)
    BY <1>1, <1>2, <1>6, <2>1, NegativeWritten
  <2>3. S!strtol(s, base) = 0 - (IF 0 - n > w THEN w ELSE 0 - n)
    BY <2>1, <2>2, LongRead
  <2>4. S!strtol(s, base) = n
    BY <1>1, <2>1, <2>3
  <2>5. (n + i) % y = n + i
    BY <2>1, Modulus
  <2> QED BY <1>1, <1>2, <1>4, <2>4, <2>5 DEF S!to_int
<1>7. CASE n < 0 /\ base # 10
  <2>1. n \in (0 - i)..(0 - 1) /\ n + y \in Nat /\ (n + y) + i \in y..(2 * y - 1) /\ (n + y) + i \in Int /\ n + y <= y - 1
    BY <1>1, <1>3, <1>7
  <2>2. Reads(s, base, n + y)
    BY <1>1, <1>2, <1>3, <1>7, <2>1, NegativeWritten
  <2>3. S!strtol(s, base) = (IF n + y > w - 1 THEN w - 1 ELSE n + y)
    BY <2>1, <2>2, LongRead
  <2>4. y <= w
    BY <1>3, <1>7 DEF Widths
  <2>5. S!strtol(s, base) = n + y
    BY <1>1, <2>1, <2>3, <2>4
  <2>6. ((n + y) + i) % y = ((n + y) + i) - y
    BY <2>1, Modulus
  <2>7. (((n + y) + i) - y) - i = n
    BY <1>1
  <2> QED BY <1>1, <1>2, <1>4, <2>5, <2>6, <2>7 DEF S!to_int
<1> QED BY <1>1, <1>5, <1>6, <1>7

\* An unsigned int, and the integers of the width of a long, read back.
LEMMA UintRead ==
    ASSUME NEW i, NEW w, Widths(i, w), NEW base \in Bases, NEW n \in 0..(2 * i - 1)
    PROVE  Reads(S!from_uint(n, base), base, n) /\ S!to_uint(S!from_uint(n, base), base) = n
<1>1. i \in Nat \ {0} /\ w \in Nat \ {0} /\ i <= w /\ 2^IntBits = 2 * i
  BY DEF Widths
<1>2. PICK y \in Nat \ {0} : y = 2 * i /\ n \in 0..(y - 1) /\ n \in Nat /\ n \in Int
  BY <1>1
<1>3. PICK s : s = S!from_uint(n, base) /\ Reads(s, base, n)
  <2>1. Reads(S!written(n, IntBits, base), base, n)
    BY <1>1, <1>2, UnsignedWritten
  <2> QED BY <2>1 DEF S!from_uint
<1>4. S!strtoul(s, base) = (IF n > 2 * w - 1 THEN 2 * w - 1 ELSE n)
  BY <1>2, <1>3, LongRead
<1>5. S!strtoul(s, base) = n
  BY <1>1, <1>2, <1>4
<1>6. n % y = n
  BY <1>2, Modulus
<1> QED BY <1>1, <1>2, <1>3, <1>5, <1>6 DEF S!to_uint

LEMMA Uint64Read ==
    ASSUME NEW i, NEW w, Widths(i, w), NEW base \in Bases, NEW n \in 0..(2 * w - 1)
    PROVE  Reads(S!from_uint16(n, base), base, n) /\ S!to_uint64(S!from_uint16(n, base), base) = n
<1>1. w \in Nat \ {0} /\ 2^LongBits = 2 * w
  BY DEF Widths
<1>2. PICK y \in Nat \ {0} : y = 2 * w /\ n \in 0..(y - 1) /\ n \in Nat
  BY <1>1
<1>3. PICK s : s = S!from_uint16(n, base) /\ Reads(s, base, n)
  <2>1. Reads(S!written(n, LongBits, base), base, n)
    BY <1>1, <1>2, UnsignedWritten
  <2> QED BY <2>1 DEF S!from_uint16
<1>4. S!strtoul(s, base) = (IF n > 2 * w - 1 THEN 2 * w - 1 ELSE n)
  BY <1>2, <1>3, LongRead
<1>5. S!strtoul(s, base) = n
  BY <1>1, <1>2, <1>4
<1> QED BY <1>3, <1>5 DEF S!to_uint64

LEMMA Int64Read ==
    ASSUME NEW i, NEW w, Widths(i, w), NEW base \in Bases, NEW n \in (0 - w)..(w - 1)
    PROVE  S!to_int64(S!from_int64(n, base), base) = (IF n >= 0 \/ base = 10 THEN n ELSE w - 1)
<1>1. w \in Nat \ {0} /\ 2^LongBits = 2 * w
  BY DEF Widths
<1>2. PICK s : s = S!from_int64(n, base) /\ s = S!written(n, LongBits, base)
  BY DEF S!from_int64
<1>3. PICK y \in Nat \ {0} : y = 2 * w
  BY <1>1
<1>4. CASE n >= 0
  <2>1. n \in 0..(y - 1) /\ n \in Nat
    BY <1>1, <1>3, <1>4
  <2>2. Reads(s, base, n)
    BY <1>1, <1>2, <1>3, <2>1, UnsignedWritten
  <2>3. S!strtol(s, base) = (IF n > w - 1 THEN w - 1 ELSE n)
    BY <2>1, <2>2, LongRead
  <2> QED BY <1>1, <1>2, <1>4, <2>1, <2>3 DEF S!to_int64
<1>5. CASE n < 0 /\ base = 10
  <2>1. n \in (0 - w)..(0 - 1) /\ 0 - n \in Nat
    BY <1>1, <1>5
  <2>2. Minus(s, base, 0 - n)
    BY <1>1, <1>2, <1>5, <2>1, NegativeWritten
  <2>3. S!strtol(s, base) = 0 - (IF 0 - n > w THEN w ELSE 0 - n)
    BY <2>1, <2>2, LongRead
  <2> QED BY <1>1, <1>2, <1>5, <2>1, <2>3 DEF S!to_int64
<1>6. CASE n < 0 /\ base # 10
  <2>1. n \in (0 - w)..(0 - 1) /\ n + y \in Nat /\ n + y > w - 1
    BY <1>1, <1>3, <1>6
  <2>2. Reads(s, base, n + y)
    BY <1>1, <1>2, <1>3, <1>6, <2>1, NegativeWritten
  <2>3. S!strtol(s, base) = (IF n + y > w - 1 THEN w - 1 ELSE n + y)
    BY <2>1, <2>2, LongRead
  <2> QED BY <1>1, <1>2, <1>6, <2>1, <2>3 DEF S!to_int64
<1> QED BY <1>1, <1>4, <1>5, <1>6

\* What is written are characters, which a view shows among others.
Printed(s) == \E K : s \in Seq(K)

LEMMA ReadsPrinted ==
    ASSUME NEW base, NEW n, NEW s, Reads(s, base, n) \/ Minus(s, base, n)
    PROVE  Printed(s)
<1>1. CASE Reads(s, base, n)
  BY <1>1 DEF Reads, Printed
<1>2. CASE Minus(s, base, n)
  <2>1. PICK t : t \in Seq(Digs(base)) /\ s = <<"-">> \o t
    BY <1>2 DEF Minus, Reads
  <2> DEFINE K == Digs(base) \cup {"-"}
  <2>2. t \in Seq(K) /\ "-" \in K
    BY <2>1, SeqMore
  <2> HIDE DEF K
  <2>3. <<"-">> \in Seq(K)
    BY <2>2, OnePlace
  <2>4. s \in Seq(K)
    BY <2>1, <2>2, <2>3, ConcatProperties
  <2> QED BY <2>4 DEF Printed
<1> QED BY <1>1, <1>2

\* A view of the middle of three shows the middle one.
LEMMA MiddleSeen ==
    ASSUME NEW X, NEW a \in Seq(X), NEW s \in Seq(X), NEW c \in Seq(X)
    PROVE  chars(a \o s \o c, View(Len(a), Len(s))) = s
<1>1. PICK m \in Nat, k \in Nat, n \in Nat : m = Len(a) /\ k = Len(s) /\ n = Len(c)
  BY LenProperties
<1>2. PICK w : w = a \o s \o c /\ w \in Seq(X) /\ Len(w) = m + k + n /\ \A i \in 1..k : w[m + i] = s[i]
  <2> DEFINE w == a \o s \o c
  <2>1. w \in Seq(X) /\ Len(w) = m + k + n /\ \A i \in 1..k : w[m + i] = s[i]
    BY <1>1, Threefold
  <2> HIDE DEF w
  <2>2. \E x : x = w /\ x \in Seq(X) /\ Len(x) = m + k + n /\ \A i \in 1..k : x[m + i] = s[i]
    BY <2>1
  <2> QED BY <2>2 DEF w
<1>3. m + 1 \in Nat \ {0} /\ m + k \in Nat /\ m + 1 <= (m + k) + 1 /\ m + k <= m + k + n /\ (m + k) - (m + 1) + 1 = k
  BY <1>1
<1>4. Piece(X, SubSeq(w, m + 1, m + k), w, m + 1, m + k)
  BY <1>2, <1>3, Part
<1>5. PICK x : x = SubSeq(w, m + 1, m + k) /\ x \in Seq(X) /\ Len(x) = k /\ \A i \in 1..k : x[i] = w[m + 1 + i - 1]
  <2>1. PICK x : x = SubSeq(w, m + 1, m + k) /\ Piece(X, x, w, m + 1, m + k)
    BY <1>4
  <2>2. x \in Seq(X) /\ Len(x) = k /\ \A i \in 1..k : x[i] = w[m + 1 + i - 1]
    BY <1>3, <2>1 DEF Piece
  <2> QED BY <2>1, <2>2
<1>6. \A i \in 1..k : x[i] = s[i]
  <2>1. \A i \in 1..k : m + 1 + i - 1 = m + i
    BY <1>1
  <2> QED BY <1>2, <1>5, <2>1
<1>7. x = s
  BY <1>1, <1>5, <1>6, SeqEqual
<1>8. chars(w, View(m, k)) = SubSeq(w, m + 1, m + k)
  BY DEF chars, View, end
<1> QED BY <1>1, <1>2, <1>5, <1>7, <1>8

\* So what was written is seen where other digits stand around it.
LEMMA AmongDigits ==
    ASSUME NEW s, Printed(s)
    PROVE  /\ chars(<<"7">> \o s \o <<"1">>, View(1, Len(s))) = s
           /\ chars(s \o <<"1">>, View(0, Len(s))) = s
           /\ chars(<<"1">> \o s, View(1, Len(s))) = s
<1>1. PICK L : s \in Seq(L)
  BY DEF Printed
<1> DEFINE K == L \cup {"1", "7"}
<1>2. s \in Seq(K) /\ "1" \in K /\ "7" \in K
  BY <1>1, SeqMore
<1> HIDE DEF K
<1>3. PICK o : o = <<"1">> /\ o \in Seq(K) /\ Len(o) = 1
  BY <1>2, JustOne
<1>4. PICK a : a = <<"7">> /\ a \in Seq(K) /\ Len(a) = 1
  BY <1>2, JustOne
<1>5. PICK e : e = <<>> /\ e \in Seq(K) /\ Len(e) = 0
  BY EmptySeq
<1>6. chars(a \o s \o o, View(1, Len(s))) = s
  BY <1>2, <1>3, <1>4, MiddleSeen
<1>7. chars(s \o o, View(0, Len(s))) = s
  <2>1. chars(e \o s \o o, View(0, Len(s))) = s
    BY <1>2, <1>3, <1>5, MiddleSeen
  <2>2. e \o s = s
    BY <1>2, <1>5, ConcatEmptySeq
  <2> QED BY <2>1, <2>2
<1>8. chars(o \o s, View(1, Len(s))) = s
  <2>1. chars(o \o s \o e, View(1, Len(s))) = s
    BY <1>2, <1>3, <1>5, MiddleSeen
  <2>2. o \o s \in Seq(K)
    BY <1>2, <1>3, ConcatProperties
  <2>3. (o \o s) \o e = o \o s
    <3> DEFINE w == o \o s
    <3>1. w \in Seq(K)
      BY <2>2
    <3> HIDE DEF w
    <3>2. w \o <<>> = w
      BY <3>1, ConcatNothing
    <3> QED BY <1>5, <3>2 DEF w
  <2> QED BY <2>1, <2>3, Zenon
<1> QED BY <1>3, <1>4, <1>6, <1>7, <1>8

\* A signed integer is written in characters too.
LEMMA SignedPrinted ==
    ASSUME NEW base \in Bases, NEW bits, NEW h \in Nat \ {0}, 2^bits = 2 * h, NEW n \in (0 - h)..(h - 1)
    PROVE  Printed(S!written(n, bits, base))
<1>1. CASE n >= 0
  <2>1. PICK y \in Nat \ {0} : y = 2 * h /\ 2^bits = y /\ n \in 0..(y - 1)
    <3>1. 2 * h \in Nat \ {0} /\ n \in 0..(2 * h - 1)
      BY <1>1
    <3> QED BY <3>1
  <2>2. Reads(S!written(n, bits, base), base, n)
    BY <2>1, UnsignedWritten
  <2> QED BY <2>2, ReadsPrinted
<1>2. CASE n < 0
  <2>1. n \in (0 - h)..(0 - 1)
    BY <1>2
  <2>2. Minus(S!written(n, bits, base), base, 0 - n) \/ Reads(S!written(n, bits, base), base, n + 2 * h)
    BY <2>1, NegativeWritten
  <2> QED BY <2>2, ReadsPrinted
<1> QED BY <1>1, <1>2

\* The parts of NumbersReadBack.
IntsReadBack(n, base) ==
    LET s == S!from_int(n, base)
        u == S!from_uint(n % 2^IntBits, base)
        b == <<"7">> \o u \o <<"1">>
        k == Len(s)
    IN  /\ LongBits > IntBits \/ n >= 0 \/ base = 10 => S!to_int(s, base) = n
        /\ LongBits > IntBits => to_int(<<"7">> \o s \o <<"1">>, View(1, k), base) = n
        /\ S!to_uint(u, base) = n % 2^IntBits /\ to_uint(b, View(1, Len(u)), base) = n % 2^IntBits
LongsReadBack(m, base) ==
    LET s == S!from_int64(m, base)
        u == S!from_uint16(m % 2^LongBits, base)
    IN  /\ S!to_int64(s, base) = (IF m >= 0 \/ base = 10 THEN m ELSE 2^(LongBits - 1) - 1)
        /\ to_int64(s \o <<"1">>, View(0, Len(s)), base) = S!to_int64(s, base)
        /\ S!to_uint64(u, base) = m % 2^LongBits
        /\ to_uint64(<<"1">> \o u, View(1, Len(u)), base) = m % 2^LongBits

LEMMA IntsAreRead ==
    ASSUME NEW i, NEW w, Widths(i, w), NEW base \in Bases, NEW n \in (0 - i)..(i - 1)
    PROVE  IntsReadBack(n, base)
<1>1. i \in Nat \ {0} /\ 2^IntBits = 2 * i
  BY DEF Widths
<1>2. PICK s : s = S!from_int(n, base) /\ Printed(s)
  <2>1. Printed(S!written(n, IntBits, base))
    BY <1>1, SignedPrinted
  <2> QED BY <2>1 DEF S!from_int
<1>3. PICK x : x = n % 2^IntBits /\ x \in 0..(2 * i - 1)
  <2>1. n % (2 * i) \in 0..(2 * i - 1)
    <3>1. PICK y \in Nat \ {0} : y = 2 * i
      BY <1>1
    <3>2. n % y \in 0..(y - 1)
      BY <3>1
    <3> QED BY <3>1, <3>2
  <2> QED BY <1>1, <2>1
<1>4. PICK u : u = S!from_uint(x, base) /\ Reads(u, base, x) /\ S!to_uint(u, base) = x
  <2>1. Reads(S!from_uint(x, base), base, x) /\ S!to_uint(S!from_uint(x, base), base) = x
    BY <1>3, UintRead
  <2> QED BY <2>1
<1>5. Printed(u)
  BY <1>4, ReadsPrinted
<1>6. LongBits > IntBits \/ n >= 0 \/ base = 10 => S!to_int(s, base) = n
  BY <1>2, IntRead
<1>7. chars(<<"7">> \o s \o <<"1">>, View(1, Len(s))) = s
  BY <1>2, AmongDigits
<1>8. chars(<<"7">> \o u \o <<"1">>, View(1, Len(u))) = u
  BY <1>5, AmongDigits
<1>9. LongBits > IntBits => to_int(<<"7">> \o s \o <<"1">>, View(1, Len(s)), base) = n
  BY <1>6, <1>7, Zenon DEF to_int
<1>10. to_uint(<<"7">> \o u \o <<"1">>, View(1, Len(u)), base) = x
  BY <1>4, <1>8, Zenon DEF to_uint
<1> QED BY <1>2, <1>3, <1>4, <1>6, <1>9, <1>10, Zenon DEF IntsReadBack

LEMMA LongsAreRead ==
    ASSUME NEW i, NEW w, Widths(i, w), NEW base \in Bases, NEW n \in (0 - w)..(w - 1)
    PROVE  LongsReadBack(n, base)
<1>1. w \in Nat \ {0} /\ 2^LongBits = 2 * w /\ 2^(LongBits - 1) = w
  BY DEF Widths
<1>2. PICK s : s = S!from_int64(n, base) /\ Printed(s)
  <2>1. Printed(S!written(n, LongBits, base))
    BY <1>1, SignedPrinted
  <2> QED BY <2>1 DEF S!from_int64
<1>3. PICK x : x = n % 2^LongBits /\ x \in 0..(2 * w - 1)
  <2>1. n % (2 * w) \in 0..(2 * w - 1)
    <3>1. PICK y \in Nat \ {0} : y = 2 * w
      BY <1>1
    <3>2. n % y \in 0..(y - 1)
      BY <3>1
    <3> QED BY <3>1, <3>2
  <2> QED BY <1>1, <2>1
<1>4. PICK u : u = S!from_uint16(x, base) /\ Reads(u, base, x) /\ S!to_uint64(u, base) = x
  <2>1. Reads(S!from_uint16(x, base), base, x) /\ S!to_uint64(S!from_uint16(x, base), base) = x
    BY <1>3, Uint64Read
  <2> QED BY <2>1
<1>5. Printed(u)
  BY <1>4, ReadsPrinted
<1>6. S!to_int64(s, base) = (IF n >= 0 \/ base = 10 THEN n ELSE 2^(LongBits - 1) - 1)
  BY <1>1, <1>2, Int64Read
<1>7. chars(s \o <<"1">>, View(0, Len(s))) = s
  BY <1>2, AmongDigits
<1>8. chars(<<"1">> \o u, View(1, Len(u))) = u
  BY <1>5, AmongDigits
<1>9. to_int64(s \o <<"1">>, View(0, Len(s)), base) = S!to_int64(s, base)
  BY <1>7, Zenon DEF to_int64
<1>10. to_uint64(<<"1">> \o u, View(1, Len(u)), base) = x
  BY <1>4, <1>8, Zenon DEF to_uint64
<1> QED BY <1>2, <1>3, <1>4, <1>6, <1>9, <1>10, Zenon DEF LongsReadBack

\* Every number is read back as it was written: NumbersReadBack.
LEMMA NumbersAreRead == NumbersReadBack
<1>1. PICK i, w : Widths(i, w)
  BY WidthsAre
<1>2. i \in Nat \ {0} /\ w \in Nat \ {0} /\ i <= w /\ 2^(IntBits - 1) = i /\ 2^IntBits = 2 * i /\ 2^(LongBits - 1) = w
  BY <1>1 DEF Widths
<1>3. \A n \in (0 - 2^(IntBits - 1))..(2^(IntBits - 1) - 1), base \in {8, 10, 16} : IntsReadBack(n, base)
  BY <1>1, <1>2, IntsAreRead, Zenon DEF Bases
<1>4. \A m \in {0 - 2^(LongBits - 1), -1, 0, 2^IntBits, 2^(LongBits - 1) - 1}, base \in {8, 10, 16} :
          m < 2^(LongBits - 1) => LongsReadBack(m, base)
  <2>1. \A m \in {0 - 2^(LongBits - 1), -1, 0, 2^IntBits, 2^(LongBits - 1) - 1} :
          m < 2^(LongBits - 1) => m \in (0 - w)..(w - 1)
    BY <1>2
  <2> QED BY <1>1, <2>1, LongsAreRead, Zenon DEF Bases
<1>5. \A v \in BOOLEAN : S!to_bool(S!from_bool(v)) = v
  BY DEF S!to_bool, S!from_bool
<1> QED BY <1>3, <1>4, <1>5, Zenon DEF NumbersReadBack, IntsReadBack, LongsReadBack

\* A view and a string agree, and the edits of a string can be undone: of every string,
\* and of every number that is written into one.
THEOREM ViewsDenoting == LibrarySpec => []ViewsDenote
<1>1. LibraryInit => TextInv
  BY EmptyText, Zenon DEF LibraryInit, TextInv
<1>2. TextInv /\ [LibraryNext]_libraryVars => TextInv'
  BY TextKept
<1>3. TextInv => ViewsDenote
  <2>1. ASSUME call = "text", text \in Seq(Letters) PROVE ViewsDenote
    <3>1. ViewsAgree(text) /\ Edits(text)
          /\ S!split(C!join(S!split(text, Blank), <<" ">>), Blank) = S!split(text, Blank)
      BY <2>1, ViewsAgreed, EditsAre, JoinedSplits
    <3> QED BY <3>1, NumbersAreRead, Zenon DEF ViewsDenote
  <2>2. call # "text" => ViewsDenote
    BY Zenon DEF ViewsDenote
  <2> QED BY <2>1, <2>2, Zenon DEF TextInv
<1> QED BY <1>1, <1>2, <1>3, PTL DEF LibrarySpec

-----------------------------------------------------------------------------
(***************************************************************************)
(* Printf: rows, signs, marks and rounding as C has them, in every field    *)
(* and of every number.                                                     *)
(***************************************************************************)
\* A row of the same character.
LEMMA CopiesAre ==
    ASSUME NEW X, NEW c \in X, NEW n \in Int
    PROVE  /\ copies(c, n) \in Seq(X) /\ Len(copies(c, n)) = (IF n > 0 THEN n ELSE 0)
           /\ \A i \in 1..n : copies(c, n)[i] = c
           /\ n <= 0 => copies(c, n) = <<>>
<1>1. CASE n > 0
  <2>1. n \in Nat /\ copies(c, n) = [i \in 1..n |-> c]
    BY <1>1 DEF copies
  <2>2. [i \in 1..n |-> c] \in Seq(X) /\ Len([i \in 1..n |-> c]) = n
    BY <2>1
  <2>3. \A i \in 1..n : [j \in 1..n |-> c][i] = c
    OBVIOUS
  <2> QED BY <1>1, <2>1, <2>2, <2>3
<1>2. CASE ~(n > 0)
  <2>1. 1..n = 1..0 /\ n <= 0
    BY <1>2
  <2>2. copies(c, n) = [i \in 1..0 |-> c]
    BY <2>1 DEF copies
  <2>3. [i \in 1..0 |-> c] \in Seq(X) /\ Len([i \in 1..0 |-> c]) = 0
    OBVIOUS
  <2>4. [i \in 1..0 |-> c] = <<>>
    BY <2>3, EmptySeq
  <2> QED BY <1>2, <2>1, <2>2, <2>3, <2>4, EmptySeq
<1> QED BY <1>1, <1>2

\* Tokens of a text, as one: a character and a text.
LEMMA Before ==
    ASSUME NEW X, NEW c \in X, NEW s \in Seq(X)
    PROVE  /\ <<c>> \o s \in Seq(X) /\ Len(<<c>> \o s) = Len(s) + 1 /\ <<c>> \o s # <<>>
           /\ (<<c>> \o s)[1] = c /\ \A i \in 1..Len(s) : (<<c>> \o s)[i + 1] = s[i]
           /\ Tail(<<c>> \o s) = s
<1>1. <<c>> \in Seq(X) /\ Len(<<c>>) = 1 /\ <<c>>[1] = c
  OBVIOUS
<1>2. Len(s) \in Nat
  BY LenProperties
<1>3. PICK t : t = <<c>> \o s
  OBVIOUS
<1>4. /\ t \in Seq(X) /\ Len(t) = Len(s) + 1
      /\ \A i \in 1..(Len(s) + 1) : t[i] = IF i <= 1 THEN c ELSE s[i - 1]
  BY <1>1, <1>2, <1>3, ConcatProperties
<1>5. t # <<>>
  BY <1>2, <1>4
<1>6. \A i \in 1..Len(s) : t[i + 1] = s[i]
  BY <1>2, <1>4
<1>7. Tail(t) = s
  <2>1. Tail(t) \in Seq(X) /\ Len(Tail(t)) = Len(s) /\ \A i \in 1..Len(s) : Tail(t)[i] = t[i + 1]
    BY <1>2, <1>4, <1>5, HeadTailProperties
  <2> QED BY <1>6, <2>1, SeqEqual
<1> QED BY <1>2, <1>3, <1>4, <1>5, <1>6, <1>7

LEMMA CopiesNext ==
    ASSUME NEW X, NEW c \in X, NEW n \in Nat
    PROVE  copies(c, n + 1) = <<c>> \o copies(c, n)
<1>1. PICK s : s = copies(c, n) /\ s \in Seq(X) /\ Len(s) = n /\ \A i \in 1..n : s[i] = c
  <2>1. /\ copies(c, n) \in Seq(X) /\ Len(copies(c, n)) = (IF n > 0 THEN n ELSE 0)
        /\ \A i \in 1..n : copies(c, n)[i] = c
    BY CopiesAre
  <2>2. Len(copies(c, n)) = n
    BY <2>1
  <2> QED BY <2>1, <2>2
<1>2. PICK t : t = copies(c, n + 1) /\ t \in Seq(X) /\ Len(t) = n + 1 /\ \A i \in 1..(n + 1) : t[i] = c
  <2>1. n + 1 \in Int /\ n + 1 > 0
    OBVIOUS
  <2>2. /\ copies(c, n + 1) \in Seq(X) /\ Len(copies(c, n + 1)) = (IF n + 1 > 0 THEN n + 1 ELSE 0)
        /\ \A i \in 1..(n + 1) : copies(c, n + 1)[i] = c
    BY <2>1, CopiesAre
  <2> QED BY <2>1, <2>2
<1>3. PICK u : /\ u = <<c>> \o s /\ u \in Seq(X) /\ Len(u) = n + 1
               /\ u[1] = c /\ \A i \in 1..n : u[i + 1] = s[i]
  <2>1. Len(<<c>> \o s) = n + 1 /\ \A i \in 1..n : (<<c>> \o s)[i + 1] = s[i]
    BY <1>1, Before
  <2>2. <<c>> \o s \in Seq(X) /\ (<<c>> \o s)[1] = c
    BY <1>1, Before
  <2> QED BY <2>1, <2>2
<1>4. ASSUME NEW i \in 1..(n + 1) PROVE u[i] = t[i]
  <2>1. CASE i = 1
    BY <1>2, <1>3, <2>1
  <2>2. CASE i # 1
    <3>1. PICK j \in 1..n : i = j + 1
      <4>1. i - 1 \in 1..n /\ i = (i - 1) + 1
        BY <2>2
      <4> QED BY <4>1
    <3> QED BY <1>1, <1>2, <1>3, <3>1
  <2> QED BY <2>1, <2>2
<1>5. u = t
  BY <1>2, <1>3, <1>4, SeqEqual
<1> QED BY <1>1, <1>2, <1>3, <1>5

LEMMA GlyphsAre ==
    /\ "0" \in Glyph /\ "-" \in Glyph /\ "+" \in Glyph /\ " " \in Glyph /\ "." \in Glyph
    /\ "x" \in Glyph /\ "X" \in Glyph /\ "b" \in Glyph
<1>1. Lower[1] = "0" /\ Lower[12] = "b"
  BY DEF Lower
<1>2. Lower[1] \in Glyph /\ Lower[12] \in Glyph
  BY DEF Glyph
<1> QED BY <1>1, <1>2 DEF Glyph

\* Two texts, and three.
LEMMA TwoJoined ==
    ASSUME NEW X, NEW a \in Seq(X), NEW b \in Seq(X)
    PROVE  /\ a \o b \in Seq(X) /\ Len(a \o b) = Len(a) + Len(b) /\ Len(a) \in Nat /\ Len(b) \in Nat
           /\ a \o <<>> = a /\ <<>> \o a = a
BY ConcatProperties, ConcatEmptySeq, LenProperties

\* Room is left in the buffer.
LEMMA LeadRoom ==
    ASSUME NEW X, NEW s \in Seq(X), NEW c \in X, Len(s) < Bufsiz
    PROVE  lead(s, c) = <<c>> \o s
BY DEF lead

LEMMA ZerosIs ==
    ASSUME NEW s \in Seq(Glyph), NEW n \in Nat, n <= Bufsiz
    PROVE  zeros(s, n) = copies("0", n - Len(s)) \o s
<1>1. smaller(n, Bufsiz) = n
  BY PrintfAssumption DEF smaller
<1> QED BY <1>1 DEF zeros

\* What zeros put in front of a text.
LEMMA Fronted ==
    ASSUME NEW s \in Seq(Glyph), NEW c \in Glyph, NEW n \in Int
    PROVE  /\ copies(c, n) \o s \in Seq(Glyph)
           /\ Len(copies(c, n) \o s) = (IF n > 0 THEN n ELSE 0) + Len(s)
           /\ n <= 0 => copies(c, n) \o s = s
           /\ n > 0 => copies(c, n) \o s # <<>> /\ drop(copies(c, n) \o s) = copies(c, n - 1) \o s
<1>1. /\ copies(c, n) \in Seq(Glyph) /\ Len(copies(c, n)) = (IF n > 0 THEN n ELSE 0)
      /\ n <= 0 => copies(c, n) = <<>>
  BY CopiesAre
<1>2. /\ copies(c, n) \o s \in Seq(Glyph) /\ Len(copies(c, n) \o s) = Len(copies(c, n)) + Len(s)
      /\ <<>> \o s = s
  BY <1>1, TwoJoined
<1>3. ASSUME n > 0
      PROVE  copies(c, n) \o s # <<>> /\ drop(copies(c, n) \o s) = copies(c, n - 1) \o s
  <2>1. PICK m \in Nat : n = m + 1 /\ n - 1 = m
    <3>1. n - 1 \in Nat /\ n = (n - 1) + 1
      BY <1>3
    <3> QED BY <3>1
  <2>2. copies(c, n) = <<c>> \o copies(c, m)
    BY <2>1, CopiesNext
  <2>3. <<c>> \in Seq(Glyph) /\ copies(c, m) \in Seq(Glyph)
    <3>1. m \in Int
      BY <2>1
    <3> QED BY <3>1, CopiesAre
  <2>4. copies(c, n) \o s = <<c>> \o (copies(c, m) \o s)
    BY <2>2, <2>3, ConcatAssociative
  <2>5. copies(c, m) \o s \in Seq(Glyph)
    BY <2>3, TwoJoined
  <2>6. /\ <<c>> \o (copies(c, m) \o s) # <<>>
        /\ Tail(<<c>> \o (copies(c, m) \o s)) = copies(c, m) \o s
    BY <2>5, Before
  <2> QED BY <2>1, <2>4, <2>6 DEF drop
<1> QED BY <1>1, <1>2, <1>3

\* Zeros fill the field, if they are asked for.
Zeroed(d) == has(d, "zeropad") /\ ~has(d, "left")
Padded(x, d) == IF Zeroed(d) THEN zeros(x, d.width) ELSE x

\* A text behind its head and zeros.
LEMMA FilledIs ==
    ASSUME NEW d, d.width \in Nat, NEW h \in Seq(Glyph), NEW x \in Seq(Glyph)
    PROVE  /\ ~Zeroed(d) \/ d.width <= Len(h) + Len(x) => zero_filled(h, x, d) = h \o x
           /\ Zeroed(d) => zero_filled(h, x, d) = h \o (copies("0", d.width - (Len(h) + Len(x))) \o x)
           /\ zero_filled(h, x, d) \in Seq(Glyph)
           /\ Zeroed(d) => Len(zero_filled(h, x, d)) >= d.width
<1>1. Len(h) \in Nat /\ Len(x) \in Nat /\ Len(h \o x) = Len(h) + Len(x) /\ h \o <<>> = h /\ h \o x \in Seq(Glyph)
  BY TwoJoined
<1>2. PICK n \in Int : n = d.width - (Len(h) + Len(x))
  BY <1>1
<1>3. PICK f : /\ f = copies("0", n) /\ f \in Seq(Glyph) /\ Len(f) = (IF n > 0 THEN n ELSE 0)
               /\ n <= 0 => f = <<>>
  BY CopiesAre, GlyphsAre
<1>4. zero_filled(h, x, d) = h \o (IF Zeroed(d) THEN f ELSE <<>>) \o x
  BY <1>1, <1>2, <1>3 DEF zero_filled, fill, Zeroed
<1>5. h \o f \o x = h \o (f \o x) /\ f \o x \in Seq(Glyph) /\ Len(f \o x) = Len(f) + Len(x)
  BY <1>3, ConcatAssociative, TwoJoined, SMTT(30)
<1>6. h \o (f \o x) \in Seq(Glyph) /\ Len(h \o (f \o x)) = Len(h) + Len(f \o x)
  BY <1>5, TwoJoined
<1>7. CASE Zeroed(d)
  <2>1. zero_filled(h, x, d) = h \o (f \o x)
    BY <1>4, <1>5, <1>7
  <2>2. Len(zero_filled(h, x, d)) >= d.width
    BY <1>1, <1>2, <1>3, <1>5, <1>6, <2>1
  <2>3. ASSUME d.width <= Len(h) + Len(x) PROVE zero_filled(h, x, d) = h \o x
    <3>1. n <= 0
      BY <1>1, <1>2, <2>3
    <3>2. f = <<>>
      BY <1>3, <3>1
    <3> QED BY <1>1, <1>4, <1>7, <3>2
  <2> QED BY <1>2, <1>3, <1>6, <1>7, <2>1, <2>2, <2>3
<1>8. CASE ~Zeroed(d)
  BY <1>1, <1>4, <1>8
<1> QED BY <1>7, <1>8

\* Blanks fill the field, if zeros do not.
LEMMA SpacesIs ==
    ASSUME NEW d, d.width \in Nat, NEW h \in Seq(Glyph), NEW x \in Seq(Glyph)
    PROVE  spaces(zero_filled(h, x, d), d) = in_field(zero_filled(h, x, d), d)
<1>1. PICK y : y = zero_filled(h, x, d) /\ y \in Seq(Glyph) /\ (Zeroed(d) => Len(y) >= d.width)
  BY FilledIs
<1>2. CASE has(d, "left")
  BY <1>1, <1>2 DEF spaces, in_field, fill
<1>3. CASE ~has(d, "left") /\ has(d, "zeropad")
  <2>1. d.width - Len(y) \in Int /\ d.width - Len(y) <= 0
    BY <1>1, <1>3, LenProperties DEF Zeroed
  <2>2. copies(" ", d.width - Len(y)) = <<>>
    BY <2>1, CopiesAre, GlyphsAre
  <2>3. in_field(y, d) = <<>> \o y
    BY <1>3, <2>2 DEF in_field, fill
  <2> QED BY <1>1, <1>3, <2>3, TwoJoined DEF spaces
<1>4. CASE ~has(d, "left") /\ ~has(d, "zeropad")
  BY <1>1, <1>4 DEF spaces, in_field, fill
<1> QED BY <1>2, <1>3, <1>4

\* A sign in front of a text takes the place of a zero, unless the text fills the field.
LEMMA SignIs ==
    ASSUME NEW d, d.width \in Nat, NEW negated \in BOOLEAN, NEW x \in Seq(Glyph), Len(x) + 1 <= Bufsiz,
           Zeroed(d) => d.width <= Bufsiz, signed(d, negated) => Len(x) # d.width
    PROVE  sign(Padded(x, d), negated, d) = zero_filled(sign_of(negated, d), x, d) /\ sign_of(negated, d) \in Seq(Glyph)
<1>1. PICK w \in Nat, n \in Nat, m \in Int : w = d.width /\ n = Len(x) /\ m = w - n /\ Bufsiz \in Nat
  <2>1. d.width - Len(x) \in Int /\ Len(x) \in Nat
    BY LenProperties
  <2> QED BY <2>1, PrintfAssumption
<1>2. <<>> \in Seq(Glyph) /\ Len(<<>>) = 0
  BY EmptySeq
<1>4. PICK a \in Seq(Glyph), b \in Seq(Glyph) :
         /\ a = copies("0", m) \o x /\ b = copies("0", m - 1) \o x
         /\ m > 0 => Len(a) = m + n /\ (Len(b) = n \/ Len(b) = m - 1 + n)
         /\ m <= 0 => a = x
         /\ m > 0 => a # <<>> /\ drop(a) = b
  <2>1. PICK l \in Int : l = m - 1
    OBVIOUS
  <2>2. /\ copies("0", m) \o x \in Seq(Glyph) /\ Len(copies("0", m) \o x) = (IF m > 0 THEN m ELSE 0) + Len(x)
        /\ m <= 0 => copies("0", m) \o x = x
        /\ m > 0 => copies("0", m) \o x # <<>> /\ drop(copies("0", m) \o x) = copies("0", m - 1) \o x
    BY Fronted, GlyphsAre
  <2>3. copies("0", l) \o x \in Seq(Glyph) /\ Len(copies("0", l) \o x) = (IF l > 0 THEN l ELSE 0) + Len(x)
    BY <2>1, Fronted, GlyphsAre
  <2>4. ASSUME m > 0
        PROVE  /\ Len(copies("0", m) \o x) = m + n
               /\ Len(copies("0", l) \o x) = n \/ Len(copies("0", l) \o x) = m - 1 + n
    <3>1. (IF m > 0 THEN m ELSE 0) = m /\ ((IF l > 0 THEN l ELSE 0) = l \/ (IF l > 0 THEN l ELSE 0) = 0)
      BY <2>4
    <3>2. l + n = m - 1 + n /\ 0 + n = n
      BY <2>1
    <3> QED BY <1>1, <2>2, <2>3, <3>1, <3>2
  <2> QED BY <1>1, <2>1, <2>2, <2>3, <2>4
<1>3. Zeroed(d) => Padded(x, d) = a
  <2>1. ASSUME Zeroed(d) PROVE zeros(x, d.width) = copies("0", d.width - Len(x)) \o x
    BY <2>1, ZerosIs
  <2> QED BY <1>1, <1>4, <2>1 DEF Padded
<1>5. CASE signed(d, negated)
  <2>1. PICK g \in Glyph : /\ sign_of(negated, d) = <<g>>
                           /\ \A t : sign(t, negated, d) = lead(IF t # <<>> /\ Len(t) = w THEN drop(t) ELSE t, g)
    <3>1. CASE negated
      <4>1. sign_of(negated, d) = <<"-">>
        BY <3>1 DEF sign_of
      <4>2. \A t : sign(t, negated, d) = lead(IF t # <<>> /\ Len(t) = w THEN drop(t) ELSE t, "-")
        BY <1>1, <1>5, <3>1 DEF sign
      <4> QED BY <4>1, <4>2, GlyphsAre
    <3>2. CASE ~negated /\ has(d, "plus")
      <4>1. sign_of(negated, d) = <<"+">>
        BY <3>2 DEF sign_of
      <4>2. \A t : sign(t, negated, d) = lead(IF t # <<>> /\ Len(t) = w THEN drop(t) ELSE t, "+")
        BY <1>1, <1>5, <3>2 DEF sign
      <4> QED BY <4>1, <4>2, GlyphsAre
    <3>3. CASE ~negated /\ ~has(d, "plus") /\ has(d, "space")
      <4>1. sign_of(negated, d) = <<" ">>
        BY <3>3 DEF sign_of
      <4>2. \A t : sign(t, negated, d) = lead(IF t # <<>> /\ Len(t) = w THEN drop(t) ELSE t, " ")
        BY <1>1, <1>5, <3>3 DEF sign
      <4> QED BY <4>1, <4>2, GlyphsAre
    <3> QED BY <1>5, <3>1, <3>2, <3>3 DEF signed
  <2>2. <<g>> \in Seq(Glyph) /\ Len(<<g>>) = 1
    OBVIOUS
  <2>3. n # w
    BY <1>1, <1>5
  <2>4. zero_filled(sign_of(negated, d), x, d) = IF Zeroed(d) THEN <<g>> \o (copies("0", w - (1 + n)) \o x) ELSE <<g>> \o x
    <3>1. /\ ~Zeroed(d) => zero_filled(<<g>>, x, d) = <<g>> \o x
          /\ Zeroed(d) => zero_filled(<<g>>, x, d) = <<g>> \o (copies("0", d.width - (Len(<<g>>) + Len(x))) \o x)
      BY <2>2, FilledIs, ZenonT(40)
    <3> QED BY <1>1, <2>1, <2>2, <3>1
  <2>5. CASE Zeroed(d) /\ m > 0
    <3>1. w - (1 + n) = m - 1 /\ Len(a) = w /\ Len(b) < Bufsiz
      <4>1. w <= Bufsiz /\ n + 1 <= Bufsiz /\ w = m + n
        BY <1>1, <2>5
      <4>2. Len(a) = m + n /\ (Len(b) = n \/ Len(b) = m - 1 + n)
        BY <1>4, <2>5
      <4>3. Len(a) = w
        BY <4>1, <4>2
      <4>4. Len(b) < Bufsiz
        BY <1>1, <2>5, <4>1, <4>2
      <4>5. w - (1 + n) = m - 1
        BY <4>1
      <4> QED BY <4>3, <4>4, <4>5
    <3>2. sign(Padded(x, d), negated, d) = lead(b, g)
      BY <1>3, <1>4, <2>1, <2>5, <3>1
    <3>3. lead(b, g) = <<g>> \o b
      BY <1>4, <3>1, LeadRoom
    <3> QED BY <2>1, <2>2, <2>4, <2>5, <1>4, <3>1, <3>2, <3>3
  <2>6. CASE ~(Zeroed(d) /\ m > 0)
    <3>1. Padded(x, d) = x
      <4>1. CASE Zeroed(d)
        <5>1. m <= 0
          BY <2>6, <4>1
        <5> QED BY <1>3, <1>4, <4>1, <5>1
      <4>2. CASE ~Zeroed(d)
        BY <4>2 DEF Padded
      <4> QED BY <4>1, <4>2
    <3>2. sign(Padded(x, d), negated, d) = lead(x, g)
      BY <1>1, <2>1, <2>3, <3>1
    <3>3. lead(x, g) = <<g>> \o x
      <4>1. Len(x) < Bufsiz
        BY <1>1
      <4> QED BY <4>1, LeadRoom
    <3>4. ASSUME Zeroed(d) PROVE copies("0", w - (1 + n)) \o x = x
      <4>1. w - (1 + n) \in Int /\ w - (1 + n) <= 0
        BY <1>1, <2>6, <3>4
      <4> QED BY <4>1, Fronted, GlyphsAre
    <3> QED BY <2>1, <2>2, <2>4, <3>2, <3>3, <3>4
  <2> QED BY <2>5, <2>6
<1>6. CASE ~signed(d, negated)
  <2>1. sign_of(negated, d) = <<>> /\ \A t : sign(t, negated, d) = t
    BY <1>6 DEF sign_of, sign, signed
  <2>2. zero_filled(<<>>, x, d) = IF Zeroed(d) THEN <<>> \o (copies("0", w - (0 + n)) \o x) ELSE <<>> \o x
    <3>1. /\ ~Zeroed(d) => zero_filled(<<>>, x, d) = <<>> \o x
          /\ Zeroed(d) => zero_filled(<<>>, x, d) = <<>> \o (copies("0", d.width - (Len(<<>>) + Len(x))) \o x)
      BY <1>2, FilledIs, ZenonT(40)
    <3> QED BY <1>1, <1>2, <3>1
  <2>3. w - (0 + n) = m
    BY <1>1
  <2>4. <<>> \o (copies("0", m) \o x) = copies("0", m) \o x /\ <<>> \o x = x
    BY <1>4, TwoJoined
  <2>5. zero_filled(<<>>, x, d) = Padded(x, d)
    BY <1>3, <1>4, <2>2, <2>3, <2>4 DEF Padded
  <2> QED BY <1>2, <2>1, <2>5
<1> QED BY <1>5, <1>6

\* So a number without a mark of its base is written as it should be.
LEMMA SignedField ==
    ASSUME NEW d, d.width \in Nat, NEW negated \in BOOLEAN, NEW x \in Seq(Glyph), Len(x) + 1 <= Bufsiz,
           Zeroed(d) => d.width <= Bufsiz, signed(d, negated) => Len(x) # d.width
    PROVE  spaces(sign(Padded(x, d), negated, d), d) = in_field(zero_filled(sign_of(negated, d), x, d), d)
BY SignIs, SpacesIs

\* The mark of a base in front of a number.
Marked == {"x", "X", "o", "b"}
MarkOf(c) == IF c = "o" THEN <<"0">> ELSE <<"0", c>>

\* It takes the places of zeros that fill the field, if there are enough.
MarkFits(c, x, d) ==
    /\ c \in {"x", "X"} => has(d, "precision") \/ (Len(x) # d.width /\ ~(Zeroed(d) /\ d.width = Len(x) + 1))
    /\ c = "b" => has(d, "precision") \/ (Len(x) # d.width /\ ~(Zeroed(d) /\ Len(x) < d.width))
    /\ c = "o" => ~has(d, "precision") /\ Len(x) # d.width

\* The mark written in front of a text with room for it.
LEMMA MarkWritten ==
    ASSUME NEW c \in Marked, NEW t \in Seq(Glyph), Len(t) + 2 <= Bufsiz
    PROVE  /\ MarkOf(c) \in Seq(Glyph) /\ Len(MarkOf(c)) = (IF c = "o" THEN 1 ELSE 2)
           /\ c # "o" => lead(lead(t, c), "0") = MarkOf(c) \o t
           /\ c = "o" => lead(t, "0") = MarkOf(c) \o t
<1>1. Len(t) \in Nat /\ Bufsiz \in Nat
  BY LenProperties, PrintfAssumption
<1>2. Len(t) < Bufsiz /\ Len(t) + 1 < Bufsiz
  BY <1>1
<1>3. CASE c = "o"
  <2>1. <<"0">> \in Seq(Glyph) /\ Len(<<"0">>) = 1
    <3>1. \A g \in Glyph : <<g>> \in Seq(Glyph) /\ Len(<<g>>) = 1
      OBVIOUS
    <3> QED BY <3>1, GlyphsAre
  <2>2. lead(t, "0") = <<"0">> \o t
    BY <1>2, GlyphsAre, LeadRoom
  <2> QED BY <1>3, <2>1, <2>2 DEF MarkOf
<1>4. CASE c # "o"
  <2>1. c \in Glyph /\ "0" \in Glyph
    BY <1>4, GlyphsAre DEF Marked
  <2>2. <<"0", c>> \in Seq(Glyph) /\ Len(<<"0", c>>) = 2 /\ <<"0", c>> = <<"0">> \o <<c>>
    BY <2>1
  <2>3. <<"0">> \in Seq(Glyph) /\ <<c>> \in Seq(Glyph)
    BY <2>1
  <2>4. lead(t, c) = <<c>> \o t
    BY <1>2, <2>1, LeadRoom
  <2>5. PICK u : u = <<c>> \o t /\ u \in Seq(Glyph) /\ Len(u) < Bufsiz
    <3>1. <<c>> \o t \in Seq(Glyph) /\ Len(<<c>> \o t) = Len(t) + 1
      BY <2>1, Before
    <3> QED BY <1>2, <3>1
  <2>6. lead(u, "0") = <<"0">> \o u
    BY <2>1, <2>5, LeadRoom
  <2>7. (<<"0">> \o <<c>>) \o t = <<"0">> \o (<<c>> \o t)
    BY <2>3, ConcatAssociative
  <2> QED BY <1>4, <2>2, <2>4, <2>5, <2>6, <2>7 DEF MarkOf
<1> QED BY <1>3, <1>4

\* A number fills the field.
Fills(s, d) == ~has(d, "precision") /\ s # <<>> /\ Len(s) \in {d.prec, d.width}

\* mark_base without and with digits to make room for the mark.
LEMMA MarkBaseIs ==
    ASSUME NEW d, d.width \in Nat, NEW c \in Marked, has(d, "uppercase") <=> c = "X",
           ~has(d, "precision") => d.prec = 0, NEW s \in Seq(Glyph)
    PROVE  /\ has(d, "precision") \/ Len(s) # d.width =>
                 mark_base(s, base_of(c), d) = IF c = "o" THEN lead(s, "0") ELSE lead(lead(s, c), "0")
           /\ ~has(d, "precision") /\ s # <<>> /\ Len(s) = d.width =>
                 /\ c = "o" => mark_base(s, base_of(c), d) = lead(drop(s), "0")
                 /\ c \in {"x", "X"} => mark_base(s, base_of(c), d) = lead(lead(drop(drop(s)), c), "0")
<1>2. Fills(s, d) <=> ~has(d, "precision") /\ s # <<>> /\ Len(s) = d.width
  <2>1. s # <<>> => Len(s) # 0
    BY EmptySeq
  <2> QED BY <2>1 DEF Fills
<1>3. CASE c = "o"
  <2>1. base_of(c) = 8
    BY <1>3 DEF base_of
  <2>2. mark_base(s, 8, d) = lead(IF ~Fills(s, d) THEN s ELSE drop(s), "0")
    BY DEF mark_base, Fills
  <2> QED BY <1>2, <1>3, <2>1, <2>2
<1>4. CASE c = "b"
  <2>1. base_of(c) = 2
    BY <1>4 DEF base_of
  <2>2. mark_base(s, 2, d) = lead(lead(IF ~Fills(s, d) THEN s ELSE drop(s), "b"), "0")
    <3>1. CASE Fills(s, d)
      BY <3>1 DEF mark_base, Fills
    <3>2. CASE ~Fills(s, d)
      BY <3>2 DEF mark_base, Fills
    <3> QED BY <3>1, <3>2
  <2> QED BY <1>2, <1>4, <2>1, <2>2
<1>5. CASE c \in {"x", "X"}
  <2>1. base_of(c) = 16
    BY <1>5 DEF base_of
  <2>2. (IF has(d, "uppercase") THEN "X" ELSE "x") = c
    BY <1>5
  <2>3. mark_base(s, 16, d) = lead(lead(IF ~Fills(s, d) THEN s ELSE drop(drop(s)), c), "0")
    <3>1. CASE Fills(s, d)
      BY <3>1, <2>2 DEF mark_base, Fills
    <3>2. CASE ~Fills(s, d)
      BY <3>2, <2>2 DEF mark_base, Fills
    <3> QED BY <3>1, <3>2
  <2> QED BY <1>2, <1>5, <2>1, <2>3
<1> QED BY <1>3, <1>4, <1>5 DEF Marked

LEMMA MarkIs ==
    ASSUME NEW d, d.width \in Nat, NEW c \in Marked, has(d, "uppercase") <=> c = "X",
           ~has(d, "precision") => d.prec = 0, Zeroed(d) => d.width <= Bufsiz /\ ~has(d, "precision"),
           NEW x \in Seq(Glyph), Len(x) + 2 <= Bufsiz, MarkFits(c, x, d)
    PROVE  mark_base(Padded(x, d), base_of(c), d) = zero_filled(MarkOf(c), x, d)
<1>1. PICK w \in Nat, n \in Nat, m \in Int : w = d.width /\ n = Len(x) /\ m = w - n /\ Bufsiz \in Nat
  <2>1. d.width - Len(x) \in Int /\ Len(x) \in Nat
    BY LenProperties
  <2> QED BY <2>1, PrintfAssumption
<1>2. /\ MarkOf(c) \in Seq(Glyph) /\ Len(MarkOf(c)) = (IF c = "o" THEN 1 ELSE 2)
      /\ c # "o" => lead(lead(x, c), "0") = MarkOf(c) \o x
      /\ c = "o" => lead(x, "0") = MarkOf(c) \o x
  BY MarkWritten
<1>3. CASE ~(Zeroed(d) /\ m > 0)
  <2>1. Padded(x, d) = x
    <3>1. CASE Zeroed(d)
      <4>1. m <= 0 /\ zeros(x, d.width) = copies("0", d.width - Len(x)) \o x
        <5>1. d.width <= Bufsiz
          BY <3>1
        <5>2. zeros(x, d.width) = copies("0", d.width - Len(x)) \o x
          BY <5>1, ZerosIs
        <5>3. m <= 0
          BY <1>3, <3>1
        <5> QED BY <5>2, <5>3
      <4>2. copies("0", m) \o x = x
        BY <4>1, Fronted, GlyphsAre
      <4> QED BY <1>1, <3>1, <4>1, <4>2 DEF Padded
    <3>2. CASE ~Zeroed(d)
      BY <3>2 DEF Padded
    <3> QED BY <3>1, <3>2
  <2>2. has(d, "precision") \/ Len(x) # d.width
    BY DEF MarkFits, Marked
  <2>3. mark_base(x, base_of(c), d) = IF c = "o" THEN lead(x, "0") ELSE lead(lead(x, c), "0")
    BY <2>2, MarkBaseIs
  <2>4. ~Zeroed(d) \/ d.width <= Len(MarkOf(c)) + Len(x)
    BY <1>1, <1>2, <1>3
  <2>5. zero_filled(MarkOf(c), x, d) = MarkOf(c) \o x
    BY <1>2, <2>4, FilledIs
  <2> QED BY <1>2, <2>1, <2>3, <2>5
<1>4. CASE Zeroed(d) /\ m > 0
  <2>1. PICK a \in Seq(Glyph), b \in Seq(Glyph) :
            /\ a = copies("0", m) \o x /\ Len(a) = w /\ a # <<>> /\ drop(a) = b
            /\ b = copies("0", m - 1) \o x /\ Len(b) = w - 1
    <3>1. PICK l \in Nat : l = m - 1 /\ w - 1 = l + n /\ w = m + n /\ (m - 1 > 0 \/ m - 1 = 0)
      <4>1. m - 1 \in Nat
        BY <1>4
      <4>2. w - 1 = (m - 1) + n /\ w = m + n
        BY <1>1
      <4>3. m - 1 > 0 \/ m - 1 = 0
        BY <4>1
      <4> QED BY <4>1, <4>2, <4>3
    <3>2. /\ copies("0", m) \o x \in Seq(Glyph) /\ Len(copies("0", m) \o x) = m + Len(x)
          /\ copies("0", m) \o x # <<>> /\ drop(copies("0", m) \o x) = copies("0", m - 1) \o x
      BY <1>4, Fronted, GlyphsAre
    <3>3. copies("0", l) \o x \in Seq(Glyph) /\ Len(copies("0", l) \o x) = l + Len(x)
      <4>1. l \in Int /\ (l > 0 \/ l = 0)
        OBVIOUS
      <4>2. copies("0", l) \o x \in Seq(Glyph) /\ Len(copies("0", l) \o x) = (IF l > 0 THEN l ELSE 0) + Len(x)
        BY <4>1, Fronted, GlyphsAre
      <4> QED BY <4>1, <4>2
    <3> QED BY <1>1, <3>1, <3>2, <3>3
  <2>2. Padded(x, d) = a
    <3>1. zeros(x, d.width) = copies("0", d.width - Len(x)) \o x
      BY <1>4, ZerosIs
    <3> QED BY <1>1, <1>4, <2>1, <3>1 DEF Padded
  <2>3. ~has(d, "precision") /\ Len(a) = d.width /\ a # <<>> /\ Len(x) < d.width /\ w <= Bufsiz
    BY <1>1, <1>4, <2>1
  <2>4. CASE c = "o"
    <3>1. mark_base(a, base_of(c), d) = lead(b, "0")
      <4>1. c = "o" => mark_base(a, base_of(c), d) = lead(drop(a), "0")
        BY <2>3, MarkBaseIs
      <4> QED BY <2>1, <2>4, <4>1
    <3>2. lead(b, "0") = <<"0">> \o b
      <4>1. Len(b) < Bufsiz
        BY <1>1, <2>1, <2>3
      <4> QED BY <4>1, LeadRoom, GlyphsAre
    <3>3. w - (1 + n) = m - 1 /\ Len(MarkOf(c)) = 1
      BY <1>1, <1>2, <2>4, SMTT(30)
    <3>4. zero_filled(MarkOf(c), x, d) = MarkOf(c) \o (copies("0", d.width - (Len(MarkOf(c)) + Len(x))) \o x)
      BY <1>2, <1>4, FilledIs
    <3> QED BY <1>1, <2>1, <2>2, <2>4, <3>1, <3>2, <3>3, <3>4 DEF MarkOf
  <2>5. CASE c \in {"x", "X"}
    <3>1. mark_base(a, base_of(c), d) = lead(lead(drop(b), c), "0")
      <4>1. c \in {"x", "X"} => mark_base(a, base_of(c), d) = lead(lead(drop(drop(a)), c), "0")
        BY <2>3, MarkBaseIs
      <4> QED BY <2>1, <2>5, <4>1
    <3>2. m - 1 > 0 /\ m - 1 \in Int /\ (m - 1) - 1 = m - 2
      <4>1. d.width # Len(x) + 1
        BY <1>4, <2>3, <2>5 DEF MarkFits
      <4> QED BY <1>1, <1>4, <4>1
    <3>3. PICK e \in Seq(Glyph) : e = copies("0", m - 2) \o x /\ drop(b) = e /\ Len(e) + 2 <= Bufsiz
      <4>1. PICK l \in Int : l = m - 1 /\ l > 0
        BY <3>2
      <4>2. drop(copies("0", l) \o x) = copies("0", l - 1) \o x
        BY <4>1, Fronted, GlyphsAre
      <4>3. PICK k \in Nat : k = m - 2 /\ k = l - 1 /\ (k > 0 \/ k = 0) /\ k + n + 2 = w
        <5>1. m - 2 \in Nat /\ m - 2 = l - 1 /\ m - 2 + n + 2 = w
          <6>1. m - 2 \in Nat
            BY <3>2
          <6>2. m - 2 = l - 1
            BY <4>1
          <6>3. m - 2 + n + 2 = w
            BY <1>1, SMTT(30)
          <6> QED BY <6>1, <6>2, <6>3
        <5> QED BY <5>1
      <4>4. copies("0", k) \o x \in Seq(Glyph) /\ Len(copies("0", k) \o x) = (IF k > 0 THEN k ELSE 0) + Len(x)
        <5>1. k \in Int
          OBVIOUS
        <5> QED BY <5>1, Fronted, GlyphsAre
      <4>5. (IF k > 0 THEN k ELSE 0) = k
        BY <4>3
      <4>6. Len(copies("0", k) \o x) + 2 <= Bufsiz
        <5>1. Len(copies("0", k) \o x) = k + n
          BY <1>1, <4>4, <4>5
        <5> QED BY <2>3, <4>3, <5>1
      <4> QED BY <2>1, <4>1, <4>2, <4>3, <4>4, <4>6
    <3>4. c # "o" /\ lead(lead(e, c), "0") = MarkOf(c) \o e
      <4>1. c # "o"
        BY <2>5
      <4> QED BY <3>3, <4>1, MarkWritten
    <3>5. w - (2 + n) = m - 2 /\ Len(MarkOf(c)) = 2
      <4>1. (IF c = "o" THEN 1 ELSE 2) = 2
        BY <3>4
      <4>2. w - (2 + n) = m - 2
        BY <1>1, SMTT(30)
      <4> QED BY <1>2, <4>1, <4>2
    <3>6. zero_filled(MarkOf(c), x, d) = MarkOf(c) \o (copies("0", d.width - (Len(MarkOf(c)) + Len(x))) \o x)
      BY <1>2, <1>4, FilledIs
    <3> QED BY <1>1, <2>2, <3>1, <3>3, <3>4, <3>5, <3>6
  <2>6. c # "b"
    BY <1>4, <2>3 DEF MarkFits
  <2> QED BY <2>4, <2>5, <2>6 DEF Marked
<1> QED BY <1>3, <1>4

\* What a directive can be: uppercase is never asked for, and a precision only with its mark.
Options == {"zeropad", "left", "plus", "space", "hash", "precision", "long", "longlong", "short", "char"}
Directives ==
    {d \in [flags : SUBSET Options, width : Nat, prec : Nat, omitted : BOOLEAN] : has(d, "precision") \/ d.prec = 0}
Integral == {"d", "u", "x", "X", "o", "b"}

\* The options that integer and ltoa leave: d as ntoa gets it.
Dropped(c, d) ==
    (IF base_of(c) = 10 THEN {"hash"} ELSE {}) \cup (IF c # "d" THEN {"plus", "space"} ELSE {})
    \cup (IF has(d, "precision") THEN {"zeropad"} ELSE {})
Left(c, d) == [d EXCEPT !.flags = (@ \ Dropped(c, d)) \cup (IF c = "X" THEN {"uppercase"} ELSE {})]
Effective(c, n, d) == IF n = 0 THEN [Left(c, d) EXCEPT !.flags = @ \ {"hash"}] ELSE Left(c, d)

LEMMA EffectiveIs ==
    ASSUME NEW d \in Directives, NEW c \in Integral, NEW n, NEW e, e = Effective(c, n, d)
    PROVE  /\ e.width = d.width /\ e.prec = d.prec
           /\ has(e, "left") <=> has(d, "left")
           /\ has(e, "precision") <=> has(d, "precision")
           /\ has(e, "zeropad") <=> has(d, "zeropad") /\ ~has(d, "precision")
           /\ has(e, "hash") <=> marked(c, n, d)
           /\ has(e, "uppercase") <=> c = "X"
           /\ has(e, "plus") <=> c = "d" /\ has(d, "plus")
           /\ has(e, "space") <=> c = "d" /\ has(d, "space")
<1>1. PICK f : f = Left(c, d)
  OBVIOUS
<1>2. f = [flags |-> (d.flags \ Dropped(c, d)) \cup (IF c = "X" THEN {"uppercase"} ELSE {}),
           width |-> d.width, prec |-> d.prec, omitted |-> d.omitted]
  BY <1>1 DEF Left, Directives
<1>3. /\ f.width = d.width /\ f.prec = d.prec
      /\ f.flags = (d.flags \ Dropped(c, d)) \cup (IF c = "X" THEN {"uppercase"} ELSE {})
  BY <1>2
<1>4. /\ e.width = d.width /\ e.prec = d.prec
      /\ n = 0 => e.flags = f.flags \ {"hash"}
      /\ n # 0 => e.flags = f.flags
  BY <1>1, <1>2, <1>3 DEF Effective
<1>5. d.flags \subseteq Options
  BY DEF Directives
<1>6. \A o \in {"left", "precision", "long", "longlong"} : o \in e.flags <=> o \in d.flags
  BY <1>3, <1>4 DEF Dropped
<1>7. "zeropad" \in e.flags <=> "zeropad" \in d.flags /\ "precision" \notin d.flags
  BY <1>3, <1>4 DEF Dropped, has
<1>8. "hash" \in e.flags <=> "hash" \in d.flags /\ base_of(c) # 10 /\ n # 0
  BY <1>3, <1>4 DEF Dropped
<1>9. "uppercase" \in e.flags <=> c = "X"
  BY <1>3, <1>4, <1>5 DEF Options
<1>10. \A o \in {"plus", "space"} : o \in e.flags <=> c = "d" /\ o \in d.flags
  BY <1>3, <1>4 DEF Dropped
<1> QED BY <1>4, <1>6, <1>7, <1>8, <1>9, <1>10 DEF has, marked

\* The number that is written is its value without the sign.
Counted(c, v, d) == IF c = "d" THEN ABS(v, passed_bits(d)) ELSE v % 2^passed_bits(d)
Passed(d) == (0 - 2^(passed_bits(d) - 1))..(2^(passed_bits(d) - 1) - 1)

LEMMA CountedIs ==
    ASSUME NEW d, NEW c, NEW v \in Passed(d), converted(c, v, d) = of_width(c, v, passed_bits(d)),
           c = "d" /\ ~has(d, "long") => magnitude(c, v, d) < 2^(IntBits - 1)
    PROVE  /\ Counted(c, v, d) = magnitude(c, v, d) /\ magnitude(c, v, d) \in Nat
           /\ c = "d" => converted(c, v, d) = v
<1>1. PICK i, w : Widths(i, w)
  BY WidthsAre
<1>2. PICK h \in Nat \ {0} :
         /\ 2^(passed_bits(d) - 1) = h /\ 2^passed_bits(d) = 2 * h /\ h <= w
         /\ has(d, "long") => h = w
         /\ ~has(d, "long") => h = 2^(IntBits - 1)
  <2>1. CASE has(d, "long")
    <3>1. passed_bits(d) = LongBits
      BY <2>1 DEF passed_bits
    <3>2. w \in Nat \ {0} /\ w <= w /\ 2^(LongBits - 1) = w /\ 2^LongBits = 2 * w
      BY <1>1 DEF Widths
    <3> QED BY <2>1, <3>1, <3>2
  <2>2. CASE ~has(d, "long")
    <3>1. passed_bits(d) = IntBits
      BY <2>2 DEF passed_bits
    <3>2. i \in Nat \ {0} /\ i <= w /\ 2^(IntBits - 1) = i /\ 2^IntBits = 2 * i
      BY <1>1 DEF Widths
    <3> QED BY <2>2, <3>1, <3>2
  <2> QED BY <2>1, <2>2
<1>3. 2^LongBits = 2 * w /\ w \in Nat \ {0}
  BY <1>1 DEF Widths
<1>4. v \in (0 - h)..(h - 1)
  BY <1>2 DEF Passed
<1>5. PICK x : x = converted(c, v, d) /\ x = of_width(c, v, passed_bits(d))
  OBVIOUS
<1>6. magnitude(c, v, d) = IF x < 0 THEN 0 - x ELSE x
  BY <1>5 DEF magnitude
<1>7. CASE c = "d"
  <2>1. x = v
    <3>1. x = ((v + h) % (2 * h)) - h
      BY <1>2, <1>5, <1>7 DEF of_width, wrap
    <3>2. v + h \in 0..(2 * h - 1) /\ 2 * h \in Nat \ {0}
      BY <1>4
    <3>3. (v + h) % (2 * h) = v + h
      BY <3>2, Modulus
    <3> QED BY <1>4, <3>1, <3>3
  <2>2. Counted(c, v, d) = IF v < 0 /\ v # 0 - h THEN 0 - v ELSE v % (2 * w)
    BY <1>2, <1>3, <1>7 DEF Counted, ABS
  <2>3. CASE ~(v < 0)
    <3>1. v \in 0..(2 * w - 1) /\ 2 * w \in Nat \ {0}
      BY <1>2, <1>3, <1>4, <2>3
    <3>2. v % (2 * w) = v
      BY <3>1, Modulus
    <3> QED BY <1>5, <1>6, <1>7, <2>1, <2>2, <2>3, <3>1, <3>2
  <2>4. CASE v < 0 /\ v # 0 - h
    BY <1>4, <1>5, <1>6, <2>1, <2>2, <2>4
  <2>5. CASE v < 0 /\ v = 0 - h
    <3>1. magnitude(c, v, d) = h
      BY <1>6, <2>1, <2>5
    <3>2. h = w
      BY <1>2, <1>7, <3>1
    <3>3. v % (2 * w) = w
      <4>1. v \in (0 - 2 * w)..(0 - 1) /\ 2 * w \in Nat \ {0} /\ v + 2 * w = w
        BY <1>3, <2>5, <3>2
      <4> QED BY <4>1, Modulus
    <3> QED BY <1>5, <1>7, <2>1, <2>2, <2>5, <3>1, <3>2, <3>3
  <2> QED BY <2>3, <2>4, <2>5
<1>8. CASE c # "d"
  <2>1. x = v % (2 * h) /\ Counted(c, v, d) = x
    BY <1>2, <1>5, <1>8 DEF of_width, Counted
  <2>2. x \in Nat
    BY <1>4, <2>1
  <2> QED BY <1>6, <1>8, <2>1, <2>2
<1> QED BY <1>7, <1>8

\* Its digits.
LEMMA RawIs ==
    ASSUME NEW c \in Integral, NEW n \in Nat, NEW d
    PROVE  raw(c, n, d) \in Seq(Glyph) /\ Len(raw(c, n, d)) \in Nat
<1>1. base_of(c) \in Radixes /\ (IF c = "X" THEN Upper ELSE Lower) \in DigitRows
  BY DEF base_of, Radixes, DigitRows, Integral
<1>2. to_digits(n, base_of(c), IF c = "X" THEN Upper ELSE Lower) \in Seq(Glyph)
  BY <1>1, DigitsStep
<1>3. <<>> \in Seq(Glyph)
  BY EmptySeq
<1>4. raw(c, n, d) \in Seq(Glyph)
  BY <1>2, <1>3 DEF raw
<1> QED BY <1>4, LenProperties

\* They fit into the buffer.
LEMMA NumberWritten ==
    ASSUME NEW d \in Directives, NEW c \in Integral, NEW v \in Int, NEW n \in Nat, n = Counted(c, v, d),
           Len(raw(c, n, d)) <= Bufsiz
    PROVE  integer(c, v, d) = ntoa(raw(c, n, d), c = "d" /\ v < 0, base_of(c), Effective(c, n, d))
<1>1. PICK f : f = Left(c, d)
  OBVIOUS
<1>2. PICK e : e = Effective(c, n, d)
  OBVIOUS
<1>3. has(e, "uppercase") <=> c = "X"
  BY <1>2, EffectiveIs
<1>4. has(e, "precision") <=> has(d, "precision")
  BY <1>2, EffectiveIs
<1>5. (has(f, "uppercase") <=> c = "X") /\ (has(f, "precision") <=> has(d, "precision"))
  <2>1. f.flags = (d.flags \ Dropped(c, d)) \cup (IF c = "X" THEN {"uppercase"} ELSE {})
    BY <1>1 DEF Left, Directives
  <2>2. d.flags \subseteq Options
    BY DEF Directives
  <2> QED BY <2>1, <2>2 DEF has, Dropped, Options
<1>6. PICK s : s = to_digits(n, base_of(c), IF c = "X" THEN Upper ELSE Lower)
  OBVIOUS
<1>7. integer(c, v, d) = ltoa(n, c = "d" /\ v < 0, base_of(c), f)
  BY <1>1 DEF integer, lltoa, Counted, passed_bits, Left, Dropped
<1>8. to_digits(n, base_of(c), IF has(f, "uppercase") THEN Upper ELSE Lower) = s
  BY <1>5, <1>6
<1>9. ltoa(n, c = "d" /\ v < 0, base_of(c), f)
        = ntoa(IF has(f, "precision") /\ n = 0 THEN <<>> ELSE keep_last(s, Bufsiz), c = "d" /\ v < 0, base_of(c), e)
  BY <1>1, <1>2, <1>8 DEF ltoa, Effective
<1>10. (IF has(f, "precision") /\ n = 0 THEN <<>> ELSE keep_last(s, Bufsiz)) = raw(c, n, d)
  BY <1>5, <1>6 DEF raw, keep_last
<1> QED BY <1>2, <1>7, <1>9, <1>10

\* The digits with the leading zeros that a precision asks for.
Body(c, n, d) == copies("0", min_digits(d) - Len(raw(c, n, d))) \o raw(c, n, d)

LEMMA BodyIs ==
    ASSUME NEW d \in Directives, NEW c \in Integral, NEW n \in Nat
    PROVE  /\ Body(c, n, d) \in Seq(Glyph)
           /\ Len(Body(c, n, d)) = IF Len(raw(c, n, d)) > min_digits(d) THEN Len(raw(c, n, d)) ELSE min_digits(d)
           /\ min_digits(d) <= Len(raw(c, n, d)) => Body(c, n, d) = raw(c, n, d)
           /\ min_digits(d) = d.prec
<1>1. PICK r \in Seq(Glyph), l \in Nat : r = raw(c, n, d) /\ l = Len(r)
  BY RawIs
<1>2. min_digits(d) = d.prec /\ d.prec \in Nat
  BY DEF min_digits, Directives
<1>3. PICK m \in Int : m = d.prec - l
  BY <1>2
<1>4. /\ copies("0", m) \o r \in Seq(Glyph)
      /\ Len(copies("0", m) \o r) = (IF m > 0 THEN m ELSE 0) + Len(r)
      /\ m <= 0 => copies("0", m) \o r = r
  BY Fronted, GlyphsAre
<1>5. Body(c, n, d) = copies("0", m) \o r
  BY <1>1, <1>2, <1>3 DEF Body
<1>6. (IF m > 0 THEN m ELSE 0) + l = IF l > d.prec THEN l ELSE d.prec
  BY <1>2, <1>3
<1>7. d.prec <= l => m <= 0
  BY <1>2, <1>3
<1> QED BY <1>1, <1>2, <1>4, <1>5, <1>6, <1>7

\* What ntoa is given to sign.
LEMMA BodyPadded ==
    ASSUME NEW d \in Directives, NEW c \in Integral, NEW n \in Nat, NEW e, e = Effective(c, n, d),
           NEW negated, NEW x, x = Body(c, n, d), Len(x) <= Bufsiz,
           has(d, "left") => min_digits(d) <= Len(raw(c, n, d))
    PROVE  ntoa(raw(c, n, d), negated, base_of(c), e)
             = spaces(sign(IF marked(c, n, d) THEN mark_base(Padded(x, e), base_of(c), e) ELSE Padded(x, e), negated, e), e)
<1>1. PICK r \in Seq(Glyph), l \in Nat : r = raw(c, n, d) /\ l = Len(r)
  BY RawIs
<1>2. /\ min_digits(d) = d.prec /\ d.prec \in Nat /\ d.prec <= Bufsiz
      /\ d.prec <= l => x = r
  <2>1. /\ Len(x) = IF l > d.prec THEN l ELSE d.prec
        /\ d.prec <= l => x = r
        /\ min_digits(d) = d.prec
    BY <1>1, BodyIs
  <2>2. d.prec \in Nat
    BY DEF Directives
  <2>3. d.prec <= Len(x)
    BY <2>1, <2>2
  <2>4. Bufsiz \in Nat
    BY PrintfAssumption
  <2>5. Len(x) \in Nat
    BY <2>1, <2>2
  <2>6. d.prec <= Bufsiz
    BY <2>2, <2>3, <2>4, <2>5
  <2> QED BY <2>1, <2>2, <2>6
<1>3. /\ e.width = d.width /\ e.prec = d.prec /\ (has(e, "left") <=> has(d, "left"))
      /\ (has(e, "hash") <=> marked(c, n, d))
  BY EffectiveIs
<1>4. zeros(r, d.prec) = x
  <2>1. zeros(r, d.prec) = copies("0", d.prec - Len(r)) \o r
    BY <1>2, ZerosIs
  <2> QED BY <1>1, <1>2, <2>1 DEF Body
<1>5. (IF has(e, "left") THEN r
       ELSE IF has(e, "zeropad") THEN zeros(zeros(r, e.prec), e.width) ELSE zeros(r, e.prec)) = Padded(x, e)
  <2>1. CASE has(e, "left")
    <3>1. x = r
      BY <1>1, <1>2, <1>3, <2>1
    <3> QED BY <2>1, <3>1 DEF Padded, Zeroed
  <2>2. CASE ~has(e, "left")
    BY <1>3, <1>4, <2>2 DEF Padded, Zeroed
  <2> QED BY <2>1, <2>2
<1>6. ntoa(r, negated, base_of(c), e)
        = spaces(sign(IF has(e, "hash") THEN mark_base(Padded(x, e), base_of(c), e) ELSE Padded(x, e), negated, e), e)
  BY <1>5 DEF ntoa
<1>7. CASE marked(c, n, d)
  BY <1>1, <1>3, <1>6, <1>7
<1>8. CASE ~marked(c, n, d)
  BY <1>1, <1>3, <1>6, <1>8
<1> QED BY <1>7, <1>8

\* The head that C asks for.
HeadOf(c, v, n, d) ==
    (IF c = "d" THEN sign_of(v < 0, d) ELSE <<>>)
      \o (IF ~marked(c, n, d) THEN <<>> ELSE IF c = "o" THEN <<"0">> ELSE <<"0", c>>)

\* C's field, with the directive as ntoa has it.
LEMMA FieldSame ==
    ASSUME NEW d \in Directives, NEW c \in Integral, NEW n, NEW e, e = Effective(c, n, d), NEW h \in Seq(Glyph), NEW x \in Seq(Glyph)
    PROVE  in_field(IF has(d, "precision") THEN h \o x ELSE zero_filled(h, x, d), d) = in_field(zero_filled(h, x, e), e)
<1>1. /\ e.width = d.width /\ (has(e, "left") <=> has(d, "left"))
      /\ (has(e, "zeropad") <=> has(d, "zeropad") /\ ~has(d, "precision"))
  BY EffectiveIs
<1>2. \A s : in_field(s, d) = in_field(s, e)
  BY <1>1 DEF in_field, fill
<1>3. CASE has(d, "precision")
  <2>1. ~Zeroed(e) /\ e.width \in Nat
    BY <1>1, <1>3 DEF Zeroed, Directives
  <2>2. zero_filled(h, x, e) = h \o x
    BY <2>1, FilledIs
  <2> QED BY <1>2, <1>3, <2>2
<1>4. CASE ~has(d, "precision")
  <2>1. zero_filled(h, x, e) = zero_filled(h, x, d)
    BY <1>1, <1>4 DEF zero_filled, fill
  <2> QED BY <1>2, <1>4, <2>1
<1> QED BY <1>3, <1>4

\* The mark of an octal number is one like the others where no precision is given.
MarkAsked(c, n, d) ==
    IF c = "o"
    THEN IF has(d, "hash") /\ min_digits(d) <= Len(raw(c, n, d)) /\ (n # 0 \/ raw(c, n, d) = <<>>)
         THEN <<"0">> ELSE <<>>
    ELSE IF marked(c, n, d) THEN <<"0", c>> ELSE <<>>

LEMMA MarkSame ==
    ASSUME NEW d, NEW c \in Integral, NEW n \in Nat, c = "o" /\ has(d, "hash") => ~has(d, "precision")
    PROVE  MarkAsked(c, n, d) = IF ~marked(c, n, d) THEN <<>> ELSE IF c = "o" THEN <<"0">> ELSE <<"0", c>>
<1>1. CASE c = "o" /\ has(d, "hash")
  <2>1. min_digits(d) = 0 /\ Len(raw(c, n, d)) \in Nat
    BY <1>1, RawIs DEF min_digits
  <2>2. n = 0 => raw(c, n, d) # <<>>
    <3>1. 8 \in Radixes /\ Lower \in DigitRows
      BY DEF Radixes, DigitRows
    <3>2. ASSUME n = 0 PROVE raw(c, n, d) = <<Lower[0 + 1]>>
      <4>1. raw(c, n, d) = to_digits(0, 8, Lower)
        BY <1>1, <3>2 DEF raw, base_of
      <4>2. 0 \in Nat /\ 0 < 8
        OBVIOUS
      <4> QED BY <3>1, <4>1, <4>2, DigitsStep
    <3> QED BY <3>2
  <2>3. marked(c, n, d) <=> n # 0
    BY <1>1 DEF marked, base_of
  <2>4. MarkAsked(c, n, d) = IF n # 0 \/ raw(c, n, d) = <<>> THEN <<"0">> ELSE <<>>
    BY <1>1, <2>1 DEF MarkAsked
  <2> QED BY <1>1, <2>2, <2>3, <2>4
<1>2. CASE c = "o" /\ ~has(d, "hash")
  BY <1>2 DEF MarkAsked, marked
<1>3. CASE c # "o"
  BY <1>3 DEF MarkAsked
<1> QED BY <1>1, <1>2, <1>3

LEMMA IntegerConforms ==
    ASSUME NEW d \in Directives, NEW c \in Integral, NEW v \in Passed(d), UsualInteger(c, v, d)
    PROVE  integer(c, v, d) = c_integer(c, v, d)
<1>1. PICK n : n = magnitude(c, v, d)
  OBVIOUS
<1>2. n \in Nat /\ n = Counted(c, v, d) /\ (c = "d" => converted(c, v, d) = v) /\ v \in Int
  <2>1. /\ converted(c, v, d) = of_width(c, v, passed_bits(d))
        /\ c = "d" /\ ~has(d, "long") => magnitude(c, v, d) < 2^(IntBits - 1)
    BY DEF UsualInteger
  <2>2. v \in Int
    <3>1. PICK i, w : Widths(i, w)
      BY WidthsAre
    <3>2. 2^(passed_bits(d) - 1) \in Nat
      BY <3>1 DEF Widths, passed_bits
    <3> QED BY <3>2 DEF Passed
  <2> QED BY <1>1, <2>1, <2>2, CountedIs
<1>3. PICK x \in Seq(Glyph) : x = Body(c, n, d)
  BY <1>2, BodyIs
<1>4. PICK l \in Nat, k \in Nat : l = Len(raw(c, n, d)) /\ k = Len(x) /\ k = (IF l > min_digits(d) THEN l ELSE min_digits(d))
  BY <1>2, <1>3, BodyIs, RawIs, LenProperties
<1>5. PICK e : e = Effective(c, n, d)
  OBVIOUS
<1>6. PICK negated \in BOOLEAN : negated = (c = "d" /\ v < 0)
  OBVIOUS
<1>7. /\ e.width = d.width /\ e.prec = d.prec /\ d.width \in Nat
      /\ (has(e, "left") <=> has(d, "left")) /\ (has(e, "precision") <=> has(d, "precision"))
      /\ (has(e, "zeropad") <=> has(d, "zeropad") /\ ~has(d, "precision"))
      /\ (has(e, "uppercase") <=> c = "X")
      /\ (has(e, "plus") <=> c = "d" /\ has(d, "plus")) /\ (has(e, "space") <=> c = "d" /\ has(d, "space"))
  BY <1>5, EffectiveIs DEF Directives
<1>8. /\ k + 2 <= Bufsiz /\ (Zeroed(d) => d.width <= Bufsiz)
      /\ c = "d" => (signed(d, v < 0) => k # d.width)
      /\ has(d, "left") => min_digits(d) <= l
  BY <1>1, <1>4 DEF UsualInteger, Room, SignFits, Zeroed
<1>9. Zeroed(e) => Zeroed(d) /\ d.width <= Bufsiz /\ ~has(d, "precision")
  BY <1>7, <1>8 DEF Zeroed
<1>10. Bufsiz \in Nat /\ k <= Bufsiz /\ k + 1 <= Bufsiz /\ l <= Bufsiz
  <2>1. Bufsiz \in Nat
    BY PrintfAssumption
  <2>2. min_digits(d) \in Nat
    BY DEF min_digits, Directives
  <2>3. l <= k
    BY <1>4, <2>2
  <2> QED BY <1>8, <2>1, <2>3
<1>11. integer(c, v, d)
         = spaces(sign(IF marked(c, n, d) THEN mark_base(Padded(x, e), base_of(c), e) ELSE Padded(x, e), negated, e), e)
  <2>1. integer(c, v, d) = ntoa(raw(c, n, d), negated, base_of(c), e)
    BY <1>2, <1>4, <1>5, <1>6, <1>10, NumberWritten
  <2>2. has(d, "left") => min_digits(d) <= Len(raw(c, n, d))
    BY <1>4, <1>8
  <2>3. Len(x) <= Bufsiz
    BY <1>4, <1>10
  <2> QED BY <1>2, <1>3, <1>5, <2>1, <2>2, <2>3, BodyPadded
<1>12. c_integer(c, v, d)
         = in_field(IF has(d, "precision") THEN HeadOf(c, v, n, d) \o x ELSE zero_filled(HeadOf(c, v, n, d), x, d), d)
  <2>1. c = "o" /\ has(d, "hash") => ~has(d, "precision")
    BY DEF UsualInteger
  <2>2. MarkAsked(c, n, d) = IF ~marked(c, n, d) THEN <<>> ELSE IF c = "o" THEN <<"0">> ELSE <<"0", c>>
    BY <1>2, <2>1, MarkSame
  <2>3. HeadOf(c, v, n, d)
          = (IF c = "d" THEN sign_of(converted(c, v, d) < 0, d) ELSE <<>>) \o MarkAsked(c, n, d)
    BY <1>2, <2>2 DEF HeadOf
  <2> QED BY <1>1, <1>3, <2>3 DEF c_integer, MarkAsked, Body
<1>13. CASE ~marked(c, n, d)
  <2>1. PICK h \in Seq(Glyph) : h = sign_of(negated, e)
    <3>1. signed(e, negated) => Len(x) # e.width
      <4>1. signed(e, negated) => c = "d" /\ signed(d, v < 0)
        BY <1>6, <1>7 DEF signed
      <4> QED BY <1>4, <1>7, <1>8, <4>1
    <3>2. Len(x) + 1 <= Bufsiz /\ (Zeroed(e) => e.width <= Bufsiz)
      BY <1>4, <1>7, <1>9, <1>10
    <3> QED BY <1>7, <3>1, <3>2, SignIs
  <2>2. HeadOf(c, v, n, d) = h
    <3>1. HeadOf(c, v, n, d) = (IF c = "d" THEN sign_of(v < 0, d) ELSE <<>>) \o <<>>
      BY <1>13 DEF HeadOf
    <3>2. (IF c = "d" THEN sign_of(v < 0, d) ELSE <<>>) = h
      BY <1>6, <1>7, <2>1 DEF sign_of
    <3>3. h \o <<>> = h
      BY TwoJoined
    <3> QED BY <3>1, <3>2, <3>3
  <2>3. integer(c, v, d) = in_field(zero_filled(h, x, e), e)
    <3>1. signed(e, negated) => Len(x) # e.width
      <4>1. signed(e, negated) => c = "d" /\ signed(d, v < 0)
        BY <1>6, <1>7 DEF signed
      <4> QED BY <1>4, <1>7, <1>8, <4>1
    <3>2. Len(x) + 1 <= Bufsiz /\ (Zeroed(e) => e.width <= Bufsiz)
      BY <1>4, <1>7, <1>9, <1>10
    <3>3. spaces(sign(Padded(x, e), negated, e), e) = in_field(zero_filled(sign_of(negated, e), x, e), e)
      BY <1>7, <3>1, <3>2, SignedField
    <3> QED BY <1>11, <1>13, <2>1, <3>3
  <2> QED BY <1>5, <1>12, <2>2, <2>3, FieldSame
<1>14. CASE marked(c, n, d)
  <2>1. c \in Marked /\ has(d, "hash") /\ n # 0 /\ c # "d"
    BY <1>14 DEF Marked, marked, Integral, base_of
  <2>2. ~has(e, "precision") => e.prec = 0
    BY <1>7 DEF Directives
  <2>3. MarkFits(c, x, e)
    <3>1. Zeroed(e) <=> has(d, "zeropad") /\ ~has(d, "precision") /\ ~has(d, "left")
      BY <1>7 DEF Zeroed
    <3>2. c \in {"x", "X"} => has(d, "precision") \/ (k # d.width /\ ~(Zeroed(e) /\ d.width = k + 1))
      BY <1>1, <1>4, <2>1, <3>1 DEF UsualInteger
    <3>3. c = "b" => has(d, "precision") \/ (k # d.width /\ ~(Zeroed(e) /\ k < d.width))
      BY <1>1, <1>4, <2>1, <3>1 DEF UsualInteger
    <3>4. c = "o" => ~has(d, "precision") /\ k # d.width
      BY <1>1, <1>4, <2>1 DEF UsualInteger
    <3> QED BY <1>4, <1>7, <3>2, <3>3, <3>4 DEF MarkFits
  <2>4. Len(x) + 2 <= Bufsiz /\ (Zeroed(e) => e.width <= Bufsiz /\ ~has(e, "precision"))
    BY <1>4, <1>7, <1>8, <1>9
  <2>5. mark_base(Padded(x, e), base_of(c), e) = zero_filled(MarkOf(c), x, e)
    BY <1>7, <2>1, <2>2, <2>3, <2>4, MarkIs
  <2>6. MarkOf(c) \in Seq(Glyph)
    BY <2>1, <2>4, MarkWritten
  <2>7. PICK s : s = zero_filled(MarkOf(c), x, e)
    OBVIOUS
  <2>8. sign(s, negated, e) = s
    BY <1>6, <1>7, <2>1 DEF sign, signed
  <2>9. spaces(s, e) = in_field(s, e)
    BY <1>7, <2>6, <2>7, SpacesIs
  <2>10. HeadOf(c, v, n, d) = MarkOf(c)
    <3>1. HeadOf(c, v, n, d) = <<>> \o MarkOf(c)
      BY <1>14, <2>1 DEF HeadOf, MarkOf
    <3> QED BY <2>6, <3>1, TwoJoined
  <2>11. integer(c, v, d) = in_field(s, e)
    BY <1>11, <1>14, <2>5, <2>7, <2>8, <2>9
  <2> QED BY <1>5, <1>12, <2>6, <2>7, <2>10, <2>11, FieldSame
<1> QED BY <1>13, <1>14

\* Powers of ten.
LEMMA TensAre ==
    /\ pow10(0) = 1 /\ pow10(1) = 10 /\ pow10(2) = 100 /\ pow10(3) = 1000 /\ pow10(4) = 10000
    /\ pow10(5) = 100000 /\ pow10(6) = 1000000 /\ pow10(7) = 10000000 /\ pow10(8) = 100000000
    /\ pow10(9) = 1000000000
BY DEF pow10

LEMMA Tens ==
    /\ pow10(0) = 1 /\ pow10(1) = 10
    /\ \A p \in 0..9 : pow10(p) \in Nat \ {0}
    /\ \A p \in 0..8 : pow10(p + 1) = 10 * pow10(p)
<1>1. pow10(0) = 1 /\ pow10(1) = 10
  BY TensAre, SMT
<1>2. \A p \in 0..9 : pow10(p) \in Nat \ {0}
  <2>1. \A p \in 0..9 : p \in {0, 1, 2, 3, 4, 5, 6, 7, 8, 9}
    OBVIOUS
  <2> QED BY TensAre, <2>1, SMT
<1>3. \A p \in 0..8 : pow10(p + 1) = 10 * pow10(p)
  <2>1. \A p \in 0..8 : p \in {0, 1, 2, 3, 4, 5, 6, 7, 8}
    OBVIOUS
  <2>2. /\ 0 + 1 = 1 /\ 1 + 1 = 2 /\ 2 + 1 = 3 /\ 3 + 1 = 4 /\ 4 + 1 = 5
        /\ 5 + 1 = 6 /\ 6 + 1 = 7 /\ 7 + 1 = 8 /\ 8 + 1 = 9
    OBVIOUS
  <2> QED BY TensAre, <2>1, <2>2, SMT
<1> QED BY <1>1, <1>2, <1>3

LEMMA EvenTens == ASSUME NEW p \in 0..9, p # 0 PROVE \E k \in Nat : pow10(p) = 2 * k
<1>1. PICK q \in 0..8 : p = q + 1
  <2>1. p - 1 \in 0..8 /\ p = (p - 1) + 1
    OBVIOUS
  <2> QED BY <2>1
<1>2. PICK m \in Nat : pow10(q) = m
  <2>1. q \in 0..9
    OBVIOUS
  <2> QED BY <2>1, Tens
<1>3. pow10(p) = 10 * m
  BY <1>1, <1>2, Tens
<1>4. 10 * m = 2 * (5 * m) /\ 5 * m \in Nat
  OBVIOUS
<1> QED BY <1>3, <1>4

\* The decimal digits of a number.
Digits(n) == to_digits(n, 10, Lower)

LEMMA DigitsAre ==
    ASSUME NEW n \in Nat
    PROVE  /\ Digits(n) \in Seq(Glyph) /\ Len(Digits(n)) \in Nat
           /\ n < 10 => Digits(n) = <<Lower[n + 1]>>
           /\ n >= 10 => Digits(n) = Append(Digits(n \div 10), Lower[(n % 10) + 1])
<1>1. 10 \in Radixes /\ Lower \in DigitRows
  BY DEF Radixes, DigitRows
<1>2. /\ to_digits(n, 10, Lower) \in Seq(Glyph)
      /\ n < 10 => to_digits(n, 10, Lower) = <<Lower[n + 1]>>
      /\ n >= 10 => to_digits(n, 10, Lower) = Append(to_digits(Rest(n, 10), 10, Lower), Lower[Place(n, 10)])
  BY <1>1, DigitsStep
<1>3. Rest(n, 10) = n \div 10 /\ Place(n, 10) = (n % 10) + 1
  BY DEF Rest, Place
<1>4. Digits(n) \in Seq(Glyph)
  BY <1>2 DEF Digits
<1>5. Len(Digits(n)) \in Nat
  BY <1>4, LenProperties
<1> QED BY <1>2, <1>3, <1>4, <1>5 DEF Digits

\* A last digit behind a number.
LEMMA DigitsNext ==
    ASSUME NEW q \in Nat, q # 0, NEW r \in 0..9
    PROVE  Digits(10 * q + r) = Append(Digits(q), Lower[r + 1])
<1>1. PICK n \in Nat : n = 10 * q + r /\ n >= 10 /\ n \div 10 = q /\ n % 10 = r
  <2>1. 10 * q + r \in Nat /\ 10 * q + r >= 10 /\ (10 * q + r) \div 10 = q /\ (10 * q + r) % 10 = r
    OBVIOUS
  <2> QED BY <2>1
<1>2. Digits(n) = Append(Digits(n \div 10), Lower[(n % 10) + 1])
  BY <1>1, DigitsAre
<1> QED BY <1>1, <1>2

LEMMA DigitGlyph == ASSUME NEW r \in 0..9 PROVE Lower[r + 1] \in Glyph
<1>1. Lower \in DigitRows /\ r + 1 \in 1..16
  BY DEF DigitRows
<1> QED BY <1>1, RowGlyphs

LEMMA AppendLen ==
    ASSUME NEW X, NEW s \in Seq(X), NEW c \in X
    PROVE  /\ Append(s, c) \in Seq(X) /\ Len(Append(s, c)) = Len(s) + 1 /\ Len(s) \in Nat
           /\ Append(s, c) = s \o <<c>>
OBVIOUS

\* A larger number has no fewer digits.
LEMMA DigitsLonger == ASSUME NEW n \in Nat PROVE Len(Digits(n)) <= Len(Digits(n + 1))
<1> DEFINE T == {k \in Nat : ~(Len(Digits(k)) <= Len(Digits(k + 1)))}
<1> SUFFICES ASSUME T # {} PROVE FALSE
  OBVIOUS
<1>1. PICK k \in T : \A y \in T : k <= y
  <2>1. T \subseteq Nat
    OBVIOUS
  <2> QED BY <2>1, NatLeast
<1>2. k \in Nat /\ ~(Len(Digits(k)) <= Len(Digits(k + 1)))
  OBVIOUS
<1>3. PICK q \in Nat, r \in 0..9 : k = 10 * q + r
  <2>1. k \div 10 \in Nat /\ k % 10 \in 0..9 /\ k = 10 * (k \div 10) + (k % 10)
    BY <1>2
  <2> QED BY <2>1
<1>4. \A m \in Nat, j \in 0..9 : m # 0 => Len(Digits(10 * m + j)) = Len(Digits(m)) + 1 /\ Len(Digits(m)) \in Nat
  <2>1. TAKE m \in Nat, j \in 0..9
  <2>2. HAVE m # 0
  <2>3. Digits(10 * m + j) = Append(Digits(m), Lower[j + 1])
    BY <2>2, DigitsNext
  <2>4. Digits(m) \in Seq(Glyph) /\ Lower[j + 1] \in Glyph
    BY DigitsAre, DigitGlyph
  <2> QED BY <2>3, <2>4, AppendLen
<1>5. \A j \in 0..9 : Len(Digits(j)) = 1
  <2>1. TAKE j \in 0..9
  <2>2. j \in Nat /\ j < 10
    OBVIOUS
  <2>3. Digits(j) = <<Lower[j + 1]>>
    BY <2>2, DigitsAre
  <2> QED BY <2>3
<1>6. CASE q = 0
  <2>1. Len(Digits(k)) = 1
    BY <1>3, <1>5, <1>6
  <2>2. CASE r = 9
    <3>1. k + 1 = 10 * 1 + 0
      BY <1>3, <1>6, <2>2
    <3>2. Len(Digits(10 * 1 + 0)) = Len(Digits(1)) + 1
      BY <1>4
    <3>3. Len(Digits(1)) = 1
      BY <1>5
    <3> QED BY <1>2, <2>1, <3>1, <3>2, <3>3
  <2>3. CASE r # 9
    <3>1. k + 1 \in 0..9
      BY <1>3, <1>6, <2>3
    <3> QED BY <1>2, <1>5, <2>1, <3>1
  <2> QED BY <2>2, <2>3
<1>7. CASE q # 0
  <2>1. Len(Digits(k)) = Len(Digits(q)) + 1 /\ Len(Digits(q)) \in Nat
    BY <1>3, <1>4, <1>7
  <2>2. CASE r = 9
    <3>1. PICK m \in Nat, j \in 0..9 : m = q + 1 /\ m # 0 /\ k + 1 = 10 * m + j
      <4>1. q + 1 \in Nat /\ q + 1 # 0 /\ k + 1 = 10 * (q + 1) + 0
        BY <1>3, <2>2
      <4> QED BY <4>1
    <3>2. Len(Digits(k + 1)) = Len(Digits(m)) + 1 /\ Len(Digits(m)) \in Nat
      BY <1>4, <3>1
    <3>3. Len(Digits(q)) <= Len(Digits(m))
      <4>1. q < k
        BY <1>3, <1>7
      <4>2. q \notin T
        BY <1>1, <1>2, <4>1
      <4> QED BY <3>1, <4>2
    <3> QED BY <1>2, <2>1, <3>2, <3>3
  <2>3. CASE r # 9
    <3>1. PICK j \in 0..9 : j = r + 1 /\ k + 1 = 10 * q + j
      <4>1. r + 1 \in 0..9 /\ k + 1 = 10 * q + (r + 1)
        BY <1>3, <2>3
      <4> QED BY <4>1
    <3>2. Len(Digits(k + 1)) = Len(Digits(q)) + 1
      BY <1>4, <1>7, <3>1
    <3> QED BY <1>2, <2>1, <3>2
  <2> QED BY <2>2, <2>3
<1> QED BY <1>6, <1>7

\* A row can be built from either end.
LEMMA CopiesTurned ==
    ASSUME NEW X, NEW c \in X, NEW n \in Nat
    PROVE  <<c>> \o copies(c, n) = copies(c, n) \o <<c>>
<1>1. PICK s : s = copies(c, n) /\ s \in Seq(X) /\ Len(s) = n /\ \A i \in 1..n : s[i] = c
  <2>1. /\ copies(c, n) \in Seq(X) /\ Len(copies(c, n)) = (IF n > 0 THEN n ELSE 0)
        /\ \A i \in 1..n : copies(c, n)[i] = c
    BY CopiesAre
  <2>2. Len(copies(c, n)) = n
    BY <2>1
  <2> QED BY <2>1, <2>2
<1>2. <<c>> \in Seq(X) /\ Len(<<c>>) = 1 /\ <<c>>[1] = c
  OBVIOUS
<1>3. PICK t : t = s \o <<c>> /\ t \in Seq(X) /\ Len(t) = n + 1 /\ \A i \in 1..(n + 1) : t[i] = IF i <= n THEN s[i] ELSE <<c>>[i - n]
  <2>1. /\ s \o <<c>> \in Seq(X) /\ Len(s \o <<c>>) = Len(s) + Len(<<c>>)
        /\ \A i \in 1..(Len(s) + Len(<<c>>)) : (s \o <<c>>)[i] = IF i <= Len(s) THEN s[i] ELSE <<c>>[i - Len(s)]
    BY <1>1, <1>2, ConcatProperties
  <2> QED BY <1>1, <1>2, <2>1
<1>4. ASSUME NEW i \in 1..(n + 1) PROVE t[i] = copies(c, n + 1)[i] /\ t[i] = c
  <2>1. t[i] = c
    <3>1. CASE i <= n
      BY <1>1, <1>3, <3>1
    <3>2. CASE ~(i <= n)
      <4>1. i - n = 1
        BY <3>2
      <4> QED BY <1>2, <1>3, <3>2, <4>1
    <3> QED BY <3>1, <3>2
  <2> QED BY <2>1 DEF copies
<1>5. copies(c, n + 1) \in Seq(X) /\ Len(copies(c, n + 1)) = n + 1
  <2>1. n + 1 \in Int /\ n + 1 > 0
    OBVIOUS
  <2>2. copies(c, n + 1) \in Seq(X) /\ Len(copies(c, n + 1)) = (IF n + 1 > 0 THEN n + 1 ELSE 0)
    BY <2>1, CopiesAre
  <2> QED BY <2>1, <2>2
<1>6. t = copies(c, n + 1)
  BY <1>3, <1>4, <1>5, SeqEqual
<1> QED BY <1>1, <1>3, <1>6, CopiesNext

\* A number in p digits.
Fixed(n, p) == copies("0", p - Len(Digits(n))) \o Digits(n)

\* A number below 10^p has at most p digits; those of n + 10^p are a one and n in p digits.
InDigits(p) ==
    \A n \in Nat : n < pow10(p) =>
        Len(Digits(n)) <= p /\ Digits(n + pow10(p)) = <<"1">> \o Fixed(n, p)

LEMMA FixedNext ==
    ASSUME NEW p \in 1..8, InDigits(p), NEW q \in Nat, q < pow10(p), NEW r \in 0..9
    PROVE  /\ Len(Digits(10 * q + r)) <= p + 1
           /\ Fixed(10 * q + r, p + 1) = Append(Fixed(q, p), Lower[r + 1])
           /\ Fixed(q, p) \in Seq(Glyph)
<1>1. PICK g \in Glyph : g = Lower[r + 1]
  BY DigitGlyph
<1>2. Digits(q) \in Seq(Glyph) /\ Len(Digits(q)) \in Nat /\ Len(Digits(q)) <= p
  BY DigitsAre DEF InDigits
<1>3. PICK s \in Seq(Glyph), m \in Nat : s = Digits(q) /\ m = p - Len(s) /\ Len(s) = p - m
  <2>1. p - Len(Digits(q)) \in Nat /\ Len(Digits(q)) = p - (p - Len(Digits(q)))
    BY <1>2
  <2> QED BY <1>2, <2>1
<1>4. PICK f \in Seq(Glyph) : f = Fixed(q, p) /\ f = copies("0", m) \o s
  <2>1. copies("0", m) \o s \in Seq(Glyph)
    <3>1. m \in Int
      OBVIOUS
    <3> QED BY <3>1, Fronted, GlyphsAre
  <2> QED BY <1>3, <2>1 DEF Fixed
<1>5. copies("0", m) \in Seq(Glyph)
  <2>1. m \in Int
    OBVIOUS
  <2> QED BY <2>1, CopiesAre, GlyphsAre
<1>6. CASE q # 0
  <2>1. Digits(10 * q + r) = Append(s, g) /\ Len(Append(s, g)) = Len(s) + 1 /\ Append(s, g) \in Seq(Glyph)
    BY <1>1, <1>3, <1>6, DigitsNext, AppendLen
  <2>2. (p + 1) - Len(Append(s, g)) = m
    BY <1>3, <2>1
  <2>3. copies("0", m) \o Append(s, g) = Append(copies("0", m) \o s, g)
    <3>1. Append(s, g) = s \o <<g>> /\ <<g>> \in Seq(Glyph)
      BY AppendLen
    <3>2. copies("0", m) \o (s \o <<g>>) = (copies("0", m) \o s) \o <<g>>
      BY <1>5, <3>1, ConcatAssociative
    <3>3. Append(f, g) = f \o <<g>>
      BY AppendLen
    <3> QED BY <1>4, <3>1, <3>2, <3>3
  <2>4. Len(Append(s, g)) <= p + 1
    BY <1>3, <2>1
  <2> QED BY <1>1, <1>4, <2>1, <2>2, <2>3, <2>4 DEF Fixed
<1>7. CASE q = 0
  <2>1. s = <<"0">> /\ Len(s) = 1
    <3>1. Digits(0) = <<Lower[0 + 1]>>
      BY DigitsAre
    <3>2. Lower[0 + 1] = "0"
      BY DEF Lower
    <3> QED BY <1>3, <1>7, <3>1, <3>2
  <2>2. f = copies("0", p)
    <3>1. m = p - 1 /\ p \in Nat /\ m + 1 = p
      BY <1>3, <2>1
    <3>2. copies("0", m + 1) = <<"0">> \o copies("0", m)
      BY CopiesNext, GlyphsAre
    <3>3. <<"0">> \o copies("0", m) = copies("0", m) \o <<"0">>
      BY GlyphsAre, CopiesTurned
    <3> QED BY <1>4, <2>1, <3>1, <3>2, <3>3
  <2>3. Digits(10 * q + r) = <<g>> /\ Len(<<g>>) = 1 /\ <<g>> \in Seq(Glyph)
    <3>1. 10 * q + r = r /\ r \in Nat /\ r < 10
      BY <1>7
    <3>2. Digits(r) = <<Lower[r + 1]>>
      BY <3>1, DigitsAre
    <3> QED BY <1>1, <3>1, <3>2
  <2>4. (p + 1) - 1 = p /\ 1 <= p + 1
    OBVIOUS
  <2>5. Fixed(10 * q + r, p + 1) = f \o <<g>>
    BY <2>2, <2>3, <2>4 DEF Fixed
  <2>6. Append(f, g) = f \o <<g>>
    BY AppendLen
  <2> QED BY <1>1, <1>4, <2>3, <2>4, <2>5, <2>6
<1> QED BY <1>6, <1>7

LEMMA OneInDigits == InDigits(1)
<1> SUFFICES ASSUME NEW n \in Nat, n < 10
             PROVE  Len(Digits(n)) <= 1 /\ Digits(n + 10) = <<"1">> \o Fixed(n, 1)
  BY Tens DEF InDigits
<1>1. PICK g \in Glyph : g = Lower[n + 1]
  <2>1. n \in 0..9
    OBVIOUS
  <2> QED BY <2>1, DigitGlyph
<1>2. Digits(n) = <<g>> /\ Len(<<g>>) = 1 /\ <<g>> \in Seq(Glyph)
  BY <1>1, DigitsAre
<1>3. Fixed(n, 1) = <<g>>
  <2>1. 1 - 1 \in Int /\ 1 - 1 <= 0
    OBVIOUS
  <2>2. copies("0", 1 - 1) \o <<g>> = <<g>>
    BY <1>2, <2>1, Fronted, GlyphsAre
  <2> QED BY <1>2, <2>2 DEF Fixed
<1>4. Digits(n + 10) = <<"1">> \o <<g>>
  <2>1. n + 10 = 10 * 1 + n /\ n \in 0..9 /\ 1 # 0
    OBVIOUS
  <2>2. Digits(10 * 1 + n) = Append(Digits(1), g)
    BY <1>1, <2>1, DigitsNext
  <2>3. Digits(1) = <<"1">>
    <3>1. Digits(1) = <<Lower[1 + 1]>>
      BY DigitsAre
    <3>2. Lower[1 + 1] = "1"
      BY DEF Lower
    <3> QED BY <3>1, <3>2
  <2>4. Append(<<"1">>, g) = <<"1">> \o <<g>>
    <3>1. "1" \in Glyph
      <4>1. 1 \in 0..9 /\ Lower[1 + 1] = "1"
        BY DEF Lower
      <4> QED BY <4>1, DigitGlyph
    <3>2. \A a \in Glyph, b \in Glyph : Append(<<a>>, b) = <<a>> \o <<b>>
      OBVIOUS
    <3> QED BY <3>1, <3>2
  <2> QED BY <2>1, <2>2, <2>3, <2>4
<1>5. Len(Digits(n)) <= 1
  BY <1>2
<1>6. Digits(n + 10) = <<"1">> \o Fixed(n, 1)
  BY <1>3, <1>4, Zenon
<1> QED BY <1>5, <1>6

LEMMA NextInDigits == ASSUME NEW p \in 1..8, InDigits(p) PROVE InDigits(p + 1)
<1>1. PICK t \in Nat \ {0} : t = pow10(p) /\ pow10(p + 1) = 10 * t
  <2>1. p \in 0..9 /\ p \in 0..8
    OBVIOUS
  <2> QED BY <2>1, Tens
<1> SUFFICES ASSUME NEW n \in Nat, n < 10 * t
             PROVE  Len(Digits(n)) <= p + 1 /\ Digits(n + 10 * t) = <<"1">> \o Fixed(n, p + 1)
  BY <1>1 DEF InDigits
<1>2. PICK q \in Nat, r \in 0..9 : n = 10 * q + r /\ q < t
  <2>1. n \div 10 \in Nat /\ n % 10 \in 0..9 /\ n = 10 * (n \div 10) + (n % 10) /\ n \div 10 < t
    OBVIOUS
  <2> QED BY <2>1
<1>3. PICK g \in Glyph : g = Lower[r + 1]
  BY DigitGlyph
<1>4. PICK f \in Seq(Glyph) : f = Fixed(q, p) /\ Fixed(n, p + 1) = Append(f, g) /\ Len(Digits(n)) <= p + 1
  BY <1>1, <1>2, <1>3, FixedNext
<1>5. Digits(q + t) = <<"1">> \o f
  BY <1>1, <1>2, <1>4 DEF InDigits
<1>6. Digits(n + 10 * t) = Append(<<"1">> \o f, g)
  <2>1. PICK m \in Nat : m = q + t /\ m # 0 /\ n + 10 * t = 10 * m + r
    <3>1. q + t \in Nat /\ q + t # 0 /\ n + 10 * t = 10 * (q + t) + r
      BY <1>2
    <3> QED BY <3>1
  <2>2. Digits(10 * m + r) = Append(Digits(m), g)
    BY <1>3, <2>1, DigitsNext
  <2> QED BY <1>5, <2>1, <2>2
<1>7. Append(<<"1">> \o f, g) = <<"1">> \o Append(f, g)
  <2>1. <<"1">> \in Seq(Glyph)
    <3>1. 1 \in 0..9 /\ Lower[1 + 1] = "1"
      BY DEF Lower
    <3>2. "1" \in Glyph
      BY <3>1, DigitGlyph
    <3>3. \A a \in Glyph : <<a>> \in Seq(Glyph)
      OBVIOUS
    <3> QED BY <3>2, <3>3
  <2>2. <<"1">> \o f \in Seq(Glyph)
    BY <2>1, TwoJoined
  <2>3. Append(<<"1">> \o f, g) = (<<"1">> \o f) \o <<g>> /\ Append(f, g) = f \o <<g>> /\ <<g>> \in Seq(Glyph)
    BY <2>2, AppendLen
  <2>4. (<<"1">> \o f) \o <<g>> = <<"1">> \o (f \o <<g>>)
    BY <2>1, <2>3, ConcatAssociative
  <2> QED BY <2>3, <2>4
<1> QED BY <1>4, <1>6, <1>7

LEMMA AllInDigits == ASSUME NEW p \in 1..9 PROVE InDigits(p)
<1> DEFINE T == {j \in 0..8 : InDigits(j + 1)}
<1>1. 0 \in T
  <2>1. 0 \in 0..8 /\ 0 + 1 = 1
    OBVIOUS
  <2> QED BY <2>1, OneInDigits
<1>2. ASSUME NEW j \in 1..8, j - 1 \in T PROVE j \in T
  <2>1. j \in 0..8 /\ (j - 1) + 1 = j
    OBVIOUS
  <2> QED BY <1>2, <2>1, NextInDigits
<1>3. 0..8 \subseteq T
  <2> HIDE DEF T
  <2>1. 8 \in Nat
    OBVIOUS
  <2> QED BY <1>1, <1>2, <2>1, Induct
<1>4. p - 1 \in 0..8 /\ (p - 1) + 1 = p
  OBVIOUS
<1> QED BY <1>3, <1>4

\* The doubles that a directive can be given: the fraction has the digits that are asked for.
\* A product is exact if nothing is asked for; no half of a part alone is a double.
DoublesIn(p) ==
    {v \in [neg : BOOLEAN, whole : Nat, frac : 0..(pow10(p) - 1),
            rest : {"none", "below", "half", "above"}, exact : {"less", "same", "more"}] :
        /\ p = 0 => v.exact = "same"
        /\ p > 0 /\ v.rest = "half" /\ v.exact = "same" => v.frac # 0}
DoublesOf(d) == DoublesIn(decimals_of(d))

LEMMA DecimalsAre ==
    ASSUME NEW d \in Directives
    PROVE  /\ asked_of(d) \in Nat /\ decimals_of(d) \in 0..9 /\ decimals_of(d) <= asked_of(d)
           /\ decimals_of(d) = 0 <=> asked_of(d) = 0
<1>1. asked_of(d) \in Nat
  BY PrintfAssumption DEF asked_of, Directives
<1>2. MaxFrac \in 1..9
  BY PrintfAssumption
<1>3. decimals_of(d) = IF asked_of(d) < MaxFrac THEN asked_of(d) ELSE MaxFrac
  BY DEF decimals_of, smaller
<1> QED BY <1>1, <1>2, <1>3

\* A number of t parts, in whole and rest, in one way.
LEMMA OneWay ==
    ASSUME NEW t \in Nat \ {0}, NEW w \in Nat, NEW z \in Nat, NEW f \in 0..(t - 1), NEW g \in 0..(t - 1),
           t * w + f = t * z + g
    PROVE  w = z /\ f = g
<1>1. ASSUME NEW x \in Nat, NEW y \in Nat, x < y PROVE t * x + t <= t * y
  <2>1. PICK m \in Nat : y = x + 1 + m
    <3>1. y - x - 1 \in Nat /\ y = x + 1 + (y - x - 1)
      BY <1>1
    <3> QED BY <3>1
  <2>2. t * y = t * x + t + t * m /\ t * m \in Nat /\ t * x \in Nat
    BY <2>1, SMT
  <2> QED BY <2>2, SMT
<1>2. PICK m \in Nat, k \in Nat : m = t * w /\ k = t * z
  OBVIOUS
<1>3. ~(w < z)
  <2> SUFFICES ASSUME w < z PROVE FALSE
    OBVIOUS
  <2>1. m + t <= k
    BY <1>1, <1>2
  <2> QED BY <1>2, <2>1, SMT
<1>4. ~(z < w)
  <2> SUFFICES ASSUME z < w PROVE FALSE
    OBVIOUS
  <2>1. k + t <= m
    BY <1>1, <1>2
  <2> QED BY <1>2, <2>1, SMT
<1> QED BY <1>2, <1>3, <1>4, SMT

LEMMA PartsOf ==
    ASSUME NEW t \in Nat \ {0}, NEW w \in Nat, NEW f \in 0..(t - 1)
    PROVE  /\ w * t + f \in Nat /\ (w * t + f) \div t = w /\ (w * t + f) % t = f
           /\ (w + 1) * t = w * t + t
<1>1. PICK n \in Nat : n = w * t + f /\ n = t * w + f
  <2>1. w * t + f \in Nat /\ w * t + f = t * w + f
    BY SMT
  <2> QED BY <2>1
<1>2. PICK z \in Nat, g \in 0..(t - 1) : z = n \div t /\ g = n % t /\ n = t * z + g
  <2>1. n \div t \in Nat /\ n % t \in 0..(t - 1) /\ n = t * (n \div t) + (n % t)
    BY SMT
  <2> QED BY <2>1
<1>3. w = z /\ f = g
  BY <1>1, <1>2, OneWay
<1>4. (w + 1) * t = w * t + t
  BY SMT
<1> QED BY <1>1, <1>2, <1>3, <1>4

\* How ftoa rounds: to a whole w and a fraction f.
WholeOf(v, p) ==
    IF rollover(v, p) THEN v.whole + 1
    ELSE IF p = 0 /\ v.rest = "half" /\ v.whole % 2 = 1 THEN v.whole + 1 ELSE v.whole
FracOf(v, p) == IF rollover(v, p) THEN 0 ELSE round_frac(v, p)

\* This is the nearest number.  No fraction is rounded up to a whole unnoticed, but for the case
\* that UsualFloat leaves out, as it does a product rounded to a half that goes the wrong way.
LEMMA Rounded ==
    ASSUME NEW p \in 0..9, NEW t, t = pow10(p), NEW v \in DoublesIn(p),
           ~(p > 0 /\ v.rest = "half" /\ v.frac = t - 1),
           v.rest = "half" /\ v.exact # "same" => (v.exact = "more" <=> round_frac(v, p) = v.frac + 1)
    PROVE  \E f \in 0..(t - 1) :
              /\ p > 0 => FracOf(v, p) = f
              /\ WholeOf(v, p) * t + f = nearest(v, t)
              /\ WholeOf(v, p) \in {v.whole, v.whole + 1} /\ WholeOf(v, p) \in Nat
<1>1. PICK w \in Nat, g \in 0..(t - 1) :
         /\ w = v.whole /\ g = v.frac
         /\ v.rest \in {"none", "below", "half", "above"} /\ v.exact \in {"less", "same", "more"}
         /\ p = 0 => v.exact = "same"
         /\ p > 0 /\ v.rest = "half" /\ v.exact = "same" => g # 0
  BY DEF DoublesIn
<1>2. t \in Nat \ {0} /\ (p = 0 => t = 1)
  BY Tens
<1>3. PICK n \in Nat : n = w * t + g /\ (w + 1) * t = w * t + t
  <2>1. w * t + g \in Nat /\ (w + 1) * t = w * t + t
    BY ONLY <1>2, w \in Nat, g \in 0..(t - 1), PartsOf
  <2> QED BY <2>1
<1>4. CASE v.rest = "above"
  <2>1. nearest(v, t) = n + 1
    BY <1>1, <1>3, <1>4 DEF nearest
  <2>2. rollover(v, p) <=> g + 1 >= t
    BY <1>1, <1>4 DEF rollover
  <2>3. CASE g + 1 >= t
    <3>1. WholeOf(v, p) = w + 1 /\ FracOf(v, p) = 0
      BY <1>1, <2>2, <2>3 DEF WholeOf, FracOf
    <3>2. (w + 1) * t + 0 = n + 1
      <4>1. g + 1 = t
        BY <1>2, <2>3
      <4>2. PICK m \in Nat : m = w * t
        BY <1>2
      <4> QED BY <1>2, <1>3, <4>1, <4>2
    <3>3. 0 \in 0..(t - 1) /\ w + 1 \in Nat
      BY <1>2
    <3> QED BY <1>1, <2>1, <3>1, <3>2, <3>3
  <2>4. CASE ~(g + 1 >= t)
    <3>1. FracOf(v, p) = g + 1 /\ g + 1 \in 0..(t - 1)
      BY <1>1, <1>2, <1>4, <2>2, <2>4 DEF FracOf, round_frac
    <3>2. WholeOf(v, p) = w
      BY <1>1, <1>4, <2>2, <2>4 DEF WholeOf
    <3>3. w * t + (g + 1) = n + 1
      <4>1. PICK m \in Nat : m = w * t
        BY <1>2
      <4> QED BY <1>3, <4>1
    <3> QED BY <1>1, <2>1, <3>1, <3>2, <3>3
  <2> QED BY <2>3, <2>4
<1>5. CASE v.rest \in {"none", "below"}
  <2>1. nearest(v, t) = n
    BY <1>1, <1>3, <1>5 DEF nearest
  <2>2. ~rollover(v, p)
    BY <1>5 DEF rollover
  <2>3. FracOf(v, p) = g /\ WholeOf(v, p) = w
    BY <1>1, <1>5, <2>2 DEF FracOf, round_frac, WholeOf
  <2> QED BY <1>1, <1>3, <2>1, <2>3
<1>6. CASE v.rest = "half"
  <2>1. nearest(v, t) = IF v.exact = "more" \/ (v.exact = "same" /\ n % 2 = 1) THEN n + 1 ELSE n
    BY <1>1, <1>3, <1>6 DEF nearest
  <2>2. ~rollover(v, p)
    BY <1>6 DEF rollover
  <2>3. CASE p = 0
    <3>1. t = 1 /\ g = 0 /\ v.exact = "same" /\ ~(p > 0)
      BY <1>1, <1>2, <2>3
    <3>2. n = w
      BY <1>3, <3>1
    <3>3. WholeOf(v, p) = IF w % 2 = 1 THEN w + 1 ELSE w
      BY <1>1, <1>6, <2>2, <2>3 DEF WholeOf
    <3>4. w * t + 0 = n /\ (w + 1) * t + 0 = n + 1 /\ 0 \in 0..(t - 1)
      BY <3>1, <3>2
    <3>5. nearest(v, t) = IF n % 2 = 1 THEN n + 1 ELSE n
      BY <2>1, <3>1
    <3>6. WholeOf(v, p) * t + 0 = nearest(v, t)
      BY <3>2, <3>3, <3>4, <3>5
    <3>7. WholeOf(v, p) \in {w, w + 1} /\ WholeOf(v, p) \in Nat
      BY <3>3
    <3> QED BY <1>1, <3>1, <3>4, <3>6, <3>7
  <2>4. CASE p # 0
    <3>1. WholeOf(v, p) = w /\ p > 0
      BY <1>1, <2>2, <2>4 DEF WholeOf
    <3>2. FracOf(v, p) = round_frac(v, p) /\ round_frac(v, p) = IF g = 0 \/ g % 2 = 1 THEN g + 1 ELSE g
      BY <1>1, <1>6, <2>2 DEF FracOf, round_frac
    <3>3. PICK f \in {g, g + 1} : FracOf(v, p) = f /\ round_frac(v, p) = f /\ (f = g + 1 <=> (g = 0 \/ g % 2 = 1))
      <4>1. CASE g = 0 \/ g % 2 = 1
        BY <3>2, <4>1
      <4>2. CASE ~(g = 0 \/ g % 2 = 1)
        BY <3>2, <4>2
      <4> QED BY <4>1, <4>2
    <3>4. f \in 0..(t - 1)
      <4>1. g # t - 1
        BY <1>1, <1>6, <2>4
      <4> QED BY <1>2, <3>3, <4>1
    <3>5. n % 2 = g % 2
      <4>1. PICK k \in Nat : t = 2 * k
        BY <2>4, EvenTens
      <4>2. PICK m \in Nat : m = w * k
        OBVIOUS
      <4>3. w * t = 2 * m
        BY <4>1, <4>2
      <4> QED BY <1>3, <4>3
    <3>6. f = g + 1 => nearest(v, t) = n + 1
      <4>1. CASE v.exact = "same"
        <5>1. g # 0
          BY <1>1, <1>6, <3>1, <4>1
        <5> QED BY <2>1, <3>3, <3>5, <4>1, <5>1
      <4>2. CASE v.exact # "same"
        BY <1>1, <1>6, <2>1, <3>3, <4>2
      <4> QED BY <4>1, <4>2
    <3>7. f = g => nearest(v, t) = n
      <4>1. CASE v.exact = "same"
        BY <2>1, <3>3, <3>5, <4>1
      <4>2. CASE v.exact # "same"
        BY <1>1, <1>6, <2>1, <3>3, <4>2
      <4> QED BY <4>1, <4>2
    <3>8. w * t + f = nearest(v, t)
      <4>1. PICK m \in Nat : m = w * t
        BY <1>2
      <4> QED BY <1>3, <3>3, <3>6, <3>7, <4>1
    <3> QED BY <1>1, <3>1, <3>3, <3>4, <3>8
  <2> QED BY <2>3, <2>4
<1> QED BY <1>1, <1>4, <1>5, <1>6

\* What stands behind the whole part.
Decimals(f, p, a) == IF a = 0 THEN <<>> ELSE <<".">> \o (Fixed(f, p) \o copies("0", a - p))

LEMMA FixedIs ==
    ASSUME NEW p \in 1..9, NEW f \in Nat, f < pow10(p)
    PROVE  /\ Fixed(f, p) \in Seq(Glyph) /\ Len(Fixed(f, p)) = p
           /\ Digits(f) \in Seq(Glyph) /\ Len(Digits(f)) \in Nat /\ Len(Digits(f)) <= p
           /\ Tail(Digits(f + pow10(p))) = Fixed(f, p)
<1>1. Digits(f) \in Seq(Glyph) /\ Len(Digits(f)) \in Nat
  BY DigitsAre
<1>2. Len(Digits(f)) <= p /\ Digits(f + pow10(p)) = <<"1">> \o Fixed(f, p)
  BY AllInDigits DEF InDigits
<1>3. PICK m \in Nat : m = p - Len(Digits(f)) /\ m + Len(Digits(f)) = p
  <2>1. p - Len(Digits(f)) \in Nat /\ (p - Len(Digits(f))) + Len(Digits(f)) = p
    BY <1>1, <1>2
  <2> QED BY <2>1
<1>4. /\ copies("0", m) \o Digits(f) \in Seq(Glyph)
      /\ Len(copies("0", m) \o Digits(f)) = (IF m > 0 THEN m ELSE 0) + Len(Digits(f))
  <2>1. m \in Int
    OBVIOUS
  <2> QED BY <1>1, <2>1, Fronted, GlyphsAre
<1>5. (IF m > 0 THEN m ELSE 0) = m
  OBVIOUS
<1>6. Fixed(f, p) \in Seq(Glyph) /\ Len(Fixed(f, p)) = p
  BY <1>3, <1>4, <1>5 DEF Fixed
<1>7. Tail(<<"1">> \o Fixed(f, p)) = Fixed(f, p)
  <2>1. 1 \in 0..9 /\ Lower[1 + 1] = "1"
    BY DEF Lower
  <2>2. "1" \in Glyph
    BY <2>1, DigitGlyph
  <2> QED BY <1>6, <2>2, Before
<1> QED BY <1>1, <1>2, <1>6, <1>7

LEMMA DecimalsWritten ==
    ASSUME NEW a \in Nat, NEW p \in 0..9, p <= a, p = 0 <=> a = 0, NEW f \in 0..(pow10(p) - 1)
    PROVE  /\ Decimals(f, p, a) \in Seq(Glyph) /\ Len(Decimals(f, p, a)) = (IF a = 0 THEN 0 ELSE a + 1)
           /\ p > 0 /\ a < Bufsiz => lead(decimals(f, p, copies("0", a - p)), ".") = Decimals(f, p, a)
           /\ p = 0 => copies("0", a - p) = Decimals(f, p, a)
<1>1. CASE a = 0
  <2>1. a - p = 0 /\ 0 \in Int /\ 0 <= 0 /\ ~(p > 0)
    <3>1. p = 0
      BY <1>1, Zenon
    <3> QED BY <1>1, <3>1
  <2>2. copies("0", a - p) = <<>>
    BY <2>1, CopiesAre, GlyphsAre
  <2>3. <<>> \in Seq(Glyph) /\ Len(<<>>) = 0
    BY EmptySeq
  <2> QED BY <1>1, <2>1, <2>2, <2>3 DEF Decimals
<1>2. CASE a # 0
  <2>1. p \in 1..9 /\ p > 0 /\ p # 0 /\ f \in Nat /\ f < pow10(p)
    <3>1. pow10(p) \in Nat
      BY Tens
    <3> QED BY <1>2, <3>1
  <2>2. PICK s \in Seq(Glyph), x \in Seq(Glyph), l \in Nat :
           s = Digits(f) /\ x = Fixed(f, p) /\ l = Len(s) /\ l <= p /\ Len(x) = p
    BY <2>1, FixedIs
  <2>3. PICK m \in Nat : m = a - p /\ p + m = a
    <3>1. a - p \in Nat /\ p + (a - p) = a
      OBVIOUS
    <3> QED BY <3>1
  <2>4. PICK e \in Seq(Glyph) : e = copies("0", m) /\ Len(e) = m
    <3>1. copies("0", m) \in Seq(Glyph) /\ Len(copies("0", m)) = (IF m > 0 THEN m ELSE 0)
      <4>1. m \in Int
        OBVIOUS
      <4> QED BY <4>1, CopiesAre, GlyphsAre
    <3>2. (IF m > 0 THEN m ELSE 0) = m
      OBVIOUS
    <3> QED BY <3>1, <3>2
  <2>5. x \o e \in Seq(Glyph) /\ Len(x \o e) = a
    BY <2>2, <2>3, <2>4, TwoJoined
  <2>6. Decimals(f, p, a) = <<".">> \o (x \o e)
    BY <1>2, <2>2, <2>3, <2>4 DEF Decimals
  <2>7. <<".">> \o (x \o e) \in Seq(Glyph) /\ Len(<<".">> \o (x \o e)) = a + 1
    <3>1. PICK y \in Seq(Glyph) : y = x \o e /\ Len(y) = a
      BY <2>5
    <3>2. PICK g \in Glyph : g = "."
      BY GlyphsAre
    <3>3. <<g>> \o y \in Seq(Glyph) /\ Len(<<g>> \o y) = Len(y) + 1
      BY Before
    <3> QED BY <3>1, <3>2, <3>3
  <2>8. ASSUME a < Bufsiz PROVE lead(decimals(f, p, e), ".") = <<".">> \o (x \o e)
    <3>1. Bufsiz \in Nat
      BY PrintfAssumption
    <3>2. s \o e \in Seq(Glyph) /\ Len(s \o e) = l + m
      BY <2>2, <2>4, TwoJoined
    <3>3. keep_last(s \o e, Bufsiz) = s \o e
      <4>1. l + m <= Bufsiz
        BY <2>2, <2>3, <2>8, <3>1
      <4> QED BY <3>2, <4>1 DEF keep_last
    <3>4. (IF Len(s) <= p THEN p + Len(e) ELSE Bufsiz) = a
      BY <2>2, <2>3, <2>4
    <3>5. decimals(f, p, e) = zeros(s \o e, a)
      BY <2>2, <3>3, <3>4 DEF decimals, Digits
    <3>6. zeros(s \o e, a) = copies("0", a - Len(s \o e)) \o (s \o e)
      <4>1. a <= Bufsiz
        BY <2>8, <3>1
      <4> QED BY <3>2, <4>1, ZerosIs
    <3>7. PICK k \in Int : k = p - l /\ a - Len(s \o e) = k
      <4>1. p - l \in Int /\ a - (l + m) = p - l
        BY <2>3
      <4> QED BY <3>2, <4>1
    <3>8. PICK c \in Seq(Glyph) : c = copies("0", k)
      BY CopiesAre, GlyphsAre
    <3>9. c \o (s \o e) = (c \o s) \o e
      BY ConcatAssociative
    <3>10. c \o s = x
      BY <2>2, <3>7, <3>8 DEF Fixed
    <3>11. lead(x \o e, ".") = <<".">> \o (x \o e)
      BY <2>5, <2>8, GlyphsAre, LeadRoom
    <3> QED BY <3>5, <3>6, <3>7, <3>8, <3>9, <3>10, <3>11
  <2> QED BY <1>2, <2>1, <2>3, <2>4, <2>6, <2>7, <2>8
<1> QED BY <1>1, <1>2

\* The text of n parts, before its sign and its field.
Written(n, d) ==
    Digits(n \div pow10(decimals_of(d)))
      \o (IF asked_of(d) = 0 /\ ~has(d, "hash") THEN <<>> ELSE <<".">>)
      \o (IF decimals_of(d) = 0 THEN <<>> ELSE Tail(Digits((n % pow10(decimals_of(d))) + pow10(decimals_of(d)))))
      \o copies("0", asked_of(d) - decimals_of(d))

LEMMA PlainIs ==
    ASSUME NEW v, NEW d
    PROVE  plain(v, d) = Written(nearest(v, pow10(decimals_of(d))), d)
BY DEF plain, Written, Digits

LEMMA WrittenIs ==
    ASSUME NEW d \in Directives, NEW p, p = decimals_of(d), NEW w \in Nat, NEW f \in 0..(pow10(p) - 1),
           has(d, "hash") => asked_of(d) > 0
    PROVE  Written(w * pow10(p) + f, d) = Digits(w) \o Decimals(f, p, asked_of(d))
<1>1. PICK a \in Nat : a = asked_of(d) /\ p \in 0..9 /\ p <= a /\ (p = 0 <=> a = 0)
  BY DecimalsAre
<1>2. PICK t \in Nat \ {0} : t = pow10(p)
  BY <1>1, Tens
<1>3. PICK n : n = w * t + f /\ n \div t = w /\ n % t = f
  <2>1. f \in 0..(t - 1)
    BY <1>2
  <2> QED BY <2>1, PartsOf
<1>4. Digits(w) \in Seq(Glyph)
  BY DigitsAre
<1>5. CASE a = 0
  <2>1. copies("0", a - p) = <<>> /\ p = 0
    <3>1. a - p = 0 /\ 0 \in Int /\ 0 <= 0 /\ p = 0
      BY <1>1, <1>5
    <3> QED BY <3>1, CopiesAre, GlyphsAre
  <2>2. Written(n, d) = ((Digits(w) \o <<>>) \o <<>>) \o <<>>
    <3>1. ~has(d, "hash")
      BY <1>1, <1>5
    <3> QED BY <1>1, <1>2, <1>3, <1>5, <2>1, <3>1 DEF Written
  <2>3. Digits(w) \o <<>> = Digits(w)
    BY <1>4, TwoJoined
  <2> QED BY <1>1, <1>2, <1>3, <1>5, <2>2, <2>3 DEF Decimals
<1>6. CASE a # 0
  <2>1. p \in 1..9 /\ p # 0 /\ f \in Nat /\ f < t
    BY <1>1, <1>2, <1>6
  <2>2. PICK x \in Seq(Glyph) : x = Fixed(f, p) /\ Tail(Digits(f + t)) = x
    BY <1>2, <2>1, FixedIs
  <2>3. PICK e \in Seq(Glyph) : e = copies("0", a - p)
    <3>1. a - p \in Int
      BY <1>1
    <3> QED BY <3>1, CopiesAre, GlyphsAre
  <2>4. Written(n, d) = ((Digits(w) \o <<".">>) \o x) \o e
    BY <1>1, <1>2, <1>3, <1>6, <2>1, <2>2, <2>3 DEF Written
  <2>5. <<".">> \in Seq(Glyph)
    <3>1. \A g \in Glyph : <<g>> \in Seq(Glyph)
      OBVIOUS
    <3> QED BY <3>1, GlyphsAre
  <2>6. Digits(w) \o <<".">> \in Seq(Glyph) /\ x \o e \in Seq(Glyph)
    BY <1>4, <2>5, TwoJoined
  <2>7. ((Digits(w) \o <<".">>) \o x) \o e = (Digits(w) \o <<".">>) \o (x \o e)
    BY <2>6, ConcatAssociative, SMTT(30)
  <2>8. (Digits(w) \o <<".">>) \o (x \o e) = Digits(w) \o (<<".">> \o (x \o e))
    BY <1>4, <2>5, <2>6, ConcatAssociative, SMTT(30)
  <2>9. Decimals(f, p, a) = <<".">> \o (x \o e)
    BY <1>6, <2>2, <2>3 DEF Decimals
  <2> QED BY <1>1, <1>2, <1>3, <2>4, <2>7, <2>8, <2>9
<1> QED BY <1>5, <1>6

\* What ftoa is given to sign.
LEMMA FloatWritten ==
    ASSUME NEW d \in Directives, NEW v, ~beyond(v), NEW negated, negated = negative(v), asked_of(d) < Bufsiz,
           NEW f \in 0..(pow10(decimals_of(d)) - 1), decimals_of(d) > 0 => FracOf(v, decimals_of(d)) = f,
           WholeOf(v, decimals_of(d)) \in Nat,
           NEW x, x = Digits(WholeOf(v, decimals_of(d))) \o Decimals(f, decimals_of(d), asked_of(d)), Len(x) <= Bufsiz
    PROVE  ftoa(v, d) = spaces(sign(Padded(x, d), negated, d), d)
<1>1. PICK p \in 0..9, a \in Nat, w \in Nat : /\ p = decimals_of(d) /\ a = asked_of(d) /\ w = WholeOf(v, p)
                                             /\ p <= a /\ (p = 0 <=> a = 0)
  BY DecimalsAre
<1>2. a < Bufsiz /\ f \in 0..(pow10(p) - 1) /\ (p > 0 => FracOf(v, p) = f) /\ x = Digits(w) \o Decimals(f, p, a)
  BY <1>1
<1>3. PICK e : e = copies("0", a - p)
  OBVIOUS
<1>4. PICK t \in Seq(Glyph) : t = Decimals(f, p, a)
  BY <1>1, <1>2, DecimalsWritten
<1>5. (IF p = 0 THEN e ELSE lead(decimals(FracOf(v, p), p, e), ".")) = t
  <2>1. CASE p = 0
    BY <1>1, <1>2, <1>3, <1>4, <2>1, DecimalsWritten
  <2>2. CASE p # 0
    <3>1. p > 0
      BY <2>2
    <3>2. lead(decimals(f, p, e), ".") = t
      BY <1>1, <1>2, <1>3, <1>4, <3>1, DecimalsWritten
    <3> QED BY <1>2, <2>2, <3>1, <3>2
  <2> QED BY <2>1, <2>2
<1>6. PICK s \in Seq(Glyph) : s = Digits(w)
  BY DigitsAre
<1>7. keep_last(s, Bufsiz - Len(t)) = s
  <2>1. Len(x) = Len(s) + Len(t) /\ Len(s) \in Nat /\ Len(t) \in Nat
    BY <1>2, <1>4, <1>6, TwoJoined
  <2>2. Len(s) <= Bufsiz - Len(t)
    BY <2>1, PrintfAssumption
  <2> QED BY <2>2 DEF keep_last
<1>8. keep_last(to_digits(WholeOf(v, p), 10, Lower), Bufsiz - Len(t)) \o t = x
  BY <1>1, <1>2, <1>4, <1>6, <1>7 DEF Digits
<1>9. decimals_of(d) = smaller(asked_of(d), MaxFrac)
  BY DEF decimals_of
<1>10. ftoa(v, d) = spaces(sign(IF Zeroed(d) THEN zeros(x, d.width) ELSE x, negated, d), d)
  BY <1>1, <1>3, <1>5, <1>8, <1>9, Zenon DEF ftoa, WholeOf, FracOf, asked_of, Zeroed
<1> QED BY <1>10 DEF Padded

LEMMA FloatConforms ==
    ASSUME NEW d \in Directives, NEW v \in DoublesOf(d), UsualFloat(v, d)
    PROVE  ftoa(v, d) = c_float(v, d)
<1>1. PICK p \in 0..9, a \in Nat : p = decimals_of(d) /\ a = asked_of(d) /\ p <= a /\ (p = 0 <=> a = 0)
  BY DecimalsAre
<1>2. PICK t \in Nat \ {0} : t = pow10(p)
  BY <1>1, Tens
<1>3. /\ v \in DoublesIn(p) /\ v.whole \in Nat /\ v.neg \in BOOLEAN /\ ~beyond(v)
      /\ ~(p > 0 /\ v.rest = "half" /\ v.frac = t - 1)
      /\ v.rest = "half" /\ v.exact # "same" => (v.exact = "more" <=> round_frac(v, p) = v.frac + 1)
      /\ has(d, "hash") => a > 0
  <2>1. v \in DoublesIn(p)
    BY <1>1 DEF DoublesOf
  <2> QED BY <1>1, <1>2, <2>1 DEF DoublesIn, UsualFloat
<1>4. PICK f \in 0..(t - 1) : /\ p > 0 => FracOf(v, p) = f
                              /\ WholeOf(v, p) * t + f = nearest(v, t)
                              /\ WholeOf(v, p) \in {v.whole, v.whole + 1} /\ WholeOf(v, p) \in Nat
  BY <1>2, <1>3, Rounded
<1>5. PICK w \in Nat : w = WholeOf(v, p)
  BY <1>4
<1>6. PICK s \in Seq(Glyph), r \in Seq(Glyph) :
         s = Digits(w) /\ r = Decimals(f, p, a) /\ Len(r) <= a + 1 /\ Len(r) \in Nat /\ Len(s) \in Nat
  <2>1. Decimals(f, p, a) \in Seq(Glyph) /\ Len(Decimals(f, p, a)) = (IF a = 0 THEN 0 ELSE a + 1)
    BY <1>1, <1>2, DecimalsWritten
  <2>2. Len(Decimals(f, p, a)) <= a + 1 /\ Len(Decimals(f, p, a)) \in Nat
    BY <2>1
  <2> QED BY <2>1, <2>2, DigitsAre
<1>7. PICK x \in Seq(Glyph) : x = s \o r /\ Len(x) = Len(s) + Len(r)
  BY TwoJoined
<1>8. plain(v, d) = x
  <2>1. Written(w * t + f, d) = Digits(w) \o Decimals(f, p, a)
    BY <1>1, <1>2, <1>3, WrittenIs
  <2> QED BY <1>1, <1>2, <1>4, <1>5, <1>6, <1>7, <2>1, PlainIs
<1>9. Len(x) + 1 <= Bufsiz /\ Len(x) \in Nat /\ a < Bufsiz /\ (Zeroed(d) => d.width <= Bufsiz)
  <2>1. Len(s) <= Len(Digits(v.whole + 1)) /\ Len(Digits(v.whole + 1)) \in Nat
    <3>1. v.whole + 1 \in Nat
      BY <1>3
    <3>2. Len(Digits(v.whole)) <= Len(Digits(v.whole + 1)) /\ Len(Digits(v.whole + 1)) \in Nat
      BY <1>3, <3>1, DigitsLonger, DigitsAre
    <3> QED BY <1>4, <1>5, <1>6, <3>2
  <2>2. PICK l \in Nat : l = Len(Digits(v.whole + 1))
    BY <2>1
  <2>3. l + a + 1 + 1 <= Bufsiz /\ (Zeroed(d) => d.width <= Bufsiz)
    BY <1>1, <2>2 DEF UsualFloat, Room, Digits, Zeroed
  <2>4. Bufsiz \in Nat
    BY PrintfAssumption
  <2> QED BY <1>6, <1>7, <2>1, <2>2, <2>3, <2>4
<1>10. signed(d, v.neg) => Len(x) # d.width
  <2>1. SignFits(Len(plain(v, d)), d, v.neg)
    BY DEF UsualFloat
  <2> QED BY <1>8, <2>1 DEF SignFits
<1>11. v.neg = negative(v)
  <2>1. v.neg => negative(v)
    BY DEF UsualFloat
  <2>2. negative(v) \in BOOLEAN /\ (negative(v) => v.neg)
    BY DEF negative
  <2> QED BY <1>3, <2>1, <2>2
<1>12. ftoa(v, d) = spaces(sign(Padded(x, d), v.neg, d), d)
  <2>1. Len(x) <= Bufsiz
    BY <1>9, PrintfAssumption
  <2>2. x = Digits(WholeOf(v, decimals_of(d))) \o Decimals(f, decimals_of(d), asked_of(d))
    BY <1>1, <1>5, <1>6, <1>7
  <2>3. /\ f \in 0..(pow10(decimals_of(d)) - 1) /\ (decimals_of(d) > 0 => FracOf(v, decimals_of(d)) = f)
        /\ WholeOf(v, decimals_of(d)) \in Nat /\ asked_of(d) < Bufsiz
    BY <1>1, <1>2, <1>4, <1>9
  <2> QED BY <1>3, <1>11, <2>1, <2>2, <2>3, FloatWritten
<1>13. spaces(sign(Padded(x, d), v.neg, d), d) = in_field(zero_filled(sign_of(v.neg, d), x, d), d)
  <2>1. d.width \in Nat
    BY DEF Directives
  <2> QED BY <1>3, <1>9, <1>10, <2>1, SignedField
<1> QED BY <1>8, <1>12, <1>13 DEF c_float

\* What a step has written conforms.
Conforming(l, s) ==
    CASE l.c \in Integral -> UsualInteger(l.c, l.v, l.d) => s = c_integer(l.c, l.v, l.d)
      [] l.c = "f" -> UsualFloat(l.v, l.d) => s = c_float(l.v, l.d)
      [] OTHER -> TRUE

\* A directive is read, a precision behind its mark; what was written conforms.
Reading(f, w, p, o, ph) ==
    /\ [flags |-> f, width |-> w, prec |-> p, omitted |-> o] \in Directives
    /\ ph = "precision" => "precision" \in f
PrintfInv == Reading(flags, width, precision, omitted, phase) /\ Conforming(last, out)

LEMMA ConformingIs == (ConformsToC <=> Conforming(last, out)) /\ (ConformsToC' <=> Conforming(last', out'))
BY DEF ConformsToC, Conforming, Integral

LEMMA OtherConforms == ASSUME NEW l, l.c \notin Integral \cup {"f"}, NEW s PROVE Conforming(l, s)
BY DEF Conforming

LEMMA PrintfStart == PrintfInit => PrintfInv
<1> SUFFICES ASSUME PrintfInit PROVE PrintfInv
  OBVIOUS
<1>1. Reading({}, 0, 0, FALSE, "text")
  BY DEF Reading, Directives, has
<1>2. last.c = "none"
  BY DEF PrintfInit, NoConversion
<1>3. Conforming(last, out)
  BY <1>2, OtherConforms DEF Integral
<1> QED BY <1>1, <1>3 DEF PrintfInit, PrintfInv

\* Steps that write no number.
LEMMA ReadsOn ==
    ASSUME PrintfInv, UNCHANGED <<out, last>> \/ last'.c \notin Integral \cup {"f"},
           Reading(flags', width', precision', omitted', phase')
    PROVE  PrintfInv'
<1>1. Conforming(last', out')
  BY OtherConforms DEF PrintfInv
<1> QED BY <1>1 DEF PrintfInv

LEMMA DirectiveIs == ASSUME PrintfInv PROVE directive \in Directives
BY DEF PrintfInv, Reading, directive

LEMMA DirectivePart ==
    ASSUME NEW f, NEW w, NEW p, NEW o
    PROVE  [flags |-> f, width |-> w, prec |-> p, omitted |-> o] \in Directives
             <=> f \subseteq Options /\ w \in Nat /\ p \in Nat /\ o \in BOOLEAN /\ ("precision" \in f \/ p = 0)
BY DEF Directives, has

LEMMA NumbersAre == ASSUME NEW n \in Numbers PROVE n \in Nat /\ ~(n < 0)
<1>1. n \in Nat \ {0}
  BY PrintfAssumption, Zenon
<1> QED BY <1>1

LEMMA WritesOther ==
    ASSUME PrintfInv, NEW s, NEW l, l.c \notin Integral \cup {"f"}, writes(s, l), phase' # "precision"
    PROVE  PrintfInv'
<1>1. Reading(flags', width', precision', omitted', phase')
  BY DEF PrintfInv, Reading, writes
<1> QED BY <1>1, ReadsOn DEF writes

LEMMA ReadsField ==
    ASSUME PrintfInv, NEW n, n \in Numbers \/ 0 - n \in Numbers, n \in Int
    PROVE  /\ width_field(n) => PrintfInv'
           /\ precision_field(n) => PrintfInv'
<1>1. (n < 0 => 0 - n \in Nat) /\ (~(n < 0) => n \in Nat)
  OBVIOUS
<1>2. flags \subseteq Options /\ width \in Nat /\ precision \in Nat /\ omitted \in BOOLEAN /\ ("precision" \in flags \/ precision = 0)
  BY DirectivePart DEF PrintfInv, Reading
<1>3. ASSUME width_field(n) PROVE PrintfInv'
  <2>1. width' \in Nat
    BY <1>1, <1>3 DEF width_field
  <2>2. flags' \subseteq Options /\ ("precision" \in flags' \/ precision' = 0) /\ precision' \in Nat /\ omitted' \in BOOLEAN
    BY <1>2, <1>3 DEF width_field, Options
  <2>3. phase' # "precision" /\ UNCHANGED <<out, last>>
    BY <1>3 DEF width_field, reads
  <2>4. Reading(flags', width', precision', omitted', phase')
    BY <2>1, <2>2, <2>3, DirectivePart DEF Reading
  <2> QED BY <2>3, <2>4, ReadsOn
<1>4. ASSUME precision_field(n) PROVE PrintfInv'
  <2>1. phase = "precision" /\ "precision" \in flags
    BY <1>4 DEF precision_field, reads, PrintfInv, Reading
  <2>2. precision' \in Nat /\ omitted' \in BOOLEAN /\ flags' = flags /\ width' = width
    BY <1>1, <1>4 DEF precision_field
  <2>3. phase' # "precision" /\ UNCHANGED <<out, last>>
    BY <1>4 DEF precision_field, reads
  <2>4. Reading(flags', width', precision', omitted', phase')
    BY <1>2, <2>1, <2>2, <2>3, DirectivePart DEF Reading
  <2> QED BY <2>3, <2>4, ReadsOn
<1> QED BY <1>3, <1>4

LEMMA ReadsOption ==
    ASSUME PrintfInv
    PROVE  /\ \A f \in {"zeropad", "left", "plus", "space", "hash"} : flag(f) => PrintfInv'
           /\ \A fs \in {{}, {"long"}, {"long", "longlong"}, {"short"}, {"short", "char"}} : length_field(fs) => PrintfInv'
           /\ point => PrintfInv'
           /\ percent => PrintfInv'
<1>1. flags \subseteq Options /\ width \in Nat /\ precision \in Nat /\ omitted \in BOOLEAN /\ ("precision" \in flags \/ precision = 0)
  BY DirectivePart DEF PrintfInv, Reading
<1>2. ASSUME NEW F \in SUBSET Options, flags' = flags \cup F, UNCHANGED <<width, precision, omitted, out, last>>,
             phase' # "precision" \/ "precision" \in F
      PROVE  PrintfInv'
  <2>1. flags' \subseteq Options /\ ("precision" \in flags' \/ precision' = 0) /\ width' \in Nat /\ precision' \in Nat /\ omitted' \in BOOLEAN
    BY <1>1, <1>2
  <2>2. phase' = "precision" => "precision" \in flags'
    BY <1>2
  <2>3. Reading(flags', width', precision', omitted', phase')
    BY <2>1, <2>2, DirectivePart DEF Reading
  <2> QED BY <1>2, <2>3, ReadsOn
<1>3. ASSUME NEW f \in {"zeropad", "left", "plus", "space", "hash"}, flag(f) PROVE PrintfInv'
  <2>1. {f} \in SUBSET Options /\ flags' = flags \cup {f} /\ UNCHANGED <<width, precision, omitted, out, last>> /\ phase' # "precision"
    BY <1>3 DEF flag, reads, Options
  <2> QED BY <1>2, <2>1
<1>4. ASSUME NEW fs \in {{}, {"long"}, {"long", "longlong"}, {"short"}, {"short", "char"}}, length_field(fs) PROVE PrintfInv'
  <2>1. fs \in SUBSET Options /\ flags' = flags \cup fs /\ UNCHANGED <<width, precision, omitted, out, last>> /\ phase' # "precision"
    BY <1>4 DEF length_field, reads, Options
  <2> QED BY <1>2, <2>1
<1>5. ASSUME point PROVE PrintfInv'
  <2>1. {"precision"} \in SUBSET Options /\ flags' = flags \cup {"precision"} /\ UNCHANGED <<width, precision, omitted, out, last>>
    BY <1>5 DEF point, reads, Options
  <2> QED BY <1>2, <2>1
<1>6. ASSUME percent PROVE PrintfInv'
  <2>1. flags' = {} /\ width' = 0 /\ precision' = 0 /\ omitted' = FALSE /\ phase' = "flags" /\ last'.c = "none"
    BY <1>6 DEF percent, NoConversion
  <2>2. Reading(flags', width', precision', omitted', phase')
    BY <2>1, DirectivePart DEF Reading
  <2>3. last'.c \notin Integral \cup {"f"}
    BY <2>1 DEF Integral
  <2> QED BY <2>2, <2>3, ReadsOn
<1> QED BY <1>3, <1>4, <1>5, <1>6

\* The doubles that are given are among them.
LEMMA DoublesAre == ASSUME PrintfInv, NEW v \in Doubles PROVE v \in DoublesOf(directive)
<1>1. PICK p \in 0..9 : p = decimals_of(directive)
  BY DirectiveIs, DecimalsAre
<1>2. p = smaller(IF has(directive, "precision") THEN precision ELSE DefaultFrac, MaxFrac)
  BY <1>1 DEF decimals_of, asked_of, directive
<1>3. PICK t, m : t = pow10(p) - 1 /\ m = <<1, 5, 25, 125, 625, 3125, 15625, 78125, 390625, 1953125>>[p + 1]
  OBVIOUS
<1>4. /\ v \in [neg : BOOLEAN, whole : Wholes, frac : {0, 1, 2, 12, t} \cap 0..t,
                rest : {"none", "below", "half", "above"}, exact : {"less", "same", "more"}]
      /\ v.exact # "same" => p > 0 /\ (v.rest = "half" \/ (v.rest = "none" /\ v.frac # 0))
      /\ v.rest = "half" /\ v.exact = "same" => (2 * v.frac + 1) % m = 0
  BY <1>2, <1>3 DEF Doubles
<1>5. p > 0 => m \in Nat /\ m > 1
  <2>1. p > 0 => p \in {1, 2, 3, 4, 5, 6, 7, 8, 9}
    OBVIOUS
  <2>2. /\ p = 1 => m = 5
        /\ p = 2 => m = 25
        /\ p = 3 => m = 125
        /\ p = 4 => m = 625
        /\ p = 5 => m = 3125
        /\ p = 6 => m = 15625
        /\ p = 7 => m = 78125
        /\ p = 8 => m = 390625
        /\ p = 9 => m = 1953125
    BY <1>3, SMT
  <2> QED BY <2>1, <2>2, SMT
<1>6. ASSUME p > 0, v.rest = "half", v.exact = "same" PROVE v.frac # 0
  <2> SUFFICES ASSUME v.frac = 0 PROVE FALSE
    OBVIOUS
  <2>1. (2 * v.frac + 1) % m = 1
    BY <1>5, <1>6
  <2> QED BY <1>4, <1>6, <2>1
<1>7. Wholes \subseteq Nat
  BY PrintfAssumption
<1>8. /\ v \in [neg : BOOLEAN, whole : Nat, frac : 0..t,
                rest : {"none", "below", "half", "above"}, exact : {"less", "same", "more"}]
      /\ p = 0 => v.exact = "same"
  <2>1. {0, 1, 2, 12, t} \cap 0..t \subseteq 0..t
    OBVIOUS
  <2>2. v \in [neg : BOOLEAN, whole : Nat, frac : 0..t,
               rest : {"none", "below", "half", "above"}, exact : {"less", "same", "more"}]
    BY <1>4, <1>7, <2>1
  <2>3. p = 0 => ~(p > 0)
    OBVIOUS
  <2> QED BY <1>4, <2>2, <2>3
<1>9. v \in DoublesIn(p)
  BY <1>3, <1>6, <1>8 DEF DoublesIn
<1> QED BY <1>1, <1>9 DEF DoublesOf

LEMMA WritesInteger ==
    ASSUME PrintfInv, NEW c \in Integral, NEW v \in Ints, convert_integer(c, v)
    PROVE  PrintfInv'
<1>1. PICK d \in Directives : d = directive
  BY DirectiveIs
<1>2. v \in Passed(d)
  <2>1. argument_bits = passed_bits(d)
    BY <1>1 DEF argument_bits, passed_bits, has, directive
  <2> QED BY <2>1 DEF convert_integer, Passed
<1>3. out' = integer(c, v, d) /\ last' = [c |-> c, d |-> d, v |-> v] /\ phase' = "text" /\ UNCHANGED <<flags, width, precision, omitted>>
  BY <1>1 DEF convert_integer, converts, writes
<1>4. UsualInteger(c, v, d) => out' = c_integer(c, v, d)
  BY <1>2, <1>3, IntegerConforms
<1>5. last'.c = c /\ last'.d = d /\ last'.v = v
  BY <1>3
<1>6. Conforming(last', out')
  <2>1. c # "f"
    BY DEF Integral
  <2> QED BY <1>4, <1>5, <2>1 DEF Conforming
<1>7. Reading(flags', width', precision', omitted', phase')
  BY <1>3 DEF PrintfInv, Reading
<1> QED BY <1>6, <1>7 DEF PrintfInv

LEMMA WritesFloat ==
    ASSUME PrintfInv, NEW v \in Doubles, convert_float(v)
    PROVE  PrintfInv'
<1>1. PICK d \in Directives : d = directive
  BY DirectiveIs
<1>2. v \in DoublesOf(d)
  BY <1>1, DoublesAre
<1>3. out' = ftoa(v, d) /\ last' = [c |-> "f", d |-> d, v |-> v] /\ phase' = "text" /\ UNCHANGED <<flags, width, precision, omitted>>
  BY <1>1 DEF convert_float, converts, writes
<1>4. UsualFloat(v, d) => out' = c_float(v, d)
  BY <1>2, <1>3, FloatConforms
<1>5. last'.c = "f" /\ last'.d = d /\ last'.v = v
  BY <1>3
<1>6. Conforming(last', out')
  BY <1>4, <1>5 DEF Conforming, Integral
<1>7. Reading(flags', width', precision', omitted', phase')
  BY <1>3 DEF PrintfInv, Reading
<1> QED BY <1>6, <1>7 DEF PrintfInv

LEMMA PrintfStep == ASSUME PrintfInv, PrintfNext PROVE PrintfInv'
<1>1. NoConversion.c \notin Integral \cup {"f"}
  BY DEF NoConversion, Integral
<1>2. ASSUME NEW c, NEW v, NEW s, c \in {"c", "s", "p", "%"}, converts(c, v, s) PROVE PrintfInv'
  <2>1. PICK l : l = [c |-> c, d |-> directive, v |-> v] /\ l.c \notin Integral \cup {"f"}
    <3>1. c \notin Integral \cup {"f"}
      BY <1>2 DEF Integral
    <3>2. [c |-> c, d |-> directive, v |-> v].c = c
      OBVIOUS
    <3> QED BY <3>1, <3>2, Zenon
  <2>2. writes(s, l) /\ phase' # "precision"
    BY <1>2, <2>1 DEF converts
  <2> QED BY <2>1, <2>2, WritesOther
<1>3. ASSUME literal("a") PROVE PrintfInv'
  BY <1>1, <1>3, WritesOther DEF literal
<1>4. ASSUME unknown("y") PROVE PrintfInv'
  BY <1>1, <1>4, WritesOther DEF unknown
<1>5. ASSUME skip PROVE PrintfInv'
  BY <1>1, <1>5, WritesOther DEF skip
<1>6. ASSUME end_of_format PROVE PrintfInv'
  <2>1. phase' # "precision" /\ \E s : writes(s, NoConversion)
    BY <1>6 DEF end_of_format
  <2> QED BY <1>1, <2>1, WritesOther
<1>7. ASSUME convert_percent PROVE PrintfInv'
  BY <1>2, <1>7 DEF convert_percent
<1>8. ASSUME NEW n \in Numbers,
             width_field(n) \/ width_field(0 - n) \/ precision_field(n) \/ precision_field(0 - n)
      PROVE  PrintfInv'
  <2>1. n \in Int /\ 0 - n \in Int /\ 0 - (0 - n) = n
    BY NumbersAre
  <2>2. 0 - (0 - n) \in Numbers
    BY <2>1
  <2> QED BY <1>8, <2>1, <2>2, ReadsField
<1>9. ASSUME NEW c \in {"d", "u", "x", "X", "o", "b"}, NEW v \in Ints, convert_integer(c, v) PROVE PrintfInv'
  BY <1>9, WritesInteger DEF Integral
<1>10. ASSUME NEW v \in Doubles, convert_float(v) PROVE PrintfInv'
  BY <1>10, WritesFloat
<1>11. ASSUME NEW s \in Texts, convert_string(s) \/ (s # <<>> /\ convert_char(Head(s))) PROVE PrintfInv'
  BY <1>2, <1>11 DEF convert_string, convert_char
<1>12. ASSUME NEW v, convert_pointer(v) PROVE PrintfInv'
  BY <1>2, <1>12 DEF convert_pointer
<1> QED BY <1>3, <1>4, <1>5, <1>6, <1>7, <1>8, <1>9, <1>10, <1>11, <1>12, ReadsOption, Zenon DEF PrintfNext

\* A conversion of an integer or a double writes what C says, but where UsualInteger and
\* UsualFloat name a difference: for every width, precision, length, size of the buffer and
\* number (the fractions are those of Doubles; FloatConforms has it for all fractions).
THEOREM PrintfConforms == LibrarySpec => []ConformsToC
<1>1. LibraryInit => PrintfInv
  BY PrintfStart DEF LibraryInit
<1>2. PrintfInv /\ [LibraryNext]_libraryVars => PrintfInv'
  <2> SUFFICES ASSUME PrintfInv, [LibraryNext]_libraryVars PROVE PrintfInv'
    OBVIOUS
  <2>1. CASE PrintfNext
    BY <2>1, PrintfStep
  <2>2. CASE UNCHANGED printfVars
    BY <2>2 DEF PrintfInv, printfVars
  <2> QED BY <2>1, <2>2 DEF LibraryNext, libraryVars
<1>3. PrintfInv => ConformsToC
  BY ConformingIs DEF PrintfInv
<1> QED BY <1>1, <1>2, <1>3, PTL DEF LibrarySpec
=============================================================================
