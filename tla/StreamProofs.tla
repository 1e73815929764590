---------------------------- MODULE StreamProofs ----------------------------
(***************************************************************************)
(* The safety of Stream, for every ring size, any number of receivers and of *)
(* values, and whether or not the callbacks produce.                        *)
(***************************************************************************)
EXTENDS Stream, SequenceTheorems, TLAPS

USE CapAssumption, EchoAssumption, BoundAssumption

\* What the receivers have got and what they still will get.
Seen == taken \o buf
Increasing(s) == \A i, j \in 1..Len(s) : i < j => s[i] < s[j]

LEMMA SharedSeen == Shared <=> Increasing(Seen) /\ SetOf(Seen) = (1..sent) \ lost
  BY DEF Shared, Seen, Increasing

LEMMA LoseOne ==
    ASSUME NEW n \in Nat, NEW lst \in SUBSET (1..n), NEW t, t = (1..n) \ lst
    PROVE  t = (1..(n + 1)) \ (lst \cup {n + 1})
  OBVIOUS

LEMMA AppendOne ==
    ASSUME NEW n \in Nat, NEW s \in Seq(1..n), NEW lst \in SUBSET (1..n),
           Increasing(s), SetOf(s) = (1..n) \ lst
    PROVE  /\ Increasing(Append(s, n + 1))
           /\ SetOf(Append(s, n + 1)) = (1..(n + 1)) \ lst
<1> DEFINE r == Append(s, n + 1)
<1>1. /\ Len(r) = Len(s) + 1 /\ Len(s) \in Nat
      /\ \A i \in 1..Len(s) : r[i] = s[i] /\ s[i] \in 1..n
      /\ r[Len(s) + 1] = n + 1
  OBVIOUS
<1> HIDE DEF r
<1>2. Increasing(r)
  <2> SUFFICES ASSUME NEW i \in 1..Len(r), NEW j \in 1..Len(r), i < j PROVE r[i] < r[j]
    BY DEF Increasing
  <2>1. i \in 1..Len(s) /\ r[i] = s[i] /\ s[i] \in 1..n
    BY <1>1
  <2>2. CASE j = Len(s) + 1
    BY <2>1, <2>2, <1>1
  <2>3. CASE j # Len(s) + 1
    <3>1. j \in 1..Len(s)
      <4>1. j \in 1..(Len(s) + 1) /\ Len(s) \in Nat
        BY <1>1
      <4> QED BY <2>3, <4>1
    <3>2. r[j] = s[j]
      BY <1>1, <3>1
    <3>3. s[i] < s[j]
      BY <2>1, <3>1 DEF Increasing
    <3> QED BY <2>1, <3>2, <3>3
  <2> QED BY <2>2, <2>3
<1>3. SetOf(r) = SetOf(s) \cup {n + 1}
  <2>1. ASSUME NEW x \in SetOf(r) PROVE x \in SetOf(s) \cup {n + 1}
    <3>1. PICK k \in 1..Len(r) : x = r[k]
      BY DEF SetOf
    <3>2. CASE k = Len(s) + 1
      BY <3>1, <3>2, <1>1
    <3>3. CASE k \in 1..Len(s)
      BY <3>1, <3>3, <1>1 DEF SetOf
    <3> QED BY <3>2, <3>3, <1>1
  <2>2. ASSUME NEW x \in SetOf(s) \cup {n + 1} PROVE x \in SetOf(r)
    <3>1. CASE x = n + 1
      <4>1. Len(s) + 1 \in 1..Len(r) /\ x = r[Len(s) + 1]
        BY <3>1, <1>1
      <4> QED BY <4>1 DEF SetOf
    <3>2. CASE x \in SetOf(s)
      <4>1. PICK k \in 1..Len(s) : x = s[k]
        BY <3>2 DEF SetOf
      <4>2. k \in 1..Len(r) /\ x = r[k]
        BY <4>1, <1>1
      <4> QED BY <4>2 DEF SetOf
    <3> QED BY <3>1, <3>2
  <2> QED BY <2>1, <2>2
<1>4. SetOf(s) \cup {n + 1} = (1..(n + 1)) \ lst
  OBVIOUS
<1> QED BY <1>2, <1>3, <1>4 DEF r

-----------------------------------------------------------------------------
IInv == TypeOK /\ CalledWithData /\ Shared

LEMMA InitStream == Init => IInv
<1> SUFFICES ASSUME Init PROVE IInv
  OBVIOUS
<1>1. TypeOK /\ CalledWithData
  <2>1. buf \in Seq(1..sent) /\ taken \in Seq(1..sent) /\ Len(buf) = 0
    BY EmptySeq DEF Init
  <2>2. count \in 0..MaxReceivers /\ sent \in 0..MaxSent /\ it \in 1..(count + 1) /\ Len(buf) <= Cap
    BY <2>1 DEF Init
  <2>3. state \in [Receivers -> {"waiting", "flagged", "erased"}]
    BY DEF Init
  <2> QED BY <2>1, <2>2, <2>3 DEF Init, TypeOK, CalledWithData, Registered
<1>2. Seen = <<>>
  BY DEF Init, Seen
<1>3. Increasing(Seen) /\ SetOf(Seen) = (1..sent) \ lost
  BY <1>2 DEF Increasing, SetOf, Init
<1> QED BY <1>1, <1>3, SharedSeen DEF IInv

LEMMA SendStream == IInv /\ send => IInv'
<1> SUFFICES ASSUME IInv, send PROVE IInv'
  OBVIOUS
<1>1. /\ sent \in Nat /\ sent < MaxSent /\ sent' = sent + 1 /\ lost \in SUBSET (1..sent)
      /\ buf \in Seq(1..sent) /\ taken \in Seq(1..sent)
      /\ UNCHANGED <<finished, kept, count, state, it, pc, taken, cut>>
  BY DEF IInv, TypeOK, send, loop
<1>2. Increasing(Seen) /\ SetOf(Seen) = (1..sent) \ lost /\ Seen \in Seq(1..sent)
  BY <1>1, SharedSeen, ConcatProperties DEF IInv, Seen
<1>3. taken \in Seq(1..sent') /\ buf \in Seq(1..sent')
  <2>1. 1..sent \subseteq 1..sent'
    BY <1>1
  <2> QED BY <1>1, <2>1, SeqMonotonic
<1>4. CASE Ring!Put(sent') /\ UNCHANGED lost
  <2>1. buf' = Append(buf, sent + 1) /\ Len(buf) < Cap
    BY <1>1, <1>4 DEF Ring!Put
  <2>2. Len(buf') = Len(buf) + 1 /\ buf' # <<>> /\ Len(buf) \in Nat
    BY <1>1, <2>1
  <2>3. buf' \in Seq(1..sent')
    BY <1>1, <1>3, <2>1, AppendProperties
  <2>4. TypeOK'
    <3>1. Len(buf') <= Cap /\ sent' \in 0..MaxSent /\ lost' \subseteq 1..sent'
      BY <1>1, <1>4, <2>1, <2>2, CapAssumption, BoundAssumption
    <3> QED BY <1>1, <1>3, <2>3, <3>1 DEF IInv, TypeOK, Registered
  <2>5. Seen' = Append(Seen, sent + 1)
    BY <1>1, <2>1 DEF Seen
  <2>6. Increasing(Seen') /\ SetOf(Seen') = (1..sent') \ lost'
    BY <1>1, <1>2, <1>4, <2>5, AppendOne
  <2>7. Shared'
    BY <2>6 DEF Shared, Seen, Increasing, SetOf
  <2> QED BY <1>1, <2>2, <2>4, <2>7 DEF IInv, CalledWithData, Registered
<1>5. CASE UNCHANGED buf /\ lost' = lost \cup {sent'}
  <2>1. lost' \subseteq 1..sent' /\ sent' \in 0..MaxSent
    BY <1>1, <1>5
  <2>2. TypeOK'
    BY <1>1, <1>3, <1>5, <2>1 DEF IInv, TypeOK, Registered
  <2>3. Seen' = Seen
    BY <1>1, <1>5 DEF Seen
  <2>4. Increasing(Seen') /\ SetOf(Seen') = (1..sent') \ lost'
    BY <1>1, <1>2, <1>5, <2>3, LoseOne
  <2>5. Shared'
    BY <2>4 DEF Shared, Seen, Increasing, SetOf
  <2> QED BY <1>1, <1>5, <2>2, <2>5 DEF IInv, CalledWithData, Registered
<1> QED BY <1>4, <1>5 DEF send

LEMMA ReceiveStream == IInv /\ receive => IInv'
<1> SUFFICES ASSUME IInv, receive PROVE IInv'
  OBVIOUS
<1>1. /\ buf \in Seq(1..sent) /\ taken \in Seq(1..sent) /\ sent \in Nat
      /\ pc = "cb" /\ pc' = "rest" /\ taken' = taken \o buf
      /\ UNCHANGED <<finished, kept, sent, lost, count, state, it, cut>>
  BY DEF IInv, TypeOK, receive, producer
<1>2. buf' = SubSeq(buf, Len(buf) + 1, Len(buf))
  BY DEF receive, Ring!Take
<1>3. buf' = <<>>
  BY <1>1, <1>2
<1>4. taken' \in Seq(1..sent)
  BY <1>1, ConcatProperties
<1>5. buf' \in Seq(1..sent') /\ Len(buf') = 0 /\ taken' \in Seq(1..sent')
  BY <1>1, <1>3, <1>4, EmptySeq
<1>6. TypeOK'
  BY <1>1, <1>5 DEF IInv, TypeOK, Registered
<1>7. Seen' = Seen
  BY <1>1, <1>3, <1>4 DEF Seen
<1>8. Shared'
  BY <1>1, <1>7, SharedSeen DEF IInv, Shared, Seen, Increasing, SetOf
<1>9. CalledWithData'
  BY <1>1 DEF IInv, CalledWithData, Registered
<1> QED BY <1>6, <1>8, <1>9 DEF IInv

\* The other steps move no value.
LEMMA StillStream ==
    ASSUME IInv, UNCHANGED <<buf, sent, lost, taken>>, TypeOK', CalledWithData'
    PROVE  IInv'
  BY DEF IInv, Shared, SetOf

LEMMA NextStream == IInv /\ [Next]_vars => IInv'
<1> SUFFICES ASSUME IInv, [Next]_vars PROVE IInv'
  OBVIOUS
<1> USE DEF IInv, TypeOK, CalledWithData, Registered, Receivers, producer, loop
<1>1. CASE send
  BY <1>1, SendStream
<1>2. CASE finish
  BY <1>2, StillStream DEF finish
<1>3. CASE recv
  <2>1. count' = count + 1 /\ count' \in 0..MaxReceivers
        /\ UNCHANGED <<buf, finished, kept, sent, lost, state, it, pc, taken, cut>>
    BY <1>3 DEF recv
  <2>2. it \in 1..(count' + 1) /\ cut \subseteq 1..count' /\ (it \in 1..count => it \in 1..count')
    BY <2>1
  <2> QED BY <2>1, <2>2, StillStream
<1>4. CASE forget
  BY <1>4, StillStream DEF forget
<1>5. ASSUME NEW i \in Registered, terminal(i) PROVE IInv'
  BY <1>5, StillStream DEF terminal
<1>6. CASE receive
  BY <1>6, ReceiveStream
<1>7. CASE call
  BY <1>7, StillStream DEF call, AtReceiver, ready
<1>8. CASE return_cb
  BY <1>8, StillStream DEF return_cb, after_visit
<1>9. CASE no_call
  BY <1>9, StillStream DEF no_call, after_visit, AtReceiver
<1>10. CASE erase
  BY <1>10, StillStream DEF erase, AtReceiver
<1>11. CASE next_pass
  BY <1>11, StillStream DEF next_pass
<1>12. CASE UNCHANGED vars
  BY <1>12, StillStream DEF vars
<1> QED BY <1>1, <1>2, <1>3, <1>4, <1>5, <1>6, <1>7, <1>8, <1>9, <1>10, <1>11, <1>12
        DEF Next, UserNext, LoopNext

-----------------------------------------------------------------------------
LEMMA AlwaysIInv == Spec => []IInv
  BY InitStream, NextStream, PTL DEF Spec

\* The variables have their types, whatever the callbacks do: the ring is never
\* overfull, and poll() never stands behind the end of its list (stream.h:40-48).
THEOREM TypeCorrect == Spec => []TypeOK
<1>1. IInv => TypeOK
  BY DEF IInv
<1> QED BY <1>1, AlwaysIInv, PTL

\* A receiver's callback finds something in the ring (stream.h:43).
THEOREM Data == Spec => []CalledWithData
<1>1. IInv => CalledWithData
  BY DEF IInv
<1> QED BY <1>1, AlwaysIInv, PTL

\* All the receivers together get, in the order of send(), each value that was not
\* dropped exactly once, or will (stream.h:24-48).
THEOREM InOrderOnce == Spec => []Shared
<1>1. IInv => Shared
  BY DEF IInv
<1> QED BY <1>1, AlwaysIInv, PTL
=============================================================================
