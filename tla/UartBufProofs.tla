--------------------------- MODULE UartBufProofs ---------------------------
(***************************************************************************)
(* What UartBuf receives and transmits, for rings of any size, any input    *)
(* and strings of any length.  A string is written by a fold of the library, *)
(* a recursive function: what it computes follows from the least set of      *)
(* positions on which it could differ, with no induction theorem.           *)
(***************************************************************************)
EXTENDS UartBuf, SequenceTheorems, WellFoundedInduction, TLAPS

USE CapAssumption, BoundAssumption, CharAssumption

-----------------------------------------------------------------------------
(***************************************************************************)
(* Reception.                                                               *)
(***************************************************************************)
Has(s, n) == \E i \in 1..Len(s) : s[i] = n
Increasing(s) == \A i, j \in 1..Len(s) : i < j => s[i] < s[j]

Shape ==
    /\ rx \in Seq(Nat) /\ taken \in Seq(Nat) /\ arrived \in Seq(Chars)
    /\ lost \subseteq 1..Len(arrived)

\* RxAccounted, of what was taken and of what is in the ring apart.
Arrivals(n) == Has(taken, n) \/ Has(rx, n) <=> n \in (1..Len(arrived)) \ lost
IInv ==
    /\ Shape /\ Increasing(taken) /\ Increasing(rx)
    /\ \A a, b \in Nat : Has(taken, a) /\ Has(rx, b) => a < b
    /\ \A n \in Nat : Arrivals(n)

-----------------------------------------------------------------------------
LEMMA Appended ==
    ASSUME NEW S, NEW s \in Seq(S), NEW v \in S
    PROVE  /\ Append(s, v) \in Seq(S) /\ Len(Append(s, v)) = Len(s) + 1 /\ Len(s) \in Nat
           /\ \A n : Has(Append(s, v), n) <=> Has(s, n) \/ n = v
<1>1. /\ Append(s, v) \in Seq(S) /\ Len(Append(s, v)) = Len(s) + 1 /\ Len(s) \in Nat
      /\ (\A i \in 1..Len(s) : Append(s, v)[i] = s[i]) /\ Append(s, v)[Len(s) + 1] = v
  OBVIOUS
<1>2. 1..(Len(s) + 1) = (1..Len(s)) \cup {Len(s) + 1}
  BY <1>1
<1> QED BY <1>1, <1>2 DEF Has

LEMMA AppendedIncreasing ==
    ASSUME NEW s \in Seq(Nat), NEW v \in Nat, Increasing(s), \A n \in Nat : Has(s, n) => n < v
    PROVE  Increasing(Append(s, v))
<1>1. /\ Len(Append(s, v)) = Len(s) + 1 /\ Len(s) \in Nat
      /\ (\A i \in 1..Len(s) : Append(s, v)[i] = s[i]) /\ Append(s, v)[Len(s) + 1] = v
  OBVIOUS
<1>2. \A i \in 1..Len(s) : s[i] \in Nat /\ s[i] < v
  BY DEF Has
<1> SUFFICES ASSUME NEW i \in 1..(Len(s) + 1), NEW j \in 1..(Len(s) + 1), i < j
             PROVE  Append(s, v)[i] < Append(s, v)[j]
  BY <1>1 DEF Increasing
<1>3. i \in 1..Len(s)
  BY <1>1
<1>4. CASE j \in 1..Len(s)
  BY <1>1, <1>3, <1>4 DEF Increasing
<1>5. CASE j = Len(s) + 1
  BY <1>1, <1>2, <1>3, <1>5
<1> QED BY <1>1, <1>4, <1>5

LEMMA Removed ==
    ASSUME NEW s \in Seq(Nat), s # <<>>, Increasing(s)
    PROVE  LET t == SubSeq(s, 2, Len(s))
           IN  /\ t \in Seq(Nat) /\ Increasing(t) /\ Head(s) \in Nat
               /\ \A n \in Nat : Has(s, n) <=> n = Head(s) \/ Has(t, n)
               /\ \A n \in Nat : Has(t, n) => Head(s) < n
<1>1. PICK t : t = SubSeq(s, 2, Len(s))
  OBVIOUS
<1>2. Len(s) \in Nat \ {0} /\ Head(s) = s[1] /\ s[1] \in Nat
  OBVIOUS
<1>3. PICK k \in Nat \ {0} : k = Len(s)
  BY <1>2
<1>4. /\ t \in Seq(Nat) /\ Len(t) = IF 2 <= k THEN k - 2 + 1 ELSE 0
      /\ \A i \in 1..(k - 2 + 1) : t[i] = s[2 + i - 1]
  <2>1. \A i \in 2..k : s[i] \in Nat
    BY <1>3
  <2> QED BY <1>1, <1>3, <2>1, SubSeqProperties
<1>5. Len(t) = Len(s) - 1 /\ \A i \in 1..Len(t) : t[i] = s[i + 1] /\ i + 1 \in 1..Len(s) /\ 1 < i + 1
  <2>1. Len(t) = k - 1
    BY <1>4
  <2>2. ASSUME NEW i \in 1..(k - 1) PROVE t[i] = s[i + 1] /\ i + 1 \in 1..k /\ 1 < i + 1
    <3>1. i \in 1..(k - 2 + 1) /\ 2 + i - 1 = i + 1
      OBVIOUS
    <3> QED BY <1>4, <3>1
  <2> QED BY <1>3, <2>1, <2>2
<1>6. Increasing(t)
  <2> SUFFICES ASSUME NEW i \in 1..Len(t), NEW j \in 1..Len(t), i < j PROVE t[i] < t[j]
    BY DEF Increasing
  <2>1. i + 1 \in 1..Len(s) /\ j + 1 \in 1..Len(s) /\ i + 1 < j + 1
    BY <1>5
  <2> QED BY <1>5, <2>1 DEF Increasing
<1>7. ASSUME NEW n \in Nat, Has(t, n) PROVE Has(s, n) /\ Head(s) < n
  <2>1. PICK i \in 1..Len(t) : t[i] = n
    BY <1>7 DEF Has
  <2>2. i + 1 \in 1..Len(s) /\ 1 \in 1..Len(s) /\ 1 < i + 1 /\ s[i + 1] = n
    BY <1>2, <1>5, <2>1
  <2>3. Has(s, n)
    BY <2>2 DEF Has
  <2>4. s[1] < s[i + 1]
    BY <2>2 DEF Increasing
  <2> QED BY <1>2, <2>2, <2>3, <2>4
<1>8. ASSUME NEW n \in Nat, Has(s, n) PROVE n = Head(s) \/ Has(t, n)
  <2>1. PICK i \in 1..Len(s) : s[i] = n
    BY <1>8 DEF Has
  <2>2. CASE i = 1
    BY <1>2, <2>1, <2>2
  <2>3. CASE i # 1
    <3>1. i - 1 \in 1..Len(t) /\ (i - 1) + 1 = i
      BY <1>2, <1>5, <2>3
    <3>2. t[i - 1] = n
      BY <1>5, <2>1, <3>1
    <3> QED BY <3>1, <3>2 DEF Has
  <2> QED BY <2>2, <2>3
<1>9. Has(s, Head(s))
  <2>1. 1 \in 1..Len(s)
    BY <1>2
  <2> QED BY <1>2, <2>1 DEF Has
<1> QED BY <1>1, <1>2, <1>4, <1>6, <1>7, <1>8, <1>9

LEMMA InitRx == Init => IInv
<1> SUFFICES ASSUME Init PROVE IInv
  OBVIOUS
<1>1. <<>> \in Seq(Nat) /\ <<>> \in Seq(Chars) /\ Len(<<>>) = 0
  BY EmptySeq
<1> QED BY <1>1 DEF Init, IInv, Shape, Increasing, Has, Arrivals

LEMMA InputRx == ASSUME IInv, NEW c \in Chars, uart_intput(c) PROVE IInv'
<1>1. PICK n : n = Len(arrived) + 1
  OBVIOUS
<1>2. arrived' = Append(arrived, c) /\ UNCHANGED taken
  BY DEF uart_intput
<1>3. arrived' \in Seq(Chars) /\ Len(arrived') = n /\ n \in Nat \ {0} /\ Len(arrived) \in Nat /\ n = Len(arrived) + 1
  BY <1>1, <1>2, Appended DEF IInv, Shape
<1>4. lost \subseteq 1..Len(arrived) /\ n \notin lost /\ 1..n = (1..Len(arrived)) \cup {n} /\ n \notin 1..Len(arrived)
  BY <1>3 DEF IInv, Shape
<1>5. \A a \in Nat : Has(taken, a) \/ Has(rx, a) => a < n
  BY <1>3 DEF IInv, Arrivals
<1>6. CASE rx' = Append(rx, n) /\ UNCHANGED lost
  <2>1. Shape'
    BY <1>2, <1>3, <1>4, <1>6, Appended DEF IInv, Shape
  <2>2. \A a : Has(rx', a) <=> Has(rx, a) \/ a = n
    BY <1>3, <1>6, Appended DEF IInv, Shape
  <2>3. Increasing(rx')
    BY <1>3, <1>5, <1>6, AppendedIncreasing DEF IInv, Shape
  <2>4. \A a, b \in Nat : Has(taken', a) /\ Has(rx', b) => a < b
    BY <1>2, <1>5, <2>2 DEF IInv
  <2>5. \A a \in Nat : Arrivals(a)'
    BY <1>2, <1>3, <1>4, <1>6, <2>2 DEF IInv, Arrivals
  <2> QED BY <1>2, <2>1, <2>3, <2>4, <2>5 DEF IInv
<1>7. CASE UNCHANGED rx /\ lost' = lost \cup {n}
  <2>1. Shape'
    BY <1>2, <1>3, <1>4, <1>7 DEF IInv, Shape
  <2>2. \A a \in Nat : Arrivals(a)'
    BY <1>2, <1>3, <1>4, <1>7 DEF IInv, Arrivals
  <2> QED BY <1>2, <1>7, <2>1, <2>2 DEF IInv
<1>8. (rx' = Append(rx, Len(arrived')) /\ UNCHANGED lost) \/ (UNCHANGED rx /\ lost' = lost \cup {Len(arrived')})
  BY DEF uart_intput, Rx!Put
<1> QED BY <1>3, <1>6, <1>7, <1>8

LEMMA ReadRx == ASSUME IInv, scanf_read_char PROVE IInv'
<1>1. rx # <<>> /\ rx' = SubSeq(rx, 2, Len(rx)) /\ taken' = Append(taken, Head(rx)) /\ UNCHANGED <<arrived, lost>>
  BY DEF scanf_read_char, front, Rx!Take
<1>2. /\ rx' \in Seq(Nat) /\ Increasing(rx') /\ Head(rx) \in Nat
      /\ \A n \in Nat : Has(rx, n) <=> n = Head(rx) \/ Has(rx', n)
      /\ \A n \in Nat : Has(rx', n) => Head(rx) < n
  BY <1>1, Removed DEF IInv, Shape
<1>3. taken' \in Seq(Nat) /\ \A n : Has(taken', n) <=> Has(taken, n) \/ n = Head(rx)
  BY <1>1, <1>2, Appended DEF IInv, Shape
<1>4. Increasing(taken')
  <2>1. \A n \in Nat : Has(taken, n) => n < Head(rx)
    BY <1>2 DEF IInv
  <2> QED BY <1>1, <1>2, <2>1, AppendedIncreasing DEF IInv, Shape
<1>5. \A a, b \in Nat : Has(taken', a) /\ Has(rx', b) => a < b
  BY <1>2, <1>3 DEF IInv
<1>6. \A n \in Nat : Arrivals(n)'
  BY <1>1, <1>2, <1>3 DEF IInv, Arrivals
<1> QED BY <1>1, <1>2, <1>3, <1>4, <1>5, <1>6 DEF IInv, Shape

LEMMA ClearRx == IInv /\ clear_rx => IInv'
<1> SUFFICES ASSUME IInv, clear_rx PROVE IInv'
  OBVIOUS
<1>1. rx' = SubSeq(rx, Len(rx) + 1, Len(rx)) /\ lost' = lost \cup ToSet(rx) /\ UNCHANGED <<arrived, taken>>
  BY DEF clear_rx, Rx!Take
<1>2. rx \in Seq(Nat) /\ Len(rx) \in Nat
  BY DEF IInv, Shape
<1>3. rx' \in Seq(Nat) /\ Len(rx') = 0
  <2>1. PICK m \in Int : m = Len(rx) + 1
    BY <1>2
  <2>2. \A i \in m..Len(rx) : rx[i] \in Nat
    BY <1>2, <2>1
  <2>3. SubSeq(rx, m, Len(rx)) \in Seq(Nat)
        /\ Len(SubSeq(rx, m, Len(rx))) = IF m <= Len(rx) THEN Len(rx) - m + 1 ELSE 0
    BY <1>2, <2>2, SubSeqProperties
  <2> QED BY <1>1, <1>2, <2>1, <2>3
<1>4. \A n : n \in ToSet(rx) <=> Has(rx, n)
  BY <1>2 DEF ToSet, Has
<1>5. \A n : n \in ToSet(rx) => n \in 1..Len(arrived)
  BY <1>2, <1>4 DEF IInv, Arrivals, Has
<1>6. Shape'
  BY <1>1, <1>3, <1>5 DEF IInv, Shape
<1>7. \A n \in Nat : ~Has(rx', n)
  BY <1>3 DEF Has
<1>8. Increasing(rx')
  BY <1>3 DEF Increasing
<1>9. \A n \in Nat : Arrivals(n)'
  <2> SUFFICES ASSUME NEW n \in Nat PROVE Has(taken, n) <=> n \in (1..Len(arrived)) \ (lost \cup ToSet(rx))
    BY <1>1, <1>7 DEF Arrivals
  <2>1. Has(taken, n) => ~Has(rx, n)
    BY DEF IInv
  <2> QED BY <1>4, <2>1 DEF IInv, Arrivals
<1> QED BY <1>1, <1>6, <1>7, <1>8, <1>9 DEF IInv

LEMMA NextRx == IInv /\ [Next]_vars => IInv'
<1> SUFFICES ASSUME IInv, [Next]_vars PROVE IInv'
  OBVIOUS
<1>1. CASE UNCHANGED <<rx, arrived, taken, lost>>
  BY <1>1 DEF IInv, Shape, Arrivals
<1>2. CASE UNCHANGED vars
  BY <1>1, <1>2 DEF vars
<1>3. ASSUME NEW s, puts(s) \/ write(s) \/ retarget_write(s) PROVE IInv'
  BY <1>1, <1>3 DEF puts, write, retarget_write, rxVars
<1>4. ASSUME NEW b, set_lf2crlf_enable(b) PROVE IInv'
  BY <1>1, <1>4 DEF set_lf2crlf_enable, rxVars
<1>5. CASE poll_flush \/ terminal
  BY <1>1, <1>5 DEF poll_flush, terminal, rxVars
<1>6. ASSUME NEW how, NEW n, start_read(how, n) PROVE IInv'
  BY <1>1, <1>6 DEF start_read
<1>7. CASE end_read
  BY <1>1, <1>7 DEF end_read
<1> QED BY <1>2, <1>3, <1>4, <1>5, <1>6, <1>7, InputRx, ReadRx, ClearRx DEF Next

-----------------------------------------------------------------------------
\* The interrupt pushes at one end and drops the result (uart_buf.cpp:95-97), read and gets
\* take at the other (27-43): every byte is read in its turn, is in the ring, or found it full.
THEOREM EveryByteAccounted == Spec => []RxAccounted
<1>1. IInv => RxAccounted
  <2> SUFFICES ASSUME IInv PROVE RxAccounted
    OBVIOUS
  <2>1. PICK seen : seen = taken \o rx
    OBVIOUS
  <2>2. PICK m \in Nat : m = Len(taken)
    BY DEF IInv, Shape
  <2>3. PICK k \in Nat : k = Len(rx)
    BY DEF IInv, Shape
  <2>4. /\ seen \in Seq(Nat) /\ Len(seen) = m + k
        /\ \A i \in 1..(m + k) : seen[i] = IF i <= m THEN taken[i] ELSE rx[i - m]
    BY <2>1, <2>2, <2>3, ConcatProperties DEF IInv, Shape
  <2>5. \A i \in 1..m : seen[i] = taken[i] /\ seen[i] \in Nat /\ Has(taken, seen[i])
    BY <2>2, <2>4 DEF Has, IInv, Shape
  <2>6. \A i \in (m + 1)..(m + k) : /\ i - m \in 1..k /\ seen[i] = rx[i - m]
                                    /\ seen[i] \in Nat /\ Has(rx, seen[i])
    BY <2>3, <2>4 DEF Has, IInv, Shape
  <2>7. ASSUME NEW i \in 1..Len(seen), NEW j \in 1..Len(seen), i < j PROVE seen[i] < seen[j]
    <3>1. CASE i <= m /\ j <= m
      BY <2>2, <2>4, <2>5, <2>7, <3>1 DEF IInv, Increasing
    <3>2. CASE i <= m /\ j > m
      <4>1. i \in 1..m /\ j \in (m + 1)..(m + k)
        BY <2>4, <3>2
      <4> QED BY <2>5, <2>6, <4>1 DEF IInv
    <3>3. CASE i > m
      <4>1. i \in (m + 1)..(m + k) /\ j \in (m + 1)..(m + k) /\ i - m < j - m
        BY <2>4, <2>7, <3>3
      <4>2. rx[i - m] < rx[j - m]
        BY <2>3, <2>6, <4>1 DEF IInv, Increasing
      <4> QED BY <2>6, <4>1, <4>2
    <3> QED BY <3>1, <3>2, <3>3, <2>4
  <2>8. \A n : n \in ToSet(seen) <=> Has(taken, n) \/ Has(rx, n)
    <3>1. ASSUME NEW n, n \in ToSet(seen) PROVE Has(taken, n) \/ Has(rx, n)
      <4>1. PICK i \in 1..(m + k) : seen[i] = n
        BY <2>4, <3>1 DEF ToSet
      <4>2. i \in 1..m \/ i \in (m + 1)..(m + k)
        OBVIOUS
      <4> QED BY <2>5, <2>6, <4>1, <4>2
    <3>2. ASSUME NEW n, Has(taken, n) PROVE n \in ToSet(seen)
      <4>1. PICK i \in 1..m : taken[i] = n
        BY <2>2, <3>2 DEF Has
      <4>2. i \in 1..Len(seen) /\ seen[i] = n
        BY <2>4, <2>5, <4>1
      <4> QED BY <2>4, <4>2 DEF ToSet
    <3>3. ASSUME NEW n, Has(rx, n) PROVE n \in ToSet(seen)
      <4>1. PICK i \in 1..k : rx[i] = n
        BY <2>3, <3>3 DEF Has
      <4>2. i + m \in (m + 1)..(m + k) /\ (i + m) - m = i /\ i + m \in 1..(m + k)
        OBVIOUS
      <4>3. seen[i + m] = rx[(i + m) - m]
        BY <2>6, <4>2
      <4>4. seen[i + m] = n
        BY <4>1, <4>2, <4>3
      <4> QED BY <2>4, <4>2, <4>4 DEF ToSet
    <3> QED BY <3>1, <3>2, <3>3
  <2>9. \A n : Has(taken, n) \/ Has(rx, n) => n \in Nat
    BY DEF Has, IInv, Shape
  <2>10. ToSet(seen) = (1..Len(arrived)) \ lost
    <3>1. \A n : n \in 1..Len(arrived) => n \in Nat
      OBVIOUS
    <3> QED BY <2>8, <2>9, <3>1 DEF IInv, Arrivals
  <2> QED BY <2>1, <2>7, <2>10 DEF RxAccounted
<1> QED BY <1>1, InitRx, NextRx, PTL DEF Spec

-----------------------------------------------------------------------------
(***************************************************************************)
(* Induction over 0..n, and the folds of the library, whose values over a   *)
(* set depend on those without its greatest element.                        *)
(***************************************************************************)
LEMMA NatLeast ==
    ASSUME NEW T, T \subseteq Nat, T # {}
    PROVE  \E x \in T : \A y \in T : x <= y
<1>1. PICK x \in T : \A y \in T : ~ (<<y, x>> \in OpToRel(<, Nat))
  BY NatLessThanWellFounded, WFMin
<1>2. ASSUME NEW y \in T PROVE x <= y
  <2>1. x \in Nat /\ y \in Nat
    OBVIOUS
  <2>2. y < x => <<y, x>> \in OpToRel(<, Nat)
    BY <2>1 DEF OpToRel
  <2>3. ~(y < x)
    BY <1>1, <2>2, Zenon
  <2> QED BY <2>1, <2>3
<1> QED BY <1>2

LEMMA Induct ==
    ASSUME NEW n \in Nat, NEW T, 0 \in T, \A k \in 1..n : k - 1 \in T => k \in T
    PROVE  0..n \subseteq T
<1> SUFFICES ASSUME (0..n) \ T # {} PROVE FALSE
  OBVIOUS
<1>1. PICK x \in (0..n) \ T : \A y \in (0..n) \ T : x <= y
  <2>1. (0..n) \ T \subseteq Nat
    OBVIOUS
  <2> QED BY <2>1, NatLeast
<1>2. x \in 1..n
  BY <1>1
<1>3. x - 1 \in 0..n /\ ~(x <= x - 1)
  BY <1>2
<1> QED BY <1>1, <1>2, <1>3

LEMMA MaxOf ==
    ASSUME NEW n \in Nat, NEW u \in SUBSET (1..n), u # {}
    PROVE  Max(u) \in u /\ \A y \in u : Max(u) >= y
<1> DEFINE T == {n - y : y \in u}
<1>1. T \subseteq Nat /\ T # {}
  <2>1. \A y \in u : n - y \in Nat
    OBVIOUS
  <2> QED BY <2>1
<1>2. PICK x \in T : \A y \in T : x <= y
  BY <1>1, NatLeast
<1>3. PICK z \in u : x = n - z
  BY <1>2
<1>4. \A y \in u : z >= y
  <2> SUFFICES ASSUME NEW y \in u PROVE z >= y
    OBVIOUS
  <2>1. n - y \in T
    OBVIOUS
  <2>2. n - z <= n - y
    BY <1>2, <1>3, <2>1
  <2> QED BY <2>2
<1> QED BY <1>3, <1>4 DEF Max

\* g is the fold of G over every set of the first n positions, from b.
IsFold(g, b, n, G) ==
    \A u \in SUBSET (1..n) : g[u] = IF u = {} THEN b ELSE G[<<g[u \ {Max(u)}], Max(u)>>]

\* f is the values that fold goes through, from b on.
Steps(f, b, n, G) == f[0] = b /\ \A k \in 1..n : f[k] = G[<<f[k - 1], k>>]

Through(g, n) == [k \in 0..n |-> g[1..k]]

LEMMA FoldExists ==
    ASSUME NEW S, NEW n \in Nat, NEW G \in [S \X (1..n) -> S], NEW b \in S
    PROVE  \E g \in [SUBSET (1..n) -> S] : IsFold(g, b, n, G)
<1> DEFINE T == {k \in 0..n : \E g \in [SUBSET (1..k) -> S] : IsFold(g, b, k, G)}
<1>1. 0 \in T
  <2> DEFINE g == [u \in SUBSET (1..0) |-> b]
  <2>1. \A u \in SUBSET (1..0) : u = {}
    OBVIOUS
  <2>2. g \in [SUBSET (1..0) -> S] /\ IsFold(g, b, 0, G)
    BY <2>1 DEF IsFold
  <2>3. 0 \in 0..n
    OBVIOUS
  <2>4. \E h \in [SUBSET (1..0) -> S] : IsFold(h, b, 0, G)
    BY <2>2
  <2> HIDE DEF g
  <2> QED BY <2>3, <2>4
<1>2. ASSUME NEW k \in 1..n, k - 1 \in T PROVE k \in T
  <2>1. PICK g \in [SUBSET (1..(k - 1)) -> S] : IsFold(g, b, k - 1, G)
    BY <1>2
  <2> DEFINE h == [u \in SUBSET (1..k) |-> IF k \in u THEN G[<<g[u \ {k}], k>>] ELSE g[u]]
  <2>2. ASSUME NEW u \in SUBSET (1..k)
        PROVE  u \ {k} \in SUBSET (1..(k - 1)) /\ (k \notin u => u \in SUBSET (1..(k - 1)))
    OBVIOUS
  <2>3. h \in [SUBSET (1..k) -> S]
    BY <2>1, <2>2
  <2>4. ASSUME NEW u \in SUBSET (1..k), k \in u PROVE h[u] = G[<<h[u \ {Max(u)}], Max(u)>>] /\ u # {}
    <3>1. Max(u) \in u /\ Max(u) >= k
      <4>1. k \in Nat /\ u # {}
        BY <2>4
      <4>2. Max(u) \in u /\ \A y \in u : Max(u) >= y
        BY <4>1, MaxOf
      <4> QED BY <2>4, <4>2
    <3>2. Max(u) = k
      <4>1. Max(u) \in 1..k
        BY <3>1
      <4> QED BY <3>1, <4>1
    <3>3. h[u \ {k}] = g[u \ {k}]
      BY <2>2
    <3> QED BY <2>4, <3>2, <3>3
  <2>5. ASSUME NEW u \in SUBSET (1..k), k \notin u, u # {} PROVE h[u] = G[<<h[u \ {Max(u)}], Max(u)>>]
    <3>1. u \in SUBSET (1..(k - 1)) /\ u \ {Max(u)} \in SUBSET (1..(k - 1))
      BY <2>2, <2>5
    <3>2. h[u] = g[u] /\ h[u \ {Max(u)}] = g[u \ {Max(u)}]
      BY <2>5, <3>1
    <3>3. g[u] = G[<<g[u \ {Max(u)}], Max(u)>>]
      BY <2>1, <2>5, <3>1 DEF IsFold
    <3> QED BY <3>2, <3>3
  <2>6. h[{}] = b
    BY <2>1 DEF IsFold
  <2>7. IsFold(h, b, k, G)
    <3> SUFFICES ASSUME NEW u \in SUBSET (1..k)
                 PROVE  h[u] = IF u = {} THEN b ELSE G[<<h[u \ {Max(u)}], Max(u)>>]
      BY DEF IsFold
    <3> HIDE DEF h
    <3> QED BY <2>4, <2>5, <2>6
  <2> HIDE DEF h
  <2> QED BY <2>3, <2>7
<1>3. 0..n \subseteq T
  <2> HIDE DEF T
  <2> QED BY <1>1, <1>2, Induct
<1>4. n \in T
  <2> HIDE DEF T
  <2> QED BY <1>3
<1> QED BY <1>4

LEMMA FoldedPrefixes ==
    ASSUME NEW n \in Nat, NEW S, NEW G, NEW b \in S, NEW g \in [SUBSET (1..n) -> S],
           IsFold(g, b, n, G)
    PROVE  Through(g, n) \in [0..n -> S] /\ Steps(Through(g, n), b, n, G)
<1>0. PICK f : f = Through(g, n) /\ f = [k \in 0..n |-> g[1..k]]
  BY DEF Through
<1>1. \A k \in 0..n : 1..k \in SUBSET (1..n)
  OBVIOUS
<1>2. f \in [0..n -> S]
  BY <1>0, <1>1
<1>3. f[0] = b
  <2>1. 0 \in 0..n /\ 1..0 = {} /\ {} \in SUBSET (1..n)
    OBVIOUS
  <2>2. f[0] = g[1..0] /\ g[{}] = b
    BY <1>0, <2>1 DEF IsFold
  <2> QED BY <2>1, <2>2
<1>4. ASSUME NEW k \in 1..n PROVE f[k] = G[<<f[k - 1], k>>]
  <2>1. 1..k \in SUBSET (1..n) /\ 1..k # {} /\ k \in 1..k /\ k - 1 \in 0..n
    OBVIOUS
  <2>2. Max(1..k) \in 1..k /\ Max(1..k) >= k
    BY <2>1, MaxOf
  <2>3. Max(1..k) = k /\ (1..k) \ {k} = 1..(k - 1)
    BY <2>2
  <2>4. g[1..k] = G[<<g[(1..k) \ {Max(1..k)}], Max(1..k)>>]
    BY <2>1 DEF IsFold
  <2>5. g[1..k] = G[<<g[1..(k - 1)], k>>]
    BY <2>3, <2>4
  <2> QED BY <1>0, <2>1, <2>5
<1>5. Steps(f, b, n, G)
  BY <1>3, <1>4 DEF Steps
<1> QED BY <1>0, <1>2, <1>5

-----------------------------------------------------------------------------
(***************************************************************************)
(* One character.                                                           *)
(***************************************************************************)
Outs == [tx : Seq(Bytes), wire : Seq(Bytes)]

LEMMA Joined ==
    ASSUME NEW x \in Seq(Bytes), NEW y \in Seq(Bytes), NEW z \in Seq(Bytes)
    PROVE  /\ x \o y \in Seq(Bytes) /\ (x \o y) \o z = x \o (y \o z) /\ x \o <<>> = x
           /\ Len(x) \in Nat /\ Len(y) \in Nat /\ Len(x \o y) = Len(x) + Len(y) /\ Len(x \o y) >= Len(x)
<1>1. (x \o y) \o z = x \o (y \o z)
  BY ConcatAssociative
<1>2. x \o <<>> = x
  BY ConcatEmptySeq
<1>3. x \o y \in Seq(Bytes) /\ Len(x) \in Nat /\ Len(y) \in Nat /\ Len(x \o y) = Len(x) + Len(y)
  BY ConcatProperties, LenProperties
<1> QED BY <1>1, <1>2, <1>3

LEMMA JoinedLast ==
    ASSUME NEW x \in Seq(Bytes), NEW y \in Seq(Bytes), NEW c \in Bytes
    PROVE  x \o Append(y, c) = (x \o y) \o <<c>>
<1>1. x \o y \in Seq(Bytes)
  BY ConcatProperties
<1>2. (x \o y) \o <<c>> = Append(x \o y, c)
  BY <1>1, AppendIsConcat
<1>3. x \o Append(y, c) = Append(x \o y, c)
  OBVIOUS
<1> QED BY <1>2, <1>3

LEMMA JoinedTwo ==
    ASSUME NEW x \in Seq(Bytes), NEW c \in Bytes, NEW d \in Bytes
    PROVE  (x \o <<c>>) \o <<d>> = x \o <<c, d>>
<1>1. x \o <<c>> = Append(x, c) /\ Append(x, c) \in Seq(Bytes)
  BY AppendIsConcat
<1>2. Append(x, c) \o <<d>> = Append(Append(x, c), d)
  BY <1>1, AppendIsConcat
<1>3. x \o <<c, d>> = Append(Append(x, c), d)
  OBVIOUS
<1> QED BY <1>1, <1>2, <1>3

LEMMA SentBytes ==
    ASSUME NEW b \in Outs
    PROVE  /\ b.tx \in Seq(Bytes) /\ b.wire \in Seq(Bytes) /\ Len(b.tx) \in Nat /\ Len(b.wire) \in Nat
           /\ b.wire \o b.tx \in Seq(Bytes) /\ Len(b.wire \o b.tx) >= Len(b.wire)
<1>1. b.tx \in Seq(Bytes) /\ b.wire \in Seq(Bytes)
  BY DEF Outs
<1> QED BY <1>1, Joined

LEMMA PutOne ==
    ASSUME NEW b \in Outs, NEW c \in Bytes
    PROVE  LET r == push(make_room(b), c)
           IN  /\ r \in Outs /\ r.wire \o r.tx = (b.wire \o b.tx) \o <<c>>
               /\ Len(r.wire) >= Len(b.wire)
<1>1. PICK m : m = make_room(b)
  OBVIOUS
<1>2. b.tx \in Seq(Bytes) /\ b.wire \in Seq(Bytes) /\ <<>> \in Seq(Bytes) /\ <<c>> \in Seq(Bytes)
  BY DEF Outs
<1>3. /\ m \in Outs /\ m.wire \o m.tx = b.wire \o b.tx /\ Len(m.wire) >= Len(b.wire) /\ ~is_full(m)
  <2>1. CASE is_full(b)
    <3>1. m = [tx |-> <<>>, wire |-> b.wire \o b.tx]
      BY <1>1, <2>1 DEF make_room, flush
    <3>2. b.wire \o b.tx \in Seq(Bytes) /\ (b.wire \o b.tx) \o <<>> = b.wire \o b.tx
          /\ Len(b.wire \o b.tx) >= Len(b.wire)
      BY <1>2, SentBytes, Joined
    <3>3. m \in Outs /\ m.tx = <<>> /\ m.wire = b.wire \o b.tx
      BY <1>2, <3>1, <3>2 DEF Outs
    <3>4. Len(m.wire) >= Len(b.wire)
      BY <3>2, <3>3
    <3>5. Len(<<>>) = 0
      OBVIOUS
    <3> QED BY <3>2, <3>3, <3>4, <3>5 DEF is_full
  <2>2. CASE ~is_full(b)
    <3>1. m = b
      BY <1>1, <2>2 DEF make_room
    <3>2. Len(b.wire) \in Nat
      BY <1>2
    <3> QED BY <2>2, <3>1, <3>2
  <2> QED BY <2>1, <2>2
<1>4. push(m, c) = [m EXCEPT !.tx = Append(@, c)]
  BY <1>3 DEF push
<1>5. m.tx \in Seq(Bytes) /\ m.wire \in Seq(Bytes) /\ Append(m.tx, c) \in Seq(Bytes)
  BY <1>3 DEF Outs
<1>6. push(m, c) \in Outs /\ push(m, c).tx = Append(m.tx, c) /\ push(m, c).wire = m.wire
  BY <1>3, <1>4, <1>5 DEF Outs
<1>7. m.wire \o Append(m.tx, c) = (m.wire \o m.tx) \o <<c>>
  BY <1>5, JoinedLast
<1> QED BY <1>1, <1>3, <1>6, <1>7

\* What one character becomes.
Sends(c) == IF c = LF /\ lf2crlf THEN <<CR, LF>> ELSE <<c>>

LEMMA FlushAll ==
    ASSUME NEW b \in Outs
    PROVE  /\ flush(b) \in Outs /\ flush(b).wire \o flush(b).tx = b.wire \o b.tx
           /\ Len(flush(b).wire) >= Len(b.wire) /\ flush(b).tx = <<>>
<1>1. b.tx \in Seq(Bytes) /\ b.wire \in Seq(Bytes) /\ <<>> \in Seq(Bytes)
  BY DEF Outs
<1>2. b.wire \o b.tx \in Seq(Bytes) /\ (b.wire \o b.tx) \o <<>> = b.wire \o b.tx
      /\ Len(b.wire \o b.tx) >= Len(b.wire)
  BY <1>1, SentBytes, Joined
<1> QED BY <1>1, <1>2 DEF flush, Outs

LEMMA PrintfOne ==
    ASSUME NEW b \in Outs, NEW c \in Chars
    PROVE  LET r == printf_write_char(b, c)
           IN  /\ r \in Outs /\ r.wire \o r.tx = (b.wire \o b.tx) \o Sends(c)
               /\ Len(r.wire) >= Len(b.wire) /\ (c = LF => r.tx = <<>>)
<1>1. LF \in Bytes /\ CR \in Bytes /\ c \in Bytes
  BY DEF Bytes, Chars
<1>2. CASE c # LF
  <2>1. printf_write_char(b, c) = push(make_room(b), c) /\ Sends(c) = <<c>>
    BY <1>2 DEF printf_write_char, Sends
  <2> QED BY <1>1, <1>2, <2>1, PutOne
<1>3. CASE c = LF
  <2>1. PICK r : r = IF lf2crlf THEN push(make_room(b), CR) ELSE b
    OBVIOUS
  <2>2. PICK u : u = push(make_room(r), LF)
    OBVIOUS
  <2>3. printf_write_char(b, c) = flush(u)
    BY <1>3, <2>1, <2>2 DEF printf_write_char, newline
  <2>4. /\ r \in Outs /\ Len(r.wire) >= Len(b.wire)
        /\ r.wire \o r.tx = IF lf2crlf THEN (b.wire \o b.tx) \o <<CR>> ELSE b.wire \o b.tx
    <3>1. Len(b.wire) \in Nat
      BY SentBytes
    <3>2. CASE lf2crlf
      BY <1>1, <2>1, <3>2, PutOne
    <3>3. CASE ~lf2crlf
      <4>1. r = b
        BY <2>1, <3>3
      <4>2. Len(r.wire) >= Len(b.wire)
        BY <3>1, <4>1
      <4> QED BY <3>3, <4>1, <4>2
    <3> QED BY <3>2, <3>3
  <2>5. u \in Outs /\ u.wire \o u.tx = (r.wire \o r.tx) \o <<LF>> /\ Len(u.wire) >= Len(r.wire)
    BY <1>1, <2>2, <2>4, PutOne
  <2>6. u.wire \o u.tx = (b.wire \o b.tx) \o Sends(LF)
    <3>1. b.wire \o b.tx \in Seq(Bytes)
      BY SentBytes
    <3>2. ((b.wire \o b.tx) \o <<CR>>) \o <<LF>> = (b.wire \o b.tx) \o <<CR, LF>>
      BY <1>1, <3>1, JoinedTwo
    <3>6. CASE lf2crlf
      BY <2>4, <2>5, <3>2, <3>6 DEF Sends
    <3>7. CASE ~lf2crlf
      BY <2>4, <2>5, <3>7 DEF Sends
    <3> QED BY <3>6, <3>7
  <2>7. /\ flush(u) \in Outs /\ flush(u).wire \o flush(u).tx = u.wire \o u.tx
        /\ Len(flush(u).wire) >= Len(u.wire) /\ flush(u).tx = <<>>
    BY <2>5, FlushAll
  <2>8. Len(flush(u).wire) >= Len(b.wire)
    <3>1. Len(flush(u).wire) \in Nat /\ Len(u.wire) \in Nat /\ Len(r.wire) \in Nat /\ Len(b.wire) \in Nat
      BY <2>4, <2>5, <2>7, SentBytes
    <3> QED BY <2>4, <2>5, <2>7, <3>1
  <2> QED BY <1>3, <2>3, <2>6, <2>7, <2>8
<1> QED BY <1>2, <1>3

\* What one character of printf() and puts() does, or of write().
Puts(p, b, c) == IF p THEN printf_write_char(b, c) ELSE push(make_room(b), c)

\* What the character becomes on the wire, and all that was given to a state so far.
What(p, c) == IF p THEN Sends(c) ELSE <<c>>
Sent(b) == b.wire \o b.tx

\* g is the fold of that over every set of the places of s, from b.
PutsFolds(g, p, b, s) ==
    \A u \in SUBSET (1..Len(s)) : g[u] = IF u = {} THEN b ELSE Puts(p, g[u \ {Max(u)}], s[Max(u)])

\* f is the states that it goes through.
PutsSteps(f, p, b, s) ==
    f \in [0..Len(s) -> Outs] /\ f[0] = b /\ \A k \in 1..Len(s) : f[k] = Puts(p, f[k - 1], s[k])
PutsEnds(f, g, s) == f[Len(s)] = g[1..Len(s)]

LEMMA FoldUnique ==
    ASSUME NEW p, NEW b, NEW s \in Seq(Chars), NEW g, NEW h,
           PutsFolds(g, p, b, s), PutsFolds(h, p, b, s)
    PROVE  g[1..Len(s)] = h[1..Len(s)]
<1>0. PICK n \in Nat : n = Len(s)
  OBVIOUS
<1> DEFINE T == {k \in 0..n : \A u \in SUBSET (1..k) : g[u] = h[u]}
<1>1. 0 \in T
  <2>1. \A u \in SUBSET (1..0) : u = {} /\ u \in SUBSET (1..n)
    OBVIOUS
  <2>2. 0 \in 0..n
    OBVIOUS
  <2>3. g[{}] = h[{}]
    BY <1>0, <2>1 DEF PutsFolds
  <2> QED BY <2>1, <2>2, <2>3
<1>2. ASSUME NEW k \in 1..n, k - 1 \in T PROVE k \in T
  <2>1. k \in 0..n /\ k \in Nat
    OBVIOUS
  <2>2. ASSUME NEW u \in SUBSET (1..k), u # {} PROVE g[u] = h[u]
    <3>1. u \in SUBSET (1..n)
      OBVIOUS
    <3>2. Max(u) \in u /\ \A y \in u : Max(u) >= y
      BY <2>1, <2>2, MaxOf
    <3>3. u \ {Max(u)} \in SUBSET (1..(k - 1))
      <4> SUFFICES ASSUME NEW y \in u, y # Max(u) PROVE y \in 1..(k - 1)
        OBVIOUS
      <4>1. y \in 1..k /\ Max(u) \in 1..k /\ Max(u) >= y
        BY <3>2
      <4> QED BY <4>1
    <3>4. g[u \ {Max(u)}] = h[u \ {Max(u)}]
      BY <1>2, <3>3
    <3> QED BY <1>0, <2>2, <3>1, <3>4 DEF PutsFolds
  <2>3. g[{}] = h[{}]
    <3>1. {} \in SUBSET (1..n)
      OBVIOUS
    <3> QED BY <1>0, <3>1 DEF PutsFolds
  <2> QED BY <2>1, <2>2, <2>3
<1>3. n \in T
  <2> HIDE DEF T
  <2>1. 0..n \subseteq T
    BY <1>1, <1>2, Induct
  <2> QED BY <2>1
<1> QED BY <1>0, <1>3

LEMMA PutsOne ==
    ASSUME NEW p \in BOOLEAN, NEW b \in Outs, NEW c \in Chars
    PROVE  LET r == Puts(p, b, c)
           IN  /\ r \in Outs /\ Sent(r) = Sent(b) \o What(p, c)
               /\ Len(r.wire) >= Len(b.wire) /\ (p /\ c = LF => r.tx = <<>>)
<1>1. c \in Bytes
  BY DEF Bytes
<1>2. CASE p
  BY <1>2, PrintfOne DEF Puts, Sent, What
<1>3. CASE ~p
  BY <1>1, <1>3, PutOne DEF Puts, Sent, What
<1> QED BY <1>2, <1>3

LEMMA WhatBytes == \A p \in BOOLEAN, c \in Chars : What(p, c) \in Seq(Bytes)
<1>1. LF \in Bytes /\ CR \in Bytes /\ \A c \in Chars : c \in Bytes
  BY DEF Bytes, Chars
<1>2. <<CR, LF>> \in Seq(Bytes) /\ \A c \in Chars : <<c>> \in Seq(Bytes)
  BY <1>1
<1> QED BY <1>2 DEF What, Sends

LEMMA SentSeq == \A b \in Outs : Sent(b) \in Seq(Bytes)
BY SentBytes DEF Sent

LEMMA PutsTraced ==
    ASSUME NEW p \in BOOLEAN, NEW b \in Outs, NEW s \in Seq(Chars)
    PROVE  \E f, g : /\ PutsSteps(f, p, b, s) /\ g \in [SUBSET (1..Len(s)) -> Outs]
                     /\ PutsFolds(g, p, b, s) /\ PutsEnds(f, g, s)
<1>0. PICK n \in Nat : n = Len(s)
  OBVIOUS
<1>1. \A k \in 1..n : s[k] \in Chars
  BY <1>0
<1>2. PICK G \in [Outs \X (1..n) -> Outs] : \A r \in Outs, k \in 1..n : G[<<r, k>>] = Puts(p, r, s[k])
  <2> DEFINE G == [q \in Outs \X (1..n) |-> Puts(p, q[1], s[q[2]])]
  <2>1. ASSUME NEW q \in Outs \X (1..n) PROVE Puts(p, q[1], s[q[2]]) \in Outs
    BY <1>1, PutsOne
  <2>2. \A r \in Outs, k \in 1..n : G[<<r, k>>] = Puts(p, r, s[k])
    OBVIOUS
  <2>3. G \in [Outs \X (1..n) -> Outs]
    BY <2>1
  <2> HIDE DEF G
  <2> QED BY <2>2, <2>3
<1>3. PICK g \in [SUBSET (1..n) -> Outs] : IsFold(g, b, n, G)
  BY FoldExists
<1>4. ASSUME NEW u \in SUBSET (1..n), u # {} PROVE g[u] = Puts(p, g[u \ {Max(u)}], s[Max(u)])
  <2>1. Max(u) \in 1..n
    BY <1>4, MaxOf
  <2>2. g[u] = G[<<g[u \ {Max(u)}], Max(u)>>]
    BY <1>3, <1>4 DEF IsFold
  <2> QED BY <1>2, <2>1, <2>2
<1>5. g[{}] = b
  BY <1>3 DEF IsFold
<1> DEFINE f == Through(g, n)
<1>6. f \in [0..n -> Outs] /\ Steps(f, b, n, G)
  BY <1>3, FoldedPrefixes
<1>8. f[n] = g[1..n]
  BY DEF Through
<1> HIDE DEF f
<1>7. ASSUME NEW k \in 1..n PROVE f[k] = Puts(p, f[k - 1], s[k])
  <2>1. k - 1 \in 0..n
    OBVIOUS
  <2> QED BY <1>2, <1>6, <2>1 DEF Steps
<1>9. f[0] = b
  BY <1>6 DEF Steps
<1>10. PutsFolds(g, p, b, s)
  BY <1>0, <1>4, <1>5 DEF PutsFolds
<1>11. PutsSteps(f, p, b, s)
  BY <1>0, <1>6, <1>7, <1>9 DEF PutsSteps
<1>12. PutsEnds(f, g, s)
  BY <1>0, <1>8 DEF PutsEnds
<1> QED BY <1>0, <1>10, <1>11, <1>12

-----------------------------------------------------------------------------
(***************************************************************************)
(* A string: the states of printf's fold and of write's, and what is on the *)
(* wire of each of its prefixes.                                            *)
(***************************************************************************)
LEMMA PrintfSteps ==
    ASSUME NEW b \in Outs, NEW s \in Seq(Chars)
    PROVE  \E f : PutsSteps(f, TRUE, b, s) /\ FoldLeft(printf_write_char, b, s) = f[Len(s)]
<1>1. PICK n \in Nat : n = Len(s) /\ DOMAIN s = 1..n
  OBVIOUS
<1>2. PICK f, g : /\ PutsSteps(f, TRUE, b, s) /\ g \in [SUBSET (1..Len(s)) -> Outs]
                  /\ PutsFolds(g, TRUE, b, s) /\ PutsEnds(f, g, s)
  BY PutsTraced
<1>3. PICK h : /\ h = CHOOSE x : x = [u \in SUBSET (1..n) |->
                      IF u = {} THEN b ELSE printf_write_char(x[u \ {Max(u)}], s[Max(u)])]
               /\ FoldLeft(printf_write_char, b, s) = h[1..n]
  BY <1>1 DEF FoldLeft, MapThenFoldSet
<1>4. g = [u \in SUBSET (1..n) |->
           IF u = {} THEN b ELSE printf_write_char(g[u \ {Max(u)}], s[Max(u)])]
  BY <1>1, <1>2 DEF PutsFolds, Puts
<1>5. h = [u \in SUBSET (1..n) |->
           IF u = {} THEN b ELSE printf_write_char(h[u \ {Max(u)}], s[Max(u)])]
  BY <1>3, <1>4
<1>6. PutsFolds(h, TRUE, b, s)
  BY <1>1, <1>5 DEF PutsFolds, Puts
<1>7. g[1..Len(s)] = h[1..Len(s)]
  BY <1>2, <1>6, FoldUnique
<1> QED BY <1>1, <1>2, <1>3, <1>7 DEF PutsEnds

LEMMA WriteSteps ==
    ASSUME NEW b \in Outs, NEW s \in Seq(Chars)
    PROVE  \E f : /\ PutsSteps(f, FALSE, b, s)
                  /\ FoldLeft(LAMBDA r, c : push(make_room(r), c), b, s) = f[Len(s)]
<1>1. PICK n \in Nat : n = Len(s) /\ DOMAIN s = 1..n
  OBVIOUS
<1>2. PICK f, g : /\ PutsSteps(f, FALSE, b, s) /\ g \in [SUBSET (1..Len(s)) -> Outs]
                  /\ PutsFolds(g, FALSE, b, s) /\ PutsEnds(f, g, s)
  BY PutsTraced
<1>3. PICK h : /\ h = CHOOSE x : x = [u \in SUBSET (1..n) |->
                      IF u = {} THEN b ELSE push(make_room(x[u \ {Max(u)}]), s[Max(u)])]
               /\ FoldLeft(LAMBDA r, c : push(make_room(r), c), b, s) = h[1..n]
  BY <1>1 DEF FoldLeft, MapThenFoldSet
<1>4. g = [u \in SUBSET (1..n) |->
           IF u = {} THEN b ELSE push(make_room(g[u \ {Max(u)}]), s[Max(u)])]
  BY <1>1, <1>2 DEF PutsFolds, Puts
<1>5. h = [u \in SUBSET (1..n) |->
           IF u = {} THEN b ELSE push(make_room(h[u \ {Max(u)}]), s[Max(u)])]
  BY <1>3, <1>4
<1>6. PutsFolds(h, FALSE, b, s)
  BY <1>1, <1>5 DEF PutsFolds, Puts
<1>7. g[1..Len(s)] = h[1..Len(s)]
  BY <1>2, <1>6, FoldUnique
<1> QED BY <1>1, <1>2, <1>3, <1>7 DEF PutsEnds

\* h is what is sent of s, character by character.
WireSteps(h, p, s) ==
    h \in [0..Len(s) -> Seq(Bytes)] /\ h[0] = <<>> /\ \A k \in 1..Len(s) : h[k] = h[k - 1] \o What(p, s[k])

LEMMA WireTraced == ASSUME NEW p \in BOOLEAN, NEW s \in Seq(Chars) PROVE \E h : WireSteps(h, p, s)
<1>1. PICK n \in Nat : n = Len(s) /\ \A k \in 1..n : s[k] \in Chars
  OBVIOUS
<1> DEFINE S == Seq(Bytes)
           G == [q \in S \X (1..n) |-> q[1] \o What(p, s[q[2]])]
<1>2. G \in [S \X (1..n) -> S] /\ \A x \in S, k \in 1..n : G[<<x, k>>] = x \o What(p, s[k])
  <2>1. ASSUME NEW q \in S \X (1..n) PROVE q[1] \o What(p, s[q[2]]) \in S
    <3>1. q[1] \in S /\ What(p, s[q[2]]) \in S
      BY <1>1, WhatBytes
    <3> QED BY <3>1, ConcatProperties
  <2> QED BY <2>1
<1>3. <<>> \in S
  OBVIOUS
<1> HIDE DEF G, S
<1>4. PICK g \in [SUBSET (1..n) -> S] : IsFold(g, <<>>, n, G)
  BY <1>2, <1>3, FoldExists
<1> DEFINE h == Through(g, n)
<1>5. h \in [0..n -> S] /\ Steps(h, <<>>, n, G)
  BY <1>3, <1>4, FoldedPrefixes
<1> HIDE DEF h
<1>6. ASSUME NEW k \in 1..n PROVE h[k] = h[k - 1] \o What(p, s[k])
  <2>1. k - 1 \in 0..n /\ h[k - 1] \in S /\ h[k] = G[<<h[k - 1], k>>]
    BY <1>5 DEF Steps
  <2> QED BY <1>2, <2>1
<1>7. h[0] = <<>>
  BY <1>5 DEF Steps
<1> QED BY <1>1, <1>5, <1>6, <1>7 DEF WireSteps, S

LEMMA FlattenIs ==
    ASSUME NEW n \in Nat, NEW q \in Seq(Seq(Bytes)), Len(q) = n, NEW h,
           h[0] = <<>>, \A k \in 1..n : h[k] = h[k - 1] \o q[k]
    PROVE  FlattenSeq(q) = h[n]
<1>1. CASE n = 0
  <2>1. q = <<>>
    BY <1>1
  <2> QED BY <1>1, <2>1 DEF FlattenSeq
<1>2. CASE n # 0
  <2>1. PICK f : /\ f = CHOOSE x : x = [i \in 1..n |-> IF i = 1 THEN q[i] ELSE x[i - 1] \o q[i]]
                 /\ FlattenSeq(q) = f[n]
    BY <1>2 DEF FlattenSeq
  <2>2. PICK g : g = [i \in 1..n |-> h[i]]
    OBVIOUS
  <2>3. g = [i \in 1..n |-> IF i = 1 THEN q[i] ELSE g[i - 1] \o q[i]]
    <3> SUFFICES ASSUME NEW i \in 1..n PROVE h[i] = IF i = 1 THEN q[i] ELSE g[i - 1] \o q[i]
      BY <2>2
    <3>1. CASE i = 1
      <4>1. i - 1 = 0 /\ h[i] = h[i - 1] \o q[i]
        BY <3>1
      <4>2. q[i] \in Seq(Bytes) /\ <<>> \o q[i] = q[i]
        BY ConcatEmptySeq
      <4> QED BY <3>1, <4>1, <4>2
    <3>2. CASE i # 1
      <4>1. i - 1 \in 1..n
        BY <3>2
      <4> QED BY <2>2, <3>2, <4>1
    <3> QED BY <3>1, <3>2
  <2>4. f = [i \in 1..n |-> IF i = 1 THEN q[i] ELSE f[i - 1] \o q[i]]
    BY <2>1, <2>3
  <2> DEFINE T == {k \in 0..n : k # 0 => f[k] = g[k]}
  <2>5. 0 \in T
    OBVIOUS
  <2>6. ASSUME NEW k \in 1..n, k - 1 \in T PROVE k \in T
    <3>1. CASE k = 1
      BY <2>3, <2>4, <3>1
    <3>2. CASE k # 1
      <4>1. k - 1 # 0 /\ f[k - 1] = g[k - 1] /\ k \in 0..n
        BY <2>6, <3>2
      <4>2. f[k] = f[k - 1] \o q[k] /\ g[k] = g[k - 1] \o q[k]
        BY <2>3, <2>4, <3>2
      <4> QED BY <4>1, <4>2
    <3> QED BY <3>1, <3>2
  <2>7. n \in T
    <3> HIDE DEF T
    <3>1. 0..n \subseteq T
      BY <2>5, <2>6, Induct
    <3> QED BY <3>1
  <2> QED BY <1>2, <2>1, <2>2, <2>7
<1> QED BY <1>1, <1>2

LEMMA WireOf ==
    ASSUME NEW s \in Seq(Chars), NEW h, WireSteps(h, TRUE, s), NEW k \in 0..Len(s)
    PROVE  OnWire(SubSeq(s, 1, k)) = h[k]
<1>1. PICK n \in Nat : n = Len(s) /\ \A i \in 1..n : s[i] \in Chars
  OBVIOUS
<1>2. PICK t : t = SubSeq(s, 1, k)
  OBVIOUS
<1>3. Len(t) = k /\ \A i \in 1..k : t[i] = s[i]
  <2>1. \A i \in 1..k : s[i] \in Chars
    BY <1>1
  <2>2. Len(t) = (IF 1 <= k THEN k - 1 + 1 ELSE 0) /\ \A i \in 1..(k - 1 + 1) : t[i] = s[1 + i - 1]
    BY <1>1, <1>2, <2>1, SubSeqProperties
  <2> QED BY <1>1, <2>2
<1> DEFINE q == [i \in 1..k |-> What(TRUE, s[i])]
<1>4. OnWire(t) = FlattenSeq(q)
  BY <1>3 DEF OnWire, What, Sends
<1>5. q \in Seq(Seq(Bytes)) /\ Len(q) = k
  <2>1. \A i \in 1..k : i \in 1..n
    BY <1>1
  <2>2. \A i \in 1..k : q[i] \in Seq(Bytes)
    BY <1>1, <2>1, WhatBytes
  <2>3. k \in Nat
    BY <1>1
  <2>4. q \in [1..k -> Seq(Bytes)]
    BY <2>2
  <2> HIDE DEF q
  <2> QED BY <2>3, <2>4
<1>6. \A i \in 1..k : h[i] = h[i - 1] \o q[i]
  <2>1. \A i \in 1..k : i \in 1..Len(s)
    BY <1>1
  <2> QED BY <2>1 DEF WireSteps
<1>7. h[0] = <<>> /\ k \in Nat
  BY <1>1 DEF WireSteps
<1> HIDE DEF q
<1> QED BY <1>2, <1>4, <1>5, <1>6, <1>7, FlattenIs

\* What is transmitted.
TxInv ==
    /\ out \in Outs /\ written \in Seq(Bytes) /\ due \in Nat
    /\ TxConserved /\ LineOut

\* All of x, and nothing else, was sent between b and r.
Delivers(b, r, x) == Sent(r) = Sent(b) \o x

\* The states between, of a string that is written: all of it sent, nothing taken back.
LEMMA PutsSent ==
    ASSUME NEW p \in BOOLEAN, NEW b \in Outs, NEW s \in Seq(Chars), NEW f, NEW h,
           PutsSteps(f, p, b, s), WireSteps(h, p, s), NEW m \in 0..Len(s)
    PROVE  Delivers(b, f[m], h[m])
<1>1. PICK n \in Nat : n = Len(s) /\ \A i \in 1..n : s[i] \in Chars
  OBVIOUS
<1>2. f \in [0..n -> Outs] /\ f[0] = b /\ \A k \in 1..n : f[k] = Puts(p, f[k - 1], s[k])
  BY <1>1 DEF PutsSteps
<1>3. h \in [0..n -> Seq(Bytes)] /\ h[0] = <<>> /\ \A k \in 1..n : h[k] = h[k - 1] \o What(p, s[k])
  BY <1>1 DEF WireSteps
<1> DEFINE T == {k \in 0..n : Sent(f[k]) = Sent(b) \o h[k]}
<1>4. 0 \in T
  <2>1. Sent(b) \o <<>> = Sent(b) /\ 0 \in 0..n
    BY SentSeq, ConcatEmptySeq
  <2>2. Sent(f[0]) = Sent(b) \o h[0]
    BY <1>2, <1>3, <2>1
  <2> QED BY <2>1, <2>2
<1>5. ASSUME NEW k \in 1..n, k - 1 \in T PROVE k \in T
  <2>1. k \in 0..n /\ k - 1 \in 0..n
    OBVIOUS
  <2>2. f[k - 1] \in Outs /\ s[k] \in Chars /\ f[k] = Puts(p, f[k - 1], s[k])
    BY <1>1, <1>2, <2>1
  <2>3. Sent(f[k]) = Sent(f[k - 1]) \o What(p, s[k])
    <3>1. PICK r \in Outs : r = f[k - 1]
      BY <2>2
    <3>2. PICK c \in Chars : c = s[k]
      BY <2>2
    <3>3. Sent(Puts(p, r, c)) = Sent(r) \o What(p, c)
      BY PutsOne
    <3> QED BY <2>2, <3>1, <3>2, <3>3
  <2>4. PICK x \in Seq(Bytes) : x = Sent(b)
    BY SentSeq
  <2>5. PICK y \in Seq(Bytes) : y = h[k - 1]
    BY <1>3, <2>1
  <2>6. PICK z \in Seq(Bytes) : z = What(p, s[k])
    BY <2>2, WhatBytes
  <2>7. (x \o y) \o z = x \o (y \o z)
    BY ConcatAssociative
  <2>8. Sent(f[k - 1]) = x \o y /\ h[k] = y \o z
    BY <1>3, <1>5, <2>4, <2>5, <2>6
  <2>9. Sent(f[k]) = Sent(b) \o h[k]
    BY <2>3, <2>4, <2>6, <2>7, <2>8
  <2> QED BY <2>1, <2>9
<1>6. 0..n \subseteq T
  <2> HIDE DEF T
  <2> QED BY <1>4, <1>5, Induct
<1> QED BY <1>1, <1>6 DEF Delivers

LEMMA PutsGrow ==
    ASSUME NEW p \in BOOLEAN, NEW b \in Outs, NEW s \in Seq(Chars), NEW f, PutsSteps(f, p, b, s),
           NEW m \in 0..Len(s)
    PROVE  Len(f[Len(s)].wire) >= Len(f[m].wire)
<1>1. PICK n \in Nat : n = Len(s) /\ \A i \in 1..n : s[i] \in Chars
  OBVIOUS
<1>2. f \in [0..n -> Outs] /\ \A k \in 1..n : f[k] = Puts(p, f[k - 1], s[k])
  BY <1>1 DEF PutsSteps
<1> DEFINE L(k) == Len(f[k].wire)
           T == {k \in 0..n : k >= m => L(k) >= L(m)}
<1>3. \A k \in 0..n : L(k) \in Nat
  BY <1>2, SentBytes
<1>4. \A k \in 1..n : L(k) >= L(k - 1)
  <2> SUFFICES ASSUME NEW k \in 1..n PROVE L(k) >= L(k - 1)
    OBVIOUS
  <2>1. f[k - 1] \in Outs /\ f[k] = Puts(p, f[k - 1], s[k]) /\ s[k] \in Chars
    BY <1>1, <1>2
  <2> QED BY <2>1, PutsOne
<1> HIDE DEF L
<1>5. m \in 0..n
  BY <1>1
<1>6. 0 \in T
  BY <1>3, <1>5
<1>7. ASSUME NEW k \in 1..n, k - 1 \in T PROVE k \in T
  <2>1. k \in 0..n /\ k - 1 \in 0..n
    OBVIOUS
  <2>2. L(k) \in Nat /\ L(k - 1) \in Nat /\ L(m) \in Nat /\ L(k) >= L(k - 1)
    BY <1>3, <1>4, <1>5, <2>1
  <2> QED BY <1>5, <1>7, <2>1, <2>2
<1>8. n \in T
  <2> HIDE DEF T
  <2>1. 0..n \subseteq T
    BY <1>6, <1>7, Induct
  <2> QED BY <2>1
<1> QED BY <1>1, <1>5, <1>8 DEF L

LEMMA WireOfAll ==
    ASSUME NEW s \in Seq(Chars), NEW h, WireSteps(h, TRUE, s)
    PROVE  OnWire(s) = h[Len(s)]
<1>1. Len(s) \in 0..Len(s) /\ SubSeq(s, 1, Len(s)) = s
  BY SubSeqFull
<1> QED BY <1>1, WireOf

LEMMA WireOfWrite ==
    ASSUME NEW s \in Seq(Chars), NEW h, WireSteps(h, FALSE, s)
    PROVE  s = h[Len(s)]
<1>1. PICK n \in Nat : n = Len(s) /\ \A i \in 1..n : s[i] \in Chars
  OBVIOUS
<1>2. h[0] = <<>> /\ \A k \in 1..n : h[k] = h[k - 1] \o <<s[k]>>
  BY <1>1 DEF WireSteps, What
<1> DEFINE T == {k \in 0..n : h[k] = SubSeq(s, 1, k)}
<1>3. 0 \in T
  <2>1. SubSeq(s, 1, 0) = <<>>
    BY SubSeqEmpty
  <2>2. 0 \in 0..n
    OBVIOUS
  <2> QED BY <1>2, <2>1, <2>2
<1>4. ASSUME NEW k \in 1..n, k - 1 \in T PROVE k \in T
  <2>1. SubSeq(s, 1, k - 1) \o <<s[k]>> = SubSeq(s, 1, k)
    <3>1. \A i \in 1..k : s[i] \in Chars
      BY <1>1
    <3>2. SubSeq(s, 1, k) = Append(SubSeq(s, 1, k - 1), s[k]) /\ SubSeq(s, 1, k - 1) \in Seq(Chars)
      BY <1>1, <3>1
    <3> QED BY <1>1, <3>2, AppendIsConcat
  <2>2. k \in 0..n
    OBVIOUS
  <2> QED BY <1>2, <1>4, <2>1, <2>2
<1>5. n \in T
  <2> HIDE DEF T
  <2>1. 0..n \subseteq T
    BY <1>3, <1>4, Induct
  <2> QED BY <2>1
<1> QED BY <1>1, <1>5, SubSeqFull

LEMMA WriteTx == ASSUME TxInv, NEW s \in Seq(Chars), write(s) PROVE TxInv'
<1>1. out \in Outs /\ out' = FoldLeft(LAMBDA b, c : push(make_room(b), c), out, s)
  BY DEF TxInv, write
<1>2. PICK f : PutsSteps(f, FALSE, out, s) /\ out' = f[Len(s)]
  BY <1>1, WriteSteps
<1>3. PICK h : WireSteps(h, FALSE, s)
  BY WireTraced
<1>4. PICK n \in Nat : n = Len(s)
  OBVIOUS
<1>5. out' \in Outs
  BY <1>2, <1>4 DEF PutsSteps
<1>6. Sent(out') = Sent(out) \o s
  <2>1. Sent(f[Len(s)]) = Sent(out) \o h[Len(s)]
    <3>1. Len(s) \in 0..Len(s)
      BY <1>4
    <3>2. Delivers(out, f[Len(s)], h[Len(s)])
      BY <1>1, <1>2, <1>3, <3>1, PutsSent
    <3> QED BY <3>2 DEF Delivers
  <2> QED BY <1>2, <1>3, <2>1, WireOfWrite
<1>7. Len(out'.wire) >= Len(out.wire)
  <2>1. 0 \in 0..Len(s) /\ f[0] = out
    BY <1>2, <1>4 DEF PutsSteps
  <2> QED BY <1>1, <1>2, <2>1, PutsGrow
<1>8. written' = written \o s /\ due' = due /\ written' \in Seq(Bytes)
  <2>1. s \in Seq(Bytes)
    BY DEF Bytes
  <2>2. written' = written \o s /\ due' = due
    BY DEF write
  <2> QED BY <2>1, <2>2, ConcatProperties DEF TxInv
<1>9. TxConserved'
  BY <1>6, <1>8 DEF TxInv, TxConserved, Sent
<1>10. LineOut'
  <2>1. Len(out'.wire) \in Nat /\ Len(out.wire) \in Nat
    BY <1>1, <1>5, SentBytes
  <2> QED BY <1>7, <1>8, <2>1 DEF TxInv, LineOut
<1> QED BY <1>5, <1>8, <1>9, <1>10 DEF TxInv

LEMMA LastLF ==
    ASSUME NEW s \in Seq(Chars), LF \in ToSet(s), NEW m, m = SelectLastInSeq(s, LAMBDA c : c = LF)
    PROVE  m \in 1..Len(s) /\ s[m] = LF
<1>1. PICK n \in Nat : n = Len(s)
  OBVIOUS
<1>2. PICK u : u = {i \in 1..n : s[i] = LF}
  OBVIOUS
<1>3. u # {}
  BY <1>1, <1>2 DEF ToSet
<1>4. m = Max(u)
  BY <1>1, <1>2, <1>3 DEF SelectLastInSeq
<1>5. u \in SUBSET (1..n)
  BY <1>2
<1>6. m \in u
  BY <1>3, <1>4, <1>5, MaxOf
<1> QED BY <1>1, <1>2, <1>6

LEMMA PutsAll ==
    ASSUME TxInv, NEW s \in Seq(Chars), NEW r, r = FoldLeft(printf_write_char, out, s)
    PROVE  /\ r \in Outs /\ Sent(r) = Sent(out) \o OnWire(s) /\ OnWire(s) \in Seq(Bytes)
           /\ Len(r.wire) >= Len(out.wire)
           /\ \A m \in 1..Len(s) :
                 s[m] = LF => Len(r.wire) >= Len(written) + Len(OnWire(SubSeq(s, 1, m)))
<1>1. out \in Outs /\ Sent(out) = written /\ written \in Seq(Bytes)
  BY DEF TxInv, TxConserved, Sent
<1>2. PICK f : PutsSteps(f, TRUE, out, s) /\ r = f[Len(s)]
  BY <1>1, PrintfSteps
<1>3. PICK h : WireSteps(h, TRUE, s)
  BY WireTraced
<1>4. PICK n \in Nat : n = Len(s) /\ \A k \in 1..n : s[k] \in Chars
  OBVIOUS
<1>5. f \in [0..n -> Outs] /\ f[0] = out /\ \A k \in 1..n : f[k] = Puts(TRUE, f[k - 1], s[k])
  BY <1>2, <1>4 DEF PutsSteps
<1>6. h \in [0..n -> Seq(Bytes)] /\ \A k \in 0..n : Sent(f[k]) = Sent(out) \o h[k]
  <2>1. \A k \in 0..Len(s) : Delivers(out, f[k], h[k])
    BY <1>1, <1>2, <1>3, PutsSent
  <2> QED BY <1>3, <1>4, <2>1 DEF WireSteps, Delivers
<1>7. 0 \in 0..n /\ n \in 0..n
  OBVIOUS
<1>8. r \in Outs /\ Sent(r) = Sent(out) \o OnWire(s) /\ OnWire(s) \in Seq(Bytes)
  BY <1>2, <1>3, <1>4, <1>5, <1>6, <1>7, WireOfAll
<1>9. Len(r.wire) >= Len(out.wire)
  <2>1. Len(r.wire) >= Len(f[0].wire)
    BY <1>1, <1>2, <1>4, <1>7, PutsGrow
  <2> QED BY <1>5, <2>1
<1>10. ASSUME NEW m \in 1..n, s[m] = LF
       PROVE  Len(r.wire) >= Len(written) + Len(OnWire(SubSeq(s, 1, m)))
  <2>1. m \in 0..n /\ m - 1 \in 0..n
    OBVIOUS
  <2>2. Len(r.wire) >= Len(f[m].wire)
    BY <1>1, <1>2, <1>4, <2>1, PutsGrow
  <2>3. f[m].tx = <<>>
    <3>1. PICK b \in Outs : b = f[m - 1]
      BY <1>5, <2>1
    <3>2. PICK c \in Chars : c = s[m]
      BY <1>4
    <3>3. Puts(TRUE, b, c).tx = <<>>
      BY <1>10, <3>2, PutsOne
    <3> QED BY <1>5, <3>1, <3>2, <3>3
  <2>4. Sent(f[m]) = f[m].wire
    <3>1. f[m].wire \in Seq(Bytes)
      BY <1>5, <2>1, SentBytes
    <3> QED BY <2>3, <3>1, ConcatEmptySeq DEF Sent
  <2>5. f[m].wire = written \o h[m]
    BY <1>1, <1>6, <2>1, <2>4
  <2>6. h[m] = OnWire(SubSeq(s, 1, m)) /\ h[m] \in Seq(Bytes)
    BY <1>3, <1>4, <1>6, <2>1, WireOf
  <2>7. Len(f[m].wire) = Len(written) + Len(h[m])
    BY <1>1, <2>5, <2>6, ConcatProperties
  <2> QED BY <2>2, <2>6, <2>7
<1> QED BY <1>4, <1>8, <1>9, <1>10

-----------------------------------------------------------------------------
(***************************************************************************)
(* Transmission.                                                            *)
(***************************************************************************)
LEMMA FlushTx == ASSUME TxInv, out' = flush(out), UNCHANGED <<written, due>> PROVE TxInv'
<1>1. /\ out' \in Outs /\ out'.wire \o out'.tx = out.wire \o out.tx /\ Len(out'.wire) >= Len(out.wire)
  BY FlushAll DEF TxInv
<1>2. Len(out'.wire) \in Nat /\ Len(out.wire) \in Nat
  BY <1>1, SentBytes DEF TxInv
<1>3. LineOut'
  BY <1>1, <1>2 DEF TxInv, LineOut
<1> QED BY <1>1, <1>3 DEF TxInv, TxConserved

LEMMA PutsTx == ASSUME TxInv, NEW s \in Seq(Chars), puts(s) PROVE TxInv'
<1>1. /\ out' \in Outs /\ Sent(out') = Sent(out) \o OnWire(s) /\ OnWire(s) \in Seq(Bytes)
      /\ Len(out'.wire) >= Len(out.wire)
      /\ \A m \in 1..Len(s) : s[m] = LF => Len(out'.wire) >= Len(written) + Len(OnWire(SubSeq(s, 1, m)))
  BY PutsAll DEF puts
<1>2. written' = written \o OnWire(s) /\ written' \in Seq(Bytes)
  BY <1>1, ConcatProperties DEF puts, TxInv
<1>3. TxConserved'
  BY <1>1, <1>2 DEF TxInv, TxConserved, Sent
<1>4. Len(out'.wire) \in Nat /\ Len(out.wire) \in Nat
  BY <1>1, SentBytes DEF TxInv
<1>5. CASE LF \in ToSet(s)
  <2>1. PICK m : m = SelectLastInSeq(s, LAMBDA c : c = LF)
    OBVIOUS
  <2>2. m \in 1..Len(s) /\ s[m] = LF
    BY <1>5, <2>1, LastLF
  <2>3. due' = Len(written) + Len(OnWire(SubSeq(s, 1, m)))
    BY <1>5, <2>1 DEF puts
  <2>4. OnWire(SubSeq(s, 1, m)) \in Seq(Bytes)
    <3>1. PICK h : WireSteps(h, TRUE, s)
      BY WireTraced
    <3>2. m \in 0..Len(s)
      BY <2>2
    <3> QED BY <3>1, <3>2, WireOf DEF WireSteps
  <2>5. due' \in Nat
    BY <2>3, <2>4 DEF TxInv
  <2>6. Len(out'.wire) >= due'
    BY <1>1, <2>2, <2>3
  <2> QED BY <1>1, <1>2, <1>3, <2>5, <2>6 DEF TxInv, LineOut
<1>6. CASE LF \notin ToSet(s)
  <2>1. due' = due
    BY <1>6 DEF puts
  <2>2. LineOut'
    BY <1>1, <1>4, <2>1 DEF TxInv, LineOut
  <2> QED BY <1>1, <1>2, <1>3, <2>1, <2>2 DEF TxInv
<1> QED BY <1>5, <1>6

LEMMA RetargetTx == ASSUME TxInv, NEW s \in Seq(Chars), retarget_write(s) PROVE TxInv'
<1>1. PICK r : r = FoldLeft(printf_write_char, out, s)
  OBVIOUS
<1>2. r \in Outs /\ Sent(r) = Sent(out) \o OnWire(s) /\ OnWire(s) \in Seq(Bytes)
  BY <1>1, PutsAll
<1>3. out' = flush(r) /\ written' = written \o OnWire(s) /\ due' = Len(written')
  BY <1>1 DEF retarget_write
<1>4. /\ out' \in Outs /\ out'.wire \o out'.tx = r.wire \o r.tx /\ out'.tx = <<>>
  BY <1>2, <1>3, FlushAll
<1>5. written' \in Seq(Bytes)
  BY <1>2, <1>3, ConcatProperties DEF TxInv
<1>6. out'.wire \o out'.tx = written'
  BY <1>2, <1>3, <1>4 DEF TxInv, TxConserved, Sent
<1>7. out'.wire = written'
  <2>1. out'.wire \in Seq(Bytes) /\ out'.wire \o <<>> = out'.wire
    BY <1>4, SentBytes, ConcatEmptySeq
  <2> QED BY <1>4, <1>6, <2>1
<1>8. due' \in Nat /\ Len(out'.wire) >= due'
  BY <1>3, <1>5, <1>7
<1> QED BY <1>4, <1>5, <1>6, <1>8 DEF TxInv, TxConserved, LineOut

LEMMA NextTx == TxInv /\ [Next]_vars => TxInv'
<1> SUFFICES ASSUME TxInv, [Next]_vars PROVE TxInv'
  OBVIOUS
<1>1. CASE UNCHANGED txVars
  BY <1>1 DEF TxInv, TxConserved, LineOut, txVars
<1>2. \A s \in Strings \cup {<<>>} : s \in Seq(Chars)
  <2>1. ASSUME NEW s \in Strings PROVE s \in Seq(Chars)
    <3>1. PICK n \in 1..MaxAsk : s \in [1..n -> Chars]
      BY DEF Strings
    <3>2. n \in Nat
      OBVIOUS
    <3> QED BY <3>1, <3>2, SeqDef
  <2>2. <<>> \in Seq(Chars)
    OBVIOUS
  <2> QED BY <2>1, <2>2
<1>3. ASSUME NEW s \in Strings, puts(s) \/ write(s) PROVE TxInv'
  BY <1>2, <1>3, PutsTx, WriteTx
<1>4. ASSUME NEW s \in Strings \cup {<<>>}, retarget_write(s) PROVE TxInv'
  BY <1>2, <1>4, RetargetTx
<1>5. CASE poll_flush
  BY <1>5, FlushTx DEF poll_flush
<1>6. CASE UNCHANGED vars
  BY <1>1, <1>6 DEF vars, txVars
<1>7. CASE terminal \/ scanf_read_char \/ end_read \/ clear_rx
  BY <1>1, <1>7 DEF terminal, scanf_read_char, end_read, clear_rx
<1>8. ASSUME NEW b, set_lf2crlf_enable(b) PROVE TxInv'
  BY <1>1, <1>8 DEF set_lf2crlf_enable
<1>9. ASSUME NEW c, uart_intput(c) PROVE TxInv'
  BY <1>1, <1>9 DEF uart_intput
<1>10. ASSUME NEW how, NEW n, start_read(how, n) PROVE TxInv'
  BY <1>1, <1>10 DEF start_read
<1> QED BY <1>3, <1>4, <1>5, <1>6, <1>7, <1>8, <1>9, <1>10 DEF Next

LEMMA InitTx == Init => TxInv
<1> SUFFICES ASSUME Init PROVE TxInv
  OBVIOUS
<1>1. <<>> \in Seq(Bytes) /\ Len(<<>>) = 0 /\ <<>> \o <<>> = <<>>
  BY EmptySeq, ConcatEmptySeq
<1> QED BY <1>1 DEF Init, TxInv, TxConserved, LineOut, Outs

\* Whatever mix of printf, puts, write, flush and passes of poll() makes room in the ring,
\* the wire and the ring together hold what was written, in its order (uart_buf.cpp:69-118).
THEOREM NothingLost == Spec => []TxConserved
<1>1. TxInv => TxConserved
  BY DEF TxInv
<1> QED BY <1>1, InitTx, NextTx, PTL DEF Spec

\* A newline of printf and puts flushes, and so does stdio: what was written up to there is on
\* the wire, whether the task lives or not, and nothing takes it back (uart_buf.cpp:101-115).
THEOREM LinesOut == Spec => []LineOut
<1>1. TxInv => LineOut
  BY DEF TxInv
<1> QED BY <1>1, InitTx, NextTx, PTL DEF Spec
=============================================================================
