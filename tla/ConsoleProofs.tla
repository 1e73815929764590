--------------------------- MODULE ConsoleProofs ---------------------------
(***************************************************************************)
(* The line editor keeps its state together (EditorInv), the views a command *)
(* was given stay the tokens of the line that was entered (ArgsStay), and the *)
(* terminal shows the line that is edited (ScreenFollows), for every set of   *)
(* typed characters, every length of the history and of the line.           *)
(*                                                                         *)
(* Each key rewrites the row from some column p of the line on: Rewrites says *)
(* when the characters it writes leave the row showing the new line, Draws   *)
(* that a key which writes so does, and one lemma per key that it does.       *)
(*                                                                           *)
(* The second half is about what is read: scanf reads back what was written  *)
(* (ReadsBack), for every width of an int and every set of items, and the    *)
(* tokenizer of the console gives back every line (TokensReadBack).          *)
(***************************************************************************)
EXTENDS Console, MCLibrary, SequenceTheorems, FiniteSetTheorems, WellFoundedInduction, TLAPS

-----------------------------------------------------------------------------
(***************************************************************************)
(* Sequences: a part of one, three put together, one element more or less.  *)
(***************************************************************************)
\* x is what s holds from m to n.
Piece(X, x, s, m, n) ==
    /\ x \in Seq(X) /\ Len(x) = n - m + 1
    /\ \A i \in 1..(n - m + 1) : x[i] = s[m + i - 1]

LEMMA Part ==
    ASSUME NEW X, NEW s \in Seq(X), NEW m \in Nat \ {0}, NEW n \in Nat, m <= n + 1, n <= Len(s)
    PROVE  Piece(X, SubSeq(s, m, n), s, m, n)
<1>1. Len(s) \in Nat
  BY LenProperties
<1>2. \A i \in m..n : s[i] \in X
  <2> SUFFICES ASSUME NEW i \in m..n PROVE s[i] \in X
    OBVIOUS
  <2>1. i \in 1..Len(s)
    BY <1>1
  <2> QED BY <2>1, ElementOfSeq
<1>3. m \in Int /\ n \in Int
  OBVIOUS
<1>4. /\ SubSeq(s, m, n) \in Seq(X)
      /\ Len(SubSeq(s, m, n)) = IF m <= n THEN n - m + 1 ELSE 0
      /\ \A i \in 1..(n - m + 1) : SubSeq(s, m, n)[i] = s[m + i - 1]
  BY <1>2, <1>3, SubSeqProperties
<1> QED BY <1>4 DEF Piece

\* Three parts of a row or a line put together.
LEMMA Threefold ==
    ASSUME NEW X, NEW a \in Seq(X), NEW b \in Seq(X), NEW c \in Seq(X)
    PROVE  /\ a \o b \o c \in Seq(X) /\ Len(a) \in Nat /\ Len(b) \in Nat /\ Len(c) \in Nat
           /\ Len(a \o b \o c) = Len(a) + Len(b) + Len(c)
           /\ \A i \in 1..Len(a) : (a \o b \o c)[i] = a[i]
           /\ \A i \in 1..Len(b) : (a \o b \o c)[Len(a) + i] = b[i]
           /\ \A i \in 1..Len(c) : (a \o b \o c)[Len(a) + Len(b) + i] = c[i]
<1>1. Len(a) \in Nat /\ Len(b) \in Nat /\ Len(c) \in Nat
  BY LenProperties
<1>2. PICK x : x = a \o b
  OBVIOUS
<1>3. /\ x \in Seq(X) /\ Len(x) = Len(a) + Len(b)
      /\ \A i \in 1..(Len(a) + Len(b)) : x[i] = IF i <= Len(a) THEN a[i] ELSE b[i - Len(a)]
  BY <1>2, ConcatProperties
<1>4. PICK y : y = x \o c
  OBVIOUS
<1>5. /\ y \in Seq(X) /\ Len(y) = Len(x) + Len(c)
      /\ \A i \in 1..(Len(x) + Len(c)) : y[i] = IF i <= Len(x) THEN x[i] ELSE c[i - Len(x)]
  <2>1. x \in Seq(X) /\ c \in Seq(X)
    BY <1>3
  <2> QED BY <1>4, <2>1, ConcatProperties
<1>6. \A i \in 1..Len(a) : y[i] = a[i]
  BY <1>1, <1>3, <1>5
<1>7. \A i \in 1..Len(b) : y[Len(a) + i] = b[i]
  <2> SUFFICES ASSUME NEW i \in 1..Len(b) PROVE y[Len(a) + i] = b[i]
    OBVIOUS
  <2>1. PICK j : j = Len(a) + i
    OBVIOUS
  <2>2. /\ j \in 1..(Len(a) + Len(b)) /\ ~(j <= Len(a)) /\ j - Len(a) = i
        /\ j <= Len(x) /\ j \in 1..(Len(x) + Len(c))
    BY <1>1, <1>3, <2>1
  <2> QED BY <1>3, <1>5, <2>1, <2>2
<1>8. \A i \in 1..Len(c) : y[Len(a) + Len(b) + i] = c[i]
  <2> SUFFICES ASSUME NEW i \in 1..Len(c) PROVE y[Len(a) + Len(b) + i] = c[i]
    OBVIOUS
  <2>1. PICK j : j = Len(a) + Len(b) + i
    OBVIOUS
  <2>2. j \in 1..(Len(x) + Len(c)) /\ ~(j <= Len(x)) /\ j - Len(x) = i
    BY <1>1, <1>3, <2>1
  <2> QED BY <1>5, <2>1, <2>2
<1> QED BY <1>1, <1>2, <1>3, <1>4, <1>5, <1>6, <1>7, <1>8

\* y is r with cs written over it from column at on.
Overwrites(X, y, r, pos, cs) ==
    /\ y \in Seq(X)
    /\ Len(y) = IF pos + Len(cs) > Len(r) THEN pos + Len(cs) ELSE Len(r)
    /\ \A i \in 1..Len(y) : y[i] = IF i \in (pos + 1)..(pos + Len(cs)) THEN cs[i - pos] ELSE r[i]

LEMMA Over ==
    ASSUME NEW X, NEW r \in Seq(X), NEW cs \in Seq(X), NEW pos \in 0..Len(r)
    PROVE  Overwrites(X, over(r, pos, cs), r, pos, cs)
<1>1. Len(r) \in Nat /\ Len(cs) \in Nat /\ pos \in Nat /\ pos <= Len(r)
  BY LenProperties
<1>2. PICK n \in Nat : n = Len(r)
  BY <1>1
<1>3. PICK m \in Nat : m = Len(cs)
  BY <1>1
<1>4. PICK a : a = SubSeq(r, 1, pos)
  OBVIOUS
<1>5. a \in Seq(X) /\ Len(a) = pos /\ \A i \in 1..pos : a[i] = r[i]
  BY <1>1, <1>4, Part DEF Piece
<1>6. PICK c : c = SubSeq(r, pos + m + 1, n)
  OBVIOUS
<1>7. /\ c \in Seq(X) /\ Len(c) = (IF pos + m > n THEN 0 ELSE n - pos - m)
      /\ \A i \in 1..Len(c) : c[i] = r[pos + m + i]
  <2>1. CASE pos + m > n
    <3>1. pos + m + 1 \in Int /\ n \in Int /\ n < pos + m + 1
      BY <1>1, <2>1
    <3>2. c = <<>>
      BY <1>6, <3>1, SubSeqEmpty
    <3> QED BY <2>1, <3>2
  <2>2. CASE ~(pos + m > n)
    <3>1. pos + m + 1 \in Nat \ {0} /\ pos + m + 1 <= n + 1 /\ n <= Len(r)
      BY <1>1, <1>2, <2>2
    <3>2. c \in Seq(X) /\ Len(c) = n - (pos + m + 1) + 1
          /\ \A i \in 1..(n - (pos + m + 1) + 1) : c[i] = r[(pos + m + 1) + i - 1]
      BY <1>6, <3>1, Part, SMTT(30) DEF Piece
    <3>3. n - (pos + m + 1) + 1 = n - pos - m
      BY <1>1
    <3>4. \A i \in 1..Len(c) : (pos + m + 1) + i - 1 = pos + m + i
      BY <1>1, <3>2
    <3> QED BY <2>2, <3>2, <3>3, <3>4
  <2> QED BY <2>1, <2>2
<1>8. PICK y : y = a \o cs \o c
  OBVIOUS
<1>9. y = over(r, pos, cs)
  BY <1>2, <1>3, <1>4, <1>6, <1>8 DEF over
<1>10. /\ y \in Seq(X) /\ Len(y) = pos + m + Len(c)
       /\ \A i \in 1..pos : y[i] = a[i]
       /\ \A i \in 1..m : y[pos + i] = cs[i]
       /\ \A i \in 1..Len(c) : y[pos + m + i] = c[i]
  <2>1. a \in Seq(X) /\ c \in Seq(X) /\ cs \in Seq(X)
    BY <1>5, <1>7
  <2>2. /\ a \o cs \o c \in Seq(X)
        /\ Len(a \o cs \o c) = Len(a) + Len(cs) + Len(c)
        /\ \A i \in 1..Len(a) : (a \o cs \o c)[i] = a[i]
        /\ \A i \in 1..Len(cs) : (a \o cs \o c)[Len(a) + i] = cs[i]
        /\ \A i \in 1..Len(c) : (a \o cs \o c)[Len(a) + Len(cs) + i] = c[i]
    BY <2>1, Threefold
  <2> QED BY <1>3, <1>5, <1>8, <2>2
<1>11. Len(y) = IF pos + m > n THEN pos + m ELSE n
  BY <1>1, <1>7, <1>10
<1>12. ASSUME NEW i \in 1..Len(y) PROVE y[i] = IF i \in (pos + 1)..(pos + m) THEN cs[i - pos] ELSE r[i]
  <2>1. CASE i <= pos
    BY <1>1, <1>5, <1>10, <2>1
  <2>2. CASE i > pos /\ i <= pos + m
    <3>1. i - pos \in 1..m /\ pos + (i - pos) = i /\ i \in (pos + 1)..(pos + m)
      BY <1>1, <2>2
    <3> QED BY <1>10, <3>1
  <2>3. CASE i > pos + m
    <3>1. i - pos - m \in 1..Len(c) /\ pos + m + (i - pos - m) = i /\ i \notin (pos + 1)..(pos + m)
      BY <1>1, <1>7, <1>11, <1>10, <2>3
    <3> QED BY <1>7, <1>10, <3>1
  <2>4. i \in Nat
    OBVIOUS
  <2> QED BY <1>1, <2>1, <2>2, <2>3, <2>4
<1> QED BY <1>2, <1>3, <1>9, <1>10, <1>11, <1>12 DEF Overwrites

\* y is s with e behind its first p elements.
Grown(X, y, s, p, e) ==
    /\ y \in Seq(X) /\ Len(y) = Len(s) + 1
    /\ \A i \in 1..p : y[i] = s[i]
    /\ y[p + 1] = e
    /\ \A i \in 1..(Len(s) - p) : y[p + 1 + i] = s[p + i]

LEMMA Inserted ==
    ASSUME NEW X, NEW s \in Seq(X), NEW e \in X, NEW p \in 0..Len(s)
    PROVE  Grown(X, InsertAt(s, p + 1, e), s, p, e)
<1>1. Len(s) \in Nat /\ p \in Nat /\ p <= Len(s)
  BY LenProperties
<1>2. PICK a : a = SubSeq(s, 1, p)
  OBVIOUS
<1>3. a \in Seq(X) /\ Len(a) = p /\ \A i \in 1..p : a[i] = s[i]
  BY <1>1, <1>2, Part DEF Piece
<1>4. PICK c : c = SubSeq(s, p + 1, Len(s))
  OBVIOUS
<1>5. c \in Seq(X) /\ Len(c) = Len(s) - p /\ \A i \in 1..(Len(s) - p) : c[i] = s[p + i]
  <2>1. p + 1 \in Nat \ {0} /\ p + 1 <= Len(s) + 1
    BY <1>1
  <2>2. /\ c \in Seq(X) /\ Len(c) = Len(s) - (p + 1) + 1
        /\ \A i \in 1..(Len(s) - (p + 1) + 1) : c[i] = s[(p + 1) + i - 1]
    BY <1>1, <1>4, <2>1, Part DEF Piece
  <2>3. Len(s) - (p + 1) + 1 = Len(s) - p /\ \A i \in 1..(Len(s) - p) : (p + 1) + i - 1 = p + i
    BY <1>1
  <2> QED BY <2>2, <2>3
<1>6. PICK b : b = <<e>>
  OBVIOUS
<1>7. b \in Seq(X) /\ Len(b) = 1 /\ b[1] = e
  BY <1>6
<1>8. InsertAt(s, p + 1, e) = a \o b \o c
  <2>1. (p + 1) - 1 = p
    BY <1>1
  <2> QED BY <1>2, <1>4, <1>6, <2>1 DEF InsertAt
<1>9. /\ a \o b \o c \in Seq(X)
      /\ Len(a \o b \o c) = Len(a) + Len(b) + Len(c)
      /\ \A i \in 1..Len(a) : (a \o b \o c)[i] = a[i]
      /\ \A i \in 1..Len(b) : (a \o b \o c)[Len(a) + i] = b[i]
      /\ \A i \in 1..Len(c) : (a \o b \o c)[Len(a) + Len(b) + i] = c[i]
  <2>1. a \in Seq(X) /\ b \in Seq(X) /\ c \in Seq(X)
    BY <1>3, <1>5, <1>7
  <2> QED BY <2>1, Threefold
<1>10. PICK y : y = a \o b \o c
  OBVIOUS
<1>11. /\ y \in Seq(X) /\ Len(y) = p + 1 + (Len(s) - p)
       /\ \A i \in 1..p : y[i] = a[i]
       /\ y[p + 1] = b[1]
       /\ \A i \in 1..(Len(s) - p) : y[p + 1 + i] = c[i]
  BY <1>3, <1>5, <1>7, <1>9, <1>10
<1>12. p + 1 + (Len(s) - p) = Len(s) + 1
  BY <1>1
<1> QED BY <1>3, <1>5, <1>7, <1>8, <1>10, <1>11, <1>12 DEF Grown

LEMMA Deleted ==
    ASSUME NEW X, NEW s \in Seq(X), NEW p \in 1..Len(s)
    PROVE  /\ RemoveAt(s, p) \in Seq(X) /\ Len(RemoveAt(s, p)) = Len(s) - 1
           /\ \A i \in 1..(p - 1) : RemoveAt(s, p)[i] = s[i]
           /\ \A i \in p..(Len(s) - 1) : RemoveAt(s, p)[i] = s[i + 1]
<1>1. Len(s) \in Nat /\ p \in Nat /\ p <= Len(s) /\ 1 <= p
  BY LenProperties
<1>2. PICK a : a = SubSeq(s, 1, p - 1)
  OBVIOUS
<1>3. a \in Seq(X) /\ Len(a) = p - 1 /\ \A i \in 1..(p - 1) : a[i] = s[i]
  <2>1. p - 1 \in Nat /\ p - 1 <= Len(s) /\ 1 \in Nat \ {0} /\ 1 <= (p - 1) + 1
    BY <1>1
  <2>2. /\ a \in Seq(X) /\ Len(a) = (p - 1) - 1 + 1
        /\ \A i \in 1..((p - 1) - 1 + 1) : a[i] = s[1 + i - 1]
    BY <1>2, <2>1, Part DEF Piece
  <2>3. (p - 1) - 1 + 1 = p - 1 /\ \A i \in 1..(p - 1) : 1 + i - 1 = i
    BY <1>1
  <2> QED BY <2>2, <2>3
<1>4. PICK c : c = SubSeq(s, p + 1, Len(s))
  OBVIOUS
<1>5. c \in Seq(X) /\ Len(c) = Len(s) - p /\ \A i \in 1..(Len(s) - p) : c[i] = s[p + i]
  <2>1. p + 1 \in Nat \ {0} /\ p + 1 <= Len(s) + 1
    BY <1>1
  <2>2. /\ c \in Seq(X) /\ Len(c) = Len(s) - (p + 1) + 1
        /\ \A i \in 1..(Len(s) - (p + 1) + 1) : c[i] = s[(p + 1) + i - 1]
    BY <1>1, <1>4, <2>1, Part DEF Piece
  <2>3. Len(s) - (p + 1) + 1 = Len(s) - p /\ \A i \in 1..(Len(s) - p) : (p + 1) + i - 1 = p + i
    BY <1>1
  <2> QED BY <2>2, <2>3
<1>6. RemoveAt(s, p) = a \o c
  BY <1>2, <1>4 DEF RemoveAt
<1>7. PICK y : y = a \o c
  OBVIOUS
<1>8. /\ y \in Seq(X) /\ Len(y) = Len(a) + Len(c)
      /\ \A i \in 1..(Len(a) + Len(c)) : y[i] = IF i <= Len(a) THEN a[i] ELSE c[i - Len(a)]
  BY <1>3, <1>5, <1>7, ConcatProperties
<1>9. Len(y) = Len(s) - 1
  BY <1>1, <1>3, <1>5, <1>8
<1>10. ASSUME NEW i \in 1..(p - 1) PROVE y[i] = s[i]
  <2>1. i \in 1..(Len(a) + Len(c)) /\ i <= Len(a)
    BY <1>1, <1>3, <1>5
  <2> QED BY <1>3, <1>8, <2>1
<1>11. ASSUME NEW i \in p..(Len(s) - 1) PROVE y[i] = s[i + 1]
  <2>1. i \in 1..(Len(a) + Len(c)) /\ ~(i <= Len(a)) /\ i - Len(a) = i - p + 1
    BY <1>1, <1>3, <1>5
  <2>2. y[i] = c[i - p + 1]
    BY <1>8, <2>1
  <2>3. i - p + 1 \in 1..(Len(s) - p) /\ p + (i - p + 1) = i + 1
    BY <1>1
  <2> QED BY <1>5, <2>2, <2>3
<1> QED BY <1>6, <1>7, <1>8, <1>9, <1>10, <1>11

\* A list of lines the history may be.
Kept(h) ==
    /\ h \in Seq(Seq(Keys)) /\ Len(h) <= MaxHistory
    /\ \A i \in DOMAIN h : h[i] # <<>> /\ (i > 1 => h[i - 1] # h[i])

LEMMA Entered ==
    ASSUME NEW h, Kept(h), NEW l \in Seq(Keys), l # <<>>
    PROVE  /\ Kept(add_to_history(h, l)) /\ add_to_history(h, l) # <<>>
           /\ Last(add_to_history(h, l)) = l
<1> DEFINE X == Seq(Keys)
<1>0. MaxHistory \in Nat /\ MaxHistory # 0
  BY ConsoleAssumption
<1>1. /\ h \in Seq(X) /\ Len(h) \in Nat /\ Len(h) <= MaxHistory /\ DOMAIN h = 1..Len(h)
      /\ \A i \in 1..Len(h) : h[i] # <<>> /\ (i > 1 => h[i - 1] # h[i])
  BY LenProperties DEF Kept
<1>2. l \in X
  OBVIOUS
<1> HIDE DEF X
<1>3. PICK x : x = IF h # <<>> /\ Last(h) = l THEN h ELSE Append(h, l)
  OBVIOUS
<1>4. /\ x \in Seq(X) /\ Len(x) \in 1..(MaxHistory + 1) /\ x[Len(x)] = l
      /\ \A i \in 1..Len(x) : x[i] # <<>> /\ (i > 1 => x[i - 1] # x[i])
  <2>1. CASE h # <<>> /\ Last(h) = l
    <3>1. Len(h) # 0
      BY <1>1, <2>1, EmptySeq
    <3> QED BY <1>0, <1>1, <1>3, <2>1, <3>1 DEF Last
  <2>2. CASE ~(h # <<>> /\ Last(h) = l)
    <3>1. x = Append(h, l)
      BY <1>3, <2>2
    <3>2. /\ x \in Seq(X) /\ Len(x) = Len(h) + 1 /\ x[Len(h) + 1] = l
          /\ \A i \in 1..Len(h) : x[i] = h[i]
      BY <1>1, <1>2, <3>1, AppendProperties
    <3>3. ASSUME NEW i \in 1..Len(x) PROVE x[i] # <<>> /\ (i > 1 => x[i - 1] # x[i])
      <4>1. CASE i <= Len(h)
        <5>1. i \in 1..Len(h) /\ (i > 1 => i - 1 \in 1..Len(h))
          BY <1>1, <4>1
        <5> QED BY <1>1, <3>2, <5>1
      <4>2. CASE ~(i <= Len(h))
        <5>1. i = Len(h) + 1
          BY <1>1, <3>2, <4>2
        <5>2. ASSUME i > 1 PROVE x[i - 1] # x[i]
          <6>1. i - 1 = Len(h) /\ Len(h) \in 1..Len(h) /\ Len(h) # 0
            BY <1>1, <5>1, <5>2
          <6>2. h # <<>>
            BY <6>1
          <6> QED BY <2>2, <3>2, <5>1, <6>1, <6>2 DEF Last
        <5> QED BY <3>2, <5>1, <5>2
      <4> QED BY <4>1, <4>2
    <3> QED BY <1>0, <1>1, <3>2, <3>3
  <2> QED BY <2>1, <2>2
<1>5. add_to_history(h, l) = IF Len(x) > MaxHistory THEN Tail(x) ELSE x
  BY <1>3 DEF add_to_history
<1>6. PICK y : y = add_to_history(h, l)
  OBVIOUS
<1>7. /\ y \in Seq(X) /\ Len(y) \in 1..MaxHistory /\ y[Len(y)] = l
      /\ \A i \in 1..Len(y) : y[i] # <<>> /\ (i > 1 => y[i - 1] # y[i])
  <2>1. CASE Len(x) > MaxHistory
    <3>1. y = Tail(x) /\ Len(x) = MaxHistory + 1 /\ x # <<>>
      BY <1>0, <1>4, <1>5, <1>6, <2>1
    <3>2. y \in Seq(X) /\ Len(y) = Len(x) - 1 /\ \A i \in 1..Len(y) : y[i] = x[i + 1]
      BY <1>4, <3>1, HeadTailProperties
    <3>3. Len(y) = MaxHistory /\ Len(y) \in 1..Len(y) /\ Len(y) + 1 = Len(x)
      BY <1>0, <3>1, <3>2
    <3>4. ASSUME NEW i \in 1..Len(y) PROVE y[i] # <<>> /\ (i > 1 => y[i - 1] # y[i])
      <4>1. i + 1 \in 1..Len(x) /\ i + 1 > 1 /\ (i + 1) - 1 = i /\ (i - 1) + 1 = i
        BY <3>1, <3>3
      <4>2. i > 1 => i - 1 \in 1..Len(y)
        BY <3>3
      <4>3. y[i] = x[i + 1] /\ (i > 1 => y[i - 1] = x[i])
        BY <3>2, <4>1, <4>2
      <4> QED BY <1>4, <4>1, <4>3
    <3> QED BY <1>0, <1>4, <3>2, <3>3, <3>4
  <2>2. CASE ~(Len(x) > MaxHistory)
    BY <1>0, <1>4, <1>5, <1>6, <2>2
  <2> QED BY <2>1, <2>2
<1>8. y # <<>> /\ Last(y) = l /\ DOMAIN y = 1..Len(y)
  BY <1>7 DEF Last
<1> QED BY <1>6, <1>7, <1>8 DEF Kept, X

-----------------------------------------------------------------------------
(***************************************************************************)
(* The edited line, the history and the views of the command.               *)
(***************************************************************************)
\* What is edited is fit to be edited further; and what a key may make of it.
Fit == /\ line \in Seq(Keys) /\ cursor \in Nat /\ cursor <= Len(line)
       /\ Kept(hist) /\ hidx \in -1..(Len(hist) - 1)
Moved == /\ line' \in Seq(Keys) /\ cursor' \in Nat /\ cursor' <= Len(line')
         /\ hidx' \in -1..(Len(hist) - 1)

LEMMA Fits == EditorInv => Fit
  BY DEF EditorInv, TypeOK, CursorOnLine, HistoryOK, Fit, Kept

LEMMA LineLen == Fit => /\ Len(line) \in Nat /\ Len(hist) \in Nat
                        /\ \A i \in 1..Len(hist) : hist[i] \in Seq(Keys)
  BY LenProperties, ElementOfSeq DEF Fit, Kept

LEMMA NothingMoves == Fit /\ nothing => Moved
  BY DEF Fit, Moved, nothing

LEMMA LineShown ==
    ASSUME Fit, NEW i \in Int, NEW l \in Seq(Keys), i \in -1..(Len(hist) - 1), show_line(i, l)
    PROVE  Moved
  BY LenProperties DEF Moved, show_line

\* Up and down leave everything alone, or show a line: one of the history, the edited one
\* for the oldest, or an empty one for none.
Chosen(i, l) == i \in -1..(Len(hist) - 1) /\ (i = -1 => l = <<>>) /\ show_line(i, l)

LEMMA UpShows == Fit /\ navigate_up => nothing \/ \E i \in Int, l \in Seq(Keys) : Chosen(i, l)
<1> SUFFICES ASSUME Fit, navigate_up, hist # <<>>
             PROVE  \E i \in Int, l \in Seq(Keys) : Chosen(i, l)
  BY DEF navigate_up
<1>1. /\ Len(hist) \in Nat /\ Len(hist) # 0 /\ hidx \in -1..(Len(hist) - 1)
      /\ \A i \in 1..Len(hist) : hist[i] \in Seq(Keys)
  BY LineLen, EmptySeq DEF Fit, Kept
<1>2. up \in Int /\ up < Len(hist)
  BY <1>1 DEF up
<1>3. CASE up >= 0
  <2>1. up \in -1..(Len(hist) - 1) /\ up + 1 \in 1..Len(hist) /\ up # -1
    BY <1>1, <1>2, <1>3
  <2>2. hist[up + 1] \in Seq(Keys) /\ show_line(up, hist[up + 1])
    BY <1>1, <1>3, <2>1 DEF navigate_up
  <2> QED BY <1>2, <2>1, <2>2 DEF Chosen
<1>4. CASE ~(up >= 0)
  <2>1. 0 \in -1..(Len(hist) - 1) /\ 0 # -1 /\ show_line(0, line) /\ line \in Seq(Keys)
    BY <1>1, <1>4 DEF navigate_up, Fit
  <2> QED BY <2>1 DEF Chosen
<1> QED BY <1>3, <1>4

LEMMA DownShows == Fit /\ navigate_down => nothing \/ \E i \in Int, l \in Seq(Keys) : Chosen(i, l)
<1> SUFFICES ASSUME Fit, navigate_down, hist # <<>>
             PROVE  \E i \in Int, l \in Seq(Keys) : Chosen(i, l)
  BY DEF navigate_down
<1>1. /\ Len(hist) \in Nat /\ hidx \in -1..(Len(hist) - 1)
      /\ \A i \in 1..Len(hist) : hist[i] \in Seq(Keys)
  BY LineLen DEF Fit, Kept
<1>2. down \in Nat
  BY <1>1 DEF down
<1>3. CASE down < Len(hist)
  <2>1. down \in -1..(Len(hist) - 1) /\ down + 1 \in 1..Len(hist) /\ down # -1
    BY <1>1, <1>2, <1>3
  <2>2. hist[down + 1] \in Seq(Keys) /\ show_line(down, hist[down + 1])
    BY <1>1, <1>3, <2>1 DEF navigate_down
  <2> QED BY <1>2, <2>1, <2>2 DEF Chosen
<1>4. CASE ~(down < Len(hist))
  <2>1. PICK i \in Int : i = -1
    OBVIOUS
  <2>2. i \in -1..(Len(hist) - 1) /\ show_line(i, <<>>) /\ <<>> \in Seq(Keys)
    BY <1>1, <1>4, <2>1 DEF navigate_down
  <2> QED BY <2>2 DEF Chosen
<1> QED BY <1>3, <1>4

LEMMA UpDownMoves == Fit /\ (navigate_up \/ navigate_down) => Moved
<1> SUFFICES ASSUME Fit, NEW i \in Int, NEW l \in Seq(Keys), Chosen(i, l) PROVE Moved
  BY UpShows, DownShows, NothingMoves
<1> QED BY LineShown DEF Chosen

LEMMA CharMoves == ASSUME Fit, NEW c \in Keys, handle_normal_char(c) PROVE Moved
<1>1. Len(line) \in Nat /\ line \in Seq(Keys) /\ cursor \in 0..Len(line)
  BY LineLen DEF Fit
<1>2. /\ InsertAt(line, cursor + 1, c) \in Seq(Keys)
      /\ Len(InsertAt(line, cursor + 1, c)) = Len(line) + 1
  BY <1>1, Inserted DEF Grown
<1> QED BY <1>1, <1>2 DEF handle_normal_char, Moved, Fit

LEMMA BackwardMoves == Fit /\ delete_backward => Moved
<1> SUFFICES ASSUME Fit, delete_backward, cursor # 0 PROVE Moved
  BY NothingMoves DEF delete_backward
<1>1. Len(line) \in Nat /\ line \in Seq(Keys) /\ cursor \in 1..Len(line)
  BY LineLen DEF Fit
<1>2. RemoveAt(line, cursor) \in Seq(Keys) /\ Len(RemoveAt(line, cursor)) = Len(line) - 1
  BY <1>1, Deleted
<1>3. /\ line' = RemoveAt(line, cursor) /\ cursor' = cursor - 1
      /\ hidx' = hidx /\ hidx \in -1..(Len(hist) - 1)
  BY DEF delete_backward, Fit
<1>4. line' \in Seq(Keys) /\ Len(line') = Len(line) - 1
  BY <1>2, <1>3
<1> QED BY <1>1, <1>3, <1>4 DEF Moved

LEMMA ForwardMoves == Fit /\ delete_forward => Moved
<1> SUFFICES ASSUME Fit, delete_forward, cursor # Len(line) PROVE Moved
  BY NothingMoves DEF delete_forward
<1>1. Len(line) \in Nat /\ line \in Seq(Keys) /\ cursor + 1 \in 1..Len(line) /\ cursor \in Nat
  BY LineLen DEF Fit
<1>2. RemoveAt(line, cursor + 1) \in Seq(Keys) /\ Len(RemoveAt(line, cursor + 1)) = Len(line) - 1
  BY <1>1, Deleted
<1>3. /\ line' = RemoveAt(line, cursor + 1) /\ cursor' = cursor
      /\ hidx' = hidx /\ hidx \in -1..(Len(hist) - 1)
  BY DEF delete_forward, Fit
<1>4. line' \in Seq(Keys) /\ Len(line') = Len(line) - 1
  BY <1>2, <1>3
<1> QED BY <1>1, <1>3, <1>4 DEF Moved

LEMMA SideMoves == Fit /\ (move_right \/ move_left) => Moved
  BY LineLen, NothingMoves DEF move_right, move_left, Fit, Moved

\* Every byte of an escape sequence.
LEMMA EscapeMoves ==
    ASSUME Fit, escape \in 0..3, escLen \in Nat, NEW c \in Keys, handle_escape_sequence(c)
    PROVE  Moved /\ escape' \in 0..3 /\ escLen' \in Nat /\ UNCHANGED <<hist, args, cmd>>
<1>1. Moved
  BY NothingMoves, UpDownMoves, SideMoves, ForwardMoves DEF handle_escape_sequence
<1>2. escape' \in 0..3
  BY DEF handle_escape_sequence
<1> QED BY <1>1, <1>2 DEF handle_escape_sequence

\* What a key does to the editor and the command: the step the two invariants rest on.
Handled ==
    /\ line' \in Seq(Keys) /\ cursor' \in Nat /\ cursor' <= Len(line')
    /\ Kept(hist') /\ hidx' \in -1..(Len(hist') - 1)
    /\ escape' \in 0..3 /\ escLen' \in Nat
    /\ \/ cmd' = cmd
       \/ /\ cmd' = "starting" /\ hist' # <<>> /\ Last(hist') = line'
          /\ args' = tokens(line') /\ args' # <<>> /\ escape' = escape /\ hidx' = -1

LEMMA Enters ==
    ASSUME Fit, escape \in 0..3, escLen \in Nat, enter
    PROVE  Handled
<1>1. /\ Kept(add_to_history(hist, line)) /\ add_to_history(hist, line) # <<>>
      /\ Last(add_to_history(hist, line)) = line
  BY Entered DEF enter, Fit
<1>2. Kept(hist') /\ hist' # <<>> /\ Last(hist') = line /\ hidx' = -1
  BY <1>1 DEF enter
<1>3. hidx' \in -1..(Len(hist') - 1)
  BY <1>2, LenProperties DEF Kept
<1>4. UNCHANGED <<line, cursor, escape, escLen>>
  BY DEF enter
<1>5. cmd' = cmd \/ (cmd' = "starting" /\ args' = tokens(line) /\ args' # <<>>)
  BY DEF enter
<1> QED BY <1>2, <1>3, <1>4, <1>5 DEF Handled, Fit

LEMMA KeyHandled ==
    ASSUME Fit, escape \in 0..3, escLen \in Nat, NEW k \in Keys, handle_key(k)
    PROVE  Handled
<1>1. Moved /\ UNCHANGED <<hist, args, cmd>> /\ escape' \in 0..3 /\ escLen' \in Nat => Handled
  BY DEF Moved, Handled, Fit
<1>2. CASE interrupt_line
  <2>1. <<>> \in Seq(Keys) /\ Len(<<>>) = 0
    OBVIOUS
  <2> QED BY <1>1, <1>2, <2>1, LineLen DEF interrupt_line, clear_line, Moved, Fit
<1>3. CASE begin_escape
  BY <1>1, <1>3, NothingMoves DEF begin_escape
<1>4. CASE enter_nothing
  BY <1>4 DEF enter_nothing, edits, Handled, Fit
<1>5. CASE enter
  BY <1>5, Enters
<1>6. CASE delete_backward /\ UNCHANGED <<hist, args, cmd, escape, escLen>>
  BY <1>1, <1>6, BackwardMoves
<1>7. CASE handle_normal_char(k) /\ UNCHANGED <<hist, args, cmd, escape, escLen>>
  BY <1>1, <1>7, CharMoves
<1> QED BY <1>2, <1>3, <1>4, <1>5, <1>6, <1>7 DEF handle_key

IInv == EditorInv /\ ArgsStay

LEMMA Starts == Init => IInv
<1> SUFFICES ASSUME Init PROVE IInv
  OBVIOUS
<1>1. line = <<>> /\ hist = <<>> /\ rx = <<>>
  BY DEF Init
<1>2. /\ Len(line) = 0 /\ Len(hist) = 0 /\ DOMAIN hist = {}
      /\ line \in Seq(Keys) /\ hist \in Seq(Seq(Keys)) /\ rx \in Seq(Keys)
  BY <1>1
<1>3. cursor = 0 /\ hidx = -1 /\ escape = 0 /\ escLen = 0 /\ cmd = "none"
  BY DEF Init
<1>4. TypeOK
  BY <1>2, <1>3 DEF TypeOK
<1>5. CursorOnLine
  BY <1>2, <1>3 DEF CursorOnLine
<1>6. HistoryOK
  <2>1. hidx \in -1..(Len(hist) - 1)
    BY <1>2, <1>3
  <2>2. 0 <= MaxHistory
    BY ConsoleAssumption
  <2>3. Len(hist) = 0
    BY <1>2
  <2>4. Len(hist) <= MaxHistory
    BY <2>2, <2>3
  <2> QED BY <1>2, <2>1, <2>4 DEF HistoryOK
<1>7. ArgsStay
  BY <1>3 DEF ArgsStay, Alive
<1> QED BY <1>4, <1>5, <1>6, <1>7 DEF IInv, EditorInv

LEMMA Stay == IInv /\ UNCHANGED consoleVars => IInv'
  BY DEF IInv, consoleVars, EditorInv, TypeOK, CursorOnLine, HistoryOK, ArgsStay, Alive

LEMMA EditStep == IInv /\ poll_edit => IInv'
<1> SUFFICES ASSUME IInv, poll_edit PROVE IInv'
  OBVIOUS
<1>1. /\ Fit /\ escape \in 0..3 /\ escLen \in Nat /\ cmd = "none" /\ rx \in Seq(Keys) /\ rx # <<>>
      /\ rx' = Tail(rx)
  BY Fits DEF IInv, EditorInv, TypeOK, poll_edit, Editing
<1>2. Head(rx) \in Keys /\ rx' \in Seq(Keys)
  BY <1>1, HeadTailProperties
<1>3. Handled /\ (cmd' = "starting" => escape' = 0)
  <2>1. CASE escape > 0
    <3>1. handle_escape_sequence(Head(rx))
      BY <2>1 DEF poll_edit
    <3>2. Moved /\ escape' \in 0..3 /\ escLen' \in Nat /\ UNCHANGED <<hist, args, cmd>>
      BY <1>1, <1>2, <3>1, EscapeMoves
    <3> QED BY <1>1, <3>2 DEF Handled, Moved, Fit
  <2>2. CASE ~(escape > 0)
    <3>1. handle_key(Head(rx)) /\ escape = 0
      BY <1>1, <2>2 DEF poll_edit
    <3>2. Handled
      BY <1>1, <1>2, <3>1, KeyHandled
    <3> QED BY <1>1, <3>1, <3>2 DEF Handled
  <2> QED BY <2>1, <2>2
<1>4. EditorInv'
  BY <1>1, <1>2, <1>3 DEF Handled, EditorInv, TypeOK, CursorOnLine, HistoryOK, Kept, Alive
<1>5. ArgsStay'
  BY <1>1, <1>3 DEF Handled, ArgsStay, Alive
<1> QED BY <1>4, <1>5 DEF IInv

\* The steps that leave the edited line, the history and the views alone.
LEMMA OtherStep ==
    ASSUME IInv, UNCHANGED <<edits, escape, escLen>>, rx' \in Seq(Keys),
           cmd' \in {cmd, "ended", "gone", "null_deref"} \/ (cmd \in Alive /\ cmd' \in Alive)
    PROVE  IInv'
<1>1. UNCHANGED <<line, cursor, hist, hidx, args, escape, escLen>>
  BY DEF edits
<1>2. EditorInv'
  BY <1>1 DEF IInv, EditorInv, TypeOK, CursorOnLine, HistoryOK, Alive
<1>3. ArgsStay'
  BY <1>1 DEF IInv, ArgsStay, Alive
<1> QED BY <1>2, <1>3 DEF IInv

LEMMA Step == IInv /\ [Next]_consoleVars => IInv'
<1> SUFFICES ASSUME IInv, [Next]_consoleVars PROVE IInv'
  OBVIOUS
<1>1. rx \in Seq(Keys) /\ cmd \in Alive \cup {"none", "ended", "gone", "null_deref"}
  BY DEF IInv, EditorInv, TypeOK
<1>2. CASE poll_running
  <2>1. rx' \in Seq(Keys)
    BY <1>1, <1>2, HeadTailProperties DEF poll_running
  <2> QED BY <1>2, <2>1, OtherStep DEF poll_running, Alive
<1>3. CASE poll_ended
  <2>1. <<>> \in Seq(Keys) /\ Len(<<>>) = 0
    OBVIOUS
  <2>2. EditorInv'
    BY <1>3, <2>1
    DEF poll_ended, clear_line, IInv, EditorInv, TypeOK, CursorOnLine, HistoryOK, Alive
  <2> QED BY <1>3, <2>2 DEF poll_ended, IInv, ArgsStay, Alive
<1>4. CASE poll_edit
  BY <1>4, EditStep
<1>5. CASE cmd_init
  BY <1>1, <1>5, OtherStep DEF cmd_init, Alive
<1>6. CASE cmd_output \/ exit \/ cmd_erased
  BY <1>1, <1>6, OtherStep DEF cmd_output, exit, cmd_erased, Alive
<1>7. CASE destroy
  BY <1>1, <1>7, OtherStep DEF destroy, Alive
<1>8. ASSUME NEW k \in Keys, receive(k) PROVE IInv'
  <2>1. rx' \in Seq(Keys)
    BY <1>1, <1>8, AppendProperties DEF receive
  <2> QED BY <1>8, <2>1, OtherStep DEF receive
<1>9. CASE UNCHANGED consoleVars
  BY <1>9, Stay
<1> QED BY <1>2, <1>3, <1>4, <1>5, <1>6, <1>7, <1>8, <1>9 DEF Next, poll

LEMMA Inductive == Spec => []IInv
  BY Starts, Step, PTL DEF Spec

-----------------------------------------------------------------------------
(***************************************************************************)
(* The terminal: what each key writes.                                      *)
(***************************************************************************)
\* The characters a terminal's row is made of, and what keeps its cursor on it; behind a
\* command's output it stands at the end.
Glyphs == Keys \cup {">", " ", "o"}
ScrInv ==
    /\ row \in Seq(Glyphs) /\ col \in 0..Len(row)
    /\ cmd \in Alive \cup {"ended"} => col = Len(row)

LEMMA Single ==
    ASSUME NEW X, NEW e \in X
    PROVE  <<e>> \in Seq(X) /\ Len(<<e>>) = 1 /\ <<e>>[1] = e
OBVIOUS

LEMMA Pair ==
    ASSUME NEW X, NEW e \in X, NEW f \in X
    PROVE  <<e, f>> \in Seq(X) /\ Len(<<e, f>>) = 2 /\ <<e, f>>[1] = e /\ <<e, f>>[2] = f
OBVIOUS

LEMMA PromptIs == Prompt \in Seq(Glyphs) /\ Len(Prompt) = 2 /\ Prompt[1] = ">" /\ Prompt[2] = " "
<1>1. ">" \in Glyphs /\ " " \in Glyphs
  BY DEF Glyphs
<1> QED BY <1>1, Pair DEF Prompt

LEMMA Typeable == ASSUME NEW l \in Seq(Keys) PROVE l \in Seq(Glyphs)
<1>1. Len(l) \in Nat /\ l \in [1..Len(l) -> Keys]
  BY LenProperties
<1>2. PICK n \in Nat : n = Len(l)
  BY <1>1
<1>3. l \in [1..n -> Glyphs]
  BY <1>1, <1>2 DEF Glyphs
<1> QED BY <1>2, <1>3

LEMMA PutsStays ==
    ASSUME NEW pos, NEW cs \in Seq(Glyphs), NEW n \in Nat,
           row \in Seq(Glyphs), pos \in 0..Len(row), puts(pos, cs, n)
    PROVE  /\ row' \in Seq(Glyphs) /\ col' \in 0..Len(row')
           /\ pos = Len(row) /\ n = 0 => col' = Len(row') /\ Len(row') = pos + Len(cs)
<1>1. Len(row) \in Nat /\ Len(cs) \in Nat /\ pos \in Nat /\ pos <= Len(row)
  BY LenProperties
<1>2. row' = over(row, pos, cs) /\ col' = back(pos + Len(cs), n)
  BY DEF puts
<1>3. row' \in Seq(Glyphs) /\ Len(row') = IF pos + Len(cs) > Len(row) THEN pos + Len(cs) ELSE Len(row)
  BY <1>2, Over DEF Overwrites
<1>4. col' = IF n > pos + Len(cs) THEN 0 ELSE pos + Len(cs) - n
  BY <1>2 DEF back
<1> QED BY <1>1, <1>3, <1>4

LEMMA NewlineStays ==
    ASSUME NEW cs \in Seq(Glyphs), newline(cs)
    PROVE  row' \in Seq(Glyphs) /\ col' \in 0..Len(row') /\ col' = Len(row')
BY LenProperties DEF newline

\* What follows the cursor.
LEMMA TailIs ==
    ASSUME Fit
    PROVE  /\ tail \in Seq(Keys) /\ tail \in Seq(Glyphs)
           /\ Len(tail) = Len(line) - cursor /\ Len(tail) \in Nat
           /\ \A i \in 1..(Len(line) - cursor) : tail[i] = line[cursor + i]
<1>1. Len(line) \in Nat /\ line \in Seq(Keys) /\ cursor \in Nat /\ cursor <= Len(line)
  BY LineLen DEF Fit
<1>2. cursor + 1 \in Nat \ {0} /\ cursor + 1 <= Len(line) + 1
  BY <1>1
<1>3. PICK t : t = SubSeq(line, cursor + 1, Len(line))
  OBVIOUS
<1>4. /\ t \in Seq(Keys) /\ Len(t) = Len(line) - (cursor + 1) + 1
      /\ \A i \in 1..(Len(line) - (cursor + 1) + 1) : t[i] = line[(cursor + 1) + i - 1]
  BY <1>1, <1>2, <1>3, Part DEF Piece
<1>5. /\ Len(line) - (cursor + 1) + 1 = Len(line) - cursor
      /\ \A i \in 1..(Len(line) - cursor) : (cursor + 1) + i - 1 = cursor + i
  BY <1>1
<1>6. t = tail /\ t \in Seq(Glyphs)
  BY <1>3, <1>4, Typeable DEF tail
<1>7. \A i \in 1..(Len(line) - cursor) : t[i] = line[cursor + i]
  BY <1>4, <1>5
<1> QED BY <1>1, <1>4, <1>5, <1>6, <1>7

\* The characters each of the keys writes.
LEMMA CharPuts ==
    ASSUME Fit, NEW c \in Keys
    PROVE  /\ <<c>> \o tail \in Seq(Glyphs) /\ Len(<<c>> \o tail) = Len(line) - cursor + 1
           /\ (<<c>> \o tail)[1] = c
           /\ \A i \in 2..(Len(line) - cursor + 1) : (<<c>> \o tail)[i] = line[cursor + i - 1]
<1>1. /\ Len(line) \in Nat /\ cursor \in Nat /\ tail \in Seq(Glyphs)
      /\ Len(tail) = Len(line) - cursor /\ Len(tail) \in Nat
      /\ \A i \in 1..(Len(line) - cursor) : tail[i] = line[cursor + i]
  BY TailIs, LineLen DEF Fit
<1>2. PICK b : b = <<c>>
  OBVIOUS
<1>3. b \in Seq(Glyphs) /\ Len(b) = 1 /\ b[1] = c
  <2>1. c \in Glyphs
    BY DEF Glyphs
  <2> QED BY <1>2, <2>1, Single
<1>4. PICK y : y = b \o tail
  OBVIOUS
<1>5. /\ y \in Seq(Glyphs) /\ Len(y) = Len(b) + Len(tail)
      /\ \A i \in 1..(Len(b) + Len(tail)) : y[i] = IF i <= Len(b) THEN b[i] ELSE tail[i - Len(b)]
  BY <1>1, <1>3, <1>4, ConcatProperties
<1>6. y[1] = c
  BY <1>1, <1>3, <1>5
<1>7. ASSUME NEW i \in 2..(Len(line) - cursor + 1) PROVE y[i] = line[cursor + i - 1]
  <2>1. i \in 1..(Len(b) + Len(tail)) /\ ~(i <= Len(b)) /\ i - Len(b) = i - 1
    BY <1>1, <1>3
  <2>2. y[i] = tail[i - 1] /\ i - 1 \in 1..(Len(line) - cursor) /\ cursor + (i - 1) = cursor + i - 1
    BY <1>1, <1>5, <2>1
  <2> QED BY <1>1, <2>2
<1>8. Len(y) = Len(line) - cursor + 1
  BY <1>1, <1>3, <1>5
<1> QED BY <1>2, <1>4, <1>5, <1>6, <1>7, <1>8

\* A part of a line and a blank.
LEMMA BlankBehind ==
    ASSUME NEW s \in Seq(Glyphs)
    PROVE  /\ s \o <<" ">> \in Seq(Glyphs) /\ Len(s \o <<" ">>) = Len(s) + 1
           /\ \A i \in 1..Len(s) : (s \o <<" ">>)[i] = s[i]
           /\ (s \o <<" ">>)[Len(s) + 1] = " "
<1>1. Len(s) \in Nat
  BY LenProperties
<1>2. PICK b : b = <<" ">>
  OBVIOUS
<1>3. b \in Seq(Glyphs) /\ Len(b) = 1 /\ b[1] = " "
  <2>1. " " \in Glyphs
    BY DEF Glyphs
  <2> QED BY <1>2, <2>1, Single
<1>4. PICK y : y = s \o b
  OBVIOUS
<1>5. /\ y \in Seq(Glyphs) /\ Len(y) = Len(s) + Len(b)
      /\ \A i \in 1..(Len(s) + Len(b)) : y[i] = IF i <= Len(s) THEN s[i] ELSE b[i - Len(s)]
  BY <1>3, <1>4, ConcatProperties
<1>6. PICK n \in Nat : n = Len(s)
  BY <1>1
<1>7. /\ y \in Seq(Glyphs) /\ Len(y) = n + 1
      /\ \A i \in 1..(n + 1) : y[i] = IF i <= n THEN s[i] ELSE b[i - n]
  BY <1>3, <1>5, <1>6
<1>8. ASSUME NEW i \in 1..n PROVE y[i] = s[i]
  <2>1. i \in 1..(n + 1) /\ i <= n
    OBVIOUS
  <2> QED BY <1>7, <2>1
<1>9. n + 1 \in 1..(n + 1) /\ ~(n + 1 <= n) /\ (n + 1) - n = 1
  OBVIOUS
<1>10. y[n + 1] = " "
  BY <1>3, <1>7, <1>9
<1> QED BY <1>2, <1>4, <1>6, <1>7, <1>8, <1>10

\* All that follows the cursor but the character under it.
LEMMA RestIs ==
    ASSUME Fit, cursor # Len(line)
    PROVE  /\ Tail(tail) \in Seq(Glyphs) /\ Len(Tail(tail)) = Len(line) - cursor - 1
           /\ \A i \in 1..(Len(line) - cursor - 1) : Tail(tail)[i] = line[cursor + i + 1]
<1>1. /\ Len(line) \in Nat /\ cursor \in Nat /\ tail \in Seq(Glyphs)
      /\ Len(tail) = Len(line) - cursor /\ Len(tail) \in Nat
      /\ \A i \in 1..(Len(line) - cursor) : tail[i] = line[cursor + i]
  BY TailIs, LineLen DEF Fit
<1>2. tail # <<>> /\ cursor < Len(line)
  <2>1. Len(tail) # 0
    BY <1>1
  <2> QED BY <1>1, <2>1, LineLen DEF Fit
<1>3. PICK y : y = Tail(tail)
  OBVIOUS
<1>4. y \in Seq(Glyphs) /\ Len(y) = Len(tail) - 1 /\ \A i \in 1..Len(y) : y[i] = tail[i + 1]
  BY <1>1, <1>2, <1>3, HeadTailProperties
<1>5. Len(y) = Len(line) - cursor - 1
  BY <1>1, <1>4
<1>6. ASSUME NEW i \in 1..(Len(line) - cursor - 1) PROVE y[i] = line[cursor + i + 1]
  <2>1. i \in 1..Len(y) /\ i + 1 \in 1..(Len(line) - cursor) /\ cursor + (i + 1) = cursor + i + 1
    BY <1>1, <1>5
  <2> QED BY <1>1, <1>4, <2>1
<1> QED BY <1>3, <1>4, <1>5, <1>6

-----------------------------------------------------------------------------
(***************************************************************************)
(* What the row shows.                                                      *)
(***************************************************************************)
\* What a line shows in column i behind the prompt; and the row r shows line l from the
\* prompt in column k on.
Shown(l, i) == IF i <= Len(l) THEN l[i] ELSE " "
RowShows(r, k, l) ==
    /\ k + 2 + Len(l) <= Len(r) /\ r[k + 1] = ">" /\ r[k + 2] = " "
    /\ \A i \in 1..(Len(r) - k - 2) : r[k + 2 + i] = Shown(l, i)
InSync(r, c, l, u) == \E k \in Nat : RowShows(r, k, l) /\ c = k + 2 + u

Displayed(r, c, l, u) ==
    \E k \in 0..(Len(r) - Len(Prompt)) :
        LET pos == k + Len(Prompt)
        IN  /\ SubSeq(r, k + 1, pos) = Prompt
            /\ Len(r) >= pos + Len(l)
            /\ SubSeq(r, pos + 1, pos + Len(l)) = l
            /\ \A i \in (pos + Len(l) + 1)..Len(r) : r[i] = " "
            /\ c = pos + u

LEMMA SyncIs ==
    ASSUME NEW r \in Seq(Glyphs), NEW c, NEW l \in Seq(Keys), NEW u \in Nat
    PROVE  InSync(r, c, l, u) <=> Displayed(r, c, l, u)
<1>1. PICK n \in Nat, m \in Nat : n = Len(r) /\ m = Len(l)
  BY LenProperties
<1>2. Len(Prompt) = 2 /\ Prompt \in Seq(Glyphs) /\ Prompt[1] = ">" /\ Prompt[2] = " "
  BY PromptIs
<1>3. l \in Seq(Glyphs)
  BY Typeable
<1>4. ASSUME NEW k \in Nat, k + 2 <= n
      PROVE  SubSeq(r, k + 1, k + 2) = Prompt <=> r[k + 1] = ">" /\ r[k + 2] = " "
  <2>1. k + 1 \in Nat \ {0} /\ k + 2 \in Nat /\ k + 1 <= (k + 2) + 1 /\ k + 2 <= Len(r)
    BY <1>1, <1>4
  <2>2. PICK x : x = SubSeq(r, k + 1, k + 2)
    OBVIOUS
  <2>3. /\ x \in Seq(Glyphs) /\ Len(x) = (k + 2) - (k + 1) + 1
        /\ \A i \in 1..((k + 2) - (k + 1) + 1) : x[i] = r[(k + 1) + i - 1]
    <3>1. Piece(Glyphs, x, r, k + 1, k + 2)
      BY <2>1, <2>2, Part
    <3> QED BY <3>1 DEF Piece
  <2>4. /\ (k + 2) - (k + 1) + 1 = 2 /\ 1 \in 1..2 /\ 2 \in 1..2
        /\ (k + 1) + 1 - 1 = k + 1 /\ (k + 1) + 2 - 1 = k + 2
    OBVIOUS
  <2>5. Len(x) = 2 /\ x[1] = r[k + 1] /\ x[2] = r[k + 2]
    BY <2>3, <2>4
  <2>6. ASSUME r[k + 1] = ">", r[k + 2] = " " PROVE x = Prompt
    <3>1. \A i \in 1..2 : i = 1 \/ i = 2
      OBVIOUS
    <3>2. Len(x) = Len(Prompt) /\ \A i \in 1..Len(x) : x[i] = Prompt[i]
      BY <1>2, <2>5, <2>6, <3>1
    <3> QED BY <1>2, <2>3, <3>2, SeqEqual
  <2> QED BY <1>2, <2>2, <2>5, <2>6
<1>5. ASSUME NEW k \in Nat, k + 2 + m <= n
      PROVE  SubSeq(r, k + 2 + 1, k + 2 + m) = l <=> \A i \in 1..m : r[k + 2 + i] = l[i]
  <2>1. /\ k + 2 + 1 \in Nat \ {0} /\ k + 2 + m \in Nat
        /\ k + 2 + 1 <= (k + 2 + m) + 1 /\ k + 2 + m <= Len(r)
    BY <1>1, <1>5
  <2>2. PICK x : x = SubSeq(r, k + 2 + 1, k + 2 + m)
    OBVIOUS
  <2>3. /\ x \in Seq(Glyphs) /\ Len(x) = (k + 2 + m) - (k + 2 + 1) + 1
        /\ \A i \in 1..((k + 2 + m) - (k + 2 + 1) + 1) : x[i] = r[(k + 2 + 1) + i - 1]
    <3>1. Piece(Glyphs, x, r, k + 2 + 1, k + 2 + m)
      BY <2>1, <2>2, Part
    <3> QED BY <3>1 DEF Piece
  <2>4. (k + 2 + m) - (k + 2 + 1) + 1 = m /\ \A i \in 1..m : (k + 2 + 1) + i - 1 = k + 2 + i
    OBVIOUS
  <2>5. Len(x) = m /\ \A i \in 1..m : x[i] = r[k + 2 + i]
    BY <2>3, <2>4
  <2>6. ASSUME \A i \in 1..m : r[k + 2 + i] = l[i] PROVE x = l
    <3>1. Len(x) = Len(l) /\ \A i \in 1..Len(x) : x[i] = l[i]
      BY <1>1, <2>5, <2>6
    <3> QED BY <1>3, <2>3, <3>1, SeqEqual
  <2> QED BY <2>2, <2>5, <2>6
<1>6. ASSUME NEW k \in Nat, k + 2 + m <= n
      PROVE  (\A i \in 1..(n - k - 2) : r[k + 2 + i] = Shown(l, i))
             <=> /\ \A i \in 1..m : r[k + 2 + i] = l[i]
                 /\ \A i \in (k + 2 + m + 1)..n : r[i] = " "
  <2>1. ASSUME \A i \in 1..(n - k - 2) : r[k + 2 + i] = Shown(l, i)
        PROVE  /\ \A i \in 1..m : r[k + 2 + i] = l[i]
               /\ \A i \in (k + 2 + m + 1)..n : r[i] = " "
    <3>1. ASSUME NEW i \in 1..m PROVE r[k + 2 + i] = l[i]
      <4>1. i \in 1..(n - k - 2) /\ i <= m
        BY <1>6
      <4> QED BY <1>1, <2>1, <4>1 DEF Shown
    <3>2. ASSUME NEW i \in (k + 2 + m + 1)..n PROVE r[i] = " "
      <4>1. i - k - 2 \in 1..(n - k - 2) /\ ~(i - k - 2 <= m) /\ k + 2 + (i - k - 2) = i
        BY <1>6
      <4> QED BY <1>1, <2>1, <4>1 DEF Shown
    <3> QED BY <3>1, <3>2
  <2>2. ASSUME \A i \in 1..m : r[k + 2 + i] = l[i],
               \A i \in (k + 2 + m + 1)..n : r[i] = " ",
               NEW i \in 1..(n - k - 2)
        PROVE  r[k + 2 + i] = Shown(l, i)
    <3>1. CASE i <= m
      <4>1. i \in 1..m
        BY <3>1
      <4> QED BY <1>1, <2>2, <3>1, <4>1 DEF Shown
    <3>2. CASE ~(i <= m)
      <4>1. k + 2 + i \in (k + 2 + m + 1)..n
        BY <3>2
      <4> QED BY <1>1, <2>2, <3>2, <4>1 DEF Shown
    <3> QED BY <3>1, <3>2
  <2> QED BY <2>1, <2>2
<1>7. ASSUME InSync(r, c, l, u)
      PROVE  Displayed(r, c, l, u)
  <2>1. PICK k \in Nat : RowShows(r, k, l) /\ c = k + 2 + u
    BY <1>7 DEF InSync
  <2>2. /\ k + 2 + m <= n /\ r[k + 1] = ">" /\ r[k + 2] = " "
        /\ \A i \in 1..(n - k - 2) : r[k + 2 + i] = Shown(l, i)
    BY <1>1, <2>1 DEF RowShows
  <2>0. n \in Nat /\ m \in Nat /\ k \in Nat /\ k + 2 + m <= n
    BY <1>1, <2>1, <2>2
  <2>3. k \in 0..(n - 2) /\ k + 2 <= n
    BY <2>0
  <2>4. SubSeq(r, k + 1, k + 2) = Prompt
    BY <1>4, <2>2, <2>3
  <2>5. /\ \A i \in 1..m : r[k + 2 + i] = l[i]
        /\ \A i \in (k + 2 + m + 1)..n : r[i] = " "
    BY <1>6, <2>2
  <2>6. SubSeq(r, k + 2 + 1, k + 2 + m) = l
    BY <1>5, <2>2, <2>5
  <2>7. n >= k + 2 + m /\ c = k + 2 + u
    BY <2>1, <2>2
  <2> QED BY <1>1, <1>2, <2>3, <2>4, <2>5, <2>6, <2>7 DEF Displayed
<1>8. ASSUME NEW k \in 0..(Len(r) - Len(Prompt)),
             SubSeq(r, k + 1, k + Len(Prompt)) = Prompt, Len(r) >= k + Len(Prompt) + Len(l),
             SubSeq(r, k + Len(Prompt) + 1, k + Len(Prompt) + Len(l)) = l,
             \A i \in (k + Len(Prompt) + Len(l) + 1)..Len(r) : r[i] = " ",
             c = k + Len(Prompt) + u
      PROVE  InSync(r, c, l, u)
  <2>0. k \in 0..(n - 2) /\ n >= k + 2 + m
    BY <1>1, <1>2, <1>8
  <2>1. k \in Nat /\ k + 2 <= n /\ k + 2 + m <= n
    BY <1>1, <2>0
  <2>2. r[k + 1] = ">" /\ r[k + 2] = " "
    BY <1>2, <1>4, <1>8, <2>1
  <2>3. \A i \in 1..m : r[k + 2 + i] = l[i]
    BY <1>1, <1>2, <1>5, <1>8, <2>1
  <2>4. \A i \in (k + 2 + m + 1)..n : r[i] = " "
    BY <1>1, <1>2, <1>8
  <2>5. \A i \in 1..(n - k - 2) : r[k + 2 + i] = Shown(l, i)
    BY <1>6, <2>1, <2>3, <2>4
  <2>6. RowShows(r, k, l)
    BY <1>1, <2>1, <2>2, <2>5 DEF RowShows
  <2>7. c = k + 2 + u
    BY <1>2, <1>8
  <2> QED BY <2>1, <2>6, <2>7 DEF InSync
<1> QED BY <1>7, <1>8 DEF Displayed

\* From column p of the line on, cs is what l2 shows; l2 shows the rest as l did, and its
\* end is on the row.
Rewrites(l, l2, p, cs) ==
    /\ Len(l2) <= Len(l) \/ Len(l2) <= p + Len(cs)
    /\ \A i \in 1..Len(cs) : cs[i] = Shown(l2, p + i)
    /\ \A i \in Nat \ {0} : i <= p \/ i > p + Len(cs) => Shown(l2, i) = Shown(l, i)

LEMMA Redrawn ==
    ASSUME NEW r \in Seq(Glyphs), NEW l \in Seq(Keys), NEW l2 \in Seq(Keys), NEW k \in Nat,
           RowShows(r, k, l), NEW p \in 0..Len(l), NEW cs \in Seq(Glyphs), Rewrites(l, l2, p, cs)
    PROVE  RowShows(over(r, k + 2 + p, cs), k, l2)
<1>1. PICK n \in Nat, m \in Nat, w \in Nat, m2 \in Nat :
        n = Len(r) /\ m = Len(l) /\ w = Len(cs) /\ m2 = Len(l2)
  BY LenProperties
<1>2. /\ k + 2 + m <= n /\ r[k + 1] = ">" /\ r[k + 2] = " "
      /\ \A i \in 1..(n - k - 2) : r[k + 2 + i] = Shown(l, i)
  BY <1>1 DEF RowShows
<1>0. /\ Len(l2) <= Len(l) \/ Len(l2) <= p + Len(cs)
      /\ \A i \in 1..Len(cs) : cs[i] = Shown(l2, p + i)
      /\ \A i \in Nat \ {0} : i <= p \/ i > p + Len(cs) => Shown(l2, i) = Shown(l, i)
  BY DEF Rewrites
<1>3. PICK pos \in Nat : pos = k + 2 + p
  BY <1>1
<1>4. pos \in 0..Len(r) /\ p \in Nat /\ p <= m /\ pos <= n
  <2>1. p \in 0..m
    BY <1>1
  <2>2. n \in Nat /\ m \in Nat /\ k + 2 + m <= n /\ pos = k + 2 + p
    BY <1>1, <1>2, <1>3
  <2>3. pos <= n
    BY <2>1, <2>2
  <2> QED BY <1>1, <1>3, <2>1, <2>3
<1>5. PICK y : y = over(r, pos, cs)
  OBVIOUS
<1>6. /\ y \in Seq(Glyphs) /\ Len(y) = IF pos + w > n THEN pos + w ELSE n
      /\ \A i \in 1..Len(y) : y[i] = IF i \in (pos + 1)..(pos + w) THEN cs[i - pos] ELSE r[i]
  BY <1>1, <1>4, <1>5, Over DEF Overwrites
<1>7. k + 2 + m2 <= Len(y) /\ Len(y) \in Nat /\ n <= Len(y) /\ pos + w <= Len(y)
  <2>1. Len(y) \in Nat /\ n <= Len(y) /\ pos + w <= Len(y)
    BY <1>1, <1>3, <1>6
  <2>2. m2 <= m \/ m2 <= p + w
    BY <1>0, <1>1
  <2>3. /\ m \in Nat /\ m2 \in Nat /\ w \in Nat /\ n \in Nat /\ p \in Nat /\ pos \in Nat
        /\ k + 2 + m <= n /\ pos = k + 2 + p
    BY <1>1, <1>2, <1>3, <1>4
  <2>4. k + 2 + m2 <= Len(y)
    BY <2>1, <2>2, <2>3
  <2> QED BY <2>1, <2>4
<1>8. y[k + 1] = ">" /\ y[k + 2] = " "
  <2>1. /\ k + 1 \in 1..Len(y) /\ k + 1 \notin (pos + 1)..(pos + w)
        /\ k + 2 \in 1..Len(y) /\ k + 2 \notin (pos + 1)..(pos + w)
    <3>1. Len(y) \in Nat /\ m2 \in Nat /\ p \in Nat /\ pos = k + 2 + p /\ k + 2 + m2 <= Len(y)
      BY <1>1, <1>3, <1>4, <1>7
    <3> QED BY <3>1
  <2> QED BY <1>2, <1>6, <2>1
<1>9. ASSUME NEW i \in 1..(Len(y) - k - 2) PROVE y[k + 2 + i] = Shown(l2, i)
  <2>1. k + 2 + i \in 1..Len(y) /\ i \in Nat \ {0}
    BY <1>6
  <2>2. CASE i <= p \/ i > p + w
    <3>1. k + 2 + i \notin (pos + 1)..(pos + w)
      BY <1>3, <1>4, <2>2
    <3>2. y[k + 2 + i] = r[k + 2 + i]
      BY <1>6, <2>1, <3>1
    <3>3. i \in 1..(n - k - 2)
      <4>1. k + 2 + i <= n
        BY <1>1, <1>3, <1>4, <1>6, <2>1, <2>2
      <4> QED BY <1>1, <2>1, <4>1
    <3> QED BY <1>0, <1>1, <1>2, <2>1, <2>2, <3>2, <3>3
  <2>3. CASE ~(i <= p \/ i > p + w)
    <3>1. /\ k + 2 + i \in (pos + 1)..(pos + w) /\ (k + 2 + i) - pos = i - p
          /\ i - p \in 1..w /\ p + (i - p) = i
      BY <1>3, <1>4, <2>1, <2>3
    <3>2. y[k + 2 + i] = cs[i - p]
      BY <1>6, <2>1, <3>1
    <3> QED BY <1>0, <1>1, <3>1, <3>2
  <2> QED BY <2>2, <2>3
<1>10. RowShows(y, k, l2)
  BY <1>1, <1>7, <1>8, <1>9 DEF RowShows
<1> QED BY <1>3, <1>5, <1>10

-----------------------------------------------------------------------------
(***************************************************************************)
(* Each key draws what it makes of the line.                                *)
(***************************************************************************)
\* The row shows the line from column k on, with the cursor in its place; it will.
At(k) == RowShows(row, k, line) /\ col = k + 2 + cursor
Drawn(k) == RowShows(row', k, line') /\ col' = k + 2 + cursor'

LEMMA SyncedAt == ASSUME Fit, ScrInv PROVE Synced <=> \E k \in Nat : At(k)
<1>1. row \in Seq(Glyphs) /\ line \in Seq(Keys) /\ cursor \in Nat
  BY DEF Fit, ScrInv
<1>2. InSync(row, col, line, cursor) <=> Displayed(row, col, line, cursor)
  BY <1>1, SyncIs
<1>3. Synced <=> Displayed(row, col, line, cursor)
  BY DEF Synced, Displayed
<1> QED BY <1>2, <1>3 DEF InSync, At

LEMMA SyncedDrawn ==
    ASSUME row' \in Seq(Glyphs), line' \in Seq(Keys), cursor' \in Nat, NEW k \in Nat, Drawn(k)
    PROVE  Synced'
<1>1. InSync(row', col', line', cursor')
  BY DEF InSync, Drawn
<1>2. Displayed(row', col', line', cursor')
  BY <1>1, SyncIs
<1> QED BY <1>2 DEF Synced, Displayed

\* A key that writes cs from column p of the line on, and n backspaces.
LEMMA Draws ==
    ASSUME Fit, ScrInv, NEW k \in Nat, At(k), NEW p \in 0..Len(line), NEW cs \in Seq(Glyphs),
           NEW n \in Nat, NEW pos, pos = k + 2 + p, puts(pos, cs, n),
           line' \in Seq(Keys), Rewrites(line, line', p, cs),
           n <= p + Len(cs), cursor' = p + Len(cs) - n
    PROVE  Drawn(k)
<1>1. row \in Seq(Glyphs) /\ line \in Seq(Keys) /\ Len(line) \in Nat /\ Len(cs) \in Nat
  BY LenProperties DEF Fit, ScrInv
<1>2. row' = over(row, pos, cs) /\ col' = back(pos + Len(cs), n)
  BY DEF puts
<1>3. RowShows(over(row, k + 2 + p, cs), k, line')
  BY <1>1, Redrawn DEF At
<1>4. col' = IF n > pos + Len(cs) THEN 0 ELSE pos + Len(cs) - n
  BY <1>2 DEF back
<1>5. p \in Nat
  BY <1>1
<1>6. col' = k + 2 + cursor'
  BY <1>1, <1>4, <1>5
<1> QED BY <1>2, <1>3, <1>6 DEF Drawn

LEMMA NothingDrawn == ASSUME NEW k \in Nat, At(k), nothing PROVE Drawn(k)
  BY DEF At, Drawn, nothing, screen, RowShows, Shown

LEMMA CharDrawn ==
    ASSUME Fit, ScrInv, NEW k \in Nat, At(k), NEW c \in Keys, handle_normal_char(c)
    PROVE  Drawn(k)
<1>1. /\ Len(line) \in Nat /\ line \in Seq(Keys) /\ cursor \in Nat /\ cursor <= Len(line)
      /\ cursor \in 0..Len(line)
  BY LineLen DEF Fit
<1>2. PICK m \in Nat, p \in Nat : m = Len(line) /\ p = cursor /\ p <= m
  BY <1>1
<1>3. PICK cs : cs = <<c>> \o tail
  OBVIOUS
<1>4. /\ cs \in Seq(Glyphs) /\ Len(cs) = m - p + 1 /\ cs[1] = c
      /\ \A i \in 2..(m - p + 1) : cs[i] = line[p + i - 1]
  BY <1>2, <1>3, CharPuts
<1>5. PICK y : y = InsertAt(line, cursor + 1, c)
  OBVIOUS
<1>6. /\ y \in Seq(Keys) /\ Len(y) = m + 1
      /\ \A i \in 1..p : y[i] = line[i]
      /\ y[p + 1] = c
      /\ \A i \in 1..(m - p) : y[p + 1 + i] = line[p + i]
  <2>1. p \in 0..Len(line) /\ y = InsertAt(line, p + 1, c)
    BY <1>1, <1>2, <1>5
  <2>2. line \in Seq(Keys)
    BY <1>1
  <2>3. Grown(Keys, InsertAt(line, p + 1, c), line, p, c)
    BY <2>1, <2>2, Inserted
  <2> QED BY <1>2, <2>1, <2>3 DEF Grown
<1>7. /\ line' = y /\ cursor' = p + 1 /\ puts(col, cs, Len(tail))
      /\ Len(tail) = m - p /\ Len(tail) \in Nat
  BY <1>2, <1>3, <1>5, TailIs DEF handle_normal_char
<1>8. Rewrites(line, y, p, cs)
  <2>1. Len(y) <= p + Len(cs)
    BY <1>2, <1>4, <1>6
  <2>2. ASSUME NEW i \in 1..Len(cs) PROVE cs[i] = Shown(y, p + i)
    <3>1. i \in 1..(m - p + 1) /\ p + i <= m + 1
      BY <1>2, <1>4
    <3>2. CASE i = 1
      BY <1>4, <1>6, <3>1, <3>2 DEF Shown
    <3>3. CASE i # 1
      <4>1. /\ i \in 2..(m - p + 1) /\ i - 1 \in 1..(m - p)
            /\ p + 1 + (i - 1) = p + i /\ p + (i - 1) = p + i - 1
        BY <1>2, <3>1, <3>3
      <4>2. cs[i] = line[p + i - 1] /\ y[p + i] = line[p + i - 1]
        BY <1>4, <1>6, <4>1
      <4> QED BY <1>6, <3>1, <4>2 DEF Shown
    <3> QED BY <3>2, <3>3
  <2>3. ASSUME NEW i \in Nat \ {0}, i <= p \/ i > p + Len(cs) PROVE Shown(y, i) = Shown(line, i)
    <3>1. CASE i <= p
      <4>1. i \in 1..p /\ i <= m /\ i <= m + 1
        BY <1>2, <3>1
      <4> QED BY <1>2, <1>6, <4>1 DEF Shown
    <3>2. CASE ~(i <= p)
      <4>1. ~(i <= m) /\ ~(i <= m + 1)
        BY <1>2, <1>4, <2>3, <3>2
      <4> QED BY <1>2, <1>6, <4>1 DEF Shown
    <3> QED BY <3>1, <3>2
  <2> QED BY <2>1, <2>2, <2>3 DEF Rewrites
<1>9. Len(tail) <= p + Len(cs) /\ cursor' = p + Len(cs) - Len(tail)
  BY <1>2, <1>4, <1>7
<1>10. col = k + 2 + p /\ p \in 0..Len(line)
  BY <1>2 DEF At
<1> QED BY <1>4, <1>6, <1>7, <1>8, <1>9, <1>10, Draws

LEMMA BackwardDrawn ==
    ASSUME Fit, ScrInv, NEW k \in Nat, At(k), delete_backward
    PROVE  Drawn(k)
<1> SUFFICES ASSUME cursor # 0 PROVE Drawn(k)
  BY NothingDrawn DEF delete_backward
<1>1. /\ Len(line) \in Nat /\ line \in Seq(Keys) /\ cursor \in Nat /\ cursor <= Len(line)
      /\ cursor \in 1..Len(line)
  BY LineLen DEF Fit
<1>2. PICK m \in Nat, p \in Nat : m = Len(line) /\ p + 1 = cursor /\ p + 1 <= m
  <2>1. cursor - 1 \in Nat /\ (cursor - 1) + 1 = cursor
    BY <1>1
  <2> QED BY <1>1, <2>1
<1>3. /\ tail \in Seq(Glyphs) /\ Len(tail) = m - p - 1 /\ Len(tail) \in Nat
      /\ \A i \in 1..(m - p - 1) : tail[i] = line[p + 1 + i]
  <2>1. m - (p + 1) = m - p - 1
    BY <1>2
  <2> QED BY <1>2, <2>1, TailIs
<1>4. PICK cs : cs = tail \o <<" ">>
  OBVIOUS
<1>5. /\ cs \in Seq(Glyphs) /\ Len(cs) = Len(tail) + 1
      /\ \A i \in 1..Len(tail) : cs[i] = tail[i]
      /\ cs[Len(tail) + 1] = " "
  BY <1>3, <1>4, BlankBehind
<1>6. PICK y : y = RemoveAt(line, cursor)
  OBVIOUS
<1>7. /\ y \in Seq(Keys) /\ Len(y) = m - 1
      /\ \A i \in 1..p : y[i] = line[i]
      /\ \A i \in (p + 1)..(m - 1) : y[i] = line[i + 1]
  <2>1. (p + 1) - 1 = p
    BY <1>2
  <2>2. p + 1 \in 1..Len(line)
    BY <1>1, <1>2
  <2>3. y = RemoveAt(line, p + 1)
    BY <1>2, <1>6
  <2>4. /\ y \in Seq(Keys) /\ Len(y) = Len(line) - 1
        /\ \A i \in 1..((p + 1) - 1) : y[i] = line[i]
        /\ \A i \in (p + 1)..(Len(line) - 1) : y[i] = line[i + 1]
    BY <1>1, <2>2, <2>3, Deleted
  <2> QED BY <1>2, <2>1, <2>4
<1>8. PICK n \in Nat : n = Len(tail) + 1
  BY <1>3
<1>9. line' = y /\ cursor' = p /\ puts(back(col, 1), cs, n)
  <2>1. /\ line' = RemoveAt(line, cursor) /\ cursor' = cursor - 1
        /\ puts(back(col, 1), tail \o <<" ">>, Len(tail) + 1)
    BY DEF delete_backward
  <2>2. cursor - 1 = p
    BY <1>2
  <2> QED BY <1>4, <1>6, <1>8, <2>1, <2>2
<1>10. back(col, 1) = k + 2 + p
  <2>1. col = k + 2 + (p + 1)
    BY <1>2 DEF At
  <2>2. col \in Nat /\ ~(1 > col) /\ col - 1 = k + 2 + p
    BY <1>2, <2>1
  <2> QED BY <2>2 DEF back
<1>11. Len(cs) = m - p /\ n = m - p
  <2>1. Len(cs) = Len(tail) + 1 /\ n = Len(tail) + 1
    BY <1>5, <1>8
  <2>2. Len(tail) = m - p - 1
    BY <1>3
  <2>3. (m - p - 1) + 1 = m - p
    BY <1>2
  <2> QED BY <2>1, <2>2, <2>3
<1>12. Rewrites(line, y, p, cs)
  <2>1. Len(y) <= p + Len(cs)
    BY <1>2, <1>7, <1>11
  <2>2. ASSUME NEW i \in 1..Len(cs) PROVE cs[i] = Shown(y, p + i)
    <3>1. i \in 1..(m - p)
      BY <1>11
    <3>2. CASE i = m - p
      <4>1. i = Len(tail) + 1 /\ ~(p + i <= m - 1)
        BY <1>2, <1>3, <3>2
      <4> QED BY <1>5, <1>7, <4>1 DEF Shown
    <3>3. CASE i # m - p
      <4>1. /\ i \in 1..(m - p - 1) /\ i \in 1..Len(tail)
            /\ p + i \in (p + 1)..(m - 1) /\ p + i <= m - 1
            /\ (p + i) + 1 = p + 1 + i
        BY <1>2, <1>3, <3>1, <3>3
      <4>2. cs[i] = line[p + 1 + i] /\ y[p + i] = line[p + 1 + i]
        BY <1>3, <1>5, <1>7, <4>1
      <4> QED BY <1>7, <4>1, <4>2 DEF Shown
    <3> QED BY <3>2, <3>3
  <2>3. ASSUME NEW i \in Nat \ {0}, i <= p \/ i > p + Len(cs) PROVE Shown(y, i) = Shown(line, i)
    <3>1. CASE i <= p
      <4>1. i \in 1..p /\ i <= m /\ i <= m - 1
        BY <1>2, <3>1
      <4> QED BY <1>2, <1>7, <4>1 DEF Shown
    <3>2. CASE ~(i <= p)
      <4>1. ~(i <= m) /\ ~(i <= m - 1)
        BY <1>2, <1>11, <2>3, <3>2
      <4> QED BY <1>2, <1>7, <4>1 DEF Shown
    <3> QED BY <3>1, <3>2
  <2> QED BY <2>1, <2>2, <2>3 DEF Rewrites
<1>13. n <= p + Len(cs) /\ cursor' = p + Len(cs) - n /\ p \in 0..Len(line)
  BY <1>2, <1>9, <1>11
<1>14. line' \in Seq(Keys) /\ Rewrites(line, line', p, cs)
  BY <1>7, <1>9, <1>12
<1> QED BY <1>5, <1>9, <1>10, <1>13, <1>14, Draws

LEMMA ForwardDrawn ==
    ASSUME Fit, ScrInv, NEW k \in Nat, At(k), delete_forward
    PROVE  Drawn(k)
<1> SUFFICES ASSUME cursor # Len(line) PROVE Drawn(k)
  BY NothingDrawn DEF delete_forward
<1>1. /\ Len(line) \in Nat /\ line \in Seq(Keys) /\ cursor \in Nat /\ cursor <= Len(line)
      /\ cursor < Len(line)
  BY LineLen DEF Fit
<1>2. PICK m \in Nat, p \in Nat : m = Len(line) /\ p = cursor /\ p + 1 <= m
  BY <1>1
<1>3. PICK rest : rest = Tail(tail)
  OBVIOUS
<1>4. /\ rest \in Seq(Glyphs) /\ Len(rest) = m - p - 1 /\ Len(rest) \in Nat
      /\ \A i \in 1..(m - p - 1) : rest[i] = line[p + i + 1]
  BY <1>2, <1>3, RestIs, LenProperties
<1>5. PICK cs : cs = rest \o <<" ">>
  OBVIOUS
<1>6. /\ cs \in Seq(Glyphs) /\ Len(cs) = Len(rest) + 1
      /\ \A i \in 1..Len(rest) : cs[i] = rest[i]
      /\ cs[Len(rest) + 1] = " "
  BY <1>4, <1>5, BlankBehind
<1>7. PICK y : y = RemoveAt(line, cursor + 1)
  OBVIOUS
<1>8. /\ y \in Seq(Keys) /\ Len(y) = m - 1
      /\ \A i \in 1..p : y[i] = line[i]
      /\ \A i \in (p + 1)..(m - 1) : y[i] = line[i + 1]
  <2>1. (p + 1) - 1 = p
    BY <1>2
  <2>2. p + 1 \in 1..Len(line)
    BY <1>1, <1>2
  <2>3. y = RemoveAt(line, p + 1)
    BY <1>2, <1>7
  <2>4. /\ y \in Seq(Keys) /\ Len(y) = Len(line) - 1
        /\ \A i \in 1..((p + 1) - 1) : y[i] = line[i]
        /\ \A i \in (p + 1)..(Len(line) - 1) : y[i] = line[i + 1]
    BY <1>1, <2>2, <2>3, Deleted
  <2> QED BY <1>2, <2>1, <2>4
<1>9. PICK n \in Nat : n = m - p
  <2>1. m - p \in Nat
    BY <1>2
  <2> QED BY <2>1
<1>10. line' = y /\ cursor' = p /\ puts(col, cs, n)
  <2>1. /\ line' = RemoveAt(line, cursor + 1) /\ cursor' = cursor
        /\ puts(col, Tail(tail) \o <<" ">>, Len(tail))
    BY DEF delete_forward
  <2>2. Len(tail) = n
    BY <1>2, <1>9, TailIs
  <2> QED BY <1>2, <1>3, <1>5, <1>7, <2>1, <2>2
<1>11. Len(cs) = m - p
  <2>1. Len(cs) = Len(rest) + 1
    BY <1>6
  <2>2. Len(rest) = m - p - 1
    BY <1>4
  <2>3. (m - p - 1) + 1 = m - p
    BY <1>2
  <2> QED BY <2>1, <2>2, <2>3
<1>12. Rewrites(line, y, p, cs)
  <2>1. Len(y) <= p + Len(cs)
    BY <1>2, <1>8, <1>11
  <2>2. ASSUME NEW i \in 1..Len(cs) PROVE cs[i] = Shown(y, p + i)
    <3>1. i \in 1..(m - p)
      BY <1>11
    <3>2. CASE i = m - p
      <4>1. i = Len(rest) + 1 /\ ~(p + i <= m - 1)
        BY <1>2, <1>4, <3>2
      <4> QED BY <1>6, <1>8, <4>1 DEF Shown
    <3>3. CASE i # m - p
      <4>1. /\ i \in 1..(m - p - 1) /\ i \in 1..Len(rest)
            /\ p + i \in (p + 1)..(m - 1) /\ p + i <= m - 1
        BY <1>2, <1>4, <3>1, <3>3
      <4>2. cs[i] = line[p + i + 1] /\ y[p + i] = line[p + i + 1]
        BY <1>4, <1>6, <1>8, <4>1
      <4> QED BY <1>8, <4>1, <4>2 DEF Shown
    <3> QED BY <3>2, <3>3
  <2>3. ASSUME NEW i \in Nat \ {0}, i <= p \/ i > p + Len(cs) PROVE Shown(y, i) = Shown(line, i)
    <3>1. CASE i <= p
      <4>1. i \in 1..p /\ i <= m /\ i <= m - 1
        BY <1>2, <3>1
      <4> QED BY <1>2, <1>8, <4>1 DEF Shown
    <3>2. CASE ~(i <= p)
      <4>1. ~(i <= m) /\ ~(i <= m - 1)
        BY <1>2, <1>11, <2>3, <3>2
      <4> QED BY <1>2, <1>8, <4>1 DEF Shown
    <3> QED BY <3>1, <3>2
  <2> QED BY <2>1, <2>2, <2>3 DEF Rewrites
<1>13. n <= p + Len(cs) /\ cursor' = p + Len(cs) - n /\ p \in 0..Len(line)
  BY <1>2, <1>9, <1>10, <1>11
<1>14. line' \in Seq(Keys) /\ Rewrites(line, line', p, cs)
  BY <1>8, <1>10, <1>12
<1>15. col = k + 2 + p
  BY <1>2 DEF At
<1> QED BY <1>6, <1>9, <1>10, <1>13, <1>14, <1>15, Draws

LEMMA RightDrawn ==
    ASSUME Fit, ScrInv, NEW k \in Nat, At(k), move_right
    PROVE  Drawn(k)
<1> SUFFICES ASSUME cursor # Len(line) PROVE Drawn(k)
  BY NothingDrawn DEF move_right
<1>1. /\ Len(line) \in Nat /\ line \in Seq(Keys) /\ cursor \in Nat /\ cursor + 1 <= Len(line)
      /\ cursor + 1 \in 1..Len(line)
  BY LineLen DEF Fit
<1>2. PICK p \in Nat : p = cursor
  BY <1>1
<1>3. line[p + 1] \in Glyphs
  BY <1>1, <1>2, ElementOfSeq DEF Glyphs
<1>4. PICK cs : cs = <<line[p + 1]>>
  OBVIOUS
<1>5. cs \in Seq(Glyphs) /\ Len(cs) = 1 /\ cs[1] = line[p + 1]
  BY <1>3, <1>4, Single
<1>6. line' = line /\ cursor' = p + 1 /\ puts(col, cs, 0)
  BY <1>2, <1>4 DEF move_right
<1>7. Rewrites(line, line, p, cs)
  <2>1. ASSUME NEW i \in 1..Len(cs) PROVE cs[i] = Shown(line, p + i)
    <3>1. i = 1 /\ p + 1 <= Len(line)
      BY <1>1, <1>2, <1>5
    <3> QED BY <1>5, <3>1 DEF Shown
  <2>2. Len(line) <= Len(line)
    BY <1>1
  <2> QED BY <2>1, <2>2 DEF Rewrites
<1>8. 0 <= p + Len(cs) /\ cursor' = p + Len(cs) - 0 /\ p \in 0..Len(line) /\ 0 \in Nat
  BY <1>1, <1>2, <1>5, <1>6
<1>9. col = k + 2 + p
  BY <1>2 DEF At
<1>10. line' \in Seq(Keys) /\ Rewrites(line, line', p, cs)
  BY <1>1, <1>6, <1>7
<1> QED BY <1>5, <1>6, <1>8, <1>9, <1>10, Draws

LEMMA LeftDrawn ==
    ASSUME Fit, ScrInv, NEW k \in Nat, At(k), move_left
    PROVE  Drawn(k)
<1> SUFFICES ASSUME cursor # 0 PROVE Drawn(k)
  BY NothingDrawn DEF move_left
<1>1. Len(line) \in Nat /\ line \in Seq(Keys) /\ cursor \in Nat /\ cursor \in 1..Len(line)
  BY LineLen DEF Fit
<1>2. PICK p \in Nat : p = cursor /\ p <= Len(line) /\ 1 <= p
  BY <1>1
<1>3. PICK cs : cs = <<>>
  OBVIOUS
<1>4. cs \in Seq(Glyphs) /\ Len(cs) = 0
  BY <1>3
<1>5. line' = line /\ cursor' = p - 1 /\ puts(col, cs, 1)
  BY <1>2, <1>3 DEF move_left
<1>6. Rewrites(line, line, p, cs)
  BY <1>1, <1>4 DEF Rewrites
<1>7. 1 <= p + Len(cs) /\ cursor' = p + Len(cs) - 1 /\ p \in 0..Len(line) /\ 1 \in Nat
  BY <1>1, <1>2, <1>4, <1>5
<1>8. col = k + 2 + p
  BY <1>2 DEF At
<1>9. line' \in Seq(Keys) /\ Rewrites(line, line', p, cs)
  BY <1>1, <1>5, <1>6
<1> QED BY <1>4, <1>5, <1>7, <1>8, <1>9, Draws

\* The prompt and line l: what redisplay_cmdline writes at last.
LEMMA PromptLine ==
    ASSUME NEW l \in Seq(Keys)
    PROVE  /\ Prompt \o l \in Seq(Glyphs) /\ Len(Prompt \o l) = 2 + Len(l)
           /\ (Prompt \o l)[1] = ">" /\ (Prompt \o l)[2] = " "
           /\ \A i \in 1..Len(l) : (Prompt \o l)[2 + i] = l[i]
<1>1. PICK q : q = Prompt
  OBVIOUS
<1>2. q \in Seq(Glyphs) /\ Len(q) = 2 /\ q[1] = ">" /\ q[2] = " "
  BY <1>1, PromptIs
<1>3. l \in Seq(Glyphs) /\ Len(l) \in Nat
  BY Typeable, LenProperties
<1>4. PICK y : y = q \o l
  OBVIOUS
<1>5. /\ y \in Seq(Glyphs) /\ Len(y) = Len(q) + Len(l)
      /\ \A i \in 1..(Len(q) + Len(l)) : y[i] = IF i <= Len(q) THEN q[i] ELSE l[i - Len(q)]
  BY <1>2, <1>3, <1>4, ConcatProperties
<1>6. PICK m \in Nat : m = Len(l)
  BY <1>3
<1>7. Len(y) = 2 + m /\ \A i \in 1..(2 + m) : y[i] = IF i <= 2 THEN q[i] ELSE l[i - 2]
  BY <1>2, <1>5, <1>6
<1>8. 1 \in 1..(2 + m) /\ 2 \in 1..(2 + m) /\ 1 <= 2 /\ 2 <= 2
  OBVIOUS
<1>9. y[1] = ">" /\ y[2] = " "
  BY <1>2, <1>7, <1>8
<1>10. ASSUME NEW i \in 1..m PROVE y[2 + i] = l[i]
  <2>1. 2 + i \in 1..(2 + m) /\ ~(2 + i <= 2) /\ (2 + i) - 2 = i
    OBVIOUS
  <2> QED BY <1>7, <2>1
<1> QED BY <1>1, <1>4, <1>5, <1>6, <1>7, <1>9, <1>10

\* What redisplay_cmdline makes of the row.
Blanks(w) == [j \in 1..w |-> " "]
LEMMA BlanksAre ==
    ASSUME NEW w \in Nat
    PROVE  Blanks(w) \in Seq(Glyphs) /\ Len(Blanks(w)) = w /\ \A i \in 1..w : Blanks(w)[i] = " "
<1>1. Blanks(w) \in [1..w -> Glyphs]
  BY DEF Blanks, Glyphs
<1>2. \A i \in 1..w : Blanks(w)[i] = " "
  BY DEF Blanks
<1>3. PICK b : b = Blanks(w)
  OBVIOUS
<1>4. b \in Seq(Glyphs) /\ Len(b) = w
  <2>1. b \in [1..w -> Glyphs]
    BY <1>1, <1>3
  <2> QED BY <2>1
<1> QED BY <1>2, <1>3, <1>4

\* x is r with b written over its beginning.
Fronted(x, r, b) ==
    /\ x \in Seq(Glyphs) /\ Len(x) = IF Len(b) > Len(r) THEN Len(b) ELSE Len(r)
    /\ \A i \in 1..Len(x) : x[i] = IF i <= Len(b) THEN b[i] ELSE r[i]

LEMMA OverFront ==
    ASSUME NEW r \in Seq(Glyphs), NEW b \in Seq(Glyphs)
    PROVE  Fronted(over(r, 0, b), r, b)
<1>1. PICK n \in Nat, w \in Nat : n = Len(r) /\ w = Len(b)
  BY LenProperties
<1>2. 0 \in 0..Len(r)
  BY <1>1
<1>3. Overwrites(Glyphs, over(r, 0, b), r, 0, b)
  BY <1>2, Over
<1>4. PICK x : x = over(r, 0, b)
  OBVIOUS
<1>5. Len(x) = IF w > n THEN w ELSE n
  BY <1>1, <1>3, <1>4 DEF Overwrites
<1>6. ASSUME NEW i \in 1..Len(x) PROVE x[i] = IF i <= w THEN b[i] ELSE r[i]
  <2>1. i \in Nat /\ i - 0 = i /\ (i \in (0 + 1)..(0 + w) <=> i <= w)
    BY <1>1, <1>5
  <2> QED BY <1>1, <1>3, <1>4, <2>1 DEF Overwrites
<1> QED BY <1>1, <1>3, <1>4, <1>5, <1>6 DEF Fronted, Overwrites

LEMMA Cleared ==
    ASSUME NEW r \in Seq(Glyphs), NEW w \in Nat, NEW l \in Seq(Keys), NEW y,
           y = over(over(r, 0, Blanks(w)), 0, Prompt \o l)
    PROVE  /\ y \in Seq(Glyphs) /\ 2 + Len(l) <= Len(y)
           /\ Len(r) <= w => RowShows(y, 0, l)
<1>1. PICK q : q = Prompt \o l
  OBVIOUS
<1>2. PICK n \in Nat, m \in Nat : n = Len(r) /\ m = Len(l)
  BY LenProperties
<1>3. /\ q \in Seq(Glyphs) /\ Len(q) = 2 + m /\ q[1] = ">" /\ q[2] = " "
      /\ \A i \in 1..m : q[2 + i] = l[i]
  BY <1>1, <1>2, PromptLine
<1>4. PICK b : b = Blanks(w)
  OBVIOUS
<1>5. b \in Seq(Glyphs) /\ Len(b) = w /\ \A i \in 1..w : b[i] = " "
  BY <1>4, BlanksAre
<1>6. PICK x : x = over(r, 0, b)
  OBVIOUS
<1>7. /\ x \in Seq(Glyphs) /\ Len(x) = IF w > n THEN w ELSE n
      /\ \A i \in 1..Len(x) : x[i] = IF i <= w THEN b[i] ELSE r[i]
  <2>1. Fronted(x, r, b)
    BY <1>5, <1>6, OverFront
  <2> QED BY <1>2, <1>5, <2>1 DEF Fronted
<1>8. Len(x) \in Nat /\ w <= Len(x) /\ (n <= w => Len(x) = w)
  BY <1>2, <1>7
<1>9. /\ y \in Seq(Glyphs) /\ Len(y) = IF 2 + m > Len(x) THEN 2 + m ELSE Len(x)
      /\ \A i \in 1..Len(y) : y[i] = IF i <= 2 + m THEN q[i] ELSE x[i]
  <2>1. y = over(x, 0, q)
    BY <1>1, <1>4, <1>6
  <2>2. Fronted(y, x, q)
    BY <1>3, <1>7, <2>1, OverFront
  <2> QED BY <1>3, <2>2 DEF Fronted
<1>10. Len(y) \in Nat /\ 2 + m <= Len(y)
  BY <1>2, <1>8, <1>9
<1>11. ASSUME n <= w PROVE RowShows(y, 0, l)
  <2>1. y[0 + 1] = ">" /\ y[0 + 2] = " "
    <3>1. /\ 0 + 1 = 1 /\ 1 \in 1..Len(y) /\ 1 <= 2 + m
          /\ 0 + 2 = 2 /\ 2 \in 1..Len(y) /\ 2 <= 2 + m
      BY <1>2, <1>10
    <3> QED BY <1>3, <1>9, <3>1
  <2>2. ASSUME NEW i \in 1..(Len(y) - 0 - 2) PROVE y[0 + 2 + i] = Shown(l, i)
    <3>1. 0 + 2 + i = 2 + i /\ 2 + i \in 1..Len(y) /\ i \in Nat
      BY <1>10
    <3>2. CASE i <= m
      <4>1. i \in 1..m /\ 2 + i <= 2 + m
        BY <1>2, <3>1, <3>2
      <4> QED BY <1>2, <1>3, <1>9, <3>1, <3>2, <4>1 DEF Shown
    <3>3. CASE ~(i <= m)
      <4>1. ~(2 + i <= 2 + m)
        BY <1>2, <3>1, <3>3
      <4>2. y[2 + i] = x[2 + i]
        BY <1>9, <3>1, <4>1
      <4>3. 2 + i <= Len(x) /\ Len(x) = w
        BY <1>2, <1>8, <1>9, <1>10, <1>11, <3>1, <4>1
      <4>4. 2 + i \in 1..Len(x) /\ 2 + i <= w /\ 2 + i \in 1..w
        BY <3>1, <4>3
      <4> QED BY <1>2, <1>5, <1>7, <3>1, <3>3, <4>2, <4>4 DEF Shown
    <3> QED BY <3>2, <3>3
  <2>3. 0 + 2 + m <= Len(y)
    BY <1>2, <1>10
  <2> QED BY <1>2, <2>1, <2>2, <2>3 DEF RowShows
<1> QED BY <1>2, <1>9, <1>10, <1>11

\* The columns cleared beyond line i of the history, or beyond l.
Wide(i, l) == 2 + (IF i >= 0 THEN Len(hist[i + 1]) ELSE Len(l)) + Extra

LEMMA LineDrawn ==
    ASSUME Fit, ScrInv, NEW i \in Int, i \in -1..(Len(hist) - 1), NEW l \in Seq(Keys),
           show_line(i, l)
    PROVE  /\ row' \in Seq(Glyphs) /\ col' \in 0..Len(row')
           /\ Len(row) <= Wide(i, l) => Drawn(0)
<1>1. /\ line' = l /\ cursor' = Len(l) /\ col' = Len(Prompt) + Len(l)
      /\ LET w == Len(Prompt) + (IF i >= 0 THEN Len(hist[i + 1]) ELSE Len(l)) + Extra
         IN  row' = over(over(row, 0, Blanks(w)), 0, Prompt \o l)
  BY DEF show_line, redisplay_cmdline, Blanks
<1>2. Len(Prompt) = 2 /\ Len(l) \in Nat /\ row \in Seq(Glyphs)
  BY PromptIs, LenProperties DEF ScrInv
<1>3. Wide(i, l) \in Nat
  <2>1. CASE i >= 0
    <3>1. i + 1 \in 1..Len(hist)
      BY LineLen, <2>1
    <3>2. hist[i + 1] \in Seq(Keys)
      BY <3>1, LineLen
    <3>3. PICK m \in Nat : m = Len(hist[i + 1])
      BY <3>2, LenProperties
    <3>4. Extra \in Nat
      BY ConsoleAssumption
    <3> QED BY <2>1, <3>3, <3>4 DEF Wide
  <2>2. CASE ~(i >= 0)
    BY <1>2, <2>2, ConsoleAssumption DEF Wide
  <2> QED BY <2>1, <2>2
<1>4. row' = over(over(row, 0, Blanks(Wide(i, l))), 0, Prompt \o l)
  BY <1>1, <1>2 DEF Wide
<1>5. /\ row' \in Seq(Glyphs) /\ 2 + Len(l) <= Len(row')
      /\ Len(row) <= Wide(i, l) => RowShows(row', 0, l)
  BY <1>2, <1>3, <1>4, Cleared
<1>6. Len(row') \in Nat /\ col' = 2 + Len(l)
  BY <1>1, <1>2, <1>5, LenProperties
<1>7. col' \in 0..Len(row') /\ col' = 0 + 2 + cursor'
  BY <1>1, <1>2, <1>5, <1>6
<1> QED BY <1>1, <1>5, <1>7 DEF Drawn

\* The columns cleared do not reach the end of the row.
TooWide == Len(row) > Len(Prompt) + (IF hidx' >= 0 THEN Len(hist[hidx' + 1]) ELSE 0) + Extra

LEMMA UpDownDrawn ==
    ASSUME Fit, ScrInv, navigate_up \/ navigate_down
    PROVE  \/ nothing
           \/ /\ row' \in Seq(Glyphs) /\ col' \in 0..Len(row')
              /\ TooWide \/ Drawn(0)
<1> SUFFICES ASSUME NEW i \in Int, NEW l \in Seq(Keys), Chosen(i, l)
             PROVE  /\ row' \in Seq(Glyphs) /\ col' \in 0..Len(row')
                    /\ TooWide \/ Drawn(0)
  BY UpShows, DownShows
<1>1. /\ row' \in Seq(Glyphs) /\ col' \in 0..Len(row')
      /\ Len(row) <= Wide(i, l) => Drawn(0)
  BY LineDrawn DEF Chosen
<1>2. hidx' = i /\ Len(row) \in Nat
  BY LenProperties DEF Chosen, show_line, ScrInv
<1>3. Wide(i, l) = Len(Prompt) + (IF hidx' >= 0 THEN Len(hist[hidx' + 1]) ELSE 0) + Extra
  <2>1. CASE i >= 0
    BY <1>2, <2>1, PromptIs DEF Wide
  <2>2. CASE ~(i >= 0)
    <3>1. i = -1 /\ l = <<>>
      BY <2>2, LineLen DEF Chosen
    <3>2. Len(l) = 0
      BY <3>1
    <3> QED BY <1>2, <2>2, <3>2, PromptIs DEF Wide
  <2> QED BY <2>1, <2>2
<1>4. Wide(i, l) \in Nat
  <2>1. CASE i >= 0
    <3>1. i + 1 \in 1..Len(hist)
      BY LineLen, <2>1 DEF Chosen
    <3>2. hist[i + 1] \in Seq(Keys)
      BY <3>1, LineLen
    <3>3. PICK m \in Nat : m = Len(hist[i + 1])
      BY <3>2, LenProperties
    <3>4. Extra \in Nat
      BY ConsoleAssumption
    <3> QED BY <2>1, <3>3, <3>4 DEF Wide
  <2>2. CASE ~(i >= 0)
    BY <2>2, ConsoleAssumption, LenProperties DEF Wide
  <2> QED BY <2>1, <2>2
<1>5. CASE Len(row) <= Wide(i, l)
  BY <1>1, <1>5
<1>6. CASE ~(Len(row) <= Wide(i, l))
  <2>1. Len(row) > Wide(i, l)
    BY <1>2, <1>4, <1>6
  <2> QED BY <1>1, <1>3, <2>1 DEF TooWide
<1> QED BY <1>5, <1>6

\* A prompt on a new row, with an empty line.
LEMMA PromptDrawn ==
    ASSUME newline(Prompt), line' = <<>>, cursor' = 0
    PROVE  row' \in Seq(Glyphs) /\ col' \in 0..Len(row') /\ Drawn(0)
<1>1. row' = Prompt /\ col' = Len(Prompt)
  BY DEF newline
<1>2. /\ row' \in Seq(Glyphs) /\ Len(row') = 2 /\ col' = 2 /\ row'[1] = ">" /\ row'[2] = " "
      /\ Len(line') = 0
  BY <1>1, PromptIs
<1>3. 0 + 2 + 0 <= 2 /\ 0 + 1 = 1 /\ 0 + 2 = 2 /\ \A i \in 1..(2 - 0 - 2) : FALSE
  OBVIOUS
<1>4. RowShows(row', 0, line')
  BY <1>2, <1>3 DEF RowShows
<1>5. col' = 2 /\ cursor' = 0
  BY <1>2
<1>6. col' = 0 + 2 + cursor' /\ col' \in 0..2
  BY <1>5
<1> QED BY <1>2, <1>4, <1>6 DEF Drawn

Painted == row' \in Seq(Glyphs) /\ col' \in 0..Len(row')

LEMMA KeyPaints ==
    ASSUME Fit, ScrInv, NEW c \in Keys,
           \/ nothing \/ handle_normal_char(c) \/ delete_backward \/ delete_forward
           \/ move_right \/ move_left \/ navigate_up \/ navigate_down
    PROVE  Painted
<1>1. row \in Seq(Glyphs) /\ Len(row) \in Nat /\ col \in 0..Len(row) /\ back(col, 1) \in 0..Len(row)
  BY LenProperties DEF ScrInv, back
<1>2. nothing => Painted
  BY <1>1 DEF nothing, screen, Painted
<1>3. CASE handle_normal_char(c)
  <2>1. <<c>> \o tail \in Seq(Glyphs) /\ Len(tail) \in Nat
    BY CharPuts, TailIs
  <2>2. puts(col, <<c>> \o tail, Len(tail))
    BY <1>3 DEF handle_normal_char
  <2> QED BY <1>1, <2>1, <2>2, PutsStays DEF Painted
<1>4. CASE delete_backward /\ cursor # 0
  <2>0. tail \in Seq(Glyphs) /\ Len(tail) \in Nat
    BY TailIs
  <2>1. tail \o <<" ">> \in Seq(Glyphs)
    BY <2>0, BlankBehind
  <2>2. puts(back(col, 1), tail \o <<" ">>, Len(tail) + 1)
    BY <1>4 DEF delete_backward
  <2>3. Len(tail) + 1 \in Nat
    BY <2>0
  <2> QED BY <1>1, <2>1, <2>2, <2>3, PutsStays DEF Painted
<1>5. CASE delete_forward /\ cursor # Len(line)
  <2>1. Tail(tail) \in Seq(Glyphs) /\ Len(tail) \in Nat
    BY <1>5, RestIs, TailIs
  <2>2. Tail(tail) \o <<" ">> \in Seq(Glyphs)
    BY <2>1, BlankBehind
  <2>3. puts(col, Tail(tail) \o <<" ">>, Len(tail))
    BY <1>5 DEF delete_forward
  <2> QED BY <1>1, <2>1, <2>2, <2>3, PutsStays DEF Painted
<1>6. CASE move_right /\ cursor # Len(line)
  <2>1. cursor + 1 \in 1..Len(line) /\ line \in Seq(Keys)
    BY <1>6, LineLen DEF Fit
  <2>2. line[cursor + 1] \in Glyphs
    BY <2>1, ElementOfSeq DEF Glyphs
  <2>3. <<line[cursor + 1]>> \in Seq(Glyphs) /\ 0 \in Nat
    BY <2>2, Single
  <2>4. puts(col, <<line[cursor + 1]>>, 0)
    BY <1>6 DEF move_right
  <2> QED BY <1>1, <2>3, <2>4, PutsStays DEF Painted
<1>7. CASE move_left /\ cursor # 0
  <2>1. <<>> \in Seq(Glyphs) /\ 1 \in Nat
    OBVIOUS
  <2>2. puts(col, <<>>, 1)
    BY <1>7 DEF move_left
  <2> QED BY <1>1, <2>1, <2>2, PutsStays DEF Painted
<1>8. CASE navigate_up \/ navigate_down
  BY <1>2, <1>8, UpDownDrawn DEF Painted
<1> QED BY <1>2, <1>3, <1>4, <1>5, <1>6, <1>7, <1>8
        DEF delete_backward, delete_forward, move_right, move_left

\* One byte of input: what it leaves of the screen.
LEMMA EditPaints ==
    ASSUME Fit, ScrInv, escape \in 0..3, rx \in Seq(Keys), poll_edit
    PROVE  Painted /\ (cmd' = "none" \/ col' = Len(row'))
<1>1. rx # <<>> /\ cmd = "none"
  BY DEF poll_edit, Editing
<1>2. PICK c : c = Head(rx)
  OBVIOUS
<1>3. c \in Keys
  BY <1>1, <1>2, HeadTailProperties
<1>4. CASE escape > 0
  <2>1. handle_escape_sequence(c)
    BY <1>2, <1>4 DEF poll_edit
  <2>2. /\ cmd' = "none"
        /\ nothing \/ delete_forward \/ move_right \/ move_left \/ navigate_up \/ navigate_down
    BY <1>1, <2>1 DEF handle_escape_sequence
  <2> QED BY <1>3, <2>2, KeyPaints
<1>5. CASE ~(escape > 0)
  <2>1. handle_key(c)
    BY <1>2, <1>5 DEF poll_edit
  <2>2. CASE newline(Prompt) \/ newline(<<>>)
    <3>1. Prompt \in Seq(Glyphs)
      BY PromptIs
    <3>2. <<>> \in Seq(Glyphs)
      OBVIOUS
    <3> QED BY <2>2, <3>1, <3>2, NewlineStays DEF Painted
  <2>3. CASE \/ begin_escape
             \/ (delete_backward \/ handle_normal_char(c)) /\ UNCHANGED cmd
    <3>1. cmd' = "none" /\ (nothing \/ delete_backward \/ handle_normal_char(c))
      BY <1>1, <2>3 DEF begin_escape
    <3> QED BY <1>3, <3>1, KeyPaints
  <2> QED BY <2>1, <2>2, <2>3 DEF handle_key, interrupt_line, enter_nothing, enter
<1> QED BY <1>4, <1>5

\* What it draws, if the terminal showed the line before.
LEMMA EditDraws ==
    ASSUME Fit, ScrInv, escape \in 0..3, rx \in Seq(Keys), poll_edit, cmd' = "none",
           Synced, ~BlankEntered, ~Residue
    PROVE  \E k \in Nat : Drawn(k)
<1>1. PICK k \in Nat : At(k)
  BY SyncedAt
<1>2. rx # <<>> /\ 0 \in Nat
  BY DEF poll_edit
<1>3. PICK c : c = Head(rx)
  OBVIOUS
<1>4. c \in Keys
  BY <1>2, <1>3, HeadTailProperties
<1>5. \/ nothing \/ delete_forward \/ move_right \/ move_left \/ delete_backward
      \/ handle_normal_char(c)
      => Drawn(k)
  BY <1>1, <1>4, NothingDrawn, ForwardDrawn, RightDrawn, LeftDrawn, BackwardDrawn, CharDrawn
<1>6. CASE escape > 0
  <2>1. handle_escape_sequence(c)
    BY <1>3, <1>6 DEF poll_edit
  <2>2. CASE escape = 2 /\ c \in {"A", "B"}
    <3>1. navigate_up \/ navigate_down
      BY <2>1, <2>2 DEF handle_escape_sequence
    <3>2. ~TooWide
      BY <1>2, <1>3, <2>2 DEF Residue, TooWide
    <3> QED BY <1>1, <1>2, <1>5, <3>1, <3>2, UpDownDrawn
  <2>3. CASE ~(escape = 2 /\ c \in {"A", "B"})
    <3>1. nothing \/ delete_forward \/ move_right \/ move_left
      BY <2>1, <2>3 DEF handle_escape_sequence
    <3> QED BY <1>1, <1>5, <3>1
  <2> QED BY <2>2, <2>3
<1>7. CASE ~(escape > 0)
  <2>1. handle_key(c) /\ escape = 0
    BY <1>3, <1>7 DEF poll_edit
  <2>2. CASE c = "^C" /\ interrupt_line
    BY <1>2, <2>2, PromptDrawn DEF interrupt_line, clear_line
  <2>3. CASE c = "CR" /\ enter_nothing
    <3>1. newline(Prompt) /\ line' = <<>> /\ line = <<>> /\ cursor' = cursor
      BY <2>3 DEF enter_nothing, edits
    <3>2. cursor' = 0
      <4>1. Len(line) = 0
        BY <3>1
      <4>2. cursor \in Nat /\ cursor <= 0
        BY <4>1 DEF Fit
      <4> QED BY <3>1, <4>2
    <3> QED BY <1>2, <3>1, <3>2, PromptDrawn
  <2>4. CASE c = "CR" /\ enter
    <3>1. line' # <<>>
      BY <2>4 DEF enter
    <3> QED BY <1>2, <1>3, <2>1, <2>4, <3>1 DEF BlankEntered
  <2>5. CASE begin_escape \/ delete_backward \/ handle_normal_char(c)
    BY <1>1, <1>5, <2>5 DEF begin_escape
  <2> QED BY <2>1, <2>2, <2>3, <2>4, <2>5 DEF handle_key
<1> QED BY <1>6, <1>7

-----------------------------------------------------------------------------
(***************************************************************************)
(* The steps of the console.                                                *)
(***************************************************************************)
LEMMA ScreenStarts == Init => ScrInv
<1> SUFFICES ASSUME Init PROVE ScrInv
  OBVIOUS
<1>1. row \in Seq(Glyphs) /\ Len(row) = 2 /\ col = 2 /\ cmd = "none"
  BY PromptIs DEF Init
<1>2. col \in 0..Len(row)
  BY <1>1
<1> QED BY <1>1, <1>2 DEF ScrInv, Alive

LEMMA ScreenStep == IInv /\ ScrInv /\ [Next]_consoleVars => ScrInv'
<1> SUFFICES ASSUME IInv, ScrInv, [Next]_consoleVars PROVE ScrInv'
  OBVIOUS
<1>1. Fit /\ escape \in 0..3 /\ rx \in Seq(Keys)
  BY Fits DEF IInv, EditorInv, TypeOK
<1>2. row \in Seq(Glyphs) /\ col \in 0..Len(row) /\ (cmd \in Alive \cup {"ended"} => col = Len(row))
  BY DEF ScrInv
<1>3. Painted /\ (cmd' \in Alive \cup {"ended"} => col' = Len(row')) => ScrInv'
  BY DEF Painted, ScrInv, Alive
<1>4. ASSUME UNCHANGED screen, cmd' \in Alive \cup {"ended"} => cmd \in Alive \cup {"ended"}
      PROVE  ScrInv'
  BY <1>2, <1>4 DEF screen, ScrInv, Alive
<1>5. <<>> \in Seq(Glyphs) /\ 0 \in Nat
  OBVIOUS
<1>6. CASE poll_edit
  <2>1. "none" \notin Alive \cup {"ended"}
    BY DEF Alive
  <2> QED BY <1>1, <1>3, <1>6, <2>1, EditPaints
<1>7. CASE poll_running
  BY <1>4, <1>7 DEF poll_running, Alive
<1>8. CASE poll_ended
  <2>1. puts(col, Prompt, 0) /\ cmd' = "none"
    BY <1>8 DEF poll_ended
  <2>2. Painted
    BY <1>2, <1>5, <2>1, PromptIs, PutsStays DEF Painted
  <2> QED BY <1>3, <2>1, <2>2 DEF Alive
<1>9. CASE cmd_init
  <2>1. CASE newline(<<>>)
    BY <1>3, <1>5, <2>1, NewlineStays DEF Painted
  <2>2. CASE ~newline(<<>>)
    BY <1>4, <1>9, <2>2 DEF cmd_init, Alive
  <2> QED BY <2>1, <2>2
<1>10. CASE cmd_output
  <2>1. CASE newline(<<>>)
    BY <1>3, <1>5, <2>1, NewlineStays DEF Painted
  <2>2. CASE puts(col, <<"o">>, 0)
    <3>1. "o" \in Glyphs
      BY DEF Glyphs
    <3>2. <<"o">> \in Seq(Glyphs)
      BY <3>1, Single
    <3>3. col = Len(row)
      BY <1>2, <1>10 DEF cmd_output, Alive
    <3>4. Painted /\ col' = Len(row')
      BY <1>2, <1>5, <2>2, <3>2, <3>3, PutsStays DEF Painted
    <3> QED BY <1>3, <3>4
  <2> QED BY <1>10, <2>1, <2>2 DEF cmd_output
<1>11. CASE exit \/ cmd_erased \/ destroy
  BY <1>4, <1>11 DEF exit, cmd_erased, destroy, Alive
<1>12. CASE \E k \in Keys : receive(k)
  BY <1>4, <1>12 DEF receive
<1>13. CASE UNCHANGED consoleVars
  BY <1>4, <1>13 DEF consoleVars, screen
<1> QED BY <1>6, <1>7, <1>8, <1>9, <1>10, <1>11, <1>12, <1>13 DEF Next, poll

\* When the prompt comes back behind a command.
LEMMA EndedDraws ==
    ASSUME ScrInv, poll_ended
    PROVE  \E k \in Nat : Drawn(k)
<1>1. row \in Seq(Glyphs) /\ Len(row) \in Nat /\ col = Len(row)
  BY LenProperties DEF ScrInv, poll_ended
<1>2. PICK k \in Nat : k = col
  BY <1>1
<1>3. PICK q : q = Prompt
  OBVIOUS
<1>4. q \in Seq(Glyphs) /\ Len(q) = 2 /\ q[1] = ">" /\ q[2] = " "
  BY <1>3, PromptIs
<1>5. row' = over(row, k, q) /\ col' = back(k + 2, 0) /\ line' = <<>> /\ cursor' = 0
  BY <1>2, <1>3, <1>4 DEF poll_ended, puts, clear_line
<1>6. k \in 0..Len(row)
  BY <1>1, <1>2
<1>7. PICK y : y = over(row, k, q)
  OBVIOUS
<1>8. Overwrites(Glyphs, y, row, k, q)
  BY <1>1, <1>4, <1>6, <1>7, Over
<1>9. Len(y) = k + 2
  <2>1. Len(y) = IF k + 2 > k THEN k + 2 ELSE k
    BY <1>1, <1>2, <1>4, <1>8 DEF Overwrites
  <2> QED BY <2>1
<1>10. \A i \in 1..(k + 2) : y[i] = IF i \in (k + 1)..(k + 2) THEN q[i - k] ELSE row[i]
  BY <1>4, <1>8, <1>9 DEF Overwrites
<1>11. /\ k + 1 \in 1..(k + 2) /\ k + 1 \in (k + 1)..(k + 2) /\ (k + 1) - k = 1
       /\ k + 2 \in 1..(k + 2) /\ k + 2 \in (k + 1)..(k + 2) /\ (k + 2) - k = 2
  OBVIOUS
<1>12. y[k + 1] = ">" /\ y[k + 2] = " "
  BY <1>4, <1>10, <1>11
<1>13. Len(line') = 0
  BY <1>5
<1>14. RowShows(y, k, line')
  <2>1. k + 2 + 0 <= k + 2 /\ \A i \in 1..((k + 2) - k - 2) : FALSE
    OBVIOUS
  <2>2. k + 2 + Len(line') <= Len(y) /\ \A i \in 1..(Len(y) - k - 2) : FALSE
    BY <1>9, <1>13, <2>1
  <2> QED BY <1>12, <2>2 DEF RowShows
<1>15. ~(0 > k + 2) /\ k + 2 - 0 = k + 2 + 0
  OBVIOUS
<1>16. col' = k + 2 + cursor'
  BY <1>5, <1>15 DEF back
<1> QED BY <1>5, <1>7, <1>14, <1>16 DEF Drawn

Following == cmd' = "none" /\ (cmd = "none" => Synced /\ ~BlankEntered /\ ~Residue) => Synced'

LEMMA Follows == IInv /\ IInv' /\ ScrInv /\ ScrInv' /\ [Next]_consoleVars => [Following]_consoleVars
<1> SUFFICES ASSUME IInv, IInv', ScrInv, ScrInv', Next, cmd' = "none",
                    cmd = "none" => Synced /\ ~BlankEntered /\ ~Residue
             PROVE  Synced'
  BY DEF Following
<1>1. Fit /\ escape \in 0..3 /\ rx \in Seq(Keys)
  BY Fits DEF IInv, EditorInv, TypeOK
<1>2. row' \in Seq(Glyphs) /\ line' \in Seq(Keys) /\ cursor' \in Nat
  BY DEF ScrInv, IInv, EditorInv, TypeOK
<1>3. (\E k \in Nat : Drawn(k)) => Synced'
  BY <1>2, SyncedDrawn
<1>4. CASE poll_edit
  <2>1. cmd = "none"
    BY <1>4 DEF poll_edit, Editing
  <2> QED BY <1>1, <1>3, <1>4, <2>1, EditDraws
<1>5. CASE poll_ended
  BY <1>3, <1>5, EndedDraws
<1>6. CASE \E k \in Keys : receive(k)
  BY <1>6 DEF receive, edits, screen, Synced
<1>7. CASE poll_running \/ cmd_init \/ cmd_output \/ exit \/ cmd_erased \/ destroy
  BY <1>7 DEF poll_running, cmd_init, cmd_output, exit, cmd_erased, destroy
<1> QED BY <1>4, <1>5, <1>6, <1>7 DEF Next, poll

-----------------------------------------------------------------------------
(***************************************************************************)
(* Theorems.                                                                *)
(***************************************************************************)
\* Console::init: every byte of input leaves the cursor on the line, the chosen line of the
\* history in it, and a history without empty or repeated lines and of MAX_HISTORY at most.
THEOREM EditorConsistent == Spec => []EditorInv
<1>1. IInv => EditorInv
  BY DEF IInv
<1> QED BY <1>1, Inductive, PTL

\* Console::init: from the carriage return that starts a command to the poll that finds it
\* ended, the line its arguments are views of is not edited.
THEOREM ArgsStable == Spec => []ArgsStay
<1>1. IInv => ArgsStay
  BY DEF IInv
<1> QED BY <1>1, Inductive, PTL

\* Console::init and the keys' handlers: the row shows the prompt and the edited line after
\* every key, but for a line of blanks and the two leftovers redisplay_cmdline does not reach.
THEOREM ScreenFollowing == Spec => ScreenFollows
<1>1. Spec => []ScrInv
  BY Inductive, ScreenStarts, ScreenStep, PTL DEF Spec
<1>2. ScreenFollows <=> [][Following]_consoleVars
  BY DEF ScreenFollows, Following
<1> QED BY <1>1, <1>2, Inductive, Follows, PTL DEF Spec

-----------------------------------------------------------------------------
(***************************************************************************)
(* Folds over positions.  A fold is a recursive function over sets of them,  *)
(* so that it exists, and what it gives, follow by induction over its prefixes. *)
(***************************************************************************)
\* A set of naturals has a least element; from it, the induction that the lemmas below use.
LEMMA NatLeast ==
    ASSUME NEW T, T \subseteq Nat, T # {}
    PROVE  \E x \in T : \A y \in T : x <= y
<1>1. PICK x \in T : \A y \in T : ~ (<<y, x>> \in OpToRel(<, Nat))
  BY NatLessThanWellFounded, WFMin
<1>2. ASSUME NEW y \in T PROVE x <= y
  <2>1. x \in Nat /\ y \in Nat
    OBVIOUS
  <2>2. y < x => <<y, x>> \in OpToRel(<, Nat)
    BY <2>1 DEF OpToRel
  <2>3. ~(y < x)
    BY <1>1, <2>2, Zenon
  <2> QED BY <2>1, <2>3
<1> QED BY <1>2

LEMMA Induct ==
    ASSUME NEW n \in Nat, NEW T, 0 \in T, \A k \in 1..n : k - 1 \in T => k \in T
    PROVE  0..n \subseteq T
<1> SUFFICES ASSUME (0..n) \ T # {} PROVE FALSE
  OBVIOUS
<1>1. PICK x \in (0..n) \ T : \A y \in (0..n) \ T : x <= y
  <2>1. (0..n) \ T \subseteq Nat
    OBVIOUS
  <2> QED BY <2>1, NatLeast
<1>2. x \in 1..n
  BY <1>1
<1>3. x - 1 \in 0..n /\ ~(x <= x - 1)
  BY <1>2
<1> QED BY <1>1, <1>2, <1>3

\* The greatest of some positions.
LEMMA MaxOf ==
    ASSUME NEW n \in Nat, NEW u \in SUBSET (1..n), u # {}
    PROVE  Max(u) \in u /\ \A y \in u : Max(u) >= y
<1> DEFINE T == {n - y : y \in u}
<1>1. T \subseteq Nat /\ T # {}
  <2>1. \A y \in u : n - y \in Nat
    OBVIOUS
  <2> QED BY <2>1
<1>2. PICK x \in T : \A y \in T : x <= y
  BY <1>1, NatLeast
<1>3. PICK z \in u : x = n - z
  BY <1>2
<1>4. \A y \in u : z >= y
  <2> SUFFICES ASSUME NEW y \in u PROVE z >= y
    OBVIOUS
  <2>1. n - y \in T
    OBVIOUS
  <2>2. n - z <= n - y
    BY <1>2, <1>3, <2>1
  <2> QED BY <2>2
<1> QED BY <1>3, <1>4 DEF Max

\* g is the fold of G over every set of the first n positions, from b.
IsFold(g, b, n, G) ==
    \A u \in SUBSET (1..n) : g[u] = IF u = {} THEN b ELSE G[<<g[u \ {Max(u)}], Max(u)>>]

\* f is the values that fold goes through, from b on.
Steps(f, b, n, G) == f[0] = b /\ \A k \in 1..n : f[k] = G[<<f[k - 1], k>>]

Through(g, n) == [k \in 0..n |-> g[1..k]]

\* Every fold over positions exists: the recursive function that folds are defined by.
LEMMA FoldExists ==
    ASSUME NEW X, NEW n \in Nat, NEW G \in [X \X (1..n) -> X], NEW b \in X
    PROVE  \E g \in [SUBSET (1..n) -> X] : IsFold(g, b, n, G)
<1> DEFINE T == {k \in 0..n : \E g \in [SUBSET (1..k) -> X] : IsFold(g, b, k, G)}
<1>1. 0 \in T
  <2> DEFINE g == [u \in SUBSET (1..0) |-> b]
  <2>1. \A u \in SUBSET (1..0) : u = {}
    OBVIOUS
  <2>2. g \in [SUBSET (1..0) -> X] /\ IsFold(g, b, 0, G)
    BY <2>1 DEF IsFold
  <2>3. 0 \in 0..n
    OBVIOUS
  <2>4. \E h \in [SUBSET (1..0) -> X] : IsFold(h, b, 0, G)
    BY <2>2
  <2> HIDE DEF g
  <2> QED BY <2>3, <2>4
<1>2. ASSUME NEW k \in 1..n, k - 1 \in T PROVE k \in T
  <2>1. PICK g \in [SUBSET (1..(k - 1)) -> X] : IsFold(g, b, k - 1, G)
    BY <1>2
  <2> DEFINE h == [u \in SUBSET (1..k) |-> IF k \in u THEN G[<<g[u \ {k}], k>>] ELSE g[u]]
  <2>2. ASSUME NEW u \in SUBSET (1..k)
        PROVE  u \ {k} \in SUBSET (1..(k - 1)) /\ (k \notin u => u \in SUBSET (1..(k - 1)))
    OBVIOUS
  <2>3. h \in [SUBSET (1..k) -> X]
    BY <2>1, <2>2
  <2>4. ASSUME NEW u \in SUBSET (1..k), k \in u PROVE h[u] = G[<<h[u \ {Max(u)}], Max(u)>>] /\ u # {}
    <3>1. Max(u) \in u /\ Max(u) >= k
      <4>1. k \in Nat /\ u # {}
        BY <2>4
      <4>2. Max(u) \in u /\ \A y \in u : Max(u) >= y
        BY <4>1, MaxOf
      <4> QED BY <2>4, <4>2
    <3>2. Max(u) = k
      <4>1. Max(u) \in 1..k
        BY <3>1
      <4> QED BY <3>1, <4>1
    <3>3. h[u \ {k}] = g[u \ {k}]
      BY <2>2
    <3> QED BY <2>4, <3>2, <3>3
  <2>5. ASSUME NEW u \in SUBSET (1..k), k \notin u, u # {} PROVE h[u] = G[<<h[u \ {Max(u)}], Max(u)>>]
    <3>1. u \in SUBSET (1..(k - 1)) /\ u \ {Max(u)} \in SUBSET (1..(k - 1))
      BY <2>2, <2>5
    <3>2. h[u] = g[u] /\ h[u \ {Max(u)}] = g[u \ {Max(u)}]
      BY <2>5, <3>1
    <3>3. g[u] = G[<<g[u \ {Max(u)}], Max(u)>>]
      BY <2>1, <2>5, <3>1 DEF IsFold
    <3> QED BY <3>2, <3>3
  <2>6. h[{}] = b
    BY <2>1 DEF IsFold
  <2>7. IsFold(h, b, k, G)
    <3> SUFFICES ASSUME NEW u \in SUBSET (1..k)
                 PROVE  h[u] = IF u = {} THEN b ELSE G[<<h[u \ {Max(u)}], Max(u)>>]
      BY DEF IsFold
    <3> HIDE DEF h
    <3> QED BY <2>4, <2>5, <2>6
  <2> HIDE DEF h
  <2> QED BY <2>3, <2>7
<1>3. 0..n \subseteq T
  <2> HIDE DEF T
  <2> QED BY <1>1, <1>2, Induct
<1>4. n \in T
  <2> HIDE DEF T
  <2> QED BY <1>3
<1> QED BY <1>4

\* The values of a fold over the prefixes are those it goes through.
LEMMA FoldedPrefixes ==
    ASSUME NEW n \in Nat, NEW X, NEW G, NEW b \in X, NEW g \in [SUBSET (1..n) -> X],
           IsFold(g, b, n, G)
    PROVE  Through(g, n) \in [0..n -> X] /\ Steps(Through(g, n), b, n, G)
<1>0. PICK f : f = Through(g, n) /\ f = [k \in 0..n |-> g[1..k]]
  BY DEF Through
<1>1. \A k \in 0..n : 1..k \in SUBSET (1..n)
  OBVIOUS
<1>2. f \in [0..n -> X]
  BY <1>0, <1>1
<1>3. f[0] = b
  <2>1. 0 \in 0..n /\ 1..0 = {} /\ {} \in SUBSET (1..n)
    OBVIOUS
  <2>2. f[0] = g[1..0] /\ g[{}] = b
    BY <1>0, <2>1 DEF IsFold
  <2> QED BY <2>1, <2>2
<1>4. ASSUME NEW k \in 1..n PROVE f[k] = G[<<f[k - 1], k>>]
  <2>1. 1..k \in SUBSET (1..n) /\ 1..k # {} /\ k \in 1..k /\ k - 1 \in 0..n
    OBVIOUS
  <2>2. Max(1..k) \in 1..k /\ Max(1..k) >= k
    BY <2>1, MaxOf
  <2>3. Max(1..k) = k /\ (1..k) \ {k} = 1..(k - 1)
    BY <2>2
  <2>4. g[1..k] = G[<<g[(1..k) \ {Max(1..k)}], Max(1..k)>>]
    BY <2>1 DEF IsFold
  <2>5. g[1..k] = G[<<g[1..(k - 1)], k>>]
    BY <2>3, <2>4
  <2> QED BY <1>0, <2>1, <2>5
<1>5. Steps(f, b, n, G)
  BY <1>3, <1>4 DEF Steps
<1> QED BY <1>0, <1>2, <1>5

LEMMA StepsExist ==
    ASSUME NEW X, NEW n \in Nat, NEW G \in [X \X (1..n) -> X], NEW b \in X
    PROVE  \E f \in [0..n -> X] : Steps(f, b, n, G)
<1>1. PICK g \in [SUBSET (1..n) -> X] : IsFold(g, b, n, G)
  BY FoldExists
<1>2. Through(g, n) \in [0..n -> X] /\ Steps(Through(g, n), b, n, G)
  BY <1>1, FoldedPrefixes
<1> QED BY <1>2

\* Two folds that take the same steps from the same value.
LEMMA FoldsAgree ==
    ASSUME NEW n \in Nat, NEW g, NEW h, g[{}] = h[{}],
           \A u \in SUBSET (1..n) : u # {} /\ g[u \ {Max(u)}] = h[u \ {Max(u)}] => g[u] = h[u]
    PROVE  g[1..n] = h[1..n]
<1> DEFINE T == {k \in 0..n : \A u \in SUBSET (1..k) : g[u] = h[u]}
<1>1. 0 \in T
  <2>1. \A u \in SUBSET (1..0) : u = {}
    OBVIOUS
  <2>2. 0 \in 0..n
    OBVIOUS
  <2> QED BY <2>1, <2>2
<1>2. ASSUME NEW k \in 1..n, k - 1 \in T PROVE k \in T
  <2>1. k \in 0..n /\ k \in Nat
    OBVIOUS
  <2>2. ASSUME NEW u \in SUBSET (1..k), u # {} PROVE g[u] = h[u]
    <3>1. u \in SUBSET (1..n)
      OBVIOUS
    <3>2. Max(u) \in u /\ \A y \in u : Max(u) >= y
      BY <2>1, <2>2, MaxOf
    <3>3. u \ {Max(u)} \in SUBSET (1..(k - 1))
      <4> SUFFICES ASSUME NEW y \in u, y # Max(u) PROVE y \in 1..(k - 1)
        OBVIOUS
      <4>1. y \in 1..k /\ Max(u) \in 1..k /\ Max(u) >= y
        BY <3>2
      <4> QED BY <4>1
    <3>4. g[u \ {Max(u)}] = h[u \ {Max(u)}]
      BY <1>2, <3>3
    <3> QED BY <2>2, <3>1, <3>4
  <2> QED BY <2>1, <2>2
<1>3. n \in T
  <2> HIDE DEF T
  <2>1. 0..n \subseteq T
    BY <1>1, <1>2, Induct
  <2> QED BY <2>1
<1> QED BY <1>3

-----------------------------------------------------------------------------
(***************************************************************************)
(* Sequences joined to one.                                                  *)
(***************************************************************************)
\* What the first k sequences of q are together.
Upto(q, k) == FlattenSeq(SubSeq(q, 1, k))

\* q is sequences over X.
Seqs(q, X) == q \in Seq(Seq(X))

\* h is that, sequence by sequence.
Joins(h, q, X) ==
    h \in [0..Len(q) -> Seq(X)] /\ h[0] = <<>> /\ \A k \in 1..Len(q) : h[k] = h[k - 1] \o q[k]

\* FlattenSeq and its prefixes: what the sequences give together, one after the other.
LEMMA JoinsExist == ASSUME NEW X, NEW q, Seqs(q, X) PROVE \E h : Joins(h, q, X)
<1>1. PICK n \in Nat : n = Len(q) /\ \A k \in 1..n : q[k] \in Seq(X)
  BY DEF Seqs
<1> DEFINE V == Seq(X)
           G == [z \in V \X (1..n) |-> z[1] \o q[z[2]]]
<1>2. G \in [V \X (1..n) -> V] /\ \A x \in V, k \in 1..n : G[<<x, k>>] = x \o q[k]
  <2>1. ASSUME NEW z \in V \X (1..n) PROVE z[1] \o q[z[2]] \in V
    <3>1. z[1] \in V /\ q[z[2]] \in V
      BY <1>1
    <3> QED BY <3>1, ConcatProperties
  <2> QED BY <2>1
<1>3. <<>> \in V
  OBVIOUS
<1> HIDE DEF G, V
<1>4. PICK h \in [0..n -> V] : Steps(h, <<>>, n, G)
  BY <1>2, <1>3, StepsExist
<1>5. ASSUME NEW k \in 1..n PROVE h[k] = h[k - 1] \o q[k]
  <2>1. k - 1 \in 0..n /\ h[k - 1] \in V /\ h[k] = G[<<h[k - 1], k>>]
    BY <1>4 DEF Steps
  <2> QED BY <1>2, <2>1
<1>6. h[0] = <<>>
  BY <1>4 DEF Steps
<1> QED BY <1>1, <1>4, <1>5, <1>6 DEF Joins, V

Adds(h, q) == h[0] = <<>> /\ \A k \in 1..Len(q) : h[k] = h[k - 1] \o q[k]

\* FlattenSeq is the last of the sequences that arise by joining one more at a time.
LEMMA FlattenIs ==
    ASSUME NEW X, NEW q, Seqs(q, X), NEW h,
           Adds(h, q)
    PROVE  FlattenSeq(q) = h[Len(q)]
<1>0. PICK n \in Nat : n = Len(q) /\ \A k \in 1..n : q[k] \in Seq(X)
  BY DEF Seqs
<1>a. h[0] = <<>> /\ \A k \in 1..n : h[k] = h[k - 1] \o q[k]
  BY <1>0, Zenon DEF Adds
<1>1. CASE n = 0
  <2>1. q = <<>>
    <3>1. Len(q) = 0
      BY <1>0, <1>1
    <3> QED BY <3>1, EmptySeq, Zenon DEF Seqs
  <2> QED BY <1>0, <1>1, <1>a, <2>1 DEF FlattenSeq
<1>2. CASE n # 0
  <2>1. PICK f : /\ f = CHOOSE x : x = [i \in 1..n |-> IF i = 1 THEN q[i] ELSE x[i - 1] \o q[i]]
                 /\ FlattenSeq(q) = f[n]
    BY <1>0, <1>2 DEF FlattenSeq
  <2>2. PICK g : g = [i \in 1..n |-> h[i]]
    OBVIOUS
  <2>3. g = [i \in 1..n |-> IF i = 1 THEN q[i] ELSE g[i - 1] \o q[i]]
    <3> SUFFICES ASSUME NEW i \in 1..n PROVE h[i] = IF i = 1 THEN q[i] ELSE g[i - 1] \o q[i]
      BY <2>2
    <3>1. CASE i = 1
      <4>1. i - 1 = 0
        BY <3>1
      <4>4. h[i] = h[i - 1] \o q[i]
        BY <1>a, Zenon
      <4>2. q[i] \in Seq(X)
        BY <1>0
      <4>3. <<>> \o q[i] = q[i]
        BY <4>2, ConcatEmptySeq, Zenon
      <4>5. h[i] = q[i]
        BY <1>a, <4>1, <4>3, <4>4, Zenon
      <4> QED BY <3>1, <4>5, Zenon
    <3>2. CASE i # 1
      <4>1. i - 1 \in 1..n
        BY <3>2
      <4> QED BY <1>a, <2>2, <3>2, <4>1
    <3> QED BY <3>1, <3>2
  <2>4. f = [i \in 1..n |-> IF i = 1 THEN q[i] ELSE f[i - 1] \o q[i]]
    BY <2>1, <2>3
  <2> DEFINE T == {k \in 0..n : k # 0 => f[k] = g[k]}
  <2>5. 0 \in T
    OBVIOUS
  <2>6. ASSUME NEW k \in 1..n, k - 1 \in T PROVE k \in T
    <3>1. CASE k = 1
      BY <2>3, <2>4, <3>1
    <3>2. CASE k # 1
      <4>1. k - 1 # 0 /\ f[k - 1] = g[k - 1] /\ k \in 0..n
        BY <2>6, <3>2
      <4>2. f[k] = f[k - 1] \o q[k] /\ g[k] = g[k - 1] \o q[k]
        BY <2>3, <2>4, <3>2
      <4> QED BY <4>1, <4>2
    <3> QED BY <3>1, <3>2
  <2>7. n \in T
    <3> HIDE DEF T
    <3>1. 0..n \subseteq T
      BY <2>5, <2>6, Induct
    <3> QED BY <3>1
  <2> QED BY <1>0, <1>2, <2>1, <2>2, <2>7
<1> QED BY <1>0, <1>1, <1>2

\* Upto(q, k) is the k-th of them.
LEMMA UptoIs ==
    ASSUME NEW X, NEW q, Seqs(q, X), NEW h, Joins(h, q, X), NEW k \in 0..Len(q)
    PROVE  Upto(q, k) = h[k]
<1>1. PICK n \in Nat : n = Len(q) /\ \A i \in 1..n : q[i] \in Seq(X)
  BY DEF Seqs
<1>2. PICK t : t = SubSeq(q, 1, k)
  OBVIOUS
<1>3. Seqs(t, X) /\ Len(t) = k /\ \A i \in 1..k : t[i] = q[i]
  BY <1>1, <1>2 DEF Seqs
<1>4. \A i \in 1..Len(t) : h[i] = h[i - 1] \o t[i]
  <2>1. \A i \in 1..k : i \in 1..n
    BY <1>1
  <2>2. \A i \in 1..n : h[i] = h[i - 1] \o q[i]
    BY <1>1 DEF Joins
  <2> QED BY <1>3, <2>1, <2>2, Zenon
<1>5. h[0] = <<>>
  BY DEF Joins
<1>6. k \in Nat
  BY <1>1
<1>7. FlattenSeq(t) = h[k]
  <2>1. FlattenSeq(t) = h[Len(t)]
    BY <1>3, <1>4, <1>5, FlattenIs, Zenon DEF Adds
  <2> QED BY <1>3, <2>1, Zenon
<1> QED BY <1>2, <1>7, Zenon DEF Upto

\* No sequence, all of them, and one more.
LEMMA UptoEmpty == ASSUME NEW X, NEW q, Seqs(q, X) PROVE Upto(q, 0) = <<>>
<1>1. 0 \in 0..Len(q)
  BY DEF Seqs
<1>2. PICK h : Joins(h, q, X)
  BY JoinsExist
<1>3. h[0] = <<>>
  BY <1>2 DEF Joins
<1> QED BY <1>1, <1>2, <1>3, UptoIs, Zenon

LEMMA UptoAll == ASSUME NEW X, NEW q, Seqs(q, X) PROVE Upto(q, Len(q)) = FlattenSeq(q)
<1>1. Len(q) \in 0..Len(q) /\ Len(q) \in Nat
  BY DEF Seqs
<1>2. PICK h : Joins(h, q, X)
  BY JoinsExist
<1>3. Adds(h, q)
  BY <1>2 DEF Joins, Adds
<1>4. FlattenSeq(q) = h[Len(q)]
  BY <1>1, <1>3, FlattenIs, Zenon
<1> QED BY <1>1, <1>2, <1>4, UptoIs, Zenon

LEMMA SeqLen == ASSUME NEW X, NEW s \in Seq(X) PROVE Len(s) \in Nat
OBVIOUS

LEMMA UptoSeq ==
    ASSUME NEW X, NEW q, Seqs(q, X), NEW k \in 0..Len(q)
    PROVE  Upto(q, k) \in Seq(X) /\ Len(Upto(q, k)) \in Nat
<1>1. PICK h : Joins(h, q, X)
  BY JoinsExist
<1>2. h[k] \in Seq(X)
  BY <1>1 DEF Joins
<1>3. Upto(q, k) = h[k]
  BY <1>1, UptoIs, Zenon
<1> QED BY <1>2, <1>3, SeqLen, Zenon

LEMMA UptoStep ==
    ASSUME NEW X, NEW q, Seqs(q, X), NEW k \in 1..Len(q)
    PROVE  /\ k - 1 \in 0..Len(q) /\ k \in 0..Len(q) /\ q[k] \in Seq(X)
           /\ Upto(q, k) = Upto(q, k - 1) \o q[k]
<1>1. k - 1 \in 0..Len(q) /\ k \in 0..Len(q) /\ q[k] \in Seq(X)
  BY DEF Seqs
<1>2. PICK h : Joins(h, q, X)
  BY JoinsExist
<1>3. h[k] = h[k - 1] \o q[k]
  BY <1>2 DEF Joins
<1>4. Upto(q, k) = h[k] /\ Upto(q, k - 1) = h[k - 1]
  BY <1>1, <1>2, UptoIs, Zenon
<1> QED BY <1>1, <1>3, <1>4, Zenon

\* c is a with b behind it, place by place.
Begins(a, c) == Len(a) <= Len(c) /\ \A i \in 1..Len(a) : c[i] = a[i]
Glued(a, b, c) ==
    Begins(a, c) /\ Len(c) = Len(a) + Len(b) /\ \A i \in 1..Len(b) : c[Len(a) + i] = b[i]

LEMMA ConcatGlued == ASSUME NEW X, NEW a \in Seq(X), NEW b \in Seq(X) PROVE Glued(a, b, a \o b)
BY DEF Glued, Begins

\* The k-th sequence stands behind those before it, which stay where they are.
LEMMA UptoGlued ==
    ASSUME NEW X, NEW q, Seqs(q, X), NEW k \in 1..Len(q)
    PROVE  Glued(Upto(q, k - 1), q[k], Upto(q, k))
BY UptoStep, UptoSeq, ConcatGlued, Zenon

LEMMA UptoFront ==
    ASSUME NEW X, NEW q, Seqs(q, X), NEW k \in 0..Len(q), NEW m \in 0..Len(q), k <= m
    PROVE  Begins(Upto(q, k), Upto(q, m))
<1>1. PICK n \in Nat : n = Len(q)
  BY DEF Seqs
<1> DEFINE T == {j \in 0..n : k <= j => Begins(Upto(q, k), Upto(q, j))}
<1>2. Len(Upto(q, k)) \in Nat
  BY UptoSeq
<1>3. Begins(Upto(q, k), Upto(q, k))
  BY <1>2 DEF Begins
<1>4. 0 \in T
  <2>1. k <= 0 => k = 0
    BY <1>1
  <2>2. 0 \in 0..n
    OBVIOUS
  <2> QED BY <1>3, <2>1, <2>2
<1>5. ASSUME NEW j \in 1..n, j - 1 \in T PROVE j \in T
  <2>1. CASE k = j
    BY <1>3, <2>1
  <2>2. CASE k < j
    <3>1. Begins(Upto(q, k), Upto(q, j - 1))
      <4>1. k <= j - 1
        BY <1>1, <2>2
      <4> QED BY <1>5, <4>1
    <3>2. Begins(Upto(q, j - 1), Upto(q, j))
      <4>1. Glued(Upto(q, j - 1), q[j], Upto(q, j))
        BY <1>1, UptoGlued, Zenon
      <4> QED BY <4>1 DEF Glued
    <3>3. Len(Upto(q, j)) \in Nat /\ Len(Upto(q, j - 1)) \in Nat
      <4>1. j - 1 \in 0..n /\ j \in 0..n
        OBVIOUS
      <4> QED BY <1>1, <4>1, UptoSeq
    <3>4. Begins(Upto(q, k), Upto(q, j))
      BY <1>2, <3>1, <3>2, <3>3 DEF Begins
    <3> QED BY <3>4
  <2>3. CASE k > j
    BY <1>1, <2>3
  <2> QED BY <1>1, <2>1, <2>2, <2>3
<1>6. 0..n \subseteq T
  <2> HIDE DEF T
  <2> QED BY <1>4, <1>5, Induct
<1> QED BY <1>1, <1>6

\* The m-th sequence stands in what they give together behind the first k.
Placed(q, k, m) ==
    /\ Len(Upto(q, k)) \in Nat /\ Len(Upto(q, m)) \in Nat
    /\ Len(Upto(q, m)) = Len(Upto(q, k)) + Len(q[m])
    /\ Len(Upto(q, m)) <= Len(FlattenSeq(q))
    /\ \A i \in 1..Len(q[m]) : FlattenSeq(q)[Len(Upto(q, k)) + i] = q[m][i]

\* Where the elements of the k-th sequence are in all of them together.
LEMMA UptoAt ==
    ASSUME NEW X, NEW q, Seqs(q, X), NEW k \in 1..Len(q)
    PROVE  Placed(q, k - 1, k)
<1>1. PICK n \in Nat : n = Len(q)
  BY DEF Seqs
<1>2. k - 1 \in 0..n /\ k \in 0..n /\ n \in 0..n /\ k <= n
  BY <1>1
<1>3. /\ Len(Upto(q, k - 1)) \in Nat /\ Len(Upto(q, k)) \in Nat /\ Len(q[k]) \in Nat
  <2>1. q[k] \in Seq(X)
    BY UptoStep
  <2> QED BY <1>1, <1>2, <2>1, UptoSeq, SeqLen, Zenon
<1>4. Begins(Upto(q, k), FlattenSeq(q))
  BY <1>1, <1>2, UptoFront, UptoAll, Zenon
<1>5. Glued(Upto(q, k - 1), q[k], Upto(q, k))
  BY UptoGlued
<1>6. Len(Upto(q, k)) = Len(Upto(q, k - 1)) + Len(q[k]) /\ Len(Upto(q, k)) <= Len(FlattenSeq(q))
  BY <1>4, <1>5 DEF Glued, Begins
<1>7. ASSUME NEW i \in 1..Len(q[k])
      PROVE  FlattenSeq(q)[Len(Upto(q, k - 1)) + i] = q[k][i]
  <2>1. Len(Upto(q, k - 1)) + i \in 1..Len(Upto(q, k))
    BY <1>3, <1>6
  <2>2. FlattenSeq(q)[Len(Upto(q, k - 1)) + i] = Upto(q, k)[Len(Upto(q, k - 1)) + i]
    BY <1>4, <2>1, Zenon DEF Begins
  <2>3. Upto(q, k)[Len(Upto(q, k - 1)) + i] = q[k][i]
    BY <1>5, Zenon DEF Glued
  <2> QED BY <2>2, <2>3
<1> QED BY <1>3, <1>6, <1>7, Zenon DEF Placed

LEMMA UptoNext ==
    ASSUME NEW X, NEW q, Seqs(q, X), NEW k, k \in Nat, k + 1 \in 1..Len(q)
    PROVE  Placed(q, k, k + 1)
<1>1. PICK m : m = k + 1 /\ m - 1 = k /\ m \in 1..Len(q)
  OBVIOUS
<1>2. Placed(q, m - 1, m)
  BY <1>1, UptoAt, Zenon
<1> QED BY <1>1, <1>2, Zenon

-----------------------------------------------------------------------------
(***************************************************************************)
(* The numbers that are read: the value of digits, and the width of an int.  *)
(***************************************************************************)
\* The digits, and the value of a text: value_of, from the left.
LEMMA DigitsAre == \A c \in Decimal : digit_of(c) \in 0..9
<1> SUFFICES ASSUME NEW c \in Decimal PROVE digit_of(c) \in 0..9
  OBVIOUS
<1>1. PICK i \in 1..10 : Lower[i] = c
  BY DEF Decimal
<1>2. PICK j \in 1..16 : Lower[j] = c /\ digit_of(c) = j - 1
  <2>1. \E j \in 1..16 : Lower[j] = c
    BY <1>1
  <2>2. (CHOOSE j \in 1..16 : Lower[j] = c) \in 1..16 /\ Lower[CHOOSE j \in 1..16 : Lower[j] = c] = c
    BY <2>1
  <2> QED BY <2>2 DEF digit_of
<1>3. \A k \in 11..16 : Lower[k] \in {"a", "b", "c", "d", "e", "f"}
  BY DEF Lower
<1>4. Lower[i] \notin {"a", "b", "c", "d", "e", "f"}
  BY DEF Lower
<1>5. j \notin 11..16
  BY <1>1, <1>2, <1>3, <1>4
<1> QED BY <1>2, <1>5

\* The value of the digits among the first k characters.
Value(body, k) == value_of(SubSeq(body, 1, k))

\* One character more.
shift(n, c) == IF c \in Decimal THEN n * 10 + digit_of(c) ELSE n

LEMMA ShiftNat == ASSUME NEW n \in Nat, NEW c PROVE shift(n, c) \in Nat /\ shift(n, c) >= n
BY DigitsAre DEF shift

\* h is those values.
Counts(h, s) == h \in [0..Len(s) -> Nat] /\ h[0] = 0 /\ \A k \in 1..Len(s) : h[k] = shift(h[k - 1], s[k])

\* value_of is the last of the values that the digits count up to.
LEMMA CountsExist == ASSUME NEW s \in Seq(STRING) PROVE \E h : Counts(h, s) /\ value_of(s) = h[Len(s)]
<1>1. PICK n \in Nat : n = Len(s) /\ DOMAIN s = 1..n
  OBVIOUS
<1> DEFINE G == [q \in Nat \X (1..n) |-> shift(q[1], s[q[2]])]
<1>2. G \in [Nat \X (1..n) -> Nat]
  BY ShiftNat
<1>3. \A r \in Nat, k \in 1..n : G[<<r, k>>] = shift(r, s[k])
  OBVIOUS
<1> HIDE DEF G
<1>4. PICK g \in [SUBSET (1..n) -> Nat] : IsFold(g, 0, n, G)
  BY <1>2, FoldExists
<1>5. Through(g, n) \in [0..n -> Nat] /\ Steps(Through(g, n), 0, n, G)
  BY <1>4, FoldedPrefixes
<1>6. PICK h : h = Through(g, n)
  OBVIOUS
<1>7. ASSUME NEW k \in 1..n PROVE h[k] = shift(h[k - 1], s[k])
  <2>1. k - 1 \in 0..n
    OBVIOUS
  <2>2. h[k - 1] \in Nat /\ h[k] = G[<<h[k - 1], k>>]
    BY <1>5, <1>6, <2>1 DEF Steps
  <2> QED BY <1>3, <2>2
<1>8. Counts(h, s)
  BY <1>1, <1>5, <1>6, <1>7 DEF Counts, Steps
<1>9. g = [u \in SUBSET (1..n) |->
           IF u = {} THEN 0 ELSE IF s[Max(u)] \in Decimal
                                 THEN g[u \ {Max(u)}] * 10 + digit_of(s[Max(u)]) ELSE g[u \ {Max(u)}]]
  <2>1. ASSUME NEW u \in SUBSET (1..n), u # {} PROVE g[u] = shift(g[u \ {Max(u)}], s[Max(u)])
    <3>1. Max(u) \in 1..n
      BY <2>1, MaxOf
    <3>2. u \ {Max(u)} \in SUBSET (1..n)
      OBVIOUS
    <3>3. g[u] = G[<<g[u \ {Max(u)}], Max(u)>>]
      BY <1>4, <2>1 DEF IsFold
    <3> QED BY <1>3, <1>4, <3>1, <3>2, <3>3
  <2>2. g[{}] = 0
    BY <1>4 DEF IsFold
  <2> QED BY <1>4, <2>1, <2>2 DEF shift
<1>10. PICK f : /\ f = CHOOSE x : x = [u \in SUBSET (1..n) |->
                       IF u = {} THEN 0 ELSE IF s[Max(u)] \in Decimal
                                 THEN x[u \ {Max(u)}] * 10 + digit_of(s[Max(u)]) ELSE x[u \ {Max(u)}]]
                /\ value_of(s) = f[1..n]
  BY <1>1 DEF value_of, FoldLeft, MapThenFoldSet
<1>11. f = [u \in SUBSET (1..n) |->
            IF u = {} THEN 0 ELSE IF s[Max(u)] \in Decimal
                                 THEN f[u \ {Max(u)}] * 10 + digit_of(s[Max(u)]) ELSE f[u \ {Max(u)}]]
  BY <1>9, <1>10
<1>12. f[1..n] = g[1..n]
  <2>1. f[{}] = g[{}]
    BY <1>9, <1>11
  <2>2. ASSUME NEW u \in SUBSET (1..n), u # {}, f[u \ {Max(u)}] = g[u \ {Max(u)}] PROVE f[u] = g[u]
    BY <1>9, <1>11, <2>2
  <2> QED BY <2>1, <2>2, FoldsAgree
<1>13. h[n] = g[1..n]
  BY <1>6 DEF Through
<1> QED BY <1>1, <1>8, <1>10, <1>12, <1>13

\* A text has the values of its prefixes.
LEMMA CountsOnce ==
    ASSUME NEW s \in Seq(STRING), NEW t \in Seq(STRING), NEW h, NEW f, Counts(h, s), Counts(f, t),
           Len(t) <= Len(s), \A k \in 1..Len(t) : t[k] = s[k]
    PROVE  f[Len(t)] = h[Len(t)]
<1>1. PICK n \in Nat : n = Len(t)
  OBVIOUS
<1> DEFINE T == {k \in 0..n : f[k] = h[k]}
<1>2. 0 \in T
  BY <1>1 DEF Counts
<1>3. ASSUME NEW k \in 1..n, k - 1 \in T PROVE k \in T
  <2>1. k \in 1..Len(s) /\ k \in 1..Len(t) /\ k \in 0..n
    BY <1>1
  <2> QED BY <1>3, <2>1 DEF Counts
<1>4. n \in T
  <2> HIDE DEF T
  <2>1. 0..n \subseteq T
    BY <1>2, <1>3, Induct
  <2> QED BY <2>1
<1> QED BY <1>1, <1>4

LEMMA ValueIs ==
    ASSUME NEW s \in Seq(STRING), NEW h, Counts(h, s), NEW k \in 0..Len(s)
    PROVE  Value(s, k) = h[k]
<1>1. PICK t : t = SubSeq(s, 1, k)
  OBVIOUS
<1>2. t \in Seq(STRING) /\ Len(t) = k /\ Len(t) <= Len(s) /\ \A i \in 1..Len(t) : t[i] = s[i]
  BY <1>1
<1>3. PICK f : Counts(f, t) /\ value_of(t) = f[Len(t)]
  BY <1>2, CountsExist
<1>4. f[Len(t)] = h[Len(t)]
  BY <1>2, <1>3, CountsOnce
<1> QED BY <1>1, <1>2, <1>3, <1>4 DEF Value

\* What each character adds to the value of those before it.
LEMMA ValueProperties ==
    ASSUME NEW s \in Seq(STRING)
    PROVE  /\ Value(s, 0) = 0 /\ Value(s, Len(s)) = value_of(s)
           /\ \A k \in 0..Len(s) : Value(s, k) \in Nat
           /\ \A k \in 1..Len(s) : Value(s, k) = shift(Value(s, k - 1), s[k])
<1>1. PICK n \in Nat : n = Len(s)
  OBVIOUS
<1>2. PICK h : Counts(h, s) /\ value_of(s) = h[n]
  BY <1>1, CountsExist
<1>3. \A k \in 0..n : Value(s, k) = h[k]
  BY <1>1, <1>2, ValueIs
<1>4. \A k \in 1..n : k - 1 \in 0..n /\ k \in 0..n
  OBVIOUS
<1> QED BY <1>1, <1>2, <1>3, <1>4, SMTT(30) DEF Counts

\* The first digits are not more than all.
LEMMA ValueGrows ==
    ASSUME NEW s \in Seq(STRING), NEW k \in 0..Len(s)
    PROVE  Value(s, k) <= value_of(s)
<1>1. PICK n \in Nat : n = Len(s)
  OBVIOUS
<1> DEFINE T == {j \in 0..n : k <= j => Value(s, k) <= Value(s, j)}
<1>2. 0 \in T
  <2>1. k <= 0 => k = 0
    BY <1>1
  <2>2. Value(s, k) \in Nat
    BY ValueProperties
  <2> QED BY <2>1, <2>2
<1>3. ASSUME NEW j \in 1..n, j - 1 \in T PROVE j \in T
  <2>1. Value(s, j - 1) \in Nat /\ Value(s, j) \in Nat /\ Value(s, k) \in Nat
    BY <1>1, ValueProperties
  <2>2. Value(s, j) >= Value(s, j - 1)
    BY <1>1, <2>1, ValueProperties, ShiftNat
  <2>3. k = j \/ k > j \/ k <= j - 1
    BY <1>1
  <2> QED BY <1>1, <1>3, <2>1, <2>2, <2>3
<1>4. n \in T
  <2> HIDE DEF T
  <2>1. 0..n \subseteq T
    BY <1>2, <1>3, Induct
  <2> QED BY <2>1
<1> QED BY <1>1, <1>4, ValueProperties

\* Powers of two, of which the provers know nothing, are the numbers of subsets.
LEMMA Powers == ASSUME NEW n \in Nat PROVE 2^n \in Nat \ {0} /\ 2^(n + 1) = 2 * 2^n
<1> DEFINE A == 1..n
           N == n + 1
           B == {u \cup {N} : u \in SUBSET A}
<1>1. IsFiniteSet(A) /\ Cardinality(A) = n /\ IsFiniteSet(1..N) /\ Cardinality(1..N) = n + 1
  <2>1. 1 \in Int /\ n \in Int /\ N \in Int /\ ~(1 > N) /\ N - 1 + 1 = n + 1
        /\ (1 > n => n = 0) /\ n - 1 + 1 = n
    OBVIOUS
  <2> HIDE DEF N
  <2>2. IsFiniteSet(1..n) /\ Cardinality(1..n) = IF 1 > n THEN 0 ELSE n - 1 + 1
    BY <2>1, FS_Interval, Zenon
  <2>3. IsFiniteSet(1..N) /\ Cardinality(1..N) = IF 1 > N THEN 0 ELSE N - 1 + 1
    BY <2>1, FS_Interval, Zenon
  <2> QED BY <2>1, <2>2, <2>3
<1>2. IsFiniteSet(SUBSET A) /\ Cardinality(SUBSET A) = 2^n
  BY <1>1, FS_SUBSET, Zenon
<1>3. IsFiniteSet(SUBSET (1..N)) /\ Cardinality(SUBSET (1..N)) = 2^(n + 1)
  BY <1>1, FS_SUBSET, Zenon
<1>4. ExistsBijection(SUBSET A, B)
  <2> DEFINE f == [u \in SUBSET A |-> u \cup {N}]
  <2>1. f \in [SUBSET A -> B]
    BY Zenon
  <2>2. ASSUME NEW u \in SUBSET A, NEW v \in SUBSET A, f[u] = f[v] PROVE u = v
    <3>1. N \notin A
      OBVIOUS
    <3> HIDE DEF A, N
    <3>2. N \notin u /\ N \notin v /\ u \cup {N} = v \cup {N}
      BY <2>2, <3>1
    <3> QED BY <3>2
  <2>3. f \in Injection(SUBSET A, B)
    BY <2>1, <2>2, Zenon DEF Injection, IsInjective
  <2>4. f \in Surjection(SUBSET A, B)
    BY <2>1, Zenon DEF Surjection
  <2>5. f \in Bijection(SUBSET A, B)
    BY <2>3, <2>4, Zenon DEF Bijection
  <2> QED BY <2>5, Zenon DEF ExistsBijection
<1>5. IsFiniteSet(B) /\ Cardinality(B) = 2^n
  BY <1>2, <1>4, FS_Bijection, Zenon
<1>6. SUBSET (1..N) = (SUBSET A) \cup B /\ (SUBSET A) \cap B = {}
  <2>1. 1..N = A \cup {N} /\ N \notin A
    OBVIOUS
  <2>2. ASSUME NEW u \in SUBSET (1..N), N \in u PROVE u \in B
    <3>1. u \ {N} \in SUBSET A /\ u = (u \ {N}) \cup {N}
      BY <2>1, <2>2
    <3> QED BY <3>1
  <2>3. ASSUME NEW u \in SUBSET (1..N), N \notin u PROVE u \in SUBSET A
    BY <2>1, <2>3
  <2>4. ASSUME NEW u \in B PROVE u \in SUBSET (1..N) /\ N \in u
    BY <2>1
  <2>5. ASSUME NEW u \in SUBSET A PROVE u \in SUBSET (1..N) /\ N \notin u
    BY <2>1
  <2> HIDE DEF B, A, N
  <2> QED BY <2>2, <2>3, <2>4, <2>5
<1>7. Cardinality(SUBSET (1..N)) = Cardinality(SUBSET A) + Cardinality(B) - Cardinality((SUBSET A) \cap B)
  <2>1. Cardinality((SUBSET A) \cup B) = Cardinality(SUBSET A) + Cardinality(B) - Cardinality((SUBSET A) \cap B)
    BY <1>2, <1>5, FS_Union, Zenon
  <2> QED BY <1>6, <2>1, Zenon
<1>8. Cardinality((SUBSET A) \cap B) = 0
  BY <1>6, FS_EmptySet, Zenon
<1>9. 2^n \in Nat
  BY <1>2, FS_CardinalityType, Zenon
<1>10. 2^n # 0
  <2>1. SUBSET A # {}
    OBVIOUS
  <2> QED BY <1>2, <2>1, FS_EmptySet, Zenon
<1>11. 2^(n + 1) = 2^n + 2^n - 0
  BY <1>2, <1>3, <1>5, <1>7, <1>8, Zenon
<1> QED BY <1>9, <1>10, <1>11

\* The magnitude of the least int.
Half(bits) == 2^(bits - 1)

\* An int wraps nothing but the magnitude of its least value.
LEMMA Wraps ==
    ASSUME NEW bits \in Nat \ {0}, NEW x \in (0 - Half(bits))..Half(bits)
    PROVE  wrap(x, bits) = (IF x = Half(bits) THEN 0 - Half(bits) ELSE x) /\ Half(bits) \in Nat \ {0}
<1>1. bits - 1 \in Nat /\ bits = (bits - 1) + 1
  OBVIOUS
<1>2. PICK m : m = Half(bits) /\ m = 2^(bits - 1)
  BY DEF Half
<1>3. m \in Nat \ {0} /\ 2^bits = 2 * m
  <2>1. 2^(bits - 1) \in Nat \ {0} /\ 2^((bits - 1) + 1) = 2 * 2^(bits - 1)
    BY <1>1, Powers
  <2>2. 2^bits = 2^((bits - 1) + 1)
    BY <1>1, Zenon
  <2> QED BY <1>2, <2>1, <2>2, Zenon
<1>4. wrap(x, bits) = ((x + m) % (2 * m)) - m
  BY <1>2, <1>3, Zenon DEF wrap
<1>5. x + m \in 0..(2 * m)
  BY <1>2, <1>3
<1>6. CASE x = m
  <2>1. (x + m) = 2 * m
    BY <1>3, <1>6
  <2>2. (2 * m) % (2 * m) = 0
    <3>1. \A y \in Nat \ {0} : y % y = 0
      OBVIOUS
    <3>2. 2 * m \in Nat \ {0}
      BY <1>3
    <3> QED BY <3>1, <3>2, Zenon
  <2> QED BY <1>2, <1>3, <1>4, <1>6, <2>1, <2>2
<1>7. CASE x # m
  <2>1. x + m \in 0..(2 * m - 1)
    BY <1>2, <1>3, <1>5, <1>7
  <2>2. (x + m) % (2 * m) = x + m
    <3>1. \A y \in Nat \ {0}, z \in Nat : z < y => z % y = z
      OBVIOUS
    <3>2. 2 * m \in Nat \ {0} /\ x + m \in Nat /\ x + m < 2 * m
      BY <1>3, <2>1
    <3> QED BY <3>1, <3>2, Zenon
  <2> QED BY <1>2, <1>3, <1>4, <1>7, <2>2
<1> QED BY <1>2, <1>3, <1>6, <1>7

-----------------------------------------------------------------------------
(***************************************************************************)
(* The scanner.  Its loops stand in front of some item, or inside of it, with *)
(* the items before it stored: Somewhere.  Each step of scanf and of its     *)
(* conversions keeps this (ScanIInv).                                        *)
(***************************************************************************)
\* What is left of the input, and how much of it has been read.
Left == ring \o coming
Input == FlattenSeq(texts_sent)
Gone == Len(Input) - Len(Left)

StreamInv ==
    /\ format \in Seq(STRING) /\ sent \in Seq(Items)
    /\ ring \in Seq(STRING) /\ coming \in Seq(STRING) /\ Len(Left) <= Len(Input)
    /\ \A i \in 1..Len(Left) : Left[i] = Input[Gone + i]

\* p symbols of the format and k items are behind, and j characters of the next item.
Progress(p, k, j) ==
    /\ p \in 0..Len(format) /\ k \in 0..Len(sent) /\ j \in Nat
    /\ fmt = SubSeq(format, p + 1, Len(format))
    /\ Len(Upto(symbols, p)) = k
    /\ got = Upto(values, k)
    /\ Gone = Len(Upto(texts_sent, k)) + j

sign_read(t) == IF t[1] = "-" THEN neg = TRUE ELSE neg = FALSE

\* The number read so far, of the first j characters of t.  The greatest magnitude may
\* have wrapped.
int_read(t, j) ==
    LET n == Value(Front(t), j)
    IN  val = n \/ (n = Half(IntBits) /\ val = 0 - n)
places_read(t, j) ==
    \/ places = -1 /\ \A m \in 1..j : t[m] # "."
    \/ \E m \in 1..j : t[m] = "." /\ places = j - m

\* Where the loop at stands that reads item i, behind j characters.
Reading(i, j) ==
    LET t == i.text
    IN  /\ j < Len(t)
        /\ CASE at = "sign"   -> i.sym = "%d" /\ j = 0 /\ val = 0 /\ neg = FALSE
             [] at = "first"  -> i.sym = "%d" /\ j = 1 /\ neg = TRUE /\ t[1] = "-"
             [] at = "digits" -> /\ i.sym = "%d" /\ sign_read(t) /\ j > (IF t[1] = "-" THEN 1 ELSE 0)
                                 /\ int_read(t, j)
             [] at = "fsign"  -> i.sym = "%f" /\ j = 0 /\ val = 0 /\ neg = FALSE /\ places = -1
             [] at = "float"  -> /\ i.sym = "%f" /\ j > 0 /\ sign_read(t)
                                 /\ val = Value(Front(t), j) /\ places_read(t, j)
             [] at = "string" -> i.sym = "%s" /\ val = SubSeq(i.value, 1, j)
             [] OTHER         -> FALSE

Stands_at(p, k, j) ==
    \/ at = "format" /\ j = 0
    \/ at = "returned" /\ k = Len(sent) /\ j = 0
    \/ k < Len(sent) /\ p < Len(format) /\ format[p + 1] = sent[k + 1].sym /\ Reading(sent[k + 1], j)

Somewhere == \E p, k, j \in Nat : Progress(p, k, j) /\ Stands_at(p, k, j)
ScanInv == ~starved /\ Asked => Somewhere

ScanIInv == StreamInv /\ ScanInv

\* The stream: its head is read, its end arrives.
LEMMA OnePlace == ASSUME NEW X, NEW x \in X PROVE <<x>> \in Seq(X)
OBVIOUS

\* t is s without its first element, h.
Behind(t, h, s) ==
    /\ s[1] = h /\ Len(t) = Len(s) - 1 /\ Len(s) \in Nat \ {0}
    /\ \A i \in 1..Len(t) : t[i] = s[i + 1]

LEMMA TailConcat ==
    ASSUME NEW X, NEW r \in Seq(X), NEW c \in Seq(X), r # <<>>
    PROVE  Tail(r) \in Seq(X) /\ Head(r) \in X /\ Behind(Tail(r) \o c, Head(r), r \o c)
<1>1. Tail(r) \in Seq(X) /\ Head(r) \in X /\ Head(r) = r[1]
  OBVIOUS
<1>2. Len(r) \in Nat \ {0} /\ Len(Tail(r)) = Len(r) - 1 /\ Len(c) \in Nat
  OBVIOUS
<1>3. \A i \in 1..Len(Tail(r)) : Tail(r)[i] = r[i + 1]
  OBVIOUS
<1>4. Glued(r, c, r \o c) /\ Glued(Tail(r), c, Tail(r) \o c)
  BY <1>1, ConcatGlued
<1>5. /\ Len(r \o c) = Len(r) + Len(c) /\ \A i \in 1..Len(r) : (r \o c)[i] = r[i]
      /\ \A i \in 1..Len(c) : (r \o c)[Len(r) + i] = c[i]
  BY <1>4, Zenon DEF Glued, Begins
<1>6. /\ Len(Tail(r) \o c) = Len(Tail(r)) + Len(c) /\ \A i \in 1..Len(Tail(r)) : (Tail(r) \o c)[i] = Tail(r)[i]
      /\ \A i \in 1..Len(c) : (Tail(r) \o c)[Len(Tail(r)) + i] = c[i]
  BY <1>4, Zenon DEF Glued, Begins
<1>7. PICK n \in Nat \ {0}, m \in Nat : n = Len(r) /\ m = Len(c) /\ n - 1 = Len(Tail(r))
  BY <1>2
<1>8. ASSUME NEW i \in 1..Len(Tail(r) \o c) PROVE (Tail(r) \o c)[i] = (r \o c)[i + 1]
  <2>1. i \in 1..(n - 1 + m)
    BY <1>6, <1>7
  <2>2. CASE i < n
    <3>1. i \in 1..(n - 1) /\ i + 1 \in 1..n
      BY <2>1, <2>2
    <3>2. (Tail(r) \o c)[i] = Tail(r)[i] /\ Tail(r)[i] = r[i + 1] /\ (r \o c)[i + 1] = r[i + 1]
      BY <1>3, <1>5, <1>6, <1>7, <3>1, Zenon
    <3> QED BY <3>2, Zenon
  <2>3. CASE i >= n
    <3>1. PICK j \in 1..m : i = (n - 1) + j /\ i + 1 = n + j
      <4>1. i - (n - 1) \in 1..m /\ i = (n - 1) + (i - (n - 1)) /\ i + 1 = n + (i - (n - 1))
        BY <2>1, <2>3
      <4> QED BY <4>1
    <3>2. (Tail(r) \o c)[(n - 1) + j] = c[j] /\ (r \o c)[n + j] = c[j]
      BY <1>5, <1>6, <1>7, Zenon
    <3> QED BY <3>1, <3>2, Zenon
  <2> QED BY <2>1, <2>2, <2>3
<1>9. (r \o c)[1] = Head(r)
  <2>1. 1 \in 1..n
    OBVIOUS
  <2> QED BY <1>1, <1>5, <1>7, <2>1, Zenon
<1>10. Len(Tail(r) \o c) = Len(r \o c) - 1 /\ Len(r \o c) \in Nat \ {0}
  <2>1. Len(r \o c) = n + m /\ Len(Tail(r) \o c) = n - 1 + m
    BY <1>5, <1>6, <1>7, Zenon
  <2> QED BY <2>1
<1> QED BY <1>1, <1>8, <1>9, <1>10, Zenon DEF Behind

\* The items that are sent, as sequences of texts, symbols and values.
LEMMA SentWell ==
    ASSUME format \in Seq(STRING), sent \in Seq(Items)
    PROVE  /\ Seqs(texts_sent, STRING) /\ Seqs(symbols, STRING) /\ Seqs(values, {i.value : i \in Items})
           /\ Len(texts_sent) = Len(sent) /\ Len(symbols) = Len(format) /\ Len(values) = Len(sent)
           /\ Len(sent) \in Nat /\ Len(format) \in Nat
<1>1. sent \in Seq(Items) /\ format \in Seq(STRING)
  OBVIOUS
<1>2. Len(sent) \in Nat /\ Len(format) \in Nat
  BY <1>1, SeqLen, Zenon
<1>3. \A k \in 1..Len(sent) : sent[k] \in Items
  BY <1>1
<1>4. \A k \in 1..Len(format) : format[k] \in STRING
  BY <1>1
<1>5. Seqs(texts_sent, STRING) /\ Len(texts_sent) = Len(sent)
  <2>1. \A k \in 1..Len(sent) : sent[k].text \in Seq(STRING)
    BY <1>3, ScanfAssumption
  <2> DEFINE V == Seq(STRING)
  <2>2. \A k \in 1..Len(sent) : sent[k].text \in V
    BY <2>1
  <2> HIDE DEF V
  <2>3. texts_sent \in Seq(V) /\ Len(texts_sent) = Len(sent)
    BY <1>2, <2>2 DEF texts_sent
  <2> QED BY <2>3 DEF Seqs, V
<1>6. Seqs(symbols, STRING) /\ Len(symbols) = Len(format)
  <2> DEFINE V == Seq(STRING)
  <2>1. \A x \in STRING : <<x>> \in V
    BY OnePlace, Zenon
  <2>2. <<>> \in V
    OBVIOUS
  <2> HIDE DEF V
  <2>3. \A k \in 1..Len(format) : (IF format[k] = "%x" THEN <<>> ELSE <<format[k]>>) \in V
    BY <1>4, <2>1, <2>2, Zenon
  <2>4. symbols \in [1..Len(format) -> V]
    BY <2>3 DEF symbols
  <2>5. symbols \in Seq(V) /\ Len(symbols) = Len(format)
    BY <1>2, <2>4
  <2> QED BY <2>5 DEF Seqs, V
<1>7. Seqs(values, {i.value : i \in Items}) /\ Len(values) = Len(sent)
  <2> DEFINE W == {i.value : i \in Items}
             V == Seq(W)
  <2>1. \A i \in Items : <<i.value>> \in V
    <3>1. \A i \in Items : i.value \in W
      OBVIOUS
    <3> HIDE DEF W
    <3> QED BY <3>1, OnePlace
  <2>2. <<>> \in V
    OBVIOUS
  <2> HIDE DEF V, W
  <2>3. values \in Seq(V) /\ Len(values) = Len(sent)
    BY <1>2, <1>3, <2>1, <2>2 DEF values
  <2> QED BY <2>3 DEF Seqs, V, W
<1> QED BY <1>2, <1>5, <1>6, <1>7

LEMMA SentSeqs ==
    ASSUME StreamInv
    PROVE  /\ Seqs(texts_sent, STRING) /\ Seqs(symbols, STRING) /\ Seqs(values, {i.value : i \in Items})
           /\ Len(texts_sent) = Len(sent) /\ Len(symbols) = Len(format) /\ Len(values) = Len(sent)
           /\ Len(sent) \in Nat /\ Len(format) \in Nat
<1>1. sent \in Seq(Items) /\ format \in Seq(STRING)
  BY DEF StreamInv
<1> QED BY <1>1, SentWell, Zenon

\* All their characters are the input.
LEMMA InputWell ==
    ASSUME format \in Seq(STRING), sent \in Seq(Items)
    PROVE  Input \in Seq(STRING) /\ Len(Input) \in Nat
<1>1. Seqs(texts_sent, STRING) /\ Len(texts_sent) \in 0..Len(texts_sent)
  BY SentWell
<1>2. Upto(texts_sent, Len(texts_sent)) = Input
  BY <1>1, UptoAll, Zenon DEF Input
<1> QED BY <1>1, <1>2, UptoSeq, Zenon

LEMMA InputSeq == ASSUME StreamInv PROVE Input \in Seq(STRING) /\ Len(Input) \in Nat
<1>1. sent \in Seq(Items) /\ format \in Seq(STRING)
  BY DEF StreamInv
<1> QED BY <1>1, InputWell, Zenon

\* What is left of it.
LEMMA LeftSeq ==
    ASSUME StreamInv
    PROVE  Left \in Seq(STRING) /\ Len(Left) \in Nat /\ Gone \in Nat /\ Len(Left) = Len(Input) - Gone
<1>1. ring \in Seq(STRING) /\ coming \in Seq(STRING) /\ Len(Left) <= Len(Input)
  BY DEF StreamInv
<1>2. Left \in Seq(STRING)
  BY <1>1 DEF Left
<1>3. Len(Left) \in Nat /\ Len(Input) \in Nat
  BY <1>2, InputSeq, SeqLen, Zenon
<1> QED BY <1>1, <1>2, <1>3 DEF Gone

\* A step that leaves the call and the items leaves what they say.
LEMMA SameInput ==
    ASSUME UNCHANGED <<format, sent>>
    PROVE  symbols' = symbols /\ values' = values /\ texts_sent' = texts_sent /\ Input' = Input
<1>1. format' = format /\ sent' = sent
  OBVIOUS
<1>2. symbols' = symbols
  BY <1>1 DEF symbols
<1>3. values' = values
  BY <1>1 DEF values
<1>4. texts_sent' = texts_sent
  BY <1>1 DEF texts_sent
<1> QED BY <1>2, <1>3, <1>4 DEF Input

\* A character arrives at the ring: nothing is read and the order stays.
LEMMA Arrives ==
    ASSUME StreamInv, uart_intput
    PROVE  StreamInv' /\ Gone' = Gone /\ Left' = Left
<1>1. /\ ring \in Seq(STRING) /\ coming \in Seq(STRING) /\ coming # <<>>
      /\ ring' = Append(ring, Head(coming)) /\ coming' = Tail(coming) /\ UNCHANGED <<format, sent>>
  BY DEF StreamInv, uart_intput
<1>2. ring' \in Seq(STRING) /\ coming' \in Seq(STRING) /\ ring' \o coming' = ring \o coming
  <2> HIDE DEF uart_intput
  <2> QED BY <1>1
<1>3. Left' = Left
  BY <1>2 DEF Left
<1>4. Input' = Input
  BY <1>1, SameInput
<1>5. Gone' = Gone
  BY <1>3, <1>4 DEF Gone
<1> QED BY <1>1, <1>2, <1>3, <1>4, <1>5 DEF StreamInv

\* What a read of a character takes; it finds the next of the input, unless that has not
\* arrived.
LEMMA ReadsChar ==
    ASSUME StreamInv, scanf_read_char
    PROVE  /\ StreamInv' /\ UNCHANGED <<format, sent>> /\ (~starved' => ~starved)
           /\ ~starved' /\ Gone < Len(Input) =>
                 Gone' = Gone + 1 /\ next_char = Input[Gone + 1] /\ next_char \in STRING
<1>1. /\ ring \in Seq(STRING) /\ coming \in Seq(STRING)
      /\ ring' = (IF ring = <<>> THEN ring ELSE Tail(ring)) /\ coming' = coming
      /\ starved' = (starved \/ (ring = <<>> /\ coming # <<>>)) /\ UNCHANGED <<format, sent>>
  BY DEF StreamInv, scanf_read_char
<1>2. symbols' = symbols /\ values' = values /\ texts_sent' = texts_sent /\ Input' = Input
  BY <1>1, SameInput
<1>3. ~starved' => ~starved
  BY <1>1
<1>4. Left \in Seq(STRING) /\ Len(Left) \in Nat /\ Gone \in Nat /\ Len(Left) = Len(Input) - Gone /\ Len(Input) \in Nat
  BY LeftSeq, InputSeq
<1>5. CASE ring = <<>>
  <2>1. ring' = ring /\ coming' = coming
    BY <1>1, <1>5
  <2>2. Left' = Left /\ Gone' = Gone
    BY <1>2, <2>1 DEF Left, Gone
  <2>3. StreamInv'
    BY <1>1, <1>2, <2>1, <2>2 DEF StreamInv
  <2>4. ~starved' => Len(Left) = 0
    <3>1. ~starved' => coming = <<>>
      BY <1>1, <1>5
    <3>2. coming = <<>> => Left = <<>>
      BY <1>5 DEF Left
    <3> QED BY <3>1, <3>2
  <2> QED BY <1>1, <1>3, <1>4, <2>3, <2>4
<1>6. CASE ring # <<>>
  <2>1. ring' = Tail(ring) /\ coming' = coming
    BY <1>1, <1>6
  <2>2. /\ Tail(ring) \in Seq(STRING) /\ Head(ring) \in STRING
        /\ Behind(Tail(ring) \o coming, Head(ring), ring \o coming)
    BY <1>1, <1>6, TailConcat
  <2>3. Left' = Tail(ring) \o coming /\ Left = ring \o coming
    BY <2>1 DEF Left
  <2>8. Behind(Left', Head(ring), Left)
    BY <2>2, <2>3, Zenon
  <2>4. /\ Len(Left') = Len(Left) - 1 /\ Left[1] = Head(ring) /\ Len(Left) >= 1
        /\ \A i \in 1..Len(Left') : Left'[i] = Left[i + 1]
    BY <2>8 DEF Behind
  <2>5. Gone' = Gone + 1
    BY <1>2, <1>4, <2>4 DEF Gone
  <2>6. next_char = Input[Gone + 1] /\ next_char \in STRING
    <3>1. Left[1] = Input[Gone + 1]
      BY <1>4, <2>4 DEF StreamInv
    <3>2. next_char = Head(ring)
      BY <1>6 DEF next_char
    <3> QED BY <2>2, <2>4, <3>1, <3>2, Zenon
  <2>7. StreamInv'
    <3>1. Len(Left') <= Len(Input')
      BY <1>2, <1>4, <2>4 DEF StreamInv
    <3>2. ASSUME NEW i \in 1..Len(Left') PROVE Left'[i] = Input'[Gone' + i]
      <4>1. i + 1 \in 1..Len(Left)
        BY <1>4, <2>4
      <4>2. Left[i + 1] = Input[Gone + (i + 1)]
        BY <4>1 DEF StreamInv
      <4>3. Gone' + i = Gone + (i + 1)
        BY <1>4, <2>5
      <4> QED BY <1>2, <2>4, <4>2, <4>3
    <3> QED BY <1>1, <2>1, <2>2, <3>1, <3>2 DEF StreamInv
  <2> QED BY <1>1, <1>3, <2>5, <2>6, <2>7
<1> QED BY <1>5, <1>6

\* The next character of the input is that of the item that is read.
LEMMA ItemChar ==
    ASSUME StreamInv, NEW p, NEW k, NEW j, Progress(p, k, j), k < Len(sent), j < Len(sent[k + 1].text)
    PROVE  /\ sent[k + 1] \in Items /\ sent[k + 1].text \in Seq(STRING) /\ Shows(sent[k + 1])
           /\ Gone < Len(Input) /\ Input[Gone + 1] = sent[k + 1].text[j + 1]
           /\ k + 1 \in 1..Len(sent) /\ j \in Nat /\ Len(sent[k + 1].text) \in Nat
           /\ Len(Upto(texts_sent, k + 1)) = Len(Upto(texts_sent, k)) + Len(sent[k + 1].text)
<1>1. PICK q : q = texts_sent /\ Seqs(q, STRING) /\ Len(q) = Len(sent) /\ Len(sent) \in Nat
  BY SentSeqs
<1>2. k \in 0..Len(sent) /\ j \in Nat /\ Gone = Len(Upto(q, k)) + j
  BY <1>1 DEF Progress
<1>3. k + 1 \in 1..Len(sent) /\ (k + 1) - 1 = k
  BY <1>1, <1>2
<1>4. sent[k + 1] \in Items
  BY <1>3 DEF StreamInv
<1>5. sent[k + 1].text \in Seq(STRING) /\ Shows(sent[k + 1])
  BY <1>4, ScanfAssumption
<1>6. q[k + 1] = sent[k + 1].text
  BY <1>1, <1>3 DEF texts_sent
<1>7. PICK t : t = sent[k + 1].text /\ Len(t) \in Nat /\ j < Len(t) /\ q[k + 1] = t
  BY <1>5, <1>6, SeqLen
<1>8. Placed(q, k, k + 1)
  <2>1. k \in Nat /\ k + 1 \in 1..Len(q)
    BY <1>1, <1>3
  <2> QED BY <1>1, <2>1, UptoNext, Zenon
<1>9. /\ Len(Upto(q, k)) \in Nat /\ Len(Upto(q, k + 1)) \in Nat
      /\ Len(Upto(q, k + 1)) = Len(Upto(q, k)) + Len(t)
      /\ Len(Upto(q, k + 1)) <= Len(Input)
      /\ \A i \in 1..Len(t) : Input[Len(Upto(q, k)) + i] = t[i]
  BY <1>1, <1>3, <1>7, <1>8, Zenon DEF Input, Placed
<1>10. Gone < Len(Input)
  <2>1. Len(Input) \in Nat
    BY InputSeq
  <2> QED BY <1>2, <1>7, <1>9, <2>1
<1>11. Input[Gone + 1] = t[j + 1]
  <2>1. PICK i : i = j + 1 /\ i \in 1..Len(t) /\ Gone + 1 = Len(Upto(q, k)) + i
    BY <1>2, <1>7, <1>9
  <2>2. Input[Len(Upto(q, k)) + i] = t[i]
    BY <1>9, <2>1, Zenon
  <2> QED BY <2>1, <2>2, Zenon
<1> QED BY <1>1, <1>2, <1>3, <1>4, <1>5, <1>7, <1>9, <1>10, <1>11, Zenon

\* What is left of the format.
LEMMA FormatLeft ==
    ASSUME StreamInv, NEW p, NEW k, NEW j, Progress(p, k, j)
    PROVE  /\ p \in Nat /\ Len(format) \in Nat /\ p <= Len(format)
           /\ (fmt = <<>>) <=> (p = Len(format))
           /\ fmt # <<>> => /\ Head(fmt) = format[p + 1] /\ p + 1 \in 1..Len(format)
                            /\ Tail(fmt) = SubSeq(format, (p + 1) + 1, Len(format))
<1>1. format \in Seq(STRING) /\ Len(format) \in Nat
  BY SentSeqs DEF StreamInv
<1>2. p \in 0..Len(format) /\ fmt = SubSeq(format, p + 1, Len(format))
  BY DEF Progress
<1>3. Len(fmt) = Len(format) - p /\ fmt \in Seq(STRING) /\ \A i \in 1..(Len(format) - p) : fmt[i] = format[p + i]
  BY <1>1, <1>2
<1>4. (fmt = <<>>) <=> (p = Len(format))
  <2>1. fmt = <<>> => Len(fmt) = 0
    OBVIOUS
  <2>2. fmt # <<>> => Len(fmt) \in Nat \ {0}
    BY <1>3, EmptySeq
  <2> QED BY <1>1, <1>2, <1>3, <2>1, <2>2
<1>5. ASSUME fmt # <<>>
      PROVE  /\ Head(fmt) = format[p + 1] /\ p + 1 \in 1..Len(format)
             /\ Tail(fmt) = SubSeq(format, (p + 1) + 1, Len(format))
  <2>1. p < Len(format)
    BY <1>1, <1>2, <1>4, <1>5
  <2>2. Head(fmt) = fmt[1] /\ fmt[1] = format[p + 1]
    BY <1>1, <1>2, <1>3, <1>5, <2>1
  <2>3. Tail(fmt) = SubSeq(format, (p + 1) + 1, Len(format))
    BY <1>1, <1>2, <2>1
  <2> QED BY <1>1, <1>2, <2>1, <2>2, <2>3
<1> QED BY <1>1, <1>2, <1>4, <1>5

\* A symbol of the format asks for the next item.
LEMMA SymbolNext ==
    ASSUME StreamInv, Asked, NEW p, NEW k, NEW j, Progress(p, k, j), p + 1 \in 1..Len(format)
    PROVE  IF format[p + 1] = "%x" THEN Len(Upto(symbols, p + 1)) = k
           ELSE k < Len(sent) /\ format[p + 1] = sent[k + 1].sym /\ Len(Upto(symbols, p + 1)) = k + 1
<1>1. PICK q : q = symbols /\ Seqs(q, STRING) /\ Len(q) = Len(format) /\ Len(sent) \in Nat
  BY SentSeqs
<1>2. p + 1 \in 1..Len(q) /\ (p + 1) - 1 = p /\ k \in 0..Len(sent) /\ Len(Upto(q, p)) = k
  BY <1>1 DEF Progress
<1>3. Placed(q, p, p + 1)
  <2>1. p \in Nat
    BY DEF Progress
  <2> QED BY <1>1, <1>2, <2>1, UptoNext, Zenon
<1>4. /\ k \in Nat /\ Len(Upto(q, p + 1)) = k + Len(q[p + 1]) /\ Len(Upto(q, p + 1)) <= Len(FlattenSeq(q))
      /\ \A i \in 1..Len(q[p + 1]) : FlattenSeq(q)[k + i] = q[p + 1][i]
  BY <1>2, <1>3, Zenon DEF Placed
<1>5. q[p + 1] = IF format[p + 1] = "%x" THEN <<>> ELSE <<format[p + 1]>>
  BY <1>1 DEF symbols
<1>6. FlattenSeq(q) = [i \in 1..Len(sent) |-> sent[i].sym]
  BY <1>1, Zenon DEF Asked
<1>7. Len(FlattenSeq(q)) = Len(sent)
  BY <1>1, <1>6
<1>8. CASE format[p + 1] = "%x"
  <2>1. Len(q[p + 1]) = 0
    BY <1>5, <1>8
  <2> QED BY <1>1, <1>4, <1>8, <2>1
<1>9. CASE format[p + 1] # "%x"
  <2>1. Len(q[p + 1]) = 1 /\ q[p + 1][1] = format[p + 1]
    BY <1>5, <1>9
  <2>2. Len(Upto(q, p + 1)) = k + 1 /\ k < Len(sent) /\ FlattenSeq(q)[k + 1] = format[p + 1]
    BY <1>1, <1>4, <1>7, <2>1
  <2>3. k + 1 \in 1..Len(sent)
    BY <1>1, <1>4, <2>2
  <2>4. FlattenSeq(q)[k + 1] = sent[k + 1].sym
    BY <1>6, <2>3
  <2> QED BY <1>1, <1>9, <2>2, <2>4
<1> QED BY <1>8, <1>9

\* At its end, all items have been asked for.
LEMMA FormatEnd ==
    ASSUME StreamInv, Asked, NEW p, NEW k, NEW j, Progress(p, k, j), p = Len(format)
    PROVE  k = Len(sent)
<1>1. PICK q : q = symbols /\ Seqs(q, STRING) /\ Len(q) = Len(format) /\ Len(sent) \in Nat
  BY SentSeqs
<1>2. Upto(q, Len(q)) = FlattenSeq(q)
  BY <1>1, UptoAll, Zenon
<1>3. FlattenSeq(q) = [i \in 1..Len(sent) |-> sent[i].sym]
  BY <1>1, Zenon DEF Asked
<1>4. Len(FlattenSeq(q)) = Len(sent)
  BY <1>1, <1>3
<1>5. Len(Upto(q, p)) = k
  BY <1>1 DEF Progress
<1> QED BY <1>1, <1>2, <1>4, <1>5

\* A character inside of an item.
LEMMA InItem ==
    ASSUME StreamInv, NEW p, NEW k, NEW j, Progress(p, k, j),
           Gone' = Gone + 1, UNCHANGED <<fmt, got, format, sent>>
    PROVE  Progress(p, k, j + 1)'
<1>1. symbols' = symbols /\ values' = values /\ texts_sent' = texts_sent
  BY SameInput
<1>2. Len(Upto(texts_sent, k)) \in Nat
  <2>1. Seqs(texts_sent, STRING) /\ k \in 0..Len(texts_sent)
    BY SentSeqs DEF Progress
  <2> QED BY <2>1, UptoSeq
<1>3. j \in Nat /\ Gone = Len(Upto(texts_sent, k)) + j
  BY DEF Progress
<1>4. Gone' = Len(Upto(texts_sent, k)) + (j + 1) /\ j + 1 \in Nat
  BY <1>2, <1>3
<1> QED BY <1>1, <1>4 DEF Progress

\* Only a conversion asks for a value to be stored.
LEMMA UptoValues ==
    ASSUME StreamInv, NEW k \in Nat, k + 1 \in 1..Len(sent)
    PROVE  Upto(values, k + 1) =
              IF sent[k + 1].sym \in Conversions THEN Append(Upto(values, k), sent[k + 1].value) ELSE Upto(values, k)
<1>1. PICK X : X = {i.value : i \in Items}
  OBVIOUS
<1>2. PICK q : q = values /\ Seqs(q, X) /\ Len(q) = Len(sent)
  BY <1>1, SentSeqs
<1>3. k + 1 \in 1..Len(q) /\ (k + 1) - 1 = k
  BY <1>2
<1>4. (k + 1) - 1 \in 0..Len(q) /\ Upto(q, k + 1) = Upto(q, (k + 1) - 1) \o q[k + 1]
  BY <1>2, <1>3, UptoStep, Zenon
<1>5. Upto(q, k) \in Seq(X)
  BY <1>2, <1>3, <1>4, UptoSeq, Zenon
<1>6. q[k + 1] = IF sent[k + 1].sym \in Conversions THEN <<sent[k + 1].value>> ELSE <<>>
  BY <1>2 DEF values
<1>7. CASE sent[k + 1].sym \in Conversions
  <2>1. sent[k + 1] \in Items
    BY DEF StreamInv
  <2>2. sent[k + 1].value \in X
    BY <1>1, <2>1
  <2>3. Upto(q, k) \o <<sent[k + 1].value>> = Append(Upto(q, k), sent[k + 1].value)
    BY <1>5, <2>2, AppendIsConcat, Zenon
  <2> QED BY <1>2, <1>3, <1>4, <1>6, <1>7, <2>3, Zenon
<1>8. CASE sent[k + 1].sym \notin Conversions
  <2>1. Upto(q, k) \o <<>> = Upto(q, k)
    BY <1>5, ConcatEmptySeq, Zenon
  <2> QED BY <1>2, <1>3, <1>4, <1>6, <1>8, <2>1, Zenon
<1> QED BY <1>7, <1>8

\* The last character of an item, and the symbol of the format that asked for it.
LEMMA ItemDone ==
    ASSUME StreamInv, Asked, NEW p, NEW k, NEW j, Progress(p, k, j), k < Len(sent),
           j + 1 = Len(sent[k + 1].text), fmt # <<>>, Head(fmt) # "%x",
           Gone' = Gone + 1, fmt' = Tail(fmt), UNCHANGED <<format, sent>>,
           got' = IF sent[k + 1].sym \in Conversions THEN Append(got, sent[k + 1].value) ELSE got
    PROVE  Progress(p + 1, k + 1, 0)' /\ p + 1 \in Nat /\ k + 1 \in Nat
<1>1. symbols' = symbols /\ values' = values /\ texts_sent' = texts_sent
  BY SameInput
<1>2. /\ p \in Nat /\ Len(format) \in Nat /\ p + 1 \in 1..Len(format) /\ Head(fmt) = format[p + 1]
      /\ fmt' = SubSeq(format, (p + 1) + 1, Len(format))
  BY FormatLeft
<1>3. Len(Upto(symbols, p + 1)) = k + 1
  BY <1>2, SymbolNext
<1>4. k \in Nat /\ j \in Nat /\ Len(sent) \in Nat /\ got = Upto(values, k) /\ Gone = Len(Upto(texts_sent, k)) + j
  BY SentSeqs DEF Progress
<1>5. j < Len(sent[k + 1].text)
  BY <1>4
<1>6. /\ k + 1 \in 1..Len(sent) /\ Len(sent[k + 1].text) \in Nat
      /\ Len(Upto(texts_sent, k + 1)) = Len(Upto(texts_sent, k)) + Len(sent[k + 1].text)
  BY <1>5, ItemChar
<1>7. got' = Upto(values, k + 1)
  BY <1>4, <1>6, UptoValues, Zenon
<1>8. Gone' = Len(Upto(texts_sent, k + 1)) + 0
  <2>1. Len(Upto(texts_sent, k)) \in Nat
    <3>1. Seqs(texts_sent, STRING) /\ k \in 0..Len(texts_sent)
      BY SentSeqs DEF Progress
    <3> QED BY <3>1, UptoSeq
  <2> QED BY <1>4, <1>6, <2>1
<1>9. p + 1 \in 0..Len(format) /\ k + 1 \in 0..Len(sent) /\ 0 \in Nat /\ p + 1 \in Nat /\ k + 1 \in Nat
  BY <1>2, <1>4, <1>6
<1> QED BY <1>1, <1>2, <1>3, <1>7, <1>8, <1>9 DEF Progress

\* What the texts of items look like, without their last character.
LEMMA FrontLast ==
    ASSUME NEW t \in Seq(STRING), t # <<>>
    PROVE  /\ Len(t) \in Nat \ {0} /\ Front(t) \in Seq(STRING) /\ Len(Front(t)) = Len(t) - 1
           /\ DOMAIN Front(t) = 1..(Len(t) - 1) /\ Last(t) = t[Len(t)] /\ Head(t) = t[1]
           /\ \A m \in 1..(Len(t) - 1) : Front(t)[m] = t[m]
<1>1. PICK n \in Nat \ {0} : n = Len(t)
  OBVIOUS
<1>2. Front(t) = SubSeq(t, 1, n - 1)
  BY <1>1 DEF Front
<1>3. SubSeq(t, 1, n - 1) \in Seq(STRING) /\ Len(SubSeq(t, 1, n - 1)) = n - 1
      /\ \A m \in 1..(n - 1) : SubSeq(t, 1, n - 1)[m] = t[m]
  BY <1>1
<1>4. DOMAIN SubSeq(t, 1, n - 1) = 1..(n - 1)
  BY <1>3
<1> QED BY <1>1, <1>2, <1>3, <1>4 DEF Last

\* The values of the first characters of a number.
Counted(t) ==
    LET n == Len(t)
        b == Front(t)
    IN  /\ n \in Nat \ {0} /\ Value(b, 0) = 0 /\ Value(b, n - 1) = value_of(b)
        /\ \A m \in 0..(n - 1) : Value(b, m) \in Nat /\ Value(b, m) <= value_of(b)
        /\ \A m \in 0..(n - 2) : Value(b, m + 1) = shift(Value(b, m), t[m + 1])

\* The values of the prefixes of a number do not exceed its own.
LEMMA NumberCounted == ASSUME NEW t \in Seq(STRING), t # <<>> PROVE Counted(t)
<1>1. PICK n \in Nat \ {0}, b \in Seq(STRING) :
          n = Len(t) /\ b = Front(t) /\ Len(b) = n - 1 /\ \A m \in 1..(n - 1) : b[m] = t[m]
  BY FrontLast
<1>2. /\ Value(b, 0) = 0 /\ Value(b, n - 1) = value_of(b)
      /\ \A m \in 0..(n - 1) : Value(b, m) \in Nat
      /\ \A m \in 1..(n - 1) : Value(b, m) = shift(Value(b, m - 1), b[m])
  BY <1>1, ValueProperties
<1>3. \A m \in 0..(n - 1) : Value(b, m) <= value_of(b)
  BY <1>1, ValueGrows
<1>4. ASSUME NEW m \in 0..(n - 2) PROVE Value(b, m + 1) = shift(Value(b, m), t[m + 1])
  <2>1. PICK l \in 1..(n - 1) : l = m + 1 /\ l - 1 = m
    BY <1>1
  <2>2. Value(b, l) = shift(Value(b, l - 1), b[l]) /\ b[l] = t[l]
    BY <1>1, <1>2
  <2> QED BY <2>1, <2>2
<1> QED BY <1>1, <1>2, <1>3, <1>4, Zenon DEF Counted

\* The signs and the terminators are no digits.
LEMMA Marks == {"-", ".", EOF, " "} \cap Decimal = {}
<1> SUFFICES ASSUME NEW i \in 1..10 PROVE Lower[i] \notin {"-", ".", EOF, " "}
  BY DEF Decimal
<1>1. \A k \in 1..10 : Lower[k] \in {"0", "1", "2", "3", "4", "5", "6", "7", "8", "9"}
  BY DEF Lower
<1> QED BY <1>1 DEF EOF

\* Where the digits, the sign and the points stand in the text of a number.
Digits_stand(t, Allowed) ==
    /\ Len(t) \in Nat \ {0} /\ t[Len(t)] \notin Decimal \cup Allowed
    /\ (Len(t) = 1 => t[1] # "-")
    /\ \A m \in 1..(Len(t) - 1) : t[m] \in Decimal \cup Allowed \/ (m = 1 /\ t[1] = "-")

\* The places of the digits, from how the items are given.
LEMMA DigitsIn ==
    ASSUME NEW t \in Seq(STRING), NEW Allowed, digits_in(t, Allowed)
    PROVE  Digits_stand(t, Allowed) /\ t # <<>>
<1>1. t # <<>> /\ Last(t) \notin Decimal \cup Allowed /\ (Front(t) = <<>> => Last(t) # "-")
      /\ \A k \in DOMAIN Front(t) : Front(t)[k] \in Decimal \cup Allowed \/ (k = 1 /\ Front(t)[k] = "-")
  BY DEF digits_in
<1>2. /\ Len(t) \in Nat \ {0} /\ Front(t) \in Seq(STRING) /\ Len(Front(t)) = Len(t) - 1
      /\ DOMAIN Front(t) = 1..(Len(t) - 1) /\ Last(t) = t[Len(t)]
      /\ \A m \in 1..(Len(t) - 1) : Front(t)[m] = t[m]
  BY <1>1, FrontLast
<1>3. Len(t) = 1 => Front(t) = <<>>
  <2>1. Len(t) = 1 => Len(Front(t)) = 0
    BY <1>2
  <2> QED BY <1>2, <2>1, EmptySeq, Zenon
<1> QED BY <1>1, <1>2, <1>3 DEF Digits_stand

\* An int as it is sent.
IntItem(i) ==
    LET t == i.text
        v == value_of(Front(t))
    IN  /\ t \in Seq(STRING) /\ Digits_stand(t, {}) /\ Counted(t) /\ Len(t) > 1 /\ t[Len(t) - 1] \in Decimal
        /\ v <= Half(IntBits) /\ v \in Nat /\ (t[1] # "-" => v < Half(IntBits))
        /\ i.value = IF t[1] = "-" THEN 0 - v ELSE v

\* What Shows says of each kind of item, place by place.
LEMMA ShowsInt == ASSUME NEW i, i.text \in Seq(STRING), i.sym = "%d", Shows(i) PROVE IntItem(i)
<1>1. PICK t \in Seq(STRING) : t = i.text
  OBVIOUS
<1>2. /\ digits_in(t, {}) /\ Len(t) > 1 /\ Last(Front(t)) \in Decimal
      /\ i.value = with_sign(t, value_of(Front(t)))
      /\ i.value \in (0 - 2^(IntBits - 1))..(2^(IntBits - 1) - 1)
  BY <1>1 DEF Shows
<1>3. Digits_stand(t, {}) /\ t # <<>>
  BY <1>2, DigitsIn
<1>4. Counted(t)
  BY <1>3, NumberCounted
<1>5. /\ Len(t) \in Nat \ {0} /\ Front(t) \in Seq(STRING) /\ Len(Front(t)) = Len(t) - 1 /\ Head(t) = t[1]
      /\ \A m \in 1..(Len(t) - 1) : Front(t)[m] = t[m]
  BY <1>3, FrontLast
<1>6. t[Len(t) - 1] \in Decimal
  <2>1. Len(t) - 1 \in 1..(Len(t) - 1)
    BY <1>2, <1>5
  <2>2. Last(Front(t)) = t[Len(t) - 1]
    BY <1>5, <2>1 DEF Last
  <2> QED BY <1>2, <2>2
<1>7. PICK v : v = value_of(Front(t)) /\ v \in Nat
  <2>1. Len(t) - 1 \in 0..(Len(t) - 1)
    BY <1>5
  <2> QED BY <1>4, <2>1 DEF Counted
<1>8. i.value = IF t[1] = "-" THEN 0 - v ELSE v
  BY <1>2, <1>5, <1>7 DEF with_sign
<1>9. PICK h : h = Half(IntBits) /\ h \in Nat \ {0} /\ i.value \in (0 - h)..(h - 1)
  <2>1. IntBits - 1 \in Nat
    BY WidthAssumption
  <2>2. 2^(IntBits - 1) \in Nat \ {0}
    BY <2>1, Powers
  <2> QED BY <1>2, <2>2, Zenon DEF Half
<1>10. v <= h /\ (t[1] # "-" => v < h)
  BY <1>7, <1>8, <1>9
<1> QED BY <1>1, <1>2, <1>3, <1>4, <1>6, <1>7, <1>8, <1>9, <1>10, Zenon DEF IntItem

\* A double as it is sent.
FloatItem(i) ==
    LET t == i.text
        v == value_of(Front(t))
    IN  /\ t \in Seq(STRING) /\ Digits_stand(t, {"."}) /\ Counted(t)
        /\ \A k, m \in 1..Len(t) : t[k] = "." /\ t[m] = "." => k = m
        /\ i.value = <<IF t[1] = "-" THEN 0 - v ELSE v, decimals_in(Front(t))>>

LEMMA ShowsFloat == ASSUME NEW i, i.text \in Seq(STRING), i.sym = "%f", Shows(i) PROVE FloatItem(i)
<1>1. PICK t \in Seq(STRING) : t = i.text
  OBVIOUS
<1>2. /\ digits_in(t, {"."}) /\ \A k, m \in DOMAIN t : t[k] = "." /\ t[m] = "." => k = m
      /\ i.value = <<with_sign(t, value_of(Front(t))), decimals_in(Front(t))>>
  BY <1>1 DEF Shows
<1>3. Digits_stand(t, {"."}) /\ t # <<>>
  BY <1>2, DigitsIn
<1>4. Counted(t) /\ Head(t) = t[1]
  BY <1>3, NumberCounted, FrontLast
<1>5. DOMAIN t = 1..Len(t)
  OBVIOUS
<1> QED BY <1>1, <1>2, <1>3, <1>4, <1>5, Zenon DEF FloatItem, with_sign

\* A string as it is sent.
StringItem(i) ==
    LET n == Len(i.text)
    IN  /\ n \in Nat \ {0} /\ i.value \in Seq(STRING) /\ Len(i.value) = n - 1 /\ i.text[n] \in Space
        /\ \A m \in 1..(n - 1) : i.text[m] = i.value[m] /\ i.value[m] \notin Space \cup {EOF} /\ i.value[m] \in STRING

LEMMA ShowsString == ASSUME NEW i, i.sym = "%s", Shows(i) PROVE StringItem(i)
<1>1. PICK v \in Seq(STRING), c \in Space : v = i.value /\ Range(v) \cap (Space \cup {EOF}) = {} /\ i.text = Append(v, c)
  BY DEF Shows
<1> DEFINE X == STRING \cup {c}
<1>2. v \in Seq(X) /\ c \in X
  <2>1. PICK n \in Nat : n = Len(v) /\ v \in [1..n -> STRING]
    OBVIOUS
  <2>2. v \in [1..n -> X]
    BY <2>1
  <2> QED BY <2>2
<1> HIDE DEF X
<1>3. Len(i.text) = Len(v) + 1 /\ Len(v) \in Nat /\ i.text[Len(v) + 1] = c
      /\ \A m \in 1..Len(v) : i.text[m] = v[m] /\ v[m] \in STRING
  BY <1>1, <1>2
<1>4. \A m \in 1..Len(v) : v[m] \notin Space \cup {EOF}
  BY <1>1 DEF Range
<1> QED BY <1>1, <1>3, <1>4 DEF StringItem

\* A character that the format matches.
LEMMA ShowsChar ==
    ASSUME NEW i, i.sym \notin Conversions, Shows(i)
    PROVE  i.text = <<i.sym>> /\ i.sym \notin {"%x", "%"} /\ Len(i.text) = 1 /\ i.text[1] = i.sym
<1>1. i.text = <<i.sym>> /\ i.sym \notin {"%x", "%"}
  BY DEF Shows, Conversions
<1> QED BY <1>1

\* The item that is read, where the loop stands in one.
LEMMA ItemRead ==
    ASSUME StreamInv, NEW p \in Nat, NEW k \in Nat, NEW j \in Nat, Progress(p, k, j), Stands_at(p, k, j),
           at \notin {"format", "returned"}
    PROVE  /\ k < Len(sent) /\ sent[k + 1] \in Items /\ sent[k + 1].text \in Seq(STRING) /\ Shows(sent[k + 1])
           /\ Reading(sent[k + 1], j) /\ j < Len(sent[k + 1].text) /\ Len(sent[k + 1].text) \in Nat
           /\ p < Len(format) /\ format[p + 1] = sent[k + 1].sym
           /\ fmt # <<>> /\ Head(fmt) = sent[k + 1].sym
<1>1. k < Len(sent) /\ p < Len(format) /\ format[p + 1] = sent[k + 1].sym /\ Reading(sent[k + 1], j)
  BY DEF Stands_at
<1>2. j < Len(sent[k + 1].text)
  BY <1>1 DEF Reading
<1>3. sent[k + 1] \in Items /\ sent[k + 1].text \in Seq(STRING) /\ Shows(sent[k + 1]) /\ Len(sent[k + 1].text) \in Nat
  BY <1>1, <1>2, ItemChar
<1>4. fmt # <<>> /\ Head(fmt) = format[p + 1]
  BY <1>1, FormatLeft
<1> QED BY <1>1, <1>2, <1>3, <1>4

\* It is read on; or with its last character it has been read.
LEMMA ReadsItem ==
    ASSUME StreamInv, Asked, scanf_read_char, ~starved', NEW p \in Nat, NEW k \in Nat, NEW j \in Nat,
           Progress(p, k, j), k < Len(sent), j < Len(sent[k + 1].text)
    PROVE  /\ next_char = sent[k + 1].text[j + 1] /\ next_char \in STRING /\ UNCHANGED <<format, sent>>
           /\ Gone' = Gone + 1
<1>1. Gone < Len(Input) /\ Input[Gone + 1] = sent[k + 1].text[j + 1]
  BY ItemChar
<1> QED BY <1>1, ReadsChar

\* A character inside of an item: its loop stands one further.
LEMMA GoesOn ==
    ASSUME StreamInv, Asked, scanf_read_char, ~starved', NEW p \in Nat, NEW k \in Nat, NEW j \in Nat,
           Progress(p, k, j), Stands_at(p, k, j), at \notin {"format", "returned"}, UNCHANGED <<fmt, got>>,
           Reading(sent[k + 1], j + 1)'
    PROVE  Somewhere'
<1>1. /\ k < Len(sent) /\ j < Len(sent[k + 1].text)
      /\ p < Len(format) /\ format[p + 1] = sent[k + 1].sym
  BY ItemRead
<1>2. Gone' = Gone + 1 /\ UNCHANGED <<format, sent>>
  BY <1>1, ReadsItem
<1>3. Progress(p, k, j + 1)'
  BY <1>2, InItem
<1>4. Stands_at(p, k, j + 1)'
  BY <1>1, <1>2 DEF Stands_at
<1>5. j + 1 \in Nat
  OBVIOUS
<1> QED BY <1>3, <1>4, <1>5, Zenon DEF Somewhere

\* The last character of an item: its value is stored and the format goes on.
LEMMA ItemStored ==
    ASSUME StreamInv, Asked, scanf_read_char, ~starved', NEW p \in Nat, NEW k \in Nat, NEW j \in Nat,
           Progress(p, k, j), Stands_at(p, k, j), at \notin {"format", "returned"},
           j + 1 = Len(sent[k + 1].text), sent[k + 1].sym \in Conversions, stores(sent[k + 1].value)
    PROVE  Somewhere'
<1>1. k < Len(sent) /\ j < Len(sent[k + 1].text) /\ fmt # <<>> /\ Head(fmt) = sent[k + 1].sym
  BY ItemRead
<1>2. Gone' = Gone + 1 /\ UNCHANGED <<format, sent>>
  BY <1>1, ReadsItem
<1>3. at' = "format" /\ got' = Append(got, sent[k + 1].value) /\ fmt' = Tail(fmt)
  BY DEF stores
<1>4. Head(fmt) # "%x"
  BY <1>1 DEF Conversions
<1>5. got' = IF sent[k + 1].sym \in Conversions THEN Append(got, sent[k + 1].value) ELSE got
  BY <1>3, Zenon
<1>6. Progress(p + 1, k + 1, 0)' /\ p + 1 \in Nat /\ k + 1 \in Nat
  BY <1>1, <1>2, <1>3, <1>4, <1>5, ItemDone
<1>7. Stands_at(p + 1, k + 1, 0)' /\ 0 \in Nat
  BY <1>3 DEF Stands_at
<1> QED BY <1>6, <1>7, Zenon DEF Somewhere

\* scanf_int and scanf_double take the sign.
LEMMA MinusRead ==
    ASSUME StreamInv, Asked, minus, ~starved', NEW p \in Nat, NEW k \in Nat, NEW j \in Nat,
           Progress(p, k, j), Stands_at(p, k, j)
    PROVE  Somewhere'
<1>1. /\ at \in {"sign", "fsign"} /\ next_char = "-" /\ scanf_read_char /\ UNCHANGED <<fmt, got, val, places>>
      /\ at' = (IF at = "sign" THEN "first" ELSE "float") /\ neg' = TRUE
  BY DEF minus, goes
<1>2. PICK i : i = sent[k + 1]
  OBVIOUS
<1>3. /\ k < Len(sent) /\ i.text \in Seq(STRING) /\ Shows(i) /\ Reading(i, j)
      /\ j < Len(i.text)
  BY <1>1, <1>2, ItemRead
<1>4. i.text[j + 1] = "-" /\ i' = i /\ UNCHANGED sent
  <2>1. next_char = sent[k + 1].text[j + 1] /\ UNCHANGED <<format, sent>>
    BY <1>1, <1>2, <1>3, ReadsItem
  <2> QED BY <1>1, <1>2, <2>1
<1>5. CASE at = "sign"
  <2>1. i.sym = "%d" /\ j = 0 /\ at' = "first"
    BY <1>1, <1>3, <1>5 DEF Reading
  <2>2. Len(i.text) > 1
    BY <1>3, <2>1, ShowsInt DEF IntItem
  <2>3. Reading(i, j + 1)'
    BY <1>1, <1>4, <2>1, <2>2 DEF Reading
  <2> QED BY <1>1, <1>2, <1>4, <2>3, GoesOn
<1>6. CASE at = "fsign"
  <2>1. i.sym = "%f" /\ j = 0 /\ at' = "float" /\ val = 0 /\ places = -1
    BY <1>1, <1>3, <1>6 DEF Reading
  <2>2. FloatItem(i)
    BY <1>3, <2>1, ShowsFloat
  <2>3. j + 1 = 1 /\ 0 + 1 = 1
    BY <2>1
  <2>4. i.text[1] = "-"
    BY <1>4, <2>3, Zenon
  <2>5. Digits_stand(i.text, {"."}) /\ Counted(i.text)
    BY <2>2 DEF FloatItem
  <2>6. Len(i.text) \in Nat /\ Len(i.text) > 1
    <3>1. Len(i.text) \in Nat \ {0} /\ Len(i.text) # 1
      BY <2>4, <2>5, Zenon DEF Digits_stand
    <3>2. \A y \in Nat \ {0} : y # 1 => y \in Nat /\ y > 1
      OBVIOUS
    <3> QED BY <3>1, <3>2, Zenon
  <2>7. Value(Front(i.text), 1) = 0
    <3>1. Value(Front(i.text), 0 + 1) = shift(Value(Front(i.text), 0), i.text[0 + 1]) /\ Value(Front(i.text), 0) = 0
      BY <2>5, <2>6 DEF Counted
    <3>2. shift(0, "-") = 0
      BY Marks DEF shift
    <3> QED BY <2>3, <2>4, <3>1, <3>2, Zenon
  <2>8. places_read(i.text, 1)'
    BY <1>1, <1>4, <2>1, <2>4 DEF places_read
  <2>9. Reading(i, 1)'
    BY <1>1, <1>4, <2>1, <2>4, <2>6, <2>7, <2>8 DEF Reading, sign_read
  <2> QED BY <1>1, <1>2, <1>4, <2>3, <2>9, GoesOn, Zenon
<1> QED BY <1>1, <1>5, <1>6

\* scanf_int takes the digit that the number begins with.
LEMMA FirstDigitRead ==
    ASSUME StreamInv, Asked, first_digit, ~starved', NEW p \in Nat, NEW k \in Nat, NEW j \in Nat,
           Progress(p, k, j), Stands_at(p, k, j)
    PROVE  Somewhere'
<1>1. /\ at = "first" \/ (at = "sign" /\ next_char # "-")
      /\ scanf_read_char /\ UNCHANGED <<fmt, got>>
  BY DEF first_digit, goes, returns
<1>2. PICK i : i = sent[k + 1]
  OBVIOUS
<1>3. /\ k < Len(sent) /\ i.text \in Seq(STRING) /\ Shows(i) /\ Reading(i, j)
      /\ j < Len(i.text)
  BY <1>1, <1>2, ItemRead
<1>4. next_char = i.text[j + 1] /\ i' = i /\ UNCHANGED sent
  <2>1. next_char = sent[k + 1].text[j + 1] /\ UNCHANGED <<format, sent>>
    BY <1>1, <1>2, <1>3, ReadsItem
  <2> QED BY <1>1, <1>2, <2>1
<1>5. i.sym = "%d" /\ ((j = 0 /\ i.text[j + 1] # "-" /\ neg = FALSE) \/ (j = 1 /\ i.text[1] = "-" /\ neg = TRUE))
  BY <1>1, <1>3, <1>4 DEF Reading
<1>6. IntItem(i)
  BY <1>3, <1>5, ShowsInt
<1>7. PICK t, n : t = i.text /\ n = Len(t) /\ n \in Nat /\ n > 1 /\ t[n - 1] \in Decimal /\ Counted(t)
                  /\ \A m \in 1..(n - 1) : t[m] \in Decimal \/ (m = 1 /\ t[1] = "-")
  BY <1>6, Zenon DEF IntItem, Digits_stand
<1>8. /\ Value(Front(t), 0) = 0 /\ \A m \in 0..(n - 2) : Value(Front(t), m + 1) = shift(Value(Front(t), m), t[m + 1])
  BY <1>7, Zenon DEF Counted
<1>9. j + 1 \in 1..(n - 1) /\ t[j + 1] \in Decimal /\ Value(Front(t), j) = 0
      /\ Value(Front(t), j + 1) = shift(0, t[j + 1]) /\ sign_read(t) /\ j + 1 > (IF t[1] = "-" THEN 1 ELSE 0)
  <2>1. CASE j = 0 /\ i.text[j + 1] # "-" /\ neg = FALSE
    <3>1. j + 1 = 1 /\ 0 + 1 = 1 /\ 1 \in 1..(n - 1) /\ 0 \in 0..(n - 2)
      BY <1>7, <2>1
    <3>2. t[1] # "-" /\ t[1] \in Decimal
      BY <1>7, <2>1, <3>1, Zenon
    <3>3. Value(Front(t), 1) = shift(0, t[1])
      BY <1>8, <3>1, Zenon
    <3> QED BY <1>8, <2>1, <3>1, <3>2, <3>3 DEF sign_read
  <2>2. CASE j = 1 /\ i.text[1] = "-" /\ neg = TRUE
    <3>1. t[1] = "-" /\ t[1] \notin Decimal
      BY <1>7, <2>2, Marks
    <3>2. n # 2
      <4>1. n = 2 => n - 1 = 1
        OBVIOUS
      <4> QED BY <1>7, <3>1, <4>1, Zenon
    <3>3. j + 1 = 2 /\ 1 + 1 = 2 /\ 0 + 1 = 1 /\ 2 # 1 /\ 2 \in 1..(n - 1) /\ 0 \in 0..(n - 2) /\ 1 \in 0..(n - 2)
      <4>1. n \in Nat /\ n > 1
        BY <1>7, Zenon
      <4>2. j = 1
        BY <2>2, Zenon
      <4> QED BY <3>2, <4>1, <4>2
    <3>4. t[2] \in Decimal
      BY <1>7, <3>3, Zenon
    <3>5. shift(0, "-") = 0
      BY Marks DEF shift
    <3>6. Value(Front(t), 1) = 0
      BY <1>8, <3>1, <3>3, <3>5, Zenon
    <3>7. Value(Front(t), 2) = shift(0, t[2])
      BY <1>8, <3>3, <3>6, Zenon
    <3> QED BY <2>2, <3>1, <3>3, <3>4, <3>6, <3>7 DEF sign_read
  <2> QED BY <1>5, <2>1, <2>2
<1>10. at' = "digits" /\ val' = digit_of(t[j + 1]) /\ neg' = neg
  BY <1>4, <1>7, <1>9 DEF first_digit, goes
<1>11. val' = Value(Front(t), j + 1)
  <2>1. digit_of(t[j + 1]) \in Nat
    BY <1>9, DigitsAre
  <2>2. shift(0, t[j + 1]) = digit_of(t[j + 1])
    BY <1>9, <2>1 DEF shift
  <2> QED BY <1>9, <1>10, <2>2
<1>12. int_read(t, j + 1)'
  BY <1>11 DEF int_read
<1>13. j + 1 < Len(t)
  BY <1>7, <1>9
<1>14. sign_read(t)'
  BY <1>9, <1>10 DEF sign_read
<1>15. Reading(i, j + 1)'
  BY <1>4, <1>5, <1>7, <1>9, <1>10, <1>12, <1>13, <1>14 DEF Reading
<1> QED BY <1>1, <1>2, <1>4, <1>15, GoesOn, Zenon

\* And each further digit, wrapping as an int does.
LEMMA DigitRead ==
    ASSUME StreamInv, Asked, digit, ~starved', NEW p \in Nat, NEW k \in Nat, NEW j \in Nat,
           Progress(p, k, j), Stands_at(p, k, j)
    PROVE  Somewhere'
<1>1. /\ at = "digits" /\ next_char \in Decimal /\ scanf_read_char /\ UNCHANGED <<fmt, got, neg>>
      /\ at' = "digits" /\ val' = wrap(val * 10 + digit_of(next_char), IntBits)
  BY DEF digit, goes
<1>2. PICK i : i = sent[k + 1]
  OBVIOUS
<1>3. /\ k < Len(sent) /\ i.text \in Seq(STRING) /\ Shows(i) /\ Reading(i, j)
      /\ j < Len(i.text)
  BY <1>1, <1>2, ItemRead
<1>4. next_char = i.text[j + 1] /\ i' = i /\ UNCHANGED sent
  <2>1. next_char = sent[k + 1].text[j + 1] /\ UNCHANGED <<format, sent>>
    BY <1>1, <1>2, <1>3, ReadsItem
  <2> QED BY <1>1, <1>2, <2>1
<1>5. i.sym = "%d" /\ sign_read(i.text) /\ j > (IF i.text[1] = "-" THEN 1 ELSE 0) /\ int_read(i.text, j)
  BY <1>1, <1>3 DEF Reading
<1>6. IntItem(i)
  BY <1>3, <1>5, ShowsInt
<1>7. PICK t, n, v : t = i.text /\ n = Len(t) /\ n \in Nat /\ n > 1 /\ t[n] \notin Decimal /\ Counted(t)
                     /\ v = value_of(Front(t)) /\ v \in Nat /\ v <= Half(IntBits)
  BY <1>6, Zenon DEF IntItem, Digits_stand
<1>8. /\ \A m \in 0..(n - 1) : Value(Front(t), m) \in Nat /\ Value(Front(t), m) <= v
      /\ \A m \in 0..(n - 2) : Value(Front(t), m + 1) = shift(Value(Front(t), m), t[m + 1])
  BY <1>7, Zenon DEF Counted
<1>9. j + 1 # n
  BY <1>1, <1>4, <1>7, Zenon
<1>10. j + 1 \in 0..(n - 1) /\ j \in 0..(n - 1) /\ j \in 0..(n - 2) /\ j + 1 < n
  BY <1>3, <1>7, <1>9
<1>11. PICK a, b, d : a = Value(Front(t), j) /\ b = Value(Front(t), j + 1) /\ d = digit_of(t[j + 1])
                      /\ a \in Nat /\ b \in Nat /\ d \in 0..9 /\ b <= v /\ b = a * 10 + d
  <2>1. t[j + 1] \in Decimal
    BY <1>1, <1>4, <1>7, Zenon
  <2>2. digit_of(t[j + 1]) \in 0..9
    BY <2>1, DigitsAre
  <2>3. shift(Value(Front(t), j), t[j + 1]) = Value(Front(t), j) * 10 + digit_of(t[j + 1])
    BY <2>1 DEF shift
  <2>4. /\ Value(Front(t), j) \in Nat /\ Value(Front(t), j + 1) \in Nat /\ Value(Front(t), j + 1) <= v
        /\ Value(Front(t), j + 1) = shift(Value(Front(t), j), t[j + 1])
    BY <1>8, <1>10, Zenon
  <2> QED BY <2>2, <2>3, <2>4
<1>12. PICK h : h = Half(IntBits) /\ h \in Nat \ {0}
  <2>1. IntBits \in Nat \ {0} /\ IntBits - 1 \in Nat
    BY WidthAssumption
  <2> QED BY <2>1, Powers DEF Half
<1>13. val = a
  <2>1. val = a \/ (a = h /\ val = 0 - a)
    BY <1>5, <1>7, <1>11, <1>12 DEF int_read
  <2>2. a # h
    <3>1. v \in Nat /\ v <= h /\ b <= v /\ b = a * 10 + d
      BY <1>7, <1>11, <1>12, Zenon
    <3>2. a \in Nat /\ d \in 0..9 /\ h \in Nat \ {0}
      BY <1>11, <1>12
    <3> QED BY <3>1, <3>2
  <2> QED BY <2>1, <2>2
<1>14. val' = IF b = h THEN 0 - h ELSE b
  <2>1. val' = wrap(b, IntBits)
    BY <1>1, <1>4, <1>7, <1>11, <1>13
  <2>2. b \in (0 - Half(IntBits))..Half(IntBits)
    BY <1>7, <1>11, <1>12
  <2>3. wrap(b, IntBits) = IF b = Half(IntBits) THEN 0 - Half(IntBits) ELSE b
    BY <2>2, Wraps, WidthAssumption, Zenon
  <2> QED BY <1>12, <2>1, <2>3, Zenon
<1>15. int_read(t, j + 1)'
  <2>1. val' = b \/ (b = Half(IntBits) /\ val' = 0 - b)
    BY <1>12, <1>14
  <2> QED BY <1>11, <2>1 DEF int_read
<1>16. sign_read(t)'
  BY <1>1, <1>5, <1>7 DEF sign_read
<1>17. j + 1 > (IF t[1] = "-" THEN 1 ELSE 0)
  BY <1>5, <1>7
<1>18. Reading(i, j + 1)'
  BY <1>1, <1>4, <1>5, <1>7, <1>10, <1>15, <1>16, <1>17 DEF Reading
<1> QED BY <1>1, <1>2, <1>4, <1>18, GoesOn, Zenon

\* The terminator of an int: the number that was shown is stored.
LEMMA IntStored ==
    ASSUME StreamInv, Asked, store_int, ~starved', NEW p \in Nat, NEW k \in Nat, NEW j \in Nat,
           Progress(p, k, j), Stands_at(p, k, j)
    PROVE  Somewhere'
<1>1. /\ at = "digits" /\ next_char \notin Decimal /\ scanf_read_char
      /\ stores(IF neg THEN wrap(0 - val, IntBits) ELSE val)
  BY DEF store_int, read_terminator
<1>2. PICK i : i = sent[k + 1]
  OBVIOUS
<1>3. /\ k < Len(sent) /\ i.text \in Seq(STRING) /\ Shows(i) /\ Reading(i, j)
      /\ j < Len(i.text)
  BY <1>1, <1>2, ItemRead
<1>4. next_char = i.text[j + 1]
  BY <1>1, <1>2, <1>3, ReadsItem
<1>5. i.sym = "%d" /\ sign_read(i.text) /\ j > (IF i.text[1] = "-" THEN 1 ELSE 0) /\ int_read(i.text, j)
  BY <1>1, <1>3 DEF Reading
<1>6. IntItem(i)
  BY <1>3, <1>5, ShowsInt
<1>7. PICK t, n, v : t = i.text /\ n = Len(t) /\ n \in Nat /\ n > 1 /\ Counted(t)
                     /\ v = value_of(Front(t)) /\ v \in Nat /\ v <= Half(IntBits)
                     /\ (t[1] # "-" => v < Half(IntBits)) /\ i.value = (IF t[1] = "-" THEN 0 - v ELSE v)
                     /\ \A m \in 1..(n - 1) : t[m] \in Decimal \/ (m = 1 /\ t[1] = "-")
  BY <1>6, Zenon DEF IntItem, Digits_stand
<1>8. j + 1 = n
  <2>1. j + 1 \in 1..(n - 1) => t[j + 1] \in Decimal \/ (j + 1 = 1 /\ t[1] = "-")
    BY <1>7, Zenon
  <2>2. t[j + 1] \notin Decimal /\ j > 0
    BY <1>1, <1>4, <1>5, <1>7
  <2> QED BY <1>3, <1>7, <2>1, <2>2
<1>9. Value(Front(t), j) = v
  <2>1. n - 1 = j
    BY <1>7, <1>8
  <2> QED BY <1>7, <2>1, Zenon DEF Counted
<1>10. PICK h : h = Half(IntBits) /\ h \in Nat \ {0}
  <2>1. IntBits \in Nat \ {0} /\ IntBits - 1 \in Nat
    BY WidthAssumption
  <2> QED BY <2>1, Powers DEF Half
<1>11. val = v \/ (v = h /\ val = 0 - h)
  BY <1>5, <1>7, <1>9, <1>10 DEF int_read
<1>12. (IF neg THEN wrap(0 - val, IntBits) ELSE val) = i.value
  <2>1. CASE t[1] = "-"
    <3>1. neg = TRUE
      BY <1>5, <1>7, <2>1 DEF sign_read
    <3>2. PICK x : x = 0 - val /\ x \in (0 - h)..h /\ (IF x = h THEN 0 - h ELSE x) = 0 - v
      BY <1>7, <1>10, <1>11
    <3>3. wrap(x, IntBits) = IF x = Half(IntBits) THEN 0 - Half(IntBits) ELSE x
      BY <1>10, <3>2, Wraps, WidthAssumption, Zenon
    <3> QED BY <1>7, <1>10, <2>1, <3>1, <3>2, <3>3, Zenon
  <2>2. CASE t[1] # "-"
    <3>1. neg = FALSE
      BY <1>5, <1>7, <2>2 DEF sign_read
    <3>2. val = v
      BY <1>7, <1>10, <1>11, <2>2
    <3> QED BY <1>7, <2>2, <3>1, <3>2, Zenon
  <2> QED BY <2>1, <2>2
<1>13. stores(sent[k + 1].value)
  BY <1>1, <1>2, <1>12, Zenon
<1>14. sent[k + 1].sym \in Conversions
  BY <1>2, <1>5 DEF Conversions
<1>15. j + 1 = Len(sent[k + 1].text) /\ at \notin {"format", "returned"}
  BY <1>1, <1>2, <1>7, <1>8
<1> QED BY <1>1, <1>13, <1>14, <1>15, ItemStored

\* scanf_double takes a digit or the point.
LEMMA FloatRead ==
    ASSUME StreamInv, Asked, float_char, ~starved', NEW p \in Nat, NEW k \in Nat, NEW j \in Nat,
           Progress(p, k, j), Stands_at(p, k, j)
    PROVE  Somewhere'
<1>1. /\ at \in {"fsign", "float"} /\ next_char \in Decimal \cup {"."} /\ scanf_read_char
      /\ UNCHANGED <<fmt, got, neg>> /\ at' = "float"
      /\ IF next_char = "." THEN val' = val /\ places' = IF places < 0 THEN 0 ELSE places
         ELSE val' = val * 10 + digit_of(next_char) /\ places' = IF places < 0 THEN places ELSE places + 1
  BY DEF float_char, goes
<1>2. PICK i : i = sent[k + 1]
  OBVIOUS
<1>3. /\ k < Len(sent) /\ i.text \in Seq(STRING) /\ Shows(i) /\ Reading(i, j)
      /\ j < Len(i.text)
  BY <1>1, <1>2, ItemRead
<1>4. next_char = i.text[j + 1] /\ i' = i /\ UNCHANGED sent
  <2>1. next_char = sent[k + 1].text[j + 1] /\ UNCHANGED <<format, sent>>
    BY <1>1, <1>2, <1>3, ReadsItem
  <2> QED BY <1>1, <1>2, <2>1
<1>5. i.sym = "%f"
  BY <1>1, <1>3 DEF Reading
<1>6. FloatItem(i)
  BY <1>3, <1>5, ShowsFloat
<1>7. PICK t, n : t = i.text /\ n = Len(t) /\ n \in Nat \ {0} /\ Counted(t) /\ t[n] \notin Decimal \cup {"."}
                  /\ \A l, m \in 1..n : t[l] = "." /\ t[m] = "." => l = m
  BY <1>6, Zenon DEF FloatItem, Digits_stand
<1>8. /\ Value(Front(t), 0) = 0 /\ \A m \in 0..(n - 1) : Value(Front(t), m) \in Nat
      /\ \A m \in 0..(n - 2) : Value(Front(t), m + 1) = shift(Value(Front(t), m), t[m + 1])
  BY <1>7, Zenon DEF Counted
<1>9. j + 1 # n
  BY <1>1, <1>4, <1>7, Zenon
<1>10. j + 1 \in 1..(n - 1) /\ j \in 0..(n - 1) /\ j \in 0..(n - 2) /\ j + 1 < n
  BY <1>3, <1>7, <1>9
<1>11. sign_read(t) /\ val = Value(Front(t), j) /\ places_read(t, j)
  <2>1. CASE at = "fsign"
    <3>1. j = 0 /\ val = 0 /\ neg = FALSE /\ places = -1
      BY <1>3, <2>1 DEF Reading
    <3>2. j + 1 = 1
      BY <3>1
    <3>3. t[1] # "-"
      BY <1>1, <1>4, <1>7, <3>2, Marks
    <3>4. places_read(t, 0)
      BY <3>1 DEF places_read
    <3> QED BY <1>8, <3>1, <3>3, <3>4 DEF sign_read
  <2>2. CASE at = "float"
    BY <1>3, <1>7, <2>2 DEF Reading
  <2> QED BY <1>1, <2>1, <2>2
<1>12. sign_read(t)'
  BY <1>1, <1>11 DEF sign_read
<1>13. val' = Value(Front(t), j + 1)
  <2>1. Value(Front(t), j + 1) = shift(val, t[j + 1])
    BY <1>8, <1>10, <1>11, Zenon
  <2>2. val' = shift(val, t[j + 1])
    BY <1>1, <1>4, <1>7, Marks DEF shift
  <2> QED BY <2>1, <2>2
<1>14. places_read(t, j + 1)'
  <2>1. CASE next_char = "."
    <3>1. PICK l : l = j + 1 /\ l \in 1..(j + 1) /\ l \in 1..n /\ t[l] = "." /\ \A m \in 1..j : m \in 1..n /\ m # l
      <4>1. n \in Nat \ {0} /\ t[j + 1] = "."
        BY <1>4, <1>7, <2>1, Zenon
      <4>2. PICK l : l = j + 1 /\ l \in 1..(j + 1) /\ l \in 1..n /\ \A m \in 1..j : m \in 1..n /\ m # l
        BY <1>10, <4>1
      <4> QED BY <4>1, <4>2, Zenon
    <3>2. \A m \in 1..j : t[m] # "."
      BY <1>7, <3>1, Zenon
    <3>3. places = -1
      BY <1>11, <3>2 DEF places_read
    <3>4. places' = 0
      BY <1>1, <2>1, <3>3
    <3> QED BY <3>1, <3>4 DEF places_read
  <2>2. CASE next_char # "."
    <3>1. t[j + 1] # "." /\ places' = IF places < 0 THEN places ELSE places + 1
      BY <1>1, <1>4, <1>7, <2>2
    <3>2. CASE places = -1 /\ \A m \in 1..j : t[m] # "."
      <4>1. \A m \in 1..(j + 1) : m \in 1..j \/ m = j + 1
        OBVIOUS
      <4>2. \A m \in 1..(j + 1) : t[m] # "."
        BY <3>1, <3>2, <4>1, Zenon
      <4> QED BY <3>1, <3>2, <4>2 DEF places_read
    <3>3. CASE \E m \in 1..j : t[m] = "." /\ places = j - m
      <4>1. PICK m \in 1..j : t[m] = "." /\ places = j - m
        BY <3>3
      <4>2. m \in 1..(j + 1) /\ places' = (j + 1) - m
        BY <3>1, <4>1
      <4> QED BY <4>1, <4>2 DEF places_read
    <3> QED BY <1>11, <3>2, <3>3 DEF places_read
  <2> QED BY <2>1, <2>2
<1>15. Reading(i, j + 1)'
  BY <1>1, <1>4, <1>5, <1>7, <1>10, <1>12, <1>13, <1>14 DEF Reading
<1> QED BY <1>1, <1>2, <1>4, <1>15, GoesOn, Zenon

\* The terminator of a double.
LEMMA FloatStored ==
    ASSUME StreamInv, Asked, store_float, ~starved', NEW p \in Nat, NEW k \in Nat, NEW j \in Nat,
           Progress(p, k, j), Stands_at(p, k, j)
    PROVE  Somewhere'
<1>1. /\ at \in {"fsign", "float"} /\ next_char \notin Decimal \cup {"."} /\ (next_char = "-" => at = "float")
      /\ scanf_read_char
      /\ stores(<<IF neg THEN 0 - val ELSE val, IF places < 0 THEN 0 ELSE places>>)
  BY DEF store_float, read_terminator
<1>2. PICK i : i = sent[k + 1]
  OBVIOUS
<1>3. /\ k < Len(sent) /\ i.text \in Seq(STRING) /\ Shows(i) /\ Reading(i, j)
      /\ j < Len(i.text)
  BY <1>1, <1>2, ItemRead
<1>4. next_char = i.text[j + 1]
  BY <1>1, <1>2, <1>3, ReadsItem
<1>5. i.sym = "%f"
  BY <1>1, <1>3 DEF Reading
<1>6. FloatItem(i)
  BY <1>3, <1>5, ShowsFloat
<1>7. PICK t, n, v : t = i.text /\ n = Len(t) /\ n \in Nat \ {0} /\ Counted(t) /\ v = value_of(Front(t))
                  /\ (\A l, m \in 1..n : t[l] = "." /\ t[m] = "." => l = m)
                  /\ \A m \in 1..(n - 1) : t[m] \in Decimal \cup {"."} \/ (m = 1 /\ t[1] = "-")
  BY <1>6, Zenon DEF FloatItem, Digits_stand
<1>8. i.value = <<IF t[1] = "-" THEN 0 - v ELSE v, decimals_in(Front(t))>>
  BY <1>6, <1>7, Zenon DEF FloatItem
<1>9. j + 1 = n
  <2>1. j + 1 \in 1..(n - 1) => t[j + 1] \in Decimal \cup {"."} \/ (j + 1 = 1 /\ t[1] = "-")
    BY <1>7, Zenon
  <2>2. ~(j + 1 = 1 /\ t[1] = "-")
    <3>1. at = "float" => j > 0
      BY <1>3 DEF Reading
    <3>2. ASSUME j + 1 = 1, t[1] = "-" PROVE FALSE
      <4>1. next_char = "-"
        BY <1>4, <1>7, <3>2, Zenon
      <4> QED BY <1>1, <3>1, <3>2, <4>1
    <3> QED BY <3>2
  <2>3. t[j + 1] \notin Decimal \cup {"."}
    BY <1>1, <1>4, <1>7, Zenon
  <2>4. j + 1 \in 1..n
    BY <1>3, <1>7
  <2> QED BY <1>7, <2>1, <2>2, <2>3, <2>4
<1>10. sign_read(t) /\ val = Value(Front(t), j) /\ places_read(t, j)
  <2>1. CASE at = "fsign"
    <3>1. j = 0 /\ val = 0 /\ neg = FALSE /\ places = -1
      BY <1>3, <2>1 DEF Reading
    <3>2. j + 1 = 1
      BY <3>1
    <3>3. t[1] # "-"
      BY <1>1, <1>4, <1>7, <2>1, <3>2
    <3>4. places_read(t, 0)
      BY <3>1 DEF places_read
    <3>5. Value(Front(t), 0) = 0
      BY <1>7 DEF Counted
    <3> QED BY <3>1, <3>3, <3>4, <3>5 DEF sign_read
  <2>2. CASE at = "float"
    BY <1>3, <1>7, <2>2 DEF Reading
  <2> QED BY <1>1, <2>1, <2>2
<1>11. val = v
  <2>1. n - 1 = j
    BY <1>7, <1>9
  <2> QED BY <1>7, <1>10, <2>1, Zenon DEF Counted
<1>12. (IF places < 0 THEN 0 ELSE places) = decimals_in(Front(t))
  <2>1. PICK b : b = Front(t) /\ Len(b) = j /\ DOMAIN b = 1..j /\ \A m \in 1..j : b[m] = t[m]
    <3>1. t # <<>> /\ t \in Seq(STRING)
      BY <1>3, <1>7
    <3>2. /\ Len(Front(t)) = Len(t) - 1 /\ DOMAIN Front(t) = 1..(Len(t) - 1)
          /\ \A m \in 1..(Len(t) - 1) : Front(t)[m] = t[m]
      BY <3>1, FrontLast
    <3>3. Len(t) - 1 = j
      BY <1>7, <1>9
    <3> QED BY <3>2, <3>3
  <2>2. \A m \in 1..j : m \in 1..n
    BY <1>7, <1>9
  <2>3. CASE places = -1 /\ \A m \in 1..j : t[m] # "."
    <3>1. "." \notin Range(b)
      BY <2>1, <2>3 DEF Range
    <3> QED BY <2>1, <2>3, <3>1 DEF decimals_in
  <2>4. CASE \E m \in 1..j : t[m] = "." /\ places = j - m
    <3>1. PICK m \in 1..j : t[m] = "." /\ places = j - m
      BY <2>4
    <3>2. b[m] = "." /\ m \in DOMAIN b /\ "." \in Range(b)
      BY <2>1, <3>1 DEF Range
    <3>3. PICK c : c = CHOOSE l \in DOMAIN b : b[l] = "."
      OBVIOUS
    <3>4. c \in DOMAIN b /\ b[c] = "."
      BY <3>2, <3>3
    <3>5. c = m
      BY <1>7, <2>1, <2>2, <3>1, <3>4
    <3>6. decimals_in(b) = j - m
      BY <2>1, <3>2, <3>3, <3>5 DEF decimals_in
    <3> QED BY <2>1, <3>1, <3>6
  <2> QED BY <1>10, <2>3, <2>4 DEF places_read
<1>13. (IF neg THEN 0 - val ELSE val) = (IF t[1] = "-" THEN 0 - v ELSE v)
  BY <1>10, <1>11 DEF sign_read
<1>14. stores(sent[k + 1].value)
  BY <1>1, <1>2, <1>8, <1>12, <1>13, Zenon
<1>15. sent[k + 1].sym \in Conversions
  BY <1>2, <1>5 DEF Conversions
<1>16. j + 1 = Len(sent[k + 1].text) /\ at \notin {"format", "returned"}
  BY <1>1, <1>2, <1>7, <1>9
<1> QED BY <1>1, <1>14, <1>15, <1>16, ItemStored

\* scanf_string takes a character.
LEMMA CharRead ==
    ASSUME StreamInv, Asked, string_char, ~starved', NEW p \in Nat, NEW k \in Nat, NEW j \in Nat,
           Progress(p, k, j), Stands_at(p, k, j)
    PROVE  Somewhere'
<1>1. at = "string" /\ next_char \notin Space /\ scanf_read_char /\ UNCHANGED <<fmt, got>>
      /\ (next_char # EOF => at' = "string" /\ val' = Append(val, next_char))
  BY DEF string_char, goes
<1>2. PICK i : i = sent[k + 1]
  OBVIOUS
<1>3. /\ k < Len(sent) /\ i.text \in Seq(STRING) /\ Shows(i) /\ Reading(i, j)
      /\ j < Len(i.text)
  BY <1>1, <1>2, ItemRead
<1>4. next_char = i.text[j + 1] /\ i' = i /\ UNCHANGED sent
  <2>1. next_char = sent[k + 1].text[j + 1] /\ UNCHANGED <<format, sent>>
    BY <1>1, <1>2, <1>3, ReadsItem
  <2> QED BY <1>1, <1>2, <2>1
<1>5. i.sym = "%s" /\ val = SubSeq(i.value, 1, j)
  BY <1>1, <1>3 DEF Reading
<1>6. StringItem(i)
  BY <1>3, <1>5, ShowsString
<1>7. PICK w, n : w = i.value /\ n = Len(i.text) /\ n \in Nat \ {0} /\ Len(w) = n - 1 /\ i.text[n] \in Space
                  /\ \A m \in 1..(n - 1) : i.text[m] = w[m] /\ w[m] \notin Space \cup {EOF} /\ w[m] \in STRING
  BY <1>6, Zenon DEF StringItem
<1>8. w \in Seq(STRING)
  BY <1>6, <1>7 DEF StringItem
<1>9. j + 1 # n
  BY <1>1, <1>4, <1>7, Zenon
<1>10. j + 1 \in 1..(n - 1) /\ j \in 0..(n - 1) /\ j + 1 < n
  BY <1>3, <1>7, <1>9
<1>11. next_char = w[j + 1] /\ next_char # EOF
  BY <1>4, <1>7, <1>10, Zenon
<1>12. val' = SubSeq(w, 1, j + 1)
  <2>1. Append(SubSeq(w, 1, j), w[j + 1]) = SubSeq(w, 1, j + 1)
    BY <1>7, <1>8, <1>10
  <2> QED BY <1>1, <1>5, <1>7, <1>11, <2>1, Zenon
<1>13. Reading(i, j + 1)'
  BY <1>1, <1>4, <1>5, <1>7, <1>10, <1>11, <1>12 DEF Reading
<1> QED BY <1>1, <1>2, <1>4, <1>13, GoesOn, Zenon

\* The space behind a string.
LEMMA StringStored ==
    ASSUME StreamInv, Asked, store_string, ~starved', NEW p \in Nat, NEW k \in Nat, NEW j \in Nat,
           Progress(p, k, j), Stands_at(p, k, j)
    PROVE  Somewhere'
<1>1. at = "string" /\ next_char \in Space /\ scanf_read_char /\ stores(val)
  BY DEF store_string
<1>2. PICK i : i = sent[k + 1]
  OBVIOUS
<1>3. /\ k < Len(sent) /\ i.text \in Seq(STRING) /\ Shows(i) /\ Reading(i, j)
      /\ j < Len(i.text)
  BY <1>1, <1>2, ItemRead
<1>4. next_char = i.text[j + 1]
  BY <1>1, <1>2, <1>3, ReadsItem
<1>5. i.sym = "%s" /\ val = SubSeq(i.value, 1, j)
  BY <1>1, <1>3 DEF Reading
<1>6. StringItem(i)
  BY <1>3, <1>5, ShowsString
<1>7. PICK w, n : w = i.value /\ n = Len(i.text) /\ n \in Nat \ {0} /\ Len(w) = n - 1
                  /\ \A m \in 1..(n - 1) : i.text[m] = w[m] /\ w[m] \notin Space \cup {EOF} /\ w[m] \in STRING
  BY <1>6, Zenon DEF StringItem
<1>8. w \in Seq(STRING)
  BY <1>6, <1>7 DEF StringItem
<1>9. j + 1 = n
  <2>1. j + 1 \in 1..(n - 1) => i.text[j + 1] \notin Space
    BY <1>7, Zenon
  <2>2. ~(j + 1 \in 1..(n - 1))
    BY <1>1, <1>4, <2>1, Zenon
  <2> QED BY <1>3, <1>7, <2>2
<1>10. val = w
  <2>1. j = Len(w)
    BY <1>7, <1>9
  <2>2. SubSeq(w, 1, Len(w)) = w
    BY <1>8
  <2> QED BY <1>5, <1>7, <2>1, <2>2, Zenon
<1>11. stores(sent[k + 1].value)
  BY <1>1, <1>2, <1>7, <1>10, Zenon
<1>12. sent[k + 1].sym \in Conversions
  BY <1>2, <1>5 DEF Conversions
<1>13. j + 1 = Len(sent[k + 1].text) /\ at \notin {"format", "returned"}
  BY <1>1, <1>2, <1>7, <1>9
<1> QED BY <1>1, <1>11, <1>12, <1>13, ItemStored

\* Between the items: what a symbol of the format begins, or what it matches.
LEMMA FormatAt ==
    ASSUME StreamInv, NEW p \in Nat, NEW k \in Nat, NEW j \in Nat, Progress(p, k, j), Stands_at(p, k, j),
           at = "format"
    PROVE  j = 0
BY DEF Stands_at, Reading

\* A symbol of the format and the item it asks for.
LEMMA NextItem ==
    ASSUME StreamInv, Asked, NEW p \in Nat, NEW k \in Nat, Progress(p, k, 0), fmt # <<>>, Head(fmt) # "%x"
    PROVE  /\ k < Len(sent) /\ p < Len(format) /\ format[p + 1] = sent[k + 1].sym /\ Head(fmt) = sent[k + 1].sym
           /\ sent[k + 1] \in Items /\ sent[k + 1].text \in Seq(STRING) /\ Shows(sent[k + 1])
<1>1. /\ Len(format) \in Nat /\ Head(fmt) = format[p + 1] /\ p + 1 \in 1..Len(format)
  BY FormatLeft
<1>2. k < Len(sent) /\ format[p + 1] = sent[k + 1].sym
  BY <1>1, SymbolNext
<1>3. k + 1 \in 1..Len(sent) /\ Len(sent) \in Nat
  <2>1. Len(sent) \in Nat
    BY SentSeqs
  <2> QED BY <1>2, <2>1
<1>4. sent[k + 1] \in Items
  BY <1>3 DEF StreamInv
<1> QED BY <1>1, <1>2, <1>4, ScanfAssumption

\* A step that reads nothing.
LEMMA Unread ==
    ASSUME StreamInv, UNCHANGED <<ring, coming, format, sent>>
    PROVE  /\ StreamInv' /\ Gone' = Gone /\ symbols' = symbols /\ values' = values /\ texts_sent' = texts_sent
<1>1. symbols' = symbols /\ values' = values /\ texts_sent' = texts_sent /\ Input' = Input
  BY SameInput
<1>2. Left' = Left
  BY DEF Left
<1>3. Gone' = Gone
  BY <1>1, <1>2 DEF Gone
<1> QED BY <1>1, <1>2, <1>3 DEF StreamInv

\* A conversion begins: nothing of its item has been read.
LEMMA Begun ==
    ASSUME StreamInv, Asked, NEW sym \in Conversions, NEW loop,
           <<sym, loop>> \in {<<"%d", "sign">>, <<"%f", "fsign">>, <<"%s", "string">>}, begin(sym, loop),
           NEW p \in Nat, NEW k \in Nat, NEW j \in Nat, Progress(p, k, j), Stands_at(p, k, j)
    PROVE  Somewhere'
<1>1. /\ at = "format" /\ fmt # <<>> /\ Head(fmt) = sym /\ at' = loop /\ UNCHANGED <<fmt, got>>
      /\ val' = (IF sym = "%s" THEN <<>> ELSE 0) /\ neg' = FALSE /\ places' = -1
      /\ UNCHANGED <<ring, coming, format, sent>>
  BY DEF begin, goes
<1>2. j = 0
  BY <1>1, FormatAt
<1>3. sym # "%x"
  BY DEF Conversions
<1>4. PICK i : i = sent[k + 1] /\ k < Len(sent) /\ p < Len(format) /\ format[p + 1] = i.sym /\ sym = i.sym
               /\ i \in Items /\ i.text \in Seq(STRING) /\ Shows(i)
  BY <1>1, <1>2, <1>3, NextItem
<1>5. i' = i /\ i = sent'[k + 1] /\ UNCHANGED <<format, sent>>
  BY <1>1, <1>4
<1>6. Progress(p, k, 0)'
  BY <1>1, <1>2, Unread DEF Progress
<1>7. Reading(i, 0)'
  <2>1. CASE sym = "%d" /\ loop = "sign"
    <3>1. Len(i.text) > 0
      <4>1. Len(i.text) \in Nat \ {0}
        BY <1>4, <2>1, ShowsInt DEF IntItem, Digits_stand
      <4> QED BY <4>1
    <3> QED BY <1>1, <1>4, <2>1, <3>1 DEF Reading
  <2>2. CASE sym = "%f" /\ loop = "fsign"
    <3>1. Len(i.text) > 0
      <4>1. Len(i.text) \in Nat \ {0}
        BY <1>4, <2>2, ShowsFloat DEF FloatItem, Digits_stand
      <4> QED BY <4>1
    <3> QED BY <1>1, <1>4, <2>2, <3>1 DEF Reading
  <2>3. CASE sym = "%s" /\ loop = "string"
    <3>1. Len(i.text) \in Nat \ {0} /\ i.value \in Seq(STRING)
      BY <1>4, <2>3, ShowsString DEF StringItem
    <3>2. SubSeq(i.value, 1, 0) = <<>> /\ Len(i.text) > 0
      BY <3>1
    <3> QED BY <1>1, <1>4, <2>3, <3>2 DEF Reading
  <2> QED BY <2>1, <2>2, <2>3
<1>8. Stands_at(p, k, 0)' /\ 0 \in Nat
  BY <1>4, <1>5, <1>7 DEF Stands_at
<1> QED BY <1>6, <1>8, Zenon DEF Somewhere

\* A character of the format and of the input: the same, or the call ends.
LEMMA Matched ==
    ASSUME StreamInv, Asked, match, ~starved', NEW p \in Nat, NEW k \in Nat, NEW j \in Nat,
           Progress(p, k, j), Stands_at(p, k, j)
    PROVE  Somewhere'
<1>1. /\ at = "format" /\ fmt # <<>> /\ Head(fmt) \notin Conversions \cup {"%x", "%"} /\ scanf_read_char
      /\ (next_char = Head(fmt) => fmt' = Tail(fmt) /\ UNCHANGED <<at, got>>)
  BY DEF match
<1>2. j = 0 /\ Head(fmt) # "%x"
  BY <1>1, FormatAt
<1>3. PICK i : i = sent[k + 1] /\ k < Len(sent) /\ Head(fmt) = i.sym /\ i.text \in Seq(STRING) /\ Shows(i)
  BY <1>1, <1>2, NextItem
<1>4. i.sym \notin Conversions /\ Len(i.text) = 1 /\ i.text[1] = i.sym
  BY <1>1, <1>3, ShowsChar
<1>5. next_char = i.text[j + 1] /\ UNCHANGED <<format, sent>> /\ Gone' = Gone + 1 /\ j + 1 = 1
  <2>1. j < Len(sent[k + 1].text) /\ j + 1 = 1
    BY <1>2, <1>3, <1>4
  <2> QED BY <1>1, <1>3, <2>1, ReadsItem
<1>6. next_char = Head(fmt)
  BY <1>3, <1>4, <1>5, Zenon
<1>7. fmt' = Tail(fmt) /\ at' = "format" /\ got' = IF sent[k + 1].sym \in Conversions
                                                   THEN Append(got, sent[k + 1].value) ELSE got
  BY <1>1, <1>3, <1>4, <1>6
<1>8. Progress(p + 1, k + 1, 0)' /\ p + 1 \in Nat /\ k + 1 \in Nat
  <2>1. j + 1 = Len(sent[k + 1].text)
    BY <1>3, <1>4, <1>5
  <2> QED BY <1>1, <1>2, <1>3, <1>5, <1>7, <2>1, ItemDone
<1>9. Stands_at(p + 1, k + 1, 0)' /\ 0 \in Nat
  BY <1>7 DEF Stands_at
<1> QED BY <1>8, <1>9, Zenon DEF Somewhere

\* A conversion scanf does not know takes nothing.
LEMMA Ignored ==
    ASSUME StreamInv, Asked, ignore, NEW p \in Nat, NEW k \in Nat, NEW j \in Nat,
           Progress(p, k, j), Stands_at(p, k, j)
    PROVE  Somewhere'
<1>1. /\ at = "format" /\ fmt # <<>> /\ Head(fmt) \in {"%x", "%"}
      /\ IF fmt = <<"%">> THEN goes("overrun") ELSE fmt' = Tail(fmt) /\ UNCHANGED <<at, got>>
      /\ UNCHANGED <<ring, coming, format, sent>>
  BY DEF ignore
<1>2. j = 0
  BY <1>1, FormatAt
<1>3. Head(fmt) = "%x"
  <2>1. ASSUME Head(fmt) # "%x" PROVE FALSE
    <3>1. Head(fmt) = sent[k + 1].sym /\ Shows(sent[k + 1])
      BY <1>1, <1>2, <2>1, NextItem
    <3>2. sent[k + 1].sym = "%"
      BY <1>1, <2>1, <3>1
    <3>3. sent[k + 1].sym \notin Conversions
      BY <3>2 DEF Conversions
    <3> QED BY <3>1, <3>2, <3>3, ShowsChar
  <2> QED BY <2>1
<1>4. fmt # <<"%">>
  BY <1>3
<1>5. fmt' = Tail(fmt) /\ at' = "format" /\ got' = got
  BY <1>1, <1>4
<1>6. /\ p \in Nat /\ Len(format) \in Nat /\ Head(fmt) = format[p + 1] /\ p + 1 \in 1..Len(format)
      /\ Tail(fmt) = SubSeq(format, (p + 1) + 1, Len(format))
  BY <1>1, FormatLeft
<1>7. Len(Upto(symbols, p + 1)) = k
  BY <1>3, <1>6, SymbolNext
<1>8. Progress(p + 1, k, 0)' /\ p + 1 \in Nat
  <2>1. Gone' = Gone /\ symbols' = symbols /\ values' = values /\ texts_sent' = texts_sent
    BY <1>1, Unread
  <2>2. p + 1 \in 0..Len(format) /\ p + 1 \in Nat
    BY <1>6
  <2> QED BY <1>1, <1>2, <1>5, <1>6, <1>7, <2>1, <2>2 DEF Progress
<1>9. Stands_at(p + 1, k, 0)' /\ 0 \in Nat
  BY <1>5 DEF Stands_at
<1> QED BY <1>8, <1>9, Zenon DEF Somewhere

\* The end of the format: all items have been read.
LEMMA ScanEnded ==
    ASSUME StreamInv, Asked, end_of_scan, NEW p \in Nat, NEW k \in Nat, NEW j \in Nat,
           Progress(p, k, j), Stands_at(p, k, j)
    PROVE  Somewhere'
<1>1. at = "format" /\ fmt = <<>> /\ at' = "returned" /\ UNCHANGED <<fmt, got, ring, coming, format, sent>>
  BY DEF end_of_scan, returns, goes
<1>2. j = 0
  BY <1>1, FormatAt
<1>3. p = Len(format)
  BY <1>1, FormatLeft
<1>4. k = Len(sent)
  BY <1>3, FormatEnd
<1>5. Progress(p, k, 0)'
  BY <1>1, <1>2, Unread DEF Progress
<1>6. Stands_at(p, k, 0)' /\ 0 \in Nat
  BY <1>1, <1>4 DEF Stands_at
<1> QED BY <1>5, <1>6, Zenon DEF Somewhere

\* What arrives is not read yet.
LEMMA InputArrives ==
    ASSUME StreamInv, uart_intput, NEW p \in Nat, NEW k \in Nat, NEW j \in Nat,
           Progress(p, k, j), Stands_at(p, k, j)
    PROVE  Somewhere'
<1>1. UNCHANGED <<fmt, at, val, neg, places, got, format, sent>>
  BY DEF uart_intput, number
<1>2. Gone' = Gone
  BY Arrives
<1>3. symbols' = symbols /\ values' = values /\ texts_sent' = texts_sent
  BY <1>1, SameInput
<1>4. Progress(p, k, j)'
  BY <1>1, <1>2, <1>3 DEF Progress
<1>5. Stands_at(p, k, j)'
  BY <1>1 DEF Stands_at, Reading, int_read, places_read, sign_read
<1> QED BY <1>4, <1>5, Zenon DEF Somewhere

\* Every step of the scanner keeps the invariant, which the call begins with.
LEMMA ScanStep == ASSUME ScanIInv, ScanfNext PROVE ScanIInv'
<1>1. StreamInv /\ ScanInv
  BY DEF ScanIInv
<1>2. StreamInv' /\ UNCHANGED <<format, sent>> /\ (~starved' => ~starved)
  <2>1. CASE scanf_read_char
    BY <1>1, <2>1, ReadsChar, Zenon
  <2>2. CASE UNCHANGED <<ring, coming, starved, format, sent>>
    BY <1>1, <2>2, Unread
  <2>3. CASE uart_intput
    <3>1. UNCHANGED <<starved, format, sent>>
      BY <2>3 DEF uart_intput
    <3> QED BY <1>1, <2>3, <3>1, Arrives
  <2> QED BY <2>1, <2>2, <2>3
          DEF ScanfNext, ignore, end_of_scan, begin, match, minus, first_digit, digit, store_int, read_terminator,
              float_char, store_float, string_char, store_string
<1>3. SUFFICES ASSUME ~starved', Asked' PROVE Somewhere'
  BY <1>2 DEF ScanIInv, ScanInv
<1>4. Asked
  BY <1>2, <1>3 DEF Asked, symbols
<1>5. PICK p \in Nat, k \in Nat, j \in Nat : Progress(p, k, j) /\ Stands_at(p, k, j)
  <2>1. Somewhere
    BY <1>1, <1>2, <1>3, <1>4 DEF ScanInv
  <2> QED BY <2>1, Zenon DEF Somewhere
<1>6. CASE begin("%d", "sign") \/ begin("%f", "fsign") \/ begin("%s", "string")
  <2>1. "%d" \in Conversions /\ "%f" \in Conversions /\ "%s" \in Conversions
    BY DEF Conversions
  <2>2. \A sym \in Conversions : \A loop :
            <<sym, loop>> \in {<<"%d", "sign">>, <<"%f", "fsign">>, <<"%s", "string">>} /\ begin(sym, loop)
               => Somewhere'
    BY <1>1, <1>4, <1>5, Begun
  <2>3. /\ <<"%d", "sign">> \in {<<"%d", "sign">>, <<"%f", "fsign">>, <<"%s", "string">>}
        /\ <<"%f", "fsign">> \in {<<"%d", "sign">>, <<"%f", "fsign">>, <<"%s", "string">>}
        /\ <<"%s", "string">> \in {<<"%d", "sign">>, <<"%f", "fsign">>, <<"%s", "string">>}
    OBVIOUS
  <2> QED BY <1>6, <2>1, <2>2, <2>3, Zenon
<1>7. CASE uart_intput
  BY <1>1, <1>5, <1>7, InputArrives
<1>8. CASE ignore
  BY <1>1, <1>4, <1>5, <1>8, Ignored
<1>9. CASE end_of_scan
  BY <1>1, <1>4, <1>5, <1>9, ScanEnded
<1>10. CASE match
  BY <1>1, <1>3, <1>4, <1>5, <1>10, Matched
<1>11. CASE minus
  BY <1>1, <1>3, <1>4, <1>5, <1>11, MinusRead
<1>12. CASE first_digit
  BY <1>1, <1>3, <1>4, <1>5, <1>12, FirstDigitRead
<1>13. CASE digit
  BY <1>1, <1>3, <1>4, <1>5, <1>13, DigitRead
<1>14. CASE store_int
  BY <1>1, <1>3, <1>4, <1>5, <1>14, IntStored
<1>15. CASE float_char
  BY <1>1, <1>3, <1>4, <1>5, <1>15, FloatRead
<1>16. CASE store_float
  BY <1>1, <1>3, <1>4, <1>5, <1>16, FloatStored
<1>17. CASE string_char
  BY <1>1, <1>3, <1>4, <1>5, <1>17, CharRead
<1>18. CASE store_string
  BY <1>1, <1>3, <1>4, <1>5, <1>18, StringStored
<1> QED BY <1>6, <1>7, <1>8, <1>9, <1>10, <1>11, <1>12, <1>13, <1>14, <1>15, <1>16, <1>17, <1>18 DEF ScanfNext

LEMMA ScanStart == ASSUME ScanfInit PROVE ScanIInv
<1>1. /\ format \in Formats /\ fmt = format /\ at = "format" /\ got = <<>> /\ ring = <<>> /\ coming = Input
      /\ sent \in UNION {[1..n -> Items] : n \in 0..MaxItems}
  BY DEF ScanfInit, Input
<1>2. format \in Seq(STRING) /\ sent \in Seq(Items)
  <2>1. PICK n \in 0..MaxItems : sent \in [1..n -> Items]
    BY <1>1
  <2>2. n \in Nat
    BY ScanfAssumption
  <2> QED BY <1>1, <2>1, <2>2, ScanfAssumption
<1>3. Input \in Seq(STRING) /\ Len(Input) \in Nat
  BY <1>2, InputWell
<1>4. Left = Input
  BY <1>1, <1>3 DEF Left
<1>5. Gone = 0
  BY <1>3, <1>4 DEF Gone
<1>6. StreamInv
  <2>1. ring \in Seq(STRING)
    BY <1>1
  <2>2. \A i \in 1..Len(Left) : Left[i] = Input[Gone + i]
    BY <1>3, <1>4, <1>5
  <2> QED BY <1>1, <1>2, <1>3, <1>4, <2>1, <2>2 DEF StreamInv
<1>7. Progress(0, 0, 0)
  <2>1. Upto(symbols, 0) = <<>> /\ Upto(values, 0) = <<>> /\ Upto(texts_sent, 0) = <<>>
    BY <1>6, SentSeqs, UptoEmpty, Zenon
  <2>2. 0 \in 0..Len(format) /\ 0 \in 0..Len(sent) /\ 0 \in Nat
    BY <1>6, SentSeqs
  <2>3. fmt = SubSeq(format, 0 + 1, Len(format))
    BY <1>1, <1>2
  <2>4. Len(<<>>) = 0 /\ 0 + 0 = 0
    OBVIOUS
  <2> QED BY <1>1, <1>5, <2>1, <2>2, <2>3, <2>4, Zenon DEF Progress
<1>8. Stands_at(0, 0, 0) /\ 0 \in Nat
  BY <1>1 DEF Stands_at
<1>9. Somewhere
  BY <1>7, <1>8, Zenon DEF Somewhere
<1> QED BY <1>6, <1>9 DEF ScanIInv, ScanInv

LEMMA ScanStutters == ASSUME ScanIInv, UNCHANGED scanfVars PROVE ScanIInv'
<1>1. UNCHANGED <<fmt, at, val, neg, places, got, ring, coming, starved, format, sent>>
  BY DEF scanfVars
<1>2. StreamInv
  BY DEF ScanIInv
<1>3. StreamInv' /\ Gone' = Gone /\ symbols' = symbols /\ values' = values /\ texts_sent' = texts_sent
  BY <1>1, <1>2, Unread
<1>4. Asked' = Asked
  BY <1>1, <1>3 DEF Asked
<1>5. ASSUME Somewhere PROVE Somewhere'
  <2>1. PICK p \in Nat, k \in Nat, j \in Nat : Progress(p, k, j) /\ Stands_at(p, k, j)
    BY <1>5, Zenon DEF Somewhere
  <2>2. Progress(p, k, j)'
    BY <1>1, <1>3, <2>1 DEF Progress
  <2>3. Stands_at(p, k, j)'
    BY <1>1, <2>1 DEF Stands_at, Reading, int_read, places_read, sign_read
  <2> QED BY <2>2, <2>3, Zenon DEF Somewhere
<1> QED BY <1>1, <1>3, <1>4, <1>5 DEF ScanIInv, ScanInv

\* At the return, what is stored are the values of all items.
LEMMA ScanReadsBack == ASSUME ScanIInv PROVE ReadsBack
<1>1. SUFFICES ASSUME at = "returned", ~starved, Asked
               PROVE  got = FlattenSeq(values) /\ ring = <<>> /\ coming = <<>>
  BY DEF ReadsBack
<1>2. StreamInv /\ Somewhere
  BY <1>1 DEF ScanIInv, ScanInv
<1>3. PICK p \in Nat, k \in Nat, j \in Nat : Progress(p, k, j) /\ Stands_at(p, k, j)
  BY <1>2, Zenon DEF Somewhere
<1>4. k = Len(sent) /\ j = 0
  BY <1>1, <1>3 DEF Stands_at, Reading
<1>5. got = Upto(values, k) /\ Gone = Len(Upto(texts_sent, k)) + 0
  BY <1>3, <1>4 DEF Progress
<1>6. PICK X : Seqs(values, X) /\ Len(values) = k /\ Seqs(texts_sent, STRING) /\ Len(texts_sent) = k
  BY <1>2, <1>4, SentSeqs
<1>7. got = FlattenSeq(values) /\ Gone = Len(Input) + 0
  BY <1>5, <1>6, UptoAll, Zenon DEF Input
<1>8. ring = <<>> /\ coming = <<>>
  <2>1. Len(Left) \in Nat /\ Len(Left) = Len(Input) - Gone /\ Len(Input) \in Nat
    BY <1>2, LeftSeq, InputSeq
  <2>2. Len(Left) = 0
    BY <1>7, <2>1
  <2>3. ring \in Seq(STRING) /\ coming \in Seq(STRING)
    BY <1>2 DEF StreamInv
  <2>4. Len(ring \o coming) = Len(ring) + Len(coming) /\ Len(ring) \in Nat /\ Len(coming) \in Nat
    BY <2>3
  <2>5. Len(ring) = 0 /\ Len(coming) = 0
    BY <2>2, <2>4 DEF Left
  <2> QED BY <2>3, <2>5, EmptySeq, Zenon
<1> QED BY <1>7, <1>8

\* Formatted input reads back what formatted output wrote: ReadsBack, for every width of an
\* int, every set of items whose texts show their values, and every order of arrival.
THEOREM ScanReads == LibrarySpec => []ReadsBack
<1>1. LibraryInit => ScanIInv
  BY ScanStart DEF LibraryInit
<1>2. ScanIInv /\ [LibraryNext]_libraryVars => ScanIInv'
  <2> SUFFICES ASSUME ScanIInv, [LibraryNext]_libraryVars PROVE ScanIInv'
    OBVIOUS
  <2>1. ScanfNext \/ UNCHANGED scanfVars
    BY DEF LibraryNext, libraryVars
  <2> QED BY <2>1, ScanStep, ScanStutters
<1>3. ScanIInv => ReadsBack
  BY ScanReadsBack
<1> QED BY <1>1, <1>2, <1>3, PTL DEF LibrarySpec

-----------------------------------------------------------------------------
(***************************************************************************)
(* The tokenizer.  After each character, the tokens it keeps stand in the line *)
(* in their order and leave out only blanks and quotes (Laid); and without a *)
(* quote before it, it keeps what split does (Same).                         *)
(***************************************************************************)
\* The views, and those within a text.
Places == [off : Nat, len : Nat]
Within(v, b) == v \in Places /\ end(v) <= Len(b)

\* i is the first, or the last, of the first n characters that are not in a set; or 0.
FirstOut(s, n, set, i) ==
    \/ i = 0 /\ \A k \in 1..n : s[k] \in set
    \/ i \in 1..n /\ s[i] \notin set /\ \A k \in 1..(i - 1) : s[k] \in set
LastOut(s, n, set, i) ==
    \/ i = 0 /\ \A k \in 1..n : s[k] \in set
    \/ i \in 1..n /\ s[i] \notin set /\ \A k \in (i + 1)..n : s[k] \in set

\* The first and the last position trim keeps.
LEMMA FirstNot ==
    ASSUME NEW n \in Nat, NEW s, NEW set, NEW I, I = {k \in 1..n : s[k] \notin set},
           NEW i, i = IF I # {} THEN Min(I) ELSE 0
    PROVE  FirstOut(s, n, set, i)
<1>1. CASE I = {}
  BY <1>1 DEF FirstOut
<1>2. CASE I # {}
  <2>1. I \subseteq Nat
    OBVIOUS
  <2>2. \E x \in I : \A y \in I : x <= y
    BY <1>2, <2>1, NatLeast, Zenon
  <2>3. i \in I /\ \A y \in I : i <= y
    BY <1>2, <2>2 DEF Min
  <2>4. ASSUME NEW k \in 1..(i - 1) PROVE s[k] \in set
    <3>1. k \in 1..n /\ ~(i <= k)
      BY <2>3
    <3> QED BY <2>3, <3>1
  <2> QED BY <2>3, <2>4 DEF FirstOut
<1> QED BY <1>1, <1>2

LEMMA LastNot ==
    ASSUME NEW n \in Nat, NEW s, NEW set, NEW I, I = {k \in 1..n : s[k] \notin set},
           NEW i, i = IF I # {} THEN Max(I) ELSE 0
    PROVE  LastOut(s, n, set, i)
<1>1. CASE I = {}
  BY <1>1 DEF LastOut
<1>2. CASE I # {}
  <2>1. I \in SUBSET (1..n)
    OBVIOUS
  <2>2. i \in I /\ \A y \in I : i >= y
    BY <1>2, <2>1, MaxOf, Zenon
  <2>3. ASSUME NEW k \in (i + 1)..n PROVE s[k] \in set
    <3>1. k \in 1..n /\ ~(i >= k)
      BY <2>1, <2>2
    <3> QED BY <2>2, <3>1
  <2> QED BY <2>2, <2>3 DEF LastOut
<1> QED BY <1>1, <1>2

\* What is trimmed off is in the set; unless nothing is left, what is left begins and
\* ends with characters that are not.
LEMMA Trimmed ==
    ASSUME NEW L, NEW b \in Seq(L), NEW set, NEW v, v = trim(b, whole(b), set)
    PROVE  /\ Within(v, b) /\ (v.len = 0 => v = Nothing)
           /\ \A k \in 1..Len(b) : k <= v.off \/ k > end(v) => b[k] \in set
           /\ v.len # 0 => b[v.off + 1] \notin set /\ b[end(v)] \notin set
<1>1. PICK n \in Nat : n = Len(b)
  OBVIOUS
<1>2. chars(b, whole(b)) = b
  <2>1. SubSeq(b, 0 + 1, 0 + Len(b)) = b
    OBVIOUS
  <2> QED BY <2>1 DEF chars, whole, View, end
<1>3. PICK i, j : i = find_first_not_of(b, whole(b), set) /\ j = find_last_not_of(b, whole(b), set)
  OBVIOUS
<1> DEFINE I == {k \in 1..n : b[k] \notin set}
<1>9. i = (IF I # {} THEN Min(I) ELSE 0) /\ j = (IF I # {} THEN Max(I) ELSE 0)
  BY <1>1, <1>2, <1>3 DEF find_first_not_of, find_last_not_of, SelectInSeq, SelectLastInSeq
<1>4. \/ i = 0 /\ \A k \in 1..n : b[k] \in set
      \/ i \in 1..n /\ b[i] \notin set /\ \A k \in 1..(i - 1) : b[k] \in set
  <2>1. FirstOut(b, n, set, i)
    BY <1>9, FirstNot
  <2> QED BY <2>1, Zenon DEF FirstOut
<1>5. \/ j = 0 /\ \A k \in 1..n : b[k] \in set
      \/ j \in 1..n /\ b[j] \notin set /\ \A k \in (j + 1)..n : b[k] \in set
  <2>1. LastOut(b, n, set, j)
    BY <1>9, LastNot
  <2> QED BY <2>1, Zenon DEF LastOut
<1> HIDE DEF I
<1>6. CASE i = 0
  <2>1. v = [off |-> 0, len |-> 0]
    BY <1>3, <1>6 DEF trim, Nothing, View
  <2> QED BY <1>1, <1>4, <1>6, <2>1 DEF Within, Places, end, Nothing, View
<1>7. CASE i # 0
  <2>1. i \in 1..n /\ b[i] \notin set /\ \A k \in 1..(i - 1) : b[k] \in set
    BY <1>4, <1>7
  <2>2. j \in 1..n /\ b[j] \notin set /\ \A k \in (j + 1)..n : b[k] \in set
    BY <1>5, <2>1
  <2>3. i <= j
    BY <2>1, <2>2
  <2>4. v = [off |-> i - 1, len |-> j - i + 1]
    <3>1. v = View((whole(b)).off + i - 1, j - i + 1) /\ (whole(b)).off = 0
      BY <1>3, <1>7 DEF trim, whole, View
    <3> QED BY <2>1, <3>1 DEF View
  <2>5. v.off = i - 1 /\ v.len = j - i + 1 /\ end(v) = j /\ v.off + 1 = i /\ v.len # 0 /\ v \in Places
    BY <2>1, <2>2, <2>3, <2>4 DEF end, Places
  <2> QED BY <1>1, <2>1, <2>2, <2>5 DEF Within
<1> QED BY <1>6, <1>7

\* What the tokenizer keeps.
QuoteOrNone == Quotes \cup {""}
Scanned == [quote : QuoteOrNone, start : Nat, out : Seq(Places)]
Keeping(q, n, w) == [quote |-> q, start |-> n, out |-> w]
Idle == Keeping("", 0, <<>>)
Scans(h, b, v) ==
    h \in [0..v.len -> Scanned] /\ h[0] = Idle /\ \A k \in 1..v.len : h[k] = scan(b, h[k - 1], v.off + k)

Becomes(b, s, i, t) == scan(b, s, i) = t

\* Everything the tokenizer keeps stays of this type.
LEMMA TokenPlaces == ASSUME NEW i \in Nat, NEW j \in Nat PROVE token(i, j) \in Seq(Places)
<1>1. CASE i # 0 /\ j >= i
  <2>1. View(i - 1, j - i + 1) \in Places
    BY <1>1 DEF View, Places
  <2> QED BY <1>1, <2>1, OnePlace DEF token
<1>2. CASE ~(i # 0 /\ j >= i)
  BY <1>2 DEF token
<1> QED BY <1>1, <1>2

LEMMA KeepingIs ==
    ASSUME NEW q \in QuoteOrNone, NEW n \in Nat, NEW w \in Seq(Places)
    PROVE  Keeping(q, n, w) \in Scanned
<1> DEFINE V == Seq(Places)
           Q == QuoteOrNone
<1>1. q \in Q /\ w \in V
  OBVIOUS
<1> HIDE DEF V, Q
<1>2. Keeping(q, n, w) \in [quote : Q, start : Nat, out : V]
  BY <1>1 DEF Keeping
<1> QED BY <1>2 DEF V, Q, Scanned

LEMMA KeepingOf ==
    ASSUME NEW s \in Scanned
    PROVE  /\ s = Keeping(s.quote, s.start, s.out)
           /\ s.quote \in QuoteOrNone /\ s.start \in Nat /\ s.out \in Seq(Places)
<1> DEFINE V == Seq(Places)
           Q == QuoteOrNone
<1>1. s \in [quote : Q, start : Nat, out : V]
  BY DEF Scanned
<1> HIDE DEF V, Q
<1>2. s = [quote |-> s.quote, start |-> s.start, out |-> s.out] /\ s.quote \in Q /\ s.start \in Nat /\ s.out \in V
  BY <1>1
<1> QED BY <1>2 DEF V, Q, Keeping

\* What it makes of a character, case by case.
LEMMA QuoteOpens ==
    ASSUME NEW b, NEW i, NEW q, NEW n, NEW w, q = "", b[i] \in Quotes
    PROVE  Becomes(b, Keeping(q, n, w), i, Keeping(b[i], IF n = 0 THEN i + 1 ELSE n, w))
<1>1. PICK s : s = Keeping(q, n, w)
  OBVIOUS
<1>2. s.quote = q /\ s.start = n /\ s.out = w /\ s = [quote |-> q, start |-> n, out |-> w]
  BY <1>1 DEF Keeping
<1>3. scan(b, s, i) = [s EXCEPT !.quote = b[i], !.start = IF s.start = 0 THEN after_quote(i) ELSE s.start]
  BY <1>2 DEF scan
<1> QED BY <1>1, <1>2, <1>3 DEF Keeping, Becomes, after_quote

LEMMA BlankEnds ==
    ASSUME NEW b, NEW i, NEW q, NEW n, NEW w, q = "", b[i] \notin Quotes, b[i] \in Blank
    PROVE  Becomes(b, Keeping(q, n, w), i, Keeping("", 0, w \o token(n, i - 1)))
<1>1. PICK s : s = Keeping(q, n, w)
  OBVIOUS
<1>2. s.quote = q /\ s.start = n /\ s.out = w /\ s = [quote |-> q, start |-> n, out |-> w]
  BY <1>1 DEF Keeping
<1>3. scan(b, s, i) = [s EXCEPT !.start = 0, !.out = s.out \o token(s.start, i - 1)]
  BY <1>2 DEF scan
<1> QED BY <1>1, <1>2, <1>3 DEF Keeping, Becomes

LEMMA CharBegins ==
    ASSUME NEW b, NEW i, NEW q, NEW n, NEW w, q = "", b[i] \notin Quotes, b[i] \notin Blank
    PROVE  Becomes(b, Keeping(q, n, w), i, Keeping("", IF n = 0 THEN i ELSE n, w))
<1>1. PICK s : s = Keeping(q, n, w)
  OBVIOUS
<1>2. s.quote = q /\ s.start = n /\ s.out = w /\ s = [quote |-> q, start |-> n, out |-> w]
  BY <1>1 DEF Keeping
<1>3. scan(b, s, i) = IF s.start = 0 THEN [s EXCEPT !.start = i] ELSE s
  BY <1>2 DEF scan
<1> QED BY <1>1, <1>2, <1>3 DEF Keeping, Becomes

LEMMA QuoteCloses ==
    ASSUME NEW b, NEW i, NEW q, NEW n, NEW w, q # "", b[i] = q
    PROVE  Becomes(b, Keeping(q, n, w), i, Keeping("", 0, w \o token(n, i - 1)))
<1>1. PICK s : s = Keeping(q, n, w)
  OBVIOUS
<1>2. s.quote = q /\ s.start = n /\ s.out = w /\ s = [quote |-> q, start |-> n, out |-> w]
  BY <1>1 DEF Keeping
<1>3. scan(b, s, i) = [quote |-> "", start |-> 0, out |-> s.out \o token(s.start, i - 1)]
  BY <1>2 DEF scan
<1> QED BY <1>1, <1>2, <1>3 DEF Keeping, Becomes

LEMMA QuoteGoesOn ==
    ASSUME NEW b, NEW i, NEW q, NEW n, NEW w, q # "", b[i] # q
    PROVE  Becomes(b, Keeping(q, n, w), i, Keeping(q, n, w))
<1>1. PICK s : s = Keeping(q, n, w)
  OBVIOUS
<1>2. s.quote = q /\ s.start = n /\ s.out = w /\ s = [quote |-> q, start |-> n, out |-> w]
  BY <1>1 DEF Keeping
<1>3. scan(b, s, i) = s
  BY <1>2 DEF scan
<1> QED BY <1>1, <1>2, <1>3 DEF Keeping, Becomes

\* So whatever it has kept, it keeps such a state, through all of the line.
LEMMA QuoteIs == "" \in QuoteOrNone /\ Quotes \subseteq QuoteOrNone
BY DEF QuoteOrNone

LEMMA ScanKeeps ==
    ASSUME NEW L, NEW b \in Seq(L), NEW i \in 1..Len(b), NEW s \in Scanned
    PROVE  scan(b, s, i) \in Scanned
<1>1. i \in Nat /\ i - 1 \in Nat /\ i + 1 \in Nat /\ 0 \in Nat
  OBVIOUS
<1>2. PICK q, n, w : s = Keeping(q, n, w) /\ q \in QuoteOrNone /\ n \in Nat /\ w \in Seq(Places)
  BY KeepingOf, Zenon
<1>3. w \o token(n, i - 1) \in Seq(Places)
  BY <1>1, <1>2, TokenPlaces, ConcatProperties, Zenon
<1>4. CASE q = "" /\ b[i] \in Quotes
  <2>1. Becomes(b, Keeping(q, n, w), i, Keeping(b[i], IF n = 0 THEN i + 1 ELSE n, w))
    BY <1>4, QuoteOpens, Zenon
  <2>2. b[i] \in QuoteOrNone /\ (IF n = 0 THEN i + 1 ELSE n) \in Nat
    BY <1>1, <1>2, <1>4, QuoteIs, Zenon
  <2> QED BY <1>2, <2>1, <2>2, KeepingIs, Zenon DEF Becomes
<1>5. CASE q = "" /\ b[i] \notin Quotes /\ b[i] \in Blank
  <2>1. Becomes(b, Keeping(q, n, w), i, Keeping("", 0, w \o token(n, i - 1)))
    BY <1>5, BlankEnds, Zenon
  <2>2. Keeping("", 0, w \o token(n, i - 1)) \in Scanned
    BY <1>1, <1>3, QuoteIs, KeepingIs, Zenon
  <2> QED BY <1>2, <2>1, <2>2, Zenon DEF Becomes
<1>6. CASE q = "" /\ b[i] \notin Quotes /\ b[i] \notin Blank
  <2>1. Becomes(b, Keeping(q, n, w), i, Keeping("", IF n = 0 THEN i ELSE n, w))
    BY <1>6, CharBegins, Zenon
  <2>2. (IF n = 0 THEN i ELSE n) \in Nat
    BY <1>1, <1>2, Zenon
  <2> QED BY <1>2, <2>1, <2>2, QuoteIs, KeepingIs, Zenon DEF Becomes
<1>7. CASE q # "" /\ b[i] = q
  <2>1. Becomes(b, Keeping(q, n, w), i, Keeping("", 0, w \o token(n, i - 1)))
    BY <1>7, QuoteCloses, Zenon
  <2>2. Keeping("", 0, w \o token(n, i - 1)) \in Scanned
    BY <1>1, <1>3, QuoteIs, KeepingIs, Zenon
  <2> QED BY <1>2, <2>1, <2>2, Zenon DEF Becomes
<1>8. CASE q # "" /\ b[i] # q
  <2>1. Becomes(b, Keeping(q, n, w), i, Keeping(q, n, w))
    BY <1>8, QuoteGoesOn, Zenon
  <2> QED BY <1>2, <2>1, Zenon DEF Becomes
<1> QED BY <1>4, <1>5, <1>6, <1>7, <1>8, Zenon

\* pares_cmd is the fold of scan over the line: there are the states it goes through.
LEMMA ScansExist ==
    ASSUME NEW L, NEW b \in Seq(L), NEW v, Within(v, b)
    PROVE  \E h : Scans(h, b, v) /\ pares_cmd(b, v) = h[v.len].out \o token(h[v.len].start, end(v))
<1>1. PICK n \in Nat, o \in Nat : n = v.len /\ o = v.off /\ o + n <= Len(b) /\ Len(b) \in Nat
  BY DEF Within, Places, end
<1> DEFINE X == Scanned
           G == [q \in X \X (1..n) |-> scan(b, q[1], o + q[2])]
<1>2. G \in [X \X (1..n) -> X]
  <2>1. ASSUME NEW q \in X \X (1..n) PROVE scan(b, q[1], o + q[2]) \in X
    <3>1. q[1] \in Scanned /\ q[2] \in 1..n
      OBVIOUS
    <3>2. o + q[2] \in 1..Len(b)
      BY <1>1, <3>1
    <3> QED BY <3>1, <3>2, ScanKeeps
  <2> HIDE DEF X
  <2> QED BY <2>1
<1>3. \A r \in X, k \in 1..n : G[<<r, k>>] = scan(b, r, o + k)
  <2> HIDE DEF X
  <2> QED OBVIOUS
<1>4. Idle \in X
  <2>1. <<>> \in Seq(Places) /\ 0 \in Nat
    OBVIOUS
  <2> QED BY <2>1, QuoteIs, KeepingIs, Zenon DEF Idle
<1> HIDE DEF G, X
<1>5. PICK g \in [SUBSET (1..n) -> X] : IsFold(g, Idle, n, G)
  BY <1>2, <1>4, FoldExists
<1>6. PICK h : h = Through(g, n) /\ h \in [0..n -> X] /\ Steps(h, Idle, n, G)
  BY <1>4, <1>5, FoldedPrefixes
<1>7. Scans(h, b, v)
  <2>1. ASSUME NEW k \in 1..n PROVE h[k] = scan(b, h[k - 1], o + k)
    <3>1. k - 1 \in 0..n
      OBVIOUS
    <3>2. h[k - 1] \in X /\ h[k] = G[<<h[k - 1], k>>]
      BY <1>6, <3>1 DEF Steps
    <3> QED BY <1>3, <3>2
  <2> QED BY <1>1, <1>6, <2>1 DEF Scans, Steps, X
<1>8. g = [u \in SUBSET (1..n) |-> IF u = {} THEN Idle ELSE scan(b, g[u \ {Max(u)}], o + Max(u))]
  <2>1. ASSUME NEW u \in SUBSET (1..n), u # {} PROVE g[u] = scan(b, g[u \ {Max(u)}], o + Max(u))
    <3>1. Max(u) \in 1..n
      BY <2>1, MaxOf
    <3>2. u \ {Max(u)} \in SUBSET (1..n)
      OBVIOUS
    <3>3. g[u] = G[<<g[u \ {Max(u)}], Max(u)>>]
      BY <1>5, <2>1 DEF IsFold
    <3> QED BY <1>3, <1>5, <3>1, <3>2, <3>3
  <2>2. g[{}] = Idle
    BY <1>5 DEF IsFold
  <2> QED BY <1>5, <2>1, <2>2
<1>9. PICK q : q = [i \in 1..n |-> o + i]
  OBVIOUS
<1>10. PICK f : /\ f = CHOOSE x : x = [u \in SUBSET (1..n) |->
                            IF u = {} THEN Idle ELSE scan(b, x[u \ {Max(u)}], q[Max(u)])]
                /\ FoldLeft(LAMBDA r, i : scan(b, r, i), Idle, q) = f[1..n]
  <2>1. DOMAIN q = 1..n
    BY <1>9
  <2> QED BY <2>1 DEF FoldLeft, MapThenFoldSet
<1>11. \A u \in SUBSET (1..n) : u # {} => q[Max(u)] = o + Max(u)
  BY <1>9, MaxOf
<1>12. g = [u \in SUBSET (1..n) |-> IF u = {} THEN Idle ELSE scan(b, g[u \ {Max(u)}], q[Max(u)])]
  BY <1>8, <1>11
<1>13. f = [u \in SUBSET (1..n) |-> IF u = {} THEN Idle ELSE scan(b, f[u \ {Max(u)}], q[Max(u)])]
  BY <1>10, <1>12
<1>14. f[1..n] = g[1..n]
  <2>1. f[{}] = g[{}]
    BY <1>12, <1>13
  <2>2. ASSUME NEW u \in SUBSET (1..n), u # {}, f[u \ {Max(u)}] = g[u \ {Max(u)}] PROVE f[u] = g[u]
    BY <1>12, <1>13, <2>2
  <2> QED BY <2>1, <2>2, FoldsAgree
<1>15. h[n] = g[1..n]
  BY <1>6 DEF Through
<1>16. pares_cmd(b, v) = h[n].out \o token(h[n].start, end(v))
  <2>1. FoldLeft(LAMBDA r, i : scan(b, r, i), Idle, q) = h[n]
    BY <1>10, <1>14, <1>15
  <2> QED BY <1>1, <1>9, <2>1 DEF pares_cmd, Idle, Keeping
<1> QED BY <1>1, <1>7, <1>16

\* The tokens w stand in the line in their order, before position p and before the
\* token that begins at n; and what they leave out of o + 1 .. p are blanks and quotes.
Left_out(b, i) == b[i] \in Blank \cup Quotes
Taken(w, i) == \E k \in 1..Len(w) : i > w[k].off /\ i <= end(w[k])
Follow(w) == \A k \in 2..Len(w) : end(w[k - 1]) <= w[k].off
Before(w, n, p) == \A k \in 1..Len(w) : end(w[k]) <= p /\ (n = 0 \/ end(w[k]) < n)
Taken_or_out(b, w, n, i) == Taken(w, i) \/ Left_out(b, i) \/ (n # 0 /\ i >= n)
Laid(b, w, n, o, p) ==
    /\ n <= p + 1 /\ Follow(w) /\ Before(w, n, p)
    /\ \A i \in (o + 1)..p : Taken_or_out(b, w, n, i)

\* One token more.
LEMMA AppendPlace ==
    ASSUME NEW w \in Seq(Places), NEW x \in Places
    PROVE  /\ w \o <<x>> \in Seq(Places) /\ Len(w \o <<x>>) = Len(w) + 1 /\ Len(w) \in Nat
           /\ (w \o <<x>>)[Len(w) + 1] = x
           /\ \A k \in 1..Len(w) : (w \o <<x>>)[k] = w[k] /\ w[k] \in Places
OBVIOUS

LEMMA EndNat == ASSUME NEW x \in Places PROVE end(x) \in Nat /\ x.off \in Nat /\ x.len \in Nat
BY DEF Places, end

\* A token that ends at p stands in the line behind those before it.
LEMMA LaidToken ==
    ASSUME NEW b, NEW w \in Seq(Places), NEW n \in Nat, NEW o \in Nat, NEW p \in Nat, Laid(b, w, n, o, p)
    PROVE  Laid(b, w \o token(n, p), 0, o, p)
<1>1. CASE n # 0 /\ p >= n
  <2>1. PICK x : x = View(n - 1, p - n + 1) /\ x \in Places /\ x.off = n - 1 /\ end(x) = p
    <3>1. n - 1 \in Nat /\ p - n + 1 \in Nat /\ (n - 1) + (p - n + 1) = p
      BY <1>1
    <3>2. PICK x : x = View(n - 1, p - n + 1) /\ x = [off |-> n - 1, len |-> p - n + 1]
      BY DEF View
    <3> QED BY <3>1, <3>2 DEF Places, end
  <2>2. PICK t, m : t = w \o <<x>> /\ m = Len(w)
    OBVIOUS
  <2>3. w \o token(n, p) = t
    BY <1>1, <2>1, <2>2 DEF token
  <2>4. /\ m \in Nat /\ Len(t) = m + 1 /\ t[m + 1] = x
        /\ \A k \in 1..m : t[k] = w[k] /\ w[k] \in Places
    BY <2>1, <2>2, AppendPlace, Zenon
  <2>5. \A k \in 1..m : end(w[k]) \in Nat /\ w[k].off \in Nat
    BY <2>4, EndNat
  <2>6. Follow(t)
    <3>1. ASSUME NEW k \in 2..(m + 1) PROVE end(t[k - 1]) <= t[k].off
      <4>1. CASE k = m + 1
        <5>1. k - 1 = m /\ m \in 1..m
          BY <2>4, <4>1
        <5>2. end(w[m]) < n /\ end(w[m]) \in Nat /\ t[m] = w[m]
          BY <1>1, <2>2, <2>4, <2>5, <5>1 DEF Laid, Before
        <5> QED BY <2>1, <2>4, <4>1, <5>1, <5>2
      <4>2. CASE k # m + 1
        <5>1. k - 1 \in 1..m /\ k \in 2..m /\ k \in 1..m
          BY <2>4, <4>2
        <5> QED BY <2>2, <2>4, <5>1 DEF Laid, Follow
      <4> QED BY <4>1, <4>2
    <3> QED BY <2>4, <3>1 DEF Follow
  <2>7. Before(t, 0, p)
    <3>1. ASSUME NEW k \in 1..(m + 1) PROVE end(t[k]) <= p
      <4>1. CASE k = m + 1
        BY <2>1, <2>4, <4>1
      <4>2. CASE k # m + 1
        <5>1. k \in 1..m
          BY <2>4, <4>2
        <5> QED BY <2>2, <2>4, <5>1 DEF Laid, Before
      <4> QED BY <4>1, <4>2
    <3> QED BY <2>4, <3>1 DEF Before
  <2>8. ASSUME NEW i \in (o + 1)..p PROVE Taken_or_out(b, t, 0, i)
    <3>1. Taken_or_out(b, w, n, i)
      BY DEF Laid
    <3>2. CASE i >= n
      <4>1. i > t[m + 1].off /\ i <= end(t[m + 1])
        BY <2>1, <2>4, <3>2
      <4>2. m + 1 \in 1..Len(t)
        BY <2>4
      <4> QED BY <4>1, <4>2 DEF Taken_or_out, Taken
    <3>3. CASE Left_out(b, i)
      BY <3>3 DEF Taken_or_out
    <3>4. CASE Taken(w, i)
      <4>1. PICK k \in 1..m : i > w[k].off /\ i <= end(w[k])
        BY <2>2, <3>4 DEF Taken
      <4>2. k \in 1..Len(t) /\ t[k] = w[k]
        BY <2>4
      <4> QED BY <4>1, <4>2 DEF Taken_or_out, Taken
    <3> QED BY <3>1, <3>2, <3>3, <3>4 DEF Taken_or_out
  <2> QED BY <2>3, <2>6, <2>7, <2>8 DEF Laid
<1>2. CASE ~(n # 0 /\ p >= n)
  <2>1. w \o token(n, p) = w
    BY <1>2 DEF token
  <2>2. Laid(b, w, 0, o, p)
    <3>1. Before(w, 0, p)
      BY DEF Laid, Before
    <3>2. ASSUME NEW i \in (o + 1)..p PROVE Taken_or_out(b, w, 0, i)
      BY <1>2 DEF Laid, Taken_or_out
    <3> QED BY <3>1, <3>2 DEF Laid
  <2> QED BY <2>1, <2>2
<1> QED BY <1>1, <1>2

\* One more position, with what begins there or before.
LEMMA LaidNext ==
    ASSUME NEW b, NEW w \in Seq(Places), NEW n \in Nat, NEW o \in Nat, NEW p \in Nat, Laid(b, w, n, o, p),
           NEW m \in Nat, (n = 0 /\ m \in {0, p + 1, p + 2}) \/ m = n,
           Left_out(b, p + 1) \/ (m # 0 /\ p + 1 >= m)
    PROVE  Laid(b, w, m, o, p + 1)
<1>1. m <= p + 2 /\ Follow(w)
  BY DEF Laid
<1>2. Before(w, m, p + 1)
  <2>1. ASSUME NEW k \in 1..Len(w) PROVE end(w[k]) <= p + 1 /\ (m = 0 \/ end(w[k]) < m)
    <3>1. end(w[k]) \in Nat
      <4>1. w[k] \in Places
        OBVIOUS
      <4> QED BY <4>1, EndNat
    <3>2. end(w[k]) <= p /\ (n = 0 \/ end(w[k]) < n)
      BY DEF Laid, Before
    <3> QED BY <3>1, <3>2
  <2> QED BY <2>1 DEF Before
<1>3. ASSUME NEW i \in (o + 1)..(p + 1) PROVE Taken_or_out(b, w, m, i)
  <2>1. CASE i = p + 1
    BY <2>1 DEF Taken_or_out
  <2>2. CASE i # p + 1
    <3>1. i \in (o + 1)..p
      BY <2>2
    <3> QED BY <3>1 DEF Laid, Taken_or_out
  <2> QED BY <2>1, <2>2
<1> QED BY <1>1, <1>2, <1>3 DEF Laid
\* What the tokenizer keeps after k characters.
LaidAt(h, b, o, k) ==
    \E q, n, w : /\ h[k] = Keeping(q, n, w) /\ q \in QuoteOrNone /\ n \in Nat /\ w \in Seq(Places)
                 /\ Laid(b, w, n, o, o + k) /\ (q = "" \/ n # 0)

\* A character of the line, in each of the five cases of scan.
LEMMA LaidScan ==
    ASSUME NEW L, NEW b \in Seq(L), NEW h, NEW o \in Nat, NEW k \in Nat, LaidAt(h, b, o, k),
           h[k + 1] = scan(b, h[k], o + (k + 1))
    PROVE  LaidAt(h, b, o, k + 1)
<1>1. PICK p, i : /\ p = o + k /\ i = p + 1 /\ i = o + (k + 1) /\ p \in Nat /\ i \in Nat /\ i - 1 = p
                  /\ i + 1 \in Nat /\ i + 1 = p + 2
  OBVIOUS
<1>0. PICK q, n, w : /\ h[k] = Keeping(q, n, w) /\ q \in QuoteOrNone /\ n \in Nat /\ w \in Seq(Places)
                     /\ Laid(b, w, n, o, o + k) /\ (q = "" \/ n # 0)
  BY Zenon DEF LaidAt
<1>2. /\ h[k] = Keeping(q, n, w) /\ q \in QuoteOrNone /\ n \in Nat /\ w \in Seq(Places)
      /\ Laid(b, w, n, o, p) /\ (q = "" \/ n # 0)
  BY <1>0, <1>1, Zenon
<1>3. n <= i
  BY <1>1, <1>2 DEF Laid
<1>4. ASSUME NEW t, Becomes(b, Keeping(q, n, w), i, t) PROVE h[k + 1] = t
  BY <1>1, <1>2, <1>4 DEF Becomes
<1>5. \A d, m, u : /\ h[k + 1] = Keeping(d, m, u) /\ d \in QuoteOrNone /\ m \in Nat /\ u \in Seq(Places)
                   /\ Laid(b, u, m, o, i) /\ (d = "" \/ m # 0)
                   => LaidAt(h, b, o, k + 1)
  BY <1>1 DEF LaidAt
<1>6. b[i] \in Quotes \/ b[i] \in Blank => Left_out(b, i)
  BY DEF Left_out
<1>7. \A m \in Nat : ((n = 0 /\ m \in {0, i, i + 1}) \/ m = n) /\ (Left_out(b, i) \/ (m # 0 /\ i >= m))
                   => Laid(b, w, m, o, i)
  BY <1>1, <1>2, LaidNext
<1>8. w \o token(n, p) \in Seq(Places)
  BY <1>1, <1>2, TokenPlaces, ConcatProperties, Zenon
<1>9. Laid(b, w \o token(n, p), 0, o, p)
  BY <1>1, <1>2, LaidToken, Zenon
<1>10. Left_out(b, i) => Laid(b, w \o token(n, p), 0, o, i)
  <2>1. PICK u : u = w \o token(n, p)
    OBVIOUS
  <2>2. u \in Seq(Places) /\ Laid(b, u, 0, o, p)
    BY <1>8, <1>9, <2>1, Zenon
  <2>3. Left_out(b, p + 1) => Laid(b, u, 0, o, p + 1)
    BY <1>1, <2>2, LaidNext
  <2> QED BY <1>1, <2>1, <2>3, Zenon
<1>11. CASE q = "" /\ b[i] \in Quotes
  <2>1. PICK m \in Nat : m = IF n = 0 THEN i + 1 ELSE n
    BY <1>1, <1>2, Zenon
  <2>5. Left_out(b, i)
    BY <1>6, <1>11, Zenon
  <2>2. m # 0 /\ Laid(b, w, m, o, i)
    BY <1>1, <1>3, <1>7, <2>1, <2>5
  <2>3. Becomes(b, Keeping(q, n, w), i, Keeping(b[i], m, w))
    BY <1>11, <2>1, QuoteOpens, Zenon
  <2>4. b[i] \in QuoteOrNone
    BY <1>11, QuoteIs, Zenon
  <2> QED BY <1>2, <1>4, <1>5, <2>2, <2>3, <2>4, Zenon
<1>12. CASE q = "" /\ b[i] \notin Quotes /\ b[i] \in Blank
  <2>1. Becomes(b, Keeping(q, n, w), i, Keeping("", 0, w \o token(n, p)))
    BY <1>1, <1>12, BlankEnds, Zenon
  <2> QED BY <1>1, <1>4, <1>5, <1>6, <1>8, <1>10, <1>12, <2>1, QuoteIs, Zenon
<1>13. CASE q = "" /\ b[i] \notin Quotes /\ b[i] \notin Blank
  <2>1. PICK m \in Nat : m = IF n = 0 THEN i ELSE n
    BY <1>1, <1>2, Zenon
  <2>2. m # 0 /\ Laid(b, w, m, o, i)
    BY <1>1, <1>3, <1>7, <2>1
  <2>3. Becomes(b, Keeping(q, n, w), i, Keeping("", m, w))
    BY <1>13, <2>1, CharBegins, Zenon
  <2> QED BY <1>2, <1>4, <1>5, <2>2, <2>3, QuoteIs, Zenon
<1>14. CASE q # "" /\ b[i] = q
  <2>1. Becomes(b, Keeping(q, n, w), i, Keeping("", 0, w \o token(n, p)))
    BY <1>1, <1>14, QuoteCloses, Zenon
  <2>2. b[i] \in Quotes
    BY <1>2, <1>14 DEF QuoteOrNone
  <2> QED BY <1>1, <1>4, <1>5, <1>6, <1>8, <1>10, <2>1, <2>2, QuoteIs, Zenon
<1>15. CASE q # "" /\ b[i] # q
  <2>1. Laid(b, w, n, o, i)
    BY <1>1, <1>2, <1>3, <1>7, <1>15
  <2>2. Becomes(b, Keeping(q, n, w), i, Keeping(q, n, w))
    BY <1>15, QuoteGoesOn, Zenon
  <2> QED BY <1>2, <1>4, <1>5, <2>1, <2>2, Zenon
<1> QED BY <1>11, <1>12, <1>13, <1>14, <1>15, Zenon

\* And so at its end.
LEMMA LaidAll ==
    ASSUME NEW L, NEW b \in Seq(L), NEW v, Within(v, b), NEW h, Scans(h, b, v)
    PROVE  LaidAt(h, b, v.off, v.len)
<1>1. PICK n \in Nat, o \in Nat : n = v.len /\ o = v.off
  BY DEF Within, Places
<1> DEFINE T == {k \in 0..n : LaidAt(h, b, o, k)}
<1>2. 0 \in T
  <2>1. h[0] = Keeping("", 0, <<>>)
    BY DEF Scans, Idle
  <2>2. PICK w : w = <<>>
    OBVIOUS
  <2>3. w \in Seq(Places) /\ Laid(b, w, 0, o, o + 0) /\ 0 \in Nat
    BY <2>2 DEF Laid, Follow, Before
  <2>4. LaidAt(h, b, o, 0)
    BY <2>1, <2>2, <2>3, QuoteIs, Zenon DEF LaidAt
  <2> QED BY <2>4
<1>3. ASSUME NEW k \in 1..n, k - 1 \in T PROVE k \in T
  <2>1. PICK j \in Nat : j = k - 1 /\ j + 1 = k
    OBVIOUS
  <2>2. h[k] = scan(b, h[j], o + k)
    BY <1>1, <2>1 DEF Scans
  <2>3. LaidAt(h, b, o, j)
    BY <1>3, <2>1
  <2>4. LaidAt(h, b, o, j + 1)
    BY <2>1, <2>2, <2>3, LaidScan
  <2> QED BY <2>1, <2>4
<1> HIDE DEF T
<1>4. 0..n \subseteq T
  BY <1>2, <1>3, Induct
<1> QED BY <1>1, <1>4 DEF T

\* The tokens of a line stand in it in their order, and leave out only blanks and
\* quotes: of every line.
LEMMA TokensCover == ASSUME NEW L, NEW b \in Seq(L) PROVE Cover(b)
<1>1. PICK v : v = trim(b, whole(b), Blank)
  OBVIOUS
<1>2. /\ Within(v, b)
      /\ \A k \in 1..Len(b) : k <= v.off \/ k > end(v) => b[k] \in Blank
  BY <1>1, Trimmed
<1>3. PICK h : Scans(h, b, v) /\ pares_cmd(b, v) = h[v.len].out \o token(h[v.len].start, end(v))
  BY <1>2, ScansExist
<1>4. PICK o \in Nat, p \in Nat : o = v.off /\ p = end(v) /\ p = o + v.len
  BY <1>2 DEF Within, Places, end
<1>5. LaidAt(h, b, v.off, v.len)
  BY <1>2, <1>3, LaidAll
<1>6. PICK q, n, w : /\ h[v.len] = Keeping(q, n, w) /\ n \in Nat /\ w \in Seq(Places)
                     /\ Laid(b, w, n, v.off, v.off + v.len)
  BY <1>5, Zenon DEF LaidAt
<1>7. Laid(b, w, n, o, p)
  BY <1>4, <1>6, Zenon
<1>8. PICK t : t = w \o token(n, p)
  OBVIOUS
<1>9. Laid(b, t, 0, o, p)
  BY <1>6, <1>7, <1>8, LaidToken, Zenon
<1>10. tokens(b) = t
  <2>1. h[v.len].out = w /\ h[v.len].start = n
    BY <1>6 DEF Keeping
  <2> QED BY <1>1, <1>3, <1>4, <1>8, <2>1, Zenon DEF tokens
<1>11. \A k \in 2..Len(t) : end(t[k - 1]) <= t[k].off
  BY <1>9 DEF Laid, Follow
<1>12. ASSUME NEW i \in DOMAIN b
       PROVE  (\E k \in DOMAIN t : i > t[k].off /\ i <= end(t[k])) \/ b[i] \in Blank \cup Quotes
  <2>0. i \in 1..Len(b)
    OBVIOUS
  <2>1. CASE i <= v.off \/ i > end(v)
    BY <1>2, <2>0, <2>1, Zenon
  <2>2. CASE ~(i <= v.off \/ i > end(v))
    <3>1. i \in (o + 1)..p
      BY <1>4, <2>0, <2>2
    <3>2. Taken_or_out(b, t, 0, i)
      BY <1>9, <3>1 DEF Laid
    <3>3. Taken(t, i) \/ Left_out(b, i)
      BY <3>2 DEF Taken_or_out
    <3>4. DOMAIN t = 1..Len(t)
      BY <1>4, <1>6, <1>8, TokenPlaces, ConcatProperties, LenProperties
    <3> QED BY <3>3, <3>4, Zenon DEF Taken, Left_out
  <2> QED BY <2>1, <2>2
<1> QED BY <1>10, <1>11, <1>12, Zenon DEF Cover

\* What split keeps.
Cutting == [prev : Nat, out : Seq(Places)]
Cuts(g, b, set) ==
    /\ g \in [0..Len(b) -> Cutting] /\ g[0] = [prev |-> 0, out |-> <<>>]
    /\ \A k \in 1..Len(b) : g[k] = cut(b, set, g[k - 1], k)

\* What split keeps is of this type; split is the fold of cut over the text.
LEMMA BetweenPlaces == ASSUME NEW i \in Nat, NEW j \in Nat PROVE between(i, j) \in Seq(Places)
<1>1. CASE j > i
  <2>1. View(i, j - i) \in Places
    BY <1>1 DEF View, Places
  <2> QED BY <1>1, <2>1, OnePlace DEF between
<1>2. CASE ~(j > i)
  BY <1>2 DEF between
<1> QED BY <1>1, <1>2

LEMMA CutKeeps ==
    ASSUME NEW b, NEW set, NEW i \in Nat, i # 0, NEW a \in Cutting
    PROVE  cut(b, set, a, i) \in Cutting
<1> DEFINE V == Seq(Places)
<1>1. PICK n \in Nat, w \in V : n = a.prev /\ w = a.out
  <2> HIDE DEF V
  <2>1. a \in [prev : Nat, out : V]
    BY DEF Cutting, V
  <2> QED BY <2>1
<1>2. i - 1 \in Nat
  OBVIOUS
<1>3. w \o between(n, i - 1) \in V
  BY <1>2, BetweenPlaces, ConcatProperties, Zenon
<1>4. \A u \in V : [prev |-> i, out |-> u] \in Cutting
  <2> HIDE DEF V
  <2>1. \A u \in V : [prev |-> i, out |-> u] \in [prev : Nat, out : V]
    OBVIOUS
  <2> QED BY <2>1 DEF Cutting, V
<1>5. [prev |-> i, out |-> w \o between(n, i - 1)] \in Cutting
  BY <1>3, <1>4, Zenon
<1>6. CASE b[i] \in set
  BY <1>1, <1>5, <1>6, Zenon DEF cut
<1>7. CASE b[i] \notin set
  BY <1>7, Zenon DEF cut
<1> QED BY <1>6, <1>7

LEMMA CutsExist ==
    ASSUME NEW L, NEW b \in Seq(L), NEW set
    PROVE  \E g : Cuts(g, b, set) /\ split(b, whole(b), set) = g[Len(b)].out \o between(g[Len(b)].prev, Len(b))
<1>1. PICK n \in Nat : n = Len(b)
  OBVIOUS
<1> DEFINE X == Cutting
           G == [q \in X \X (1..n) |-> cut(b, set, q[1], q[2])]
           I == [prev |-> 0, out |-> <<>>]
<1>2. G \in [X \X (1..n) -> X]
  <2>1. ASSUME NEW q \in X \X (1..n) PROVE cut(b, set, q[1], q[2]) \in X
    <3>1. q[1] \in Cutting /\ q[2] \in Nat /\ q[2] # 0
      OBVIOUS
    <3> QED BY <3>1, CutKeeps
  <2> HIDE DEF X
  <2> QED BY <2>1
<1>3. \A r \in X, k \in 1..n : G[<<r, k>>] = cut(b, set, r, k)
  <2> HIDE DEF X
  <2> QED OBVIOUS
<1>4. I \in X
  <2> DEFINE V == Seq(Places)
  <2>1. <<>> \in V /\ 0 \in Nat
    OBVIOUS
  <2> HIDE DEF V
  <2>2. I \in [prev : Nat, out : V]
    BY <2>1
  <2> QED BY <2>2 DEF V, Cutting
<1> HIDE DEF G, X, I
<1>5. PICK g \in [SUBSET (1..n) -> X] : IsFold(g, I, n, G)
  BY <1>2, <1>4, FoldExists
<1>6. PICK h : h = Through(g, n) /\ h \in [0..n -> X] /\ Steps(h, I, n, G)
  BY <1>4, <1>5, FoldedPrefixes
<1>7. Cuts(h, b, set)
  <2>1. ASSUME NEW k \in 1..n PROVE h[k] = cut(b, set, h[k - 1], k)
    <3>1. k - 1 \in 0..n
      OBVIOUS
    <3>2. h[k - 1] \in X /\ h[k] = G[<<h[k - 1], k>>]
      BY <1>6, <3>1 DEF Steps
    <3> QED BY <1>3, <3>2
  <2> QED BY <1>1, <1>6, <2>1 DEF Cuts, Steps, X, I
<1>8. g = [u \in SUBSET (1..n) |-> IF u = {} THEN I ELSE cut(b, set, g[u \ {Max(u)}], Max(u))]
  <2>1. ASSUME NEW u \in SUBSET (1..n), u # {} PROVE g[u] = cut(b, set, g[u \ {Max(u)}], Max(u))
    <3>1. Max(u) \in 1..n
      BY <2>1, MaxOf
    <3>2. u \ {Max(u)} \in SUBSET (1..n)
      OBVIOUS
    <3>3. g[u] = G[<<g[u \ {Max(u)}], Max(u)>>]
      BY <1>5, <2>1 DEF IsFold
    <3> QED BY <1>3, <1>5, <3>1, <3>2, <3>3
  <2>2. g[{}] = I
    BY <1>5 DEF IsFold
  <2> QED BY <1>5, <2>1, <2>2
<1>9. PICK q : q = [i \in 1..n |-> 0 + i]
  OBVIOUS
<1>10. PICK f : /\ f = CHOOSE x : x = [u \in SUBSET (1..n) |->
                            IF u = {} THEN I ELSE cut(b, set, x[u \ {Max(u)}], q[Max(u)])]
                /\ FoldLeft(LAMBDA r, i : cut(b, set, r, i), I, q) = f[1..n]
  <2>1. DOMAIN q = 1..n
    BY <1>9
  <2> QED BY <2>1 DEF FoldLeft, MapThenFoldSet
<1>11. \A u \in SUBSET (1..n) : u # {} => q[Max(u)] = Max(u)
  <2>1. \A k \in 1..n : q[k] = k
    BY <1>9
  <2> QED BY <2>1, MaxOf
<1>12. g = [u \in SUBSET (1..n) |-> IF u = {} THEN I ELSE cut(b, set, g[u \ {Max(u)}], q[Max(u)])]
  BY <1>8, <1>11
<1>13. f = [u \in SUBSET (1..n) |-> IF u = {} THEN I ELSE cut(b, set, f[u \ {Max(u)}], q[Max(u)])]
  BY <1>10, <1>12
<1>14. f[1..n] = g[1..n]
  <2>1. f[{}] = g[{}]
    BY <1>12, <1>13
  <2>2. ASSUME NEW u \in SUBSET (1..n), u # {}, f[u \ {Max(u)}] = g[u \ {Max(u)}] PROVE f[u] = g[u]
    BY <1>12, <1>13, <2>2
  <2> QED BY <2>1, <2>2, FoldsAgree
<1>15. h[n] = g[1..n]
  BY <1>6 DEF Through
<1>16. split(b, whole(b), set) = h[n].out \o between(h[n].prev, n)
  <2>1. FoldLeft(LAMBDA r, i : cut(b, set, r, i), I, q) = h[n]
    BY <1>10, <1>14, <1>15
  <2>2. PICK v : v = whole(b) /\ v.off = 0 /\ v.len = n /\ end(v) = n
    <3>1. PICK v : v = whole(b) /\ v = [off |-> 0, len |-> n]
      BY <1>1 DEF whole, View
    <3> QED BY <3>1 DEF end
  <2>3. split(b, v, set) = h[n].out \o between(h[n].prev, n)
    BY <1>9, <2>1, <2>2 DEF split, I
  <2> QED BY <2>2, <2>3, Zenon
<1> QED BY <1>1, <1>7, <1>16
\* A line without quotes: at position i the tokenizer has kept what split has.
Unquoted(b) == \A i \in 1..Len(b) : b[i] \notin Quotes
Same(g, h, o, k) ==
    \E n, m, w : /\ n \in Nat /\ m \in Nat /\ w \in Seq(Places) /\ n <= o + k
                 /\ h[k] = Keeping("", m, w) /\ g[o + k] = [prev |-> n, out |-> w]
                 /\ m = (IF n = o + k THEN 0 ELSE n + 1)

\* A token of the tokenizer is a part of split.
LEMMA TokenBetween ==
    ASSUME NEW n \in Nat, NEW p \in Nat, n <= p
    PROVE  token(IF n = p THEN 0 ELSE n + 1, p) = between(n, p)
<1>1. CASE n = p
  BY <1>1 DEF token, between
<1>2. CASE n # p
  <2>1. n + 1 # 0 /\ p >= n + 1 /\ p > n /\ (n + 1) - 1 = n /\ p - (n + 1) + 1 = p - n
    BY <1>2
  <2> QED BY <1>2, <2>1 DEF token, between
<1> QED BY <1>1, <1>2

\* Outside of quotes both take the same step.
LEMMA SameScan ==
    ASSUME NEW b, NEW g, NEW h, NEW o \in Nat, NEW k \in Nat, Same(g, h, o, k),
           b[o + k + 1] \notin Quotes,
           h[k + 1] = scan(b, h[k], o + k + 1), g[o + k + 1] = cut(b, Blank, g[o + k], o + k + 1)
    PROVE  Same(g, h, o, k + 1)
<1>1. PICK p, i : /\ p = o + k /\ i = o + k + 1 /\ p \in Nat /\ i \in Nat /\ i - 1 = p /\ i = p + 1
                  /\ o + (k + 1) = i /\ i # 0
  OBVIOUS
<1>2. PICK n, m, w : /\ n \in Nat /\ m \in Nat /\ w \in Seq(Places) /\ n <= p
                     /\ h[k] = Keeping("", m, w) /\ g[p] = [prev |-> n, out |-> w]
                     /\ m = (IF n = p THEN 0 ELSE n + 1)
  <2>1. PICK n, m, w : /\ n \in Nat /\ m \in Nat /\ w \in Seq(Places) /\ n <= o + k
                       /\ h[k] = Keeping("", m, w) /\ g[o + k] = [prev |-> n, out |-> w]
                       /\ m = (IF n = o + k THEN 0 ELSE n + 1)
    BY Zenon DEF Same
  <2> QED BY <1>1, <2>1, Zenon
<1>7. n \in Nat /\ m \in Nat /\ n <= p /\ m = (IF n = p THEN 0 ELSE n + 1)
  BY <1>2, Zenon
<1>8. g[p] = [prev |-> n, out |-> w]
  BY <1>2, Zenon
<1>3. b[i] \notin Quotes /\ h[k + 1] = scan(b, h[k], i) /\ g[i] = cut(b, Blank, g[p], i)
  BY <1>1, Zenon
<1>4. ASSUME NEW a, NEW c, NEW u, a \in Nat, c \in Nat, u \in Seq(Places), a <= i, h[k + 1] = Keeping("", c, u),
             g[i] = [prev |-> a, out |-> u], c = (IF a = i THEN 0 ELSE a + 1)
      PROVE  Same(g, h, o, k + 1)
  <2>1. /\ a \in Nat /\ c \in Nat /\ u \in Seq(Places) /\ a <= o + (k + 1) /\ h[k + 1] = Keeping("", c, u)
        /\ g[o + (k + 1)] = [prev |-> a, out |-> u] /\ c = (IF a = o + (k + 1) THEN 0 ELSE a + 1)
    BY <1>1, <1>4, Zenon
  <2> QED BY <2>1, Zenon DEF Same
<1>5. CASE b[i] \in Blank
  <2>1. PICK u : u = w \o token(m, p)
    OBVIOUS
  <2>2. u \in Seq(Places)
    BY <1>1, <1>2, <2>1, TokenPlaces, ConcatProperties, Zenon
  <2>3. h[k + 1] = Keeping("", 0, u)
    <3>1. Becomes(b, Keeping("", m, w), i, Keeping("", 0, w \o token(m, i - 1)))
      BY <1>3, <1>5, BlankEnds, Zenon
    <3> QED BY <1>1, <1>2, <1>3, <2>1, <3>1, Zenon DEF Becomes
  <2>4. g[i] = [prev |-> i, out |-> u]
    <3>1. token(m, p) = between(n, p)
      BY <1>1, <1>7, TokenBetween
    <3>2. (g[p]).prev = n /\ (g[p]).out = w
      BY <1>8
    <3>3. g[i] = [prev |-> i, out |-> (g[p]).out \o between((g[p]).prev, i - 1)]
      BY <1>3, <1>5, Zenon DEF cut
    <3> QED BY <1>1, <2>1, <3>1, <3>2, <3>3, Zenon
  <2>5. i <= i /\ 0 = (IF i = i THEN 0 ELSE i + 1) /\ 0 \in Nat
    BY <1>1
  <2> QED BY <1>1, <1>4, <2>2, <2>3, <2>4, <2>5, Zenon
<1>6. CASE b[i] \notin Blank
  <2>1. PICK c : c = (IF m = 0 THEN i ELSE m)
    OBVIOUS
  <2>2. h[k + 1] = Keeping("", c, w)
    <3>1. Becomes(b, Keeping("", m, w), i, Keeping("", c, w))
      BY <1>3, <1>6, <2>1, CharBegins, Zenon
    <3> QED BY <1>2, <1>3, <3>1, Zenon DEF Becomes
  <2>3. g[i] = [prev |-> n, out |-> w]
    BY <1>2, <1>3, <1>6, Zenon DEF cut
  <2>4. n <= i /\ c \in Nat /\ c = (IF n = i THEN 0 ELSE n + 1)
    BY <1>1, <1>7, <2>1
  <2> QED BY <1>2, <1>4, <2>2, <2>3, <2>4, Zenon
<1> QED BY <1>5, <1>6

Holds(r, n, w) == r.out = w /\ r.start = n

\* What is kept, field by field.
LEMMA KeepingFields == ASSUME NEW q, NEW n, NEW w PROVE Holds(Keeping(q, n, w), n, w)
BY DEF Keeping, Holds

LEMMA Between0 == ASSUME NEW i \in Nat PROVE between(i, i) = <<>>
BY DEF between

LEMMA ConcatNothing == ASSUME NEW X, NEW w \in Seq(X) PROVE w \o <<>> = w
OBVIOUS

\* Blanks alone leave nothing behind.
LEMMA BlankCut ==
    ASSUME NEW b, NEW g, NEW j \in Nat, g[j].out \o between(g[j].prev, j) \in Seq(Places),
           b[j + 1] \in Blank, g[j + 1] = cut(b, Blank, g[j], j + 1)
    PROVE  /\ g[j + 1].prev = j + 1 /\ g[j + 1].out = g[j].out \o between(g[j].prev, j)
           /\ g[j + 1].out \o between(g[j + 1].prev, j + 1) = g[j].out \o between(g[j].prev, j)
<1>0. PICK i \in Nat : i = j + 1 /\ i - 1 = j
  <2>1. j + 1 \in Nat /\ (j + 1) - 1 = j
    OBVIOUS
  <2> QED BY <2>1, Zenon
<1>a. PICK u : u = g[j].out \o between(g[j].prev, j)
  OBVIOUS
<1>1. i = j + 1 /\ i - 1 = j /\ u = g[j].out \o between(g[j].prev, j)
  BY <1>0, <1>a, Zenon
<1>2. g[i] = [prev |-> i, out |-> u]
  BY <1>1, Zenon DEF cut
<1>3. g[i].prev = i /\ g[i].out = u
  BY <1>2
<1>4. u \o between(i, i) = u
  BY <1>1, Between0, ConcatNothing, Zenon
<1> QED BY <1>1, <1>3, <1>4, Zenon

\* A line without quotes is split at its blanks.
LEMMA WordsSplit ==
    ASSUME NEW L, NEW b \in Seq(L), Unquoted(b)
    PROVE  tokens(b) = split(b, whole(b), Blank)
<1>1. PICK v : v = trim(b, whole(b), Blank)
  OBVIOUS
<1>2. /\ Within(v, b)
      /\ \A k \in 1..Len(b) : k <= v.off \/ k > end(v) => b[k] \in Blank
  BY <1>1, Trimmed
<1>3. PICK h : Scans(h, b, v) /\ pares_cmd(b, v) = h[v.len].out \o token(h[v.len].start, end(v))
  BY <1>2, ScansExist
<1>4. PICK g : Cuts(g, b, Blank) /\ split(b, whole(b), Blank) = g[Len(b)].out \o between(g[Len(b)].prev, Len(b))
  BY CutsExist
<1>5. PICK o \in Nat, p \in Nat, n \in Nat, N \in Nat :
          o = v.off /\ p = end(v) /\ n = v.len /\ p = o + n /\ N = Len(b) /\ p <= N
  BY <1>2 DEF Within, Places, end
<1>a. p = o + n /\ p <= N
  BY <1>5
<1>6. \A k \in 1..N : g[k] = cut(b, Blank, g[k - 1], k)
  BY <1>4, <1>5 DEF Cuts
<1>7. g[0] = [prev |-> 0, out |-> <<>>]
  BY <1>4 DEF Cuts
<1>8. \A i \in 0..o : g[i].prev = i /\ g[i].out = <<>> /\ g[i] = [prev |-> i, out |-> <<>>]
  <2> DEFINE T == {i \in 0..o : g[i] = [prev |-> i, out |-> <<>>]}
  <2>1. 0 \in T
    BY <1>7
  <2>2. ASSUME NEW i \in 1..o, i - 1 \in T PROVE i \in T
    <3>1. PICK j \in Nat : j = i - 1 /\ i = j + 1
      OBVIOUS
    <3>2. g[j].prev = j /\ g[j].out = <<>>
      BY <2>2, <3>1
    <3>3. g[j].out \o between(g[j].prev, j) = <<>> /\ <<>> \in Seq(Places)
      <4>1. between(j, j) = <<>>
        BY Between0
      <4>2. <<>> \in Seq(Places)
        OBVIOUS
      <4> QED BY <3>2, <4>1, <4>2, ConcatNothing
    <3>4. b[j + 1] \in Blank /\ g[j + 1] = cut(b, Blank, g[j], j + 1)
      <4>1. i \in 1..N /\ i <= o
        BY <1>5
      <4> QED BY <1>2, <1>5, <1>6, <3>1, <4>1
    <3>5. g[i] = [prev |-> i, out |-> <<>>]
      <4>1. g[i] = [prev |-> i, out |-> g[j].out \o between(g[j].prev, i - 1)]
        BY <3>1, <3>4, Zenon DEF cut
      <4> QED BY <3>1, <3>3, <4>1, Zenon
    <3> QED BY <3>5
  <2>3. 0..o \subseteq T
    <3> HIDE DEF T
    <3> QED BY <2>1, <2>2, Induct
  <2>4. ASSUME NEW i \in 0..o PROVE g[i].prev = i /\ g[i].out = <<>> /\ g[i] = [prev |-> i, out |-> <<>>]
    <3>1. g[i] = [prev |-> i, out |-> <<>>]
      BY <2>3
    <3> QED BY <3>1
  <2> QED BY <2>4
<1>9. Same(g, h, o, n)
  <2> DEFINE T == {k \in 0..n : Same(g, h, o, k)}
  <2>1. 0 \in T
    <3>1. o \in 0..o /\ o + 0 = o /\ o <= o + 0 /\ 0 \in Nat
      OBVIOUS
    <3>2. h[0] = Keeping("", 0, <<>>)
      BY <1>3 DEF Scans, Idle
    <3>3. <<>> \in Seq(Places)
      OBVIOUS
    <3>4. g[o + 0] = [prev |-> o, out |-> <<>>]
      BY <1>8, <3>1, Zenon
    <3>5. 0 = (IF o = o + 0 THEN 0 ELSE o + 1)
      BY <3>1
    <3>6. Same(g, h, o, 0)
      BY <1>5, <3>1, <3>2, <3>3, <3>4, <3>5, Zenon DEF Same
    <3> QED BY <3>6
  <2>2. ASSUME NEW k \in 1..n, k - 1 \in T PROVE k \in T
    <3>0. PICK j \in Nat : j = k - 1 /\ j + 1 = k
      OBVIOUS
    <3>1. PICK i \in Nat : j = k - 1 /\ j + 1 = k /\ i = o + j + 1 /\ i = o + k /\ i \in 1..N /\ i - 1 = o + j
      BY <1>a, <3>0
    <3>2. h[j + 1] = scan(b, h[j], o + j + 1)
      BY <1>3, <1>5, <3>1 DEF Scans
    <3>3. g[o + j + 1] = cut(b, Blank, g[o + j], o + j + 1)
      BY <1>6, <3>1
    <3>4. b[o + j + 1] \notin Quotes
      BY <1>5, <3>1 DEF Unquoted
    <3>5. Same(g, h, o, j)
      BY <2>2, <3>1
    <3>6. Same(g, h, o, j + 1)
      BY <3>2, <3>3, <3>4, <3>5, SameScan
    <3> QED BY <3>1, <3>6
  <2>3. 0..n \subseteq T
    <3> HIDE DEF T
    <3> QED BY <2>1, <2>2, Induct
  <2> QED BY <2>3
<1>10. PICK a, m, w : /\ a \in Nat /\ m \in Nat /\ w \in Seq(Places) /\ a <= o + n
                      /\ h[n] = Keeping("", m, w) /\ g[o + n] = [prev |-> a, out |-> w]
                      /\ m = (IF a = o + n THEN 0 ELSE a + 1)
  BY <1>9, Zenon DEF Same
<1>11. PICK t : t = w \o between(a, p) /\ t \in Seq(Places)
  BY <1>5, <1>10, BetweenPlaces, ConcatProperties, Zenon
<1>12. tokens(b) = t
  <2>1. h[n].out = w /\ h[n].start = m
    <3>1. h[n] = Keeping("", m, w)
      BY <1>10, Zenon
    <3>2. Holds(Keeping("", m, w), m, w)
      BY KeepingFields, Zenon
    <3> QED BY <3>1, <3>2, Zenon DEF Holds
  <2>2. m = (IF a = p THEN 0 ELSE a + 1) /\ a \in Nat /\ a <= p
    BY <1>5, <1>10, Zenon
  <2>3. token(m, p) = between(a, p)
    BY <2>2, TokenBetween
  <2> QED BY <1>1, <1>3, <1>5, <1>11, <2>1, <2>3, Zenon DEF tokens
<1>13. g[p].out \o between(g[p].prev, p) = t
  <2>1. g[p] = [prev |-> a, out |-> w]
    BY <1>5, <1>10, Zenon
  <2>2. g[p].out = w /\ g[p].prev = a
    BY <2>1
  <2> QED BY <1>11, <2>2, Zenon
<1>14. g[N].out \o between(g[N].prev, N) = t
  <2> DEFINE T == {k \in 0..(N - p) : g[p + k].out \o between(g[p + k].prev, p + k) = t}
  <2>1. 0 \in T
    <3>1. p + 0 = p /\ 0 \in 0..(N - p)
      BY <1>5
    <3> QED BY <1>13, <3>1, Zenon
  <2>2. ASSUME NEW k \in 1..(N - p), k - 1 \in T PROVE k \in T
    <3>1. PICK j \in Nat : j = p + (k - 1) /\ j + 1 = p + k /\ j + 1 \in 1..N /\ (j + 1) - 1 = j /\ j + 1 > p
      BY <1>a
    <3>2. g[j].out \o between(g[j].prev, j) = t
      <4>1. g[p + (k - 1)].out \o between(g[p + (k - 1)].prev, p + (k - 1)) = t
        BY <2>2, Zenon
      <4> QED BY <3>1, <4>1, Zenon
    <3>3. b[j + 1] \in Blank
      BY <1>2, <1>5, <3>1
    <3>4. g[j + 1] = cut(b, Blank, g[j], j + 1)
      BY <1>6, <3>1, Zenon
    <3>5. g[j + 1].out \o between(g[j + 1].prev, j + 1) = t
      BY <1>11, <3>2, <3>3, <3>4, BlankCut, Zenon
    <3>6. g[p + k].out \o between(g[p + k].prev, p + k) = t
      BY <3>1, <3>5, Zenon
    <3>7. k \in 0..(N - p)
      BY <1>a
    <3> QED BY <3>6, <3>7, Zenon
  <2>3. N - p \in Nat /\ N - p \in 0..(N - p) /\ p + (N - p) = N
    BY <1>a
  <2>4. 0..(N - p) \subseteq T
    <3> HIDE DEF T
    <3> QED BY <2>1, <2>2, <2>3, Induct
  <2>5. g[p + (N - p)].out \o between(g[p + (N - p)].prev, p + (N - p)) = t
    BY <2>3, <2>4, Zenon
  <2> QED BY <2>3, <2>5, Zenon
<1> QED BY <1>4, <1>5, <1>12, <1>14, Zenon

\* What stands in quotes is one token.
QuotedAt(b, h, v, k, w, m, d) ==
    /\ h[k] = Keeping("", 0, w) /\ m # 0 /\ k + m + 2 <= v.len
    /\ d \in Quotes /\ b[v.off + k + 1] = d /\ b[v.off + k + m + 2] = d
    /\ \A j \in 1..m : b[v.off + k + 1 + j] # d

QuotedEnds(h, v, k, w, m) == h[k + m + 2] = Keeping("", 0, w \o <<View(v.off + k + 1, m)>>)

\* From the quote that opens to the one that closes, one token is kept and nothing else.
LEMMA QuotedToken ==
    ASSUME NEW b, NEW v, Within(v, b), NEW h, Scans(h, b, v),
           NEW k \in Nat, NEW m \in Nat, NEW w, NEW d, QuotedAt(b, h, v, k, w, m, d)
    PROVE  QuotedEnds(h, v, k, w, m)
<1>1. PICK o \in Nat : o = v.off
  BY DEF Within, Places
<1>2. PICK n \in Nat : n = v.len
  BY DEF Within, Places
<1>3. k + m + 2 <= n /\ m # 0
  BY <1>2, Zenon DEF QuotedAt
<1>a. h[k] = Keeping("", 0, w) /\ d \in Quotes /\ b[o + k + 1] = d /\ b[o + k + m + 2] = d
  BY <1>1, Zenon DEF QuotedAt
<1>b. \A j \in 1..m : b[o + k + 1 + j] # d
  BY <1>1, Zenon DEF QuotedAt
<1>4. PICK s \in Nat : s = o + k + 2 /\ s = o + (k + 1) + 1 /\ s # 0
  <2>1. o + k + 2 \in Nat /\ o + k + 2 = o + (k + 1) + 1 /\ o + k + 2 # 0
    OBVIOUS
  <2> QED BY <2>1, Zenon
<1>5. \A j \in 1..n : h[j] = scan(b, h[j - 1], o + j)
  BY <1>1, <1>2 DEF Scans
<1>6. d # ""
  BY <1>a DEF Quotes
<1>7. h[k + 1] = Keeping(d, s, w)
  <2>1. k + 1 \in 1..n /\ (k + 1) - 1 = k
    BY <1>3
  <2>2. h[k + 1] = scan(b, h[k], o + (k + 1))
    BY <1>5, <2>1
  <2>3. b[o + (k + 1)] = d
    <3>1. o + k + 1 = o + (k + 1)
      OBVIOUS
    <3> QED BY <1>a, <3>1, Zenon
  <2>4. Becomes(b, Keeping("", 0, w), o + (k + 1), Keeping(d, IF 0 = 0 THEN o + (k + 1) + 1 ELSE 0, w))
    <3>1. b[o + (k + 1)] \in Quotes
      BY <1>a, <2>3, Zenon
    <3> QED BY <2>3, <3>1, QuoteOpens, Zenon
  <2> QED BY <1>4, <1>a, <2>2, <2>4, Zenon DEF Becomes
<1>8. \A j \in 0..m : h[k + 1 + j] = Keeping(d, s, w)
  <2> DEFINE T == {j \in 0..m : h[k + 1 + j] = Keeping(d, s, w)}
  <2>1. 0 \in T
    <3>1. k + 1 + 0 = k + 1 /\ 0 \in 0..m
      OBVIOUS
    <3> QED BY <1>7, <3>1
  <2>2. ASSUME NEW j \in 1..m, j - 1 \in T PROVE j \in T
    <3>1. k + 1 + j \in 1..n /\ (k + 1 + j) - 1 = k + 1 + (j - 1) /\ o + (k + 1 + j) = o + k + 1 + j /\ j \in 0..m
      BY <1>3
    <3>2. h[k + 1 + j] = scan(b, h[k + 1 + (j - 1)], o + (k + 1 + j))
      BY <1>5, <3>1
    <3>3. b[o + (k + 1 + j)] # d
      <4>1. b[o + k + 1 + j] # d
        BY <1>b, Zenon
      <4> QED BY <3>1, <4>1, Zenon
    <3>4. h[k + 1 + (j - 1)] = Keeping(d, s, w)
      BY <2>2, Zenon
    <3>5. Becomes(b, Keeping(d, s, w), o + (k + 1 + j), Keeping(d, s, w))
      BY <1>6, <3>3, QuoteGoesOn, Zenon
    <3>6. h[k + 1 + j] = Keeping(d, s, w)
      BY <3>2, <3>4, <3>5, Zenon DEF Becomes
    <3> QED BY <3>1, <3>6, Zenon
  <2>3. 0..m \subseteq T
    <3> HIDE DEF T
    <3> QED BY <2>1, <2>2, Induct
  <2> QED BY <2>3, Zenon
<1>9. PICK j \in Nat : /\ j = k + m + 2 /\ j \in 1..n /\ j - 1 = k + 1 + m /\ o + j = o + k + m + 2
                        /\ (o + j) - 1 = s + m - 1
  <2>1. k + m + 2 \in Nat /\ k + m + 2 \in 1..n /\ (k + m + 2) - 1 = k + 1 + m /\ o + (k + m + 2) = o + k + m + 2
        /\ (o + (k + m + 2)) - 1 = s + m - 1
    BY <1>3, <1>4
  <2> QED BY <2>1, Zenon
<1>10. h[j] = Keeping("", 0, w \o token(s, s + m - 1))
  <2>1. h[j] = scan(b, h[j - 1], o + j)
    BY <1>5, <1>9, Zenon
  <2>2. h[j - 1] = Keeping(d, s, w)
    <3>1. m \in 0..m
      OBVIOUS
    <3> QED BY <1>8, <1>9, <3>1, Zenon
  <2>3. b[o + j] = d
    BY <1>a, <1>9, Zenon
  <2>4. Becomes(b, Keeping(d, s, w), o + j, Keeping("", 0, w \o token(s, (o + j) - 1)))
    BY <1>6, <2>3, QuoteCloses, Zenon
  <2> QED BY <1>9, <2>1, <2>2, <2>4, Zenon DEF Becomes
<1>11. token(s, s + m - 1) = <<View(o + k + 1, m)>>
  <2>1. s # 0 /\ s + m - 1 >= s /\ s - 1 = o + k + 1 /\ (s + m - 1) - s + 1 = m
    BY <1>3, <1>4
  <2> QED BY <2>1 DEF token
<1> QED BY <1>1, <1>9, <1>10, <1>11, Zenon DEF QuotedEnds

\* A line of two words in quotes, character by character.
Quoted(q, b) == <<q>> \o b \o <<q>>
LineIs(both, b, m, s, c, d) ==
    /\ Len(both) = 2 * m + 6 /\ both[1] = s /\ both[2] = c /\ both[m + 3] = c /\ both[m + 4] = s
    /\ both[m + 5] = d /\ both[2 * m + 6] = d
    /\ \A j \in 1..m : both[2 + j] = b[j] /\ both[m + 5 + j] = b[j]

QuotedWord(p, b, m, q) == Len(p) = m + 2 /\ p[1] = q /\ p[m + 2] = q /\ \A j \in 1..m : p[1 + j] = b[j]

Joined(a, c, t, n, k) ==
    Len(t) = n + k /\ (\A j \in 1..n : t[j] = a[j]) /\ \A j \in 1..k : t[n + j] = c[j]

\* The places of the characters of such a line.
LEMMA GluedAt ==
    ASSUME NEW a, NEW c, NEW t, NEW n \in Nat, NEW k \in Nat, n = Len(a), k = Len(c), Glued(a, c, t)
    PROVE  Joined(a, c, t, n, k)
BY DEF Glued, Begins, Joined

LEMMA OneNat == 1 \in Nat
OBVIOUS

LEMMA JustOne == ASSUME NEW X, NEW q \in X PROVE <<q>> \in Seq(X) /\ Len(<<q>>) = 1 /\ <<q>>[1] = q
OBVIOUS

LEMMA QuotedGlued ==
    ASSUME NEW b, NEW m \in Nat, m = Len(b), NEW q, NEW o, Len(o) = 1, o[1] = q,
           NEW u, Glued(o, b, u), NEW w, Glued(u, o, w)
    PROVE  QuotedWord(w, b, m, q)
<1>1. Len(u) = 1 + m /\ (\A j \in 1..1 : u[j] = o[j]) /\ \A j \in 1..m : u[1 + j] = b[j]
  <2>1. Joined(o, b, u, 1, m)
    BY OneNat, GluedAt, Zenon
  <2> QED BY <2>1, Zenon DEF Joined
<1>2. PICK n \in Nat : n = 1 + m /\ n = Len(u) /\ n + 1 = m + 2
  <2>1. 1 + m \in Nat /\ (1 + m) + 1 = m + 2
    OBVIOUS
  <2> QED BY <1>1, <2>1, Zenon
<1>3. Len(w) = n + 1 /\ (\A j \in 1..n : w[j] = u[j]) /\ \A j \in 1..1 : w[n + j] = o[j]
  <2>1. Joined(u, o, w, n, 1)
    BY <1>2, OneNat, GluedAt, Zenon
  <2> QED BY <2>1, Zenon DEF Joined
<1>4. w[1] = q /\ w[m + 2] = q
  BY <1>1, <1>2, <1>3
<1>5. \A j \in 1..m : w[1 + j] = b[j]
  BY <1>1, <1>2, <1>3
<1> QED BY <1>2, <1>3, <1>4, <1>5 DEF QuotedWord

LEMMA LineGlued ==
    ASSUME NEW b, NEW m \in Nat, NEW s, NEW c, NEW d, NEW o, Len(o) = 1, o[1] = s,
           NEW p, QuotedWord(p, b, m, c), NEW r, QuotedWord(r, b, m, d),
           NEW u, Glued(o, p, u), NEW w, Glued(u, o, w), NEW t, Glued(w, r, t)
    PROVE  LineIs(t, b, m, s, c, d)
<1>1. PICK k \in Nat : k = m + 2 /\ 1 + k \in Nat /\ (1 + k) + 1 = m + 4 /\ 1 + k = m + 3 /\ m + 4 \in Nat
                       /\ (m + 4) + k = 2 * m + 6
  <2>1. m + 2 \in Nat /\ 1 + (m + 2) \in Nat /\ (1 + (m + 2)) + 1 = m + 4 /\ 1 + (m + 2) = m + 3 /\ m + 4 \in Nat
        /\ (m + 4) + (m + 2) = 2 * m + 6
    OBVIOUS
  <2> QED BY <2>1, Zenon
<1>2. Len(p) = k /\ p[1] = c /\ p[k] = c /\ \A j \in 1..m : p[1 + j] = b[j]
  BY <1>1 DEF QuotedWord
<1>3. Len(r) = k /\ r[1] = d /\ r[k] = d /\ \A j \in 1..m : r[1 + j] = b[j]
  BY <1>1 DEF QuotedWord
<1>4. Len(u) = 1 + k /\ u[1] = s /\ \A j \in 1..k : u[1 + j] = p[j]
  <2>1. Joined(o, p, u, 1, k)
    BY <1>2, OneNat, GluedAt, Zenon
  <2>2. Len(u) = 1 + k /\ (\A j \in 1..1 : u[j] = o[j]) /\ \A j \in 1..k : u[1 + j] = p[j]
    BY <2>1, Zenon DEF Joined
  <2> QED BY <2>2
<1>5. Len(w) = m + 4 /\ w[m + 4] = s /\ \A j \in 1..(m + 3) : w[j] = u[j]
  <2>1. PICK n \in Nat : n = 1 + k
    BY <1>1
  <2>2. Joined(u, o, w, n, 1)
    BY <1>4, <2>1, OneNat, GluedAt, Zenon
  <2>3. Len(w) = n + 1 /\ (\A j \in 1..n : w[j] = u[j]) /\ \A j \in 1..1 : w[n + j] = o[j]
    BY <2>2, Zenon DEF Joined
  <2> QED BY <1>1, <2>1, <2>3
<1>6. Len(t) = 2 * m + 6 /\ (\A j \in 1..(m + 4) : t[j] = w[j]) /\ \A j \in 1..k : t[m + 4 + j] = r[j]
  <2>1. Joined(w, r, t, m + 4, k)
    BY <1>1, <1>3, <1>5, GluedAt, Zenon
  <2>2. Len(t) = m + 4 + k /\ (\A j \in 1..(m + 4) : t[j] = w[j]) /\ \A j \in 1..k : t[m + 4 + j] = r[j]
    BY <2>1, Zenon DEF Joined
  <2> QED BY <1>1, <2>2
<1>7. t[1] = s /\ t[m + 4] = s
  BY <1>4, <1>5, <1>6
<1>8. t[2] = c /\ t[m + 3] = c
  <2>1. t[2] = u[1 + 1] /\ t[m + 3] = u[1 + k]
    BY <1>1, <1>5, <1>6
  <2> QED BY <1>1, <1>2, <1>4, <2>1
<1>9. t[m + 5] = d /\ t[2 * m + 6] = d
  <2>1. t[m + 4 + 1] = r[1] /\ t[m + 4 + k] = r[k]
    BY <1>1, <1>6
  <2>2. m + 4 + 1 = m + 5 /\ m + 4 + k = 2 * m + 6
    BY <1>1
  <2> QED BY <1>3, <2>1, <2>2, Zenon
<1>10. ASSUME NEW j \in 1..m PROVE t[2 + j] = b[j] /\ t[m + 5 + j] = b[j]
  <2>1. t[2 + j] = u[1 + (1 + j)] /\ 1 + j \in 1..k
    BY <1>1, <1>5, <1>6
  <2>2. t[m + 4 + (1 + j)] = r[1 + j]
    BY <1>6, <2>1
  <2>3. m + 4 + (1 + j) = m + 5 + j
    OBVIOUS
  <2> QED BY <1>2, <1>3, <1>4, <2>1, <2>2, <2>3
<1> QED BY <1>6, <1>7, <1>8, <1>9, <1>10, Zenon DEF LineIs

\* A word in quotes, and the line of two of them.
LEMMA QuotedIs ==
    ASSUME NEW X, NEW b \in Seq(X), NEW q \in X, NEW m \in Nat, m = Len(b)
    PROVE  Quoted(q, b) \in Seq(X) /\ QuotedWord(Quoted(q, b), b, m, q)
<1>1. PICK o : o = <<q>> /\ o \in Seq(X) /\ Len(o) = 1 /\ o[1] = q
  BY JustOne, Zenon
<1>2. PICK u : u = o \o b /\ u \in Seq(X) /\ Glued(o, b, u)
  BY <1>1, ConcatProperties, ConcatGlued, Zenon
<1>3. PICK w : w = u \o o /\ w \in Seq(X) /\ Glued(u, o, w)
  BY <1>1, <1>2, ConcatProperties, ConcatGlued, Zenon
<1>4. QuotedWord(w, b, m, q)
  BY <1>1, <1>2, <1>3, QuotedGlued, Zenon
<1> QED BY <1>1, <1>2, <1>3, <1>4, Zenon DEF Quoted

LEMMA LineChars ==
    ASSUME NEW X, NEW b \in Seq(X), NEW s \in X, NEW c \in X, NEW d \in X, NEW m \in Nat, m = Len(b),
           NEW both, both = <<s>> \o Quoted(c, b) \o <<s>> \o Quoted(d, b)
    PROVE  both \in Seq(X) /\ LineIs(both, b, m, s, c, d)
<1>1. PICK o : o = <<s>> /\ o \in Seq(X) /\ Len(o) = 1 /\ o[1] = s
  BY JustOne, Zenon
<1>2. PICK p : p = Quoted(c, b) /\ p \in Seq(X) /\ QuotedWord(p, b, m, c)
  BY QuotedIs, Zenon
<1>3. PICK r : r = Quoted(d, b) /\ r \in Seq(X) /\ QuotedWord(r, b, m, d)
  BY QuotedIs, Zenon
<1>4. PICK u : u = o \o p /\ u \in Seq(X) /\ Glued(o, p, u)
  BY <1>1, <1>2, ConcatProperties, ConcatGlued, Zenon
<1>5. PICK w : w = u \o o /\ w \in Seq(X) /\ Glued(u, o, w)
  BY <1>1, <1>4, ConcatProperties, ConcatGlued, Zenon
<1>6. PICK t : t = w \o r /\ t \in Seq(X) /\ Glued(w, r, t)
  BY <1>3, <1>5, ConcatProperties, ConcatGlued, Zenon
<1>7. LineIs(t, b, m, s, c, d)
  BY <1>1, <1>2, <1>3, <1>4, <1>5, <1>6, LineGlued, Zenon
<1> QED BY <1>1, <1>2, <1>3, <1>4, <1>5, <1>6, <1>7, Zenon

\* Of that line, trim takes the separator in front off.
LEMMA LineTrimmed ==
    ASSUME NEW X, NEW both \in Seq(X), NEW b, NEW m \in Nat, NEW s, NEW c, NEW d, LineIs(both, b, m, s, c, d),
           s \in Blank, c \notin Blank, d \notin Blank
    PROVE  trim(both, whole(both), Blank) = View(1, 2 * m + 5)
<1>1. PICK v : v = trim(both, whole(both), Blank)
  OBVIOUS
<1>2. /\ Within(v, both) /\ (v.len = 0 => v = Nothing)
      /\ \A k \in 1..Len(both) : k <= v.off \/ k > end(v) => both[k] \in Blank
      /\ v.len # 0 => both[v.off + 1] \notin Blank /\ both[end(v)] \notin Blank
  BY <1>1, Trimmed
<1>3. Len(both) = 2 * m + 6 /\ both[1] \in Blank /\ both[2] \notin Blank /\ both[2 * m + 6] \notin Blank
  BY Zenon DEF LineIs
<1>4. v = [off |-> v.off, len |-> v.len] /\ v.off \in Nat /\ v.len \in Nat /\ end(v) = v.off + v.len
      /\ v.off + v.len <= Len(both)
  BY <1>2 DEF Within, Places, end
<1>5. ~(2 <= v.off \/ 2 > end(v)) /\ ~(2 * m + 6 > end(v))
  <2>1. 2 \in 1..Len(both) /\ 2 * m + 6 \in 1..Len(both)
    BY <1>3
  <2> QED BY <1>2, <1>3, <2>1, Zenon
<1>6. v.len # 0
  <2>1. v.len = 0 => end(v) = 0
    BY <1>2 DEF Nothing, View, end
  <2> QED BY <1>5, <2>1
<1>7. v.off # 0
  <2>1. v.off = 0 => both[0 + 1] \notin Blank
    BY <1>2, <1>6
  <2> QED BY <1>3, <2>1
<1>8. v.off = 1 /\ v.len = 2 * m + 5
  BY <1>3, <1>4, <1>5, <1>7
<1> QED BY <1>1, <1>4, <1>8 DEF View

ReadsAt(both, o, m, b) == chars(both, View(o, m)) = b

\* The characters of a view.
LEMMA PlaceChars ==
    ASSUME NEW X, NEW b \in Seq(X), NEW Y, NEW both \in Seq(Y), NEW m \in Nat, m = Len(b),
           NEW o \in Nat, o + m <= Len(both), \A j \in 1..m : both[o + j] = b[j]
    PROVE  ReadsAt(both, o, m, b)
<1>1. chars(both, View(o, m)) = SubSeq(both, o + 1, o + m)
  BY DEF chars, View, end
<1>2. PICK n \in Nat : n = Len(both) /\ o + m <= n
  OBVIOUS
<1>3. PICK c : c = SubSeq(both, o + 1, o + m)
  OBVIOUS
<1>4. c \in Seq(Y) /\ Len(c) = m /\ \A j \in 1..m : c[j] = both[o + 1 + j - 1]
  BY <1>2, <1>3
<1>5. \A j \in 1..m : c[j] = b[j]
  BY <1>4
<1>6. c = b
  BY <1>4, <1>5
<1> QED BY <1>1, <1>3, <1>6 DEF ReadsAt

Pairs(x, y) ==
    /\ <<>> \o <<x>> = <<x>> /\ <<x>> \o <<y>> = <<x, y>> /\ <<x, y>> \o <<>> = <<x, y>>
    /\ Len(<<x, y>>) = 2 /\ <<x, y>>[1] = x /\ <<x, y>>[2] = y

LEMMA TwoPlaces == ASSUME NEW X, NEW x \in X, NEW y \in X PROVE Pairs(x, y)
<1>1. <<>> \o <<x>> = <<x>> /\ <<x, y>> \o <<>> = <<x, y>>
  OBVIOUS
<1>2. Len(<<x, y>>) = 2 /\ <<x, y>>[1] = x /\ <<x, y>>[2] = y /\ <<x, y>> \in Seq(X)
  OBVIOUS
<1>3. PICK t : t = <<x>> \o <<y>>
  OBVIOUS
<1>4. t \in Seq(X) /\ Len(t) = 2 /\ t[1] = x /\ t[2] = y
  BY <1>3
<1>5. t = <<x, y>>
  <2>1. PICK u : u = <<x, y>> /\ u \in Seq(X) /\ Len(u) = 2 /\ u[1] = x /\ u[2] = y
    BY <1>2, Zenon
  <2>2. \A i \in 1..2 : t[i] = u[i]
    BY <1>4, <2>1
  <2>3. t = u
    BY <1>4, <2>1, <2>2, SeqEqual
  <2> QED BY <2>1, <2>3, Zenon
<1> QED BY <1>1, <1>2, <1>3, <1>5, Zenon DEF Pairs

LEMMA ViewPlaces == ASSUME NEW o \in Nat, NEW m \in Nat PROVE View(o, m) \in Places
BY DEF View, Places

\* A word without quotes has no character that closes it.
LEMMA QuoteMarks ==
    ASSUME NEW b, Unquoted(b), NEW m \in Nat, m = Len(b), NEW d \in Quotes
    PROVE  \A j \in 1..m : b[j] # d
BY Zenon DEF Unquoted

\* The tokens of that line are the two words.
LEMMA TwoWords ==
    ASSUME NEW Y, NEW both \in Seq(Y), NEW b, Unquoted(b), NEW m \in Nat, m # 0, m = Len(b),
           NEW s, NEW c, NEW d, LineIs(both, b, m, s, c, d), s \in Blank, s \notin Quotes,
           c \in Quotes, c \notin Blank, d \in Quotes, d \notin Blank
    PROVE  tokens(both) = <<View(2, m), View(m + 5, m)>>
<1>1. PICK v : v = View(1, 2 * m + 5)
  OBVIOUS
<1>2. trim(both, whole(both), Blank) = v
  BY <1>1, LineTrimmed, Zenon
<1>3. v.off = 1 /\ v.len = 2 * m + 5 /\ end(v) = 2 * m + 6
  <2>1. v = [off |-> 1, len |-> 2 * m + 5]
    BY <1>1 DEF View
  <2> QED BY <2>1 DEF end
<1>a. /\ Len(both) = 2 * m + 6 /\ both[1] = s /\ both[2] = c /\ both[m + 3] = c /\ both[m + 4] = s
      /\ both[m + 5] = d /\ both[2 * m + 6] = d
      /\ \A j \in 1..m : both[2 + j] = b[j] /\ both[m + 5 + j] = b[j]
  BY Zenon DEF LineIs
<1>4. Within(v, both)
  <2>1. v \in Places
    BY <1>1 DEF View, Places
  <2> QED BY <1>3, <1>a, <2>1 DEF Within
<1>5. PICK h : Scans(h, both, v) /\ pares_cmd(both, v) = h[v.len].out \o token(h[v.len].start, end(v))
  BY <1>4, ScansExist
<1>6. PICK w : w = <<View(2, m)>> /\ w \in Seq(Places) /\ <<>> \o w = w
  <2>1. View(2, m) \in Places
    <3>1. 2 \in Nat
      OBVIOUS
    <3> QED BY <3>1, ViewPlaces, Zenon
  <2>2. Pairs(View(2, m), View(2, m)) /\ <<View(2, m)>> \in Seq(Places)
    BY <2>1, TwoPlaces, JustOne, Zenon
  <2> QED BY <2>2, Zenon DEF Pairs
<1>7. h[m + 2] = Keeping("", 0, w)
  <2>1. h[0] = Keeping("", 0, <<>>)
    BY <1>5, Zenon DEF Scans, Idle
  <2>2. 0 + m + 2 <= 2 * m + 5 /\ 1 + 0 + 1 = 2 /\ 1 + 0 + m + 2 = m + 3 /\ 0 + m + 2 = m + 2 /\ 0 \in Nat
    OBVIOUS
  <2>3. \A j \in 1..m : both[1 + 0 + 1 + j] # c
    <3>1. 1 + 0 + 1 = 2
      OBVIOUS
    <3> SUFFICES ASSUME NEW j \in 1..m PROVE both[2 + j] # c
      BY <3>1, Zenon
    <3>2. both[2 + j] = b[j]
      BY <1>a, Zenon
    <3>3. b[j] # c
      BY QuoteMarks, Zenon
    <3> QED BY <3>2, <3>3, Zenon
  <2>4. QuotedAt(both, h, v, 0, <<>>, m, c)
    BY <1>3, <1>a, <2>1, <2>2, <2>3, Zenon DEF QuotedAt
  <2>6. QuotedEnds(h, v, 0, <<>>, m)
    BY <1>4, <1>5, <2>2, <2>4, QuotedToken, Zenon
  <2>5. h[0 + m + 2] = Keeping("", 0, <<>> \o <<View(v.off + 0 + 1, m)>>)
    BY <2>6, Zenon DEF QuotedEnds
  <2> QED BY <1>3, <1>6, <2>2, <2>5, Zenon
<1>8. h[m + 3] = Keeping("", 0, w)
  <2>1. m + 3 \in 1..(2 * m + 5) /\ (m + 3) - 1 = m + 2 /\ 1 + (m + 3) = m + 4
    OBVIOUS
  <2>2. h[m + 3] = scan(both, h[m + 2], m + 4)
    BY <1>3, <1>5, <2>1, Zenon DEF Scans
  <2>3. Becomes(both, Keeping("", 0, w), m + 4, Keeping("", 0, w \o token(0, (m + 4) - 1)))
    BY <1>a, BlankEnds, Zenon
  <2>4. token(0, (m + 4) - 1) = <<>>
    BY DEF token
  <2>5. w \o <<>> = w
    BY <1>6, ConcatNothing, Zenon
  <2> QED BY <1>7, <2>2, <2>3, <2>4, <2>5, Zenon DEF Becomes
<1>9. h[2 * m + 5] = Keeping("", 0, w \o <<View(m + 5, m)>>)
  <2>1. /\ m + 3 \in Nat /\ (m + 3) + m + 2 = 2 * m + 5 /\ (m + 3) + m + 2 <= 2 * m + 5
        /\ 1 + (m + 3) + 1 = m + 5 /\ 1 + (m + 3) + m + 2 = 2 * m + 6
    OBVIOUS
  <2>2. \A j \in 1..m : both[1 + (m + 3) + 1 + j] # d
    <3> SUFFICES ASSUME NEW j \in 1..m PROVE both[m + 5 + j] # d
      BY <2>1, Zenon
    <3>2. both[m + 5 + j] = b[j]
      BY <1>a, Zenon
    <3>3. b[j] # d
      BY QuoteMarks, Zenon
    <3> QED BY <3>2, <3>3, Zenon
  <2>3. QuotedAt(both, h, v, m + 3, w, m, d)
    BY <1>3, <1>8, <1>a, <2>1, <2>2, Zenon DEF QuotedAt
  <2>5. QuotedEnds(h, v, m + 3, w, m)
    BY <1>4, <1>5, <2>1, <2>3, QuotedToken, Zenon
  <2>4. h[(m + 3) + m + 2] = Keeping("", 0, w \o <<View(v.off + (m + 3) + 1, m)>>)
    BY <2>5, Zenon DEF QuotedEnds
  <2> QED BY <1>3, <2>1, <2>4, Zenon
<1>10. PICK t : t = w \o <<View(m + 5, m)>> /\ t = <<View(2, m), View(m + 5, m)>> /\ t \o <<>> = t
  <2>1. View(2, m) \in Places /\ View(m + 5, m) \in Places
    <3>1. 2 \in Nat /\ m + 5 \in Nat
      OBVIOUS
    <3> QED BY <3>1, ViewPlaces, Zenon
  <2>2. Pairs(View(2, m), View(m + 5, m))
    BY <2>1, TwoPlaces, Zenon
  <2> QED BY <1>6, <2>2, Zenon DEF Pairs
<1>11. Holds(h[2 * m + 5], 0, t)
  <2>1. Holds(Keeping("", 0, t), 0, t)
    BY KeepingFields, Zenon
  <2> QED BY <1>9, <1>10, <2>1, Zenon
<1>12. token(0, 2 * m + 6) = <<>>
  BY DEF token
<1> QED BY <1>2, <1>3, <1>5, <1>10, <1>11, <1>12, Zenon DEF tokens, Holds

ReadsTwice(both, b) == texts(both, tokens(both)) = <<b, b>>

\* And each reads as it was written.
LEMMA WordsQuoted ==
    ASSUME NEW X, NEW b \in Seq(X), Unquoted(b), b # <<>>,
           NEW s \in X, NEW c \in X, NEW d \in X, s \in Blank, s \notin Quotes,
           c \in Quotes, c \notin Blank, d \in Quotes, d \notin Blank,
           NEW both, both = <<s>> \o Quoted(c, b) \o <<s>> \o Quoted(d, b)
    PROVE  ReadsTwice(both, b)
<1>1. PICK m \in Nat : m = Len(b) /\ m # 0
  <2>1. Len(b) \in Nat /\ Len(b) # 0
    BY EmptySeq, SeqLen
  <2> QED BY <2>1, Zenon
<1>2. both \in Seq(X) /\ LineIs(both, b, m, s, c, d)
  BY <1>1, LineChars, Zenon
<1>3. tokens(both) = <<View(2, m), View(m + 5, m)>>
  BY <1>1, <1>2, TwoWords, Zenon
<1>4. Len(both) = 2 * m + 6 /\ (\A j \in 1..m : both[2 + j] = b[j]) /\ \A j \in 1..m : both[m + 5 + j] = b[j]
  BY <1>2, Zenon DEF LineIs
<1>5. 2 \in Nat /\ 2 + m <= 2 * m + 6 /\ m + 5 \in Nat /\ m + 5 + m <= 2 * m + 6
  BY <1>1
<1>6. chars(both, View(2, m)) = b /\ chars(both, View(m + 5, m)) = b
  <2>1. ReadsAt(both, 2, m, b)
    BY <1>1, <1>2, <1>4, <1>5, PlaceChars, Zenon
  <2>2. ReadsAt(both, m + 5, m, b)
    BY <1>1, <1>2, <1>4, <1>5, PlaceChars, Zenon
  <2> QED BY <2>1, <2>2, Zenon DEF ReadsAt
<1>7. PICK t : t = <<View(2, m), View(m + 5, m)>> /\ Len(t) = 2 /\ t[1] = View(2, m) /\ t[2] = View(m + 5, m)
  <2>1. View(2, m) \in Places /\ View(m + 5, m) \in Places
    BY <1>5, ViewPlaces, Zenon
  <2>2. Pairs(View(2, m), View(m + 5, m))
    BY <2>1, TwoPlaces, Zenon
  <2> QED BY <2>2, Zenon DEF Pairs
<1>8. texts(both, t) = [i \in 1..2 |-> b]
  <2>1. \A i \in 1..2 : chars(both, t[i]) = b
    BY <1>6, <1>7
  <2>2. texts(both, t) = [i \in 1..2 |-> chars(both, t[i])]
    BY <1>7, Zenon DEF texts
  <2> QED BY <2>1, <2>2, Zenon
<1>9. [i \in 1..2 |-> b] = <<b, b>>
  OBVIOUS
<1> QED BY <1>3, <1>7, <1>8, <1>9, Zenon DEF ReadsTwice

LEMMA SeqMore == ASSUME NEW X, NEW Y, NEW b \in Seq(X) PROVE b \in Seq(X \cup Y)
OBVIOUS

\* A line without quotes is split at its blanks; what stands in quotes is one token: of every line.
LEMMA TokensWords == ASSUME NEW L, NEW b \in Seq(L) PROVE Words(b)
<1>1. (\A i \in DOMAIN b : b[i] \notin Quotes) => Unquoted(b)
  <2>1. DOMAIN b = 1..Len(b)
    OBVIOUS
  <2> QED BY <2>1, Zenon DEF Unquoted
<1>2. Unquoted(b) => texts(b, tokens(b)) = texts(b, split(b, whole(b), Blank))
  BY WordsSplit, Zenon
<1>3. PICK both : both = <<" ">> \o Quoted("\"", b) \o <<" ">> \o Quoted("'", b)
  OBVIOUS
<1>4. Unquoted(b) /\ b # <<>> => texts(both, tokens(both)) = <<b, b>>
  <2>1. PICK Y : Y = {" ", "\"", "'"}
    OBVIOUS
  <2>2. " " \in L \cup Y /\ "\"" \in L \cup Y /\ "'" \in L \cup Y
    BY <2>1, Zenon
  <2>3. b \in Seq(L \cup Y)
    BY SeqMore, Zenon
  <2>4. " " \in Blank /\ " " \notin Quotes /\ "\"" \in Quotes /\ "\"" \notin Blank /\ "'" \in Quotes /\ "'" \notin Blank
    BY DEF Blank, Quotes
  <2>5. ASSUME Unquoted(b), b # <<>> PROVE ReadsTwice(both, b)
    BY <1>3, <2>2, <2>3, <2>4, <2>5, WordsQuoted, Zenon
  <2> QED BY <2>5, Zenon DEF ReadsTwice
<1> QED BY <1>1, <1>2, <1>3, <1>4, Zenon DEF Words, Quoted

\* The string consists of its letters.
TextInv == call = "text" => text \in Seq(Letters)

\* A string is built one letter at a time.
LEMMA AppendSeq == ASSUME NEW X, NEW s \in Seq(X), NEW c \in X PROVE Append(s, c) \in Seq(X)
OBVIOUS

LEMMA EmptyText == ASSUME NEW X PROVE <<>> \in Seq(X)
OBVIOUS

\* So it stays made of them.
LEMMA TextKept == TextInv /\ [LibraryNext]_libraryVars => TextInv'
<1> SUFFICES ASSUME TextInv, [LibraryNext]_libraryVars PROVE TextInv'
  OBVIOUS
<1>1. CASE UNCHANGED <<call, text>>
  BY <1>1, Zenon DEF TextInv
<1>2. CASE call \in {"text", "numbers"} /\ grow /\ UNCHANGED call
  <2> SUFFICES ASSUME call' = "text" PROVE text' \in Seq(Letters)
    BY Zenon DEF TextInv
  <2>1. call = "text" /\ text \in Seq(Letters)
    BY <1>2, Zenon DEF TextInv
  <2>2. PICK c \in Letters : text' = Append(text, c)
    BY <1>2, <2>1, Zenon DEF grow
  <2> QED BY <2>1, <2>2, AppendSeq, Zenon
<1>3. [LibraryNext]_libraryVars => UNCHANGED <<call, text>> \/ (call \in {"text", "numbers"} /\ grow /\ UNCHANGED call)
  BY Zenon DEF LibraryNext, libraryVars
<1> QED BY <1>1, <1>2, <1>3, Zenon

\* The console's tokenizer reads every line back: TokensReadBack.
THEOREM TokensRead == LibrarySpec => []TokensReadBack
<1>1. LibraryInit => TextInv
  BY EmptyText, Zenon DEF LibraryInit, TextInv
<1>2. TextInv /\ [LibraryNext]_libraryVars => TextInv'
  BY TextKept
<1>3. TextInv => TokensReadBack
  BY TokensCover, TokensWords, Zenon DEF TextInv, TokensReadBack
<1> QED BY <1>1, <1>2, <1>3, PTL DEF LibrarySpec
=============================================================================
