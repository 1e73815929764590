-------------------------------- MODULE Str --------------------------------
(***************************************************************************)
(* Str (src/src/str.h, src/src/str.cpp): a string that owns its characters, here the *)
(* sequence of them.  Operations that return a StrView are given by the      *)
(* characters it shows.                                                      *)
(***************************************************************************)
EXTENDS Number, SequencesExt

from(s, i) == SubSeq(s, i, Len(s))

append(s, t) == s \o t
plus(s, t) == s \o t \* operator+ and +=, which also take a number as std::to_string writes it
insert(s, pos, t) == SubSeq(s, 1, pos) \o t \o from(s, pos + 1)
erase(s, pos, n) == SubSeq(s, 1, pos) \o from(s, pos + n + 1)

\* compare(0, n, prefix) looks at no more characters than there are.
starts_with(s, prefix) == SubSeq(s, 1, IF Len(prefix) < Len(s) THEN Len(prefix) ELSE Len(s)) = prefix
ends_with(s, suffix) == Len(suffix) <= Len(s) /\ from(s, Len(s) - Len(suffix) + 1) = suffix

\* The first place at or after pos where t stands, or 0.
find(s, t, pos) ==
    LET at == {i \in pos..(Len(s) - Len(t) + 1) : SubSeq(s, i, i + Len(t) - 1) = t}
    IN  IF at = {} THEN 0 ELSE CHOOSE i \in at : \A j \in at : i <= j
contains(s, t) == find(s, t, 1) # 0

\* The last one.
rfind(s, t) ==
    LET at == {i \in 1..(Len(s) - Len(t) + 1) : SubSeq(s, i, i + Len(t) - 1) = t}
    IN  IF at = {} THEN 0 ELSE CHOOSE i \in at : \A j \in at : i >= j

find_first_of(s, set) == SelectInSeq(s, LAMBDA c : c \in set)
find_last_of(s, set) == SelectLastInSeq(s, LAMBDA c : c \in set)
find_first_not_of(s, set) == SelectInSeq(s, LAMBDA c : c \notin set)
find_last_not_of(s, set) == SelectLastInSeq(s, LAMBDA c : c \notin set)

trim_start(s, set) ==
    LET start == find_first_not_of(s, set)
    IN  IF start = 0 THEN <<>> ELSE from(s, start)
trim_end(s, set) == SubSeq(s, 1, find_last_not_of(s, set))
trim(s, set) ==
    LET start == find_first_not_of(s, set)
    IN  IF start = 0 THEN <<>> ELSE SubSeq(s, start, find_last_not_of(s, set))

replace(s, old, new) ==
    LET pos == find(s, old, 1)
    IN  IF pos = 0 THEN s ELSE SubSeq(s, 1, pos - 1) \o new \o from(s, pos + Len(old))

\* The search goes on behind what was put in.
replace_all(s, old, new) ==
    LET rest[pos \in 1..(Len(s) + 1)] ==
            LET at == find(s, old, pos)
            IN  IF at = 0 THEN from(s, pos)
                ELSE SubSeq(s, pos, at - 1) \o new \o rest[at + Len(old)]
    IN  IF old = <<>> THEN s ELSE rest[1]

\* The loop keeps the piece it is in; a piece without characters is dropped.
kept(acc) == IF acc.piece = <<>> THEN acc.out ELSE Append(acc.out, acc.piece)
cut(acc, delims, c) ==
    IF c \in delims THEN [piece |-> <<>>, out |-> kept(acc)]
    ELSE [piece |-> Append(acc.piece, c), out |-> acc.out]
split(s, delims) ==
    kept(FoldLeft(LAMBDA r, c : cut(r, delims, c), [piece |-> <<>>, out |-> <<>>], s))

to_bool(s) == s \in {<<"t", "r", "u", "e">>, <<"1">>}

substr(s, pos, len) == IF pos >= Len(s) THEN <<>> ELSE SubSeq(s, pos + 1, IF pos + len > Len(s) THEN Len(s) ELSE pos + len)

-----------------------------------------------------------------------------
(***************************************************************************)
(* Numbers.                                                                 *)
(***************************************************************************)
\* snprintf with %d, or with %x or %o, which take the integer as unsigned; int64_t and
\* uint64_t have the width of long.
written(n, bits, base) ==
    IF base \in {8, 16} THEN to_digits(n % 2^bits, base, Lower)
    ELSE (IF n < 0 THEN <<"-">> ELSE <<>>) \o to_digits(IF n < 0 THEN 0 - n ELSE n, 10, Lower)
from_int(n, base) == written(n, IntBits, base)
from_uint(n, base) == written(n, IntBits, base)
from_int64(n, base) == written(n, LongBits, base)
from_uint16(n, base) == written(n, LongBits, base) \* which takes a uint64_t
from_bool(v) == IF v THEN <<"t", "r", "u", "e">> ELSE <<"f", "a", "l", "s", "e">>

negative(s) == s # <<>> /\ Head(s) = "-"
magnitude(s, base) ==
    LET body == IF negative(s) THEN Tail(s) ELSE s
        ok   == {Lower[i] : i \in 1..base}
        stop == SelectInSeq(body, LAMBDA c : c \notin ok)
    IN  FoldLeft(LAMBDA n, c : n * base + digit_of(c), 0,
                 IF stop = 0 THEN body ELSE SubSeq(body, 1, stop - 1))

\* What a long cannot hold is read as its limit; strtoul negates behind the limit.
limited(n, max) == IF n > max THEN max ELSE n
strtol(s, base) ==
    LET max == 2^(LongBits - 1) - 1
    IN  IF negative(s) THEN 0 - limited(magnitude(s, base), max + 1) ELSE limited(magnitude(s, base), max)
strtoul(s, base) ==
    LET n == limited(magnitude(s, base), 2^LongBits - 1)
    IN  IF negative(s) /\ magnitude(s, base) = n THEN (0 - n) % 2^LongBits ELSE n

\* The long is cut to an int.
to_int(s, base) == wrap(strtol(s, base), IntBits)
to_uint(s, base) == strtoul(s, base) % 2^IntBits
to_int64(s, base) == strtol(s, base)
to_uint64(s, base) == strtoul(s, base)
=============================================================================
