------------------------------ MODULE StrView ------------------------------
(***************************************************************************)
(* StrView (src/src/str_view.h, src/src/str_view.cpp): a string that belongs to     *)
(* somebody else.  A view of the characters b of its owner is a place in b   *)
(* and a length; everything a view returns is a view of the same b, or the   *)
(* constant "".                                                              *)
(***************************************************************************)
EXTENDS Integers, SequencesExt

View(off, len) == [off |-> off, len |-> len]
whole(b) == View(0, Len(b))
Nothing == View(0, 0)
end(v) == v.off + v.len
chars(b, v) == SubSeq(b, v.off + 1, end(v))

\* Positions count from 1 and 0 is npos.
find_first_of(b, v, set) == SelectInSeq(chars(b, v), LAMBDA c : c \in set)
find_first_not_of(b, v, set) == SelectInSeq(chars(b, v), LAMBDA c : c \notin set)
find_last_of(b, v, set) == SelectLastInSeq(chars(b, v), LAMBDA c : c \in set)
find_last_not_of(b, v, set) == SelectLastInSeq(chars(b, v), LAMBDA c : c \notin set)

remove_prefix(v, n) == View(v.off + n, v.len - n)
remove_suffix(v, n) == View(v.off, v.len - n)

starts_with(b, v, prefix) ==
    Len(prefix) <= v.len /\ chars(b, View(v.off, Len(prefix))) = prefix
ends_with(b, v, suffix) ==
    Len(suffix) <= v.len /\ chars(b, View(end(v) - Len(suffix), Len(suffix))) = suffix
Stands(b, v, s) == {n \in 0..v.len : starts_with(b, remove_prefix(v, n), s)}
find(b, v, s) ==
    IF Stands(b, v, s) = {} THEN 0 ELSE (CHOOSE n \in Stands(b, v, s) : \A m \in Stands(b, v, s) : n <= m) + 1
rfind(b, v, s) ==
    IF Stands(b, v, s) = {} THEN 0 ELSE (CHOOSE n \in Stands(b, v, s) : \A m \in Stands(b, v, s) : n >= m) + 1
contains(b, v, s) == Stands(b, v, s) # {}

trim_start(b, v, set) ==
    LET start == find_first_not_of(b, v, set)
    IN  IF start = 0 THEN Nothing ELSE remove_prefix(v, start - 1)

trim_end(b, v, set) ==
    LET last == find_last_not_of(b, v, set)
    IN  IF last = 0 THEN Nothing ELSE View(v.off, last)

\* Mutant: the length is not reduced by what is cut off in front.
trim_long(b, v, set) ==
    LET start == find_first_not_of(b, v, set)
    IN  IF start = 0 THEN Nothing ELSE View(v.off + start - 1, find_last_not_of(b, v, set))

trim(b, v, set) ==
    LET start == find_first_not_of(b, v, set)
    IN  IF start = 0 THEN Nothing
        ELSE View(v.off + start - 1, find_last_not_of(b, v, set) - start + 1)

\* The loop keeps where the current piece began; pieces without characters are dropped.
between(prev, pos) == IF pos > prev THEN <<View(prev, pos - prev)>> ELSE <<>>
cut(b, delims, acc, i) ==
    IF b[i] \in delims THEN [prev |-> i, out |-> acc.out \o between(acc.prev, i - 1)] ELSE acc
split(b, v, delims) ==
    LET acc == FoldLeft(LAMBDA r, i : cut(b, delims, r, i), [prev |-> v.off, out |-> <<>>],
                        [i \in 1..v.len |-> v.off + i])
    IN  acc.out \o between(acc.prev, end(v))

least(m, n) == IF m < n THEN m ELSE n

\* substr(pos, len); without len, it is as long as it can be.
substr(v, pos, len) ==
    IF pos >= v.len THEN Nothing ELSE View(v.off + pos, least(len, v.len - pos))

to_bool(b, v) == chars(b, v) \in {<<"t", "r", "u", "e">>, <<"1">>}
=============================================================================
