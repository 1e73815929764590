-------------------------------- MODULE Text --------------------------------
(***************************************************************************)
(* What Str, StrView and the console's tokenizer promise of each other, for  *)
(* the characters b of a string.                                            *)
(***************************************************************************)
EXTENDS Number, Tokens

S == INSTANCE Str

piece(b, m) == SubSeq(b, m + 1, least(m + 2, Len(b)))
texts(b, views) == [i \in 1..Len(views) |-> chars(b, views[i])]
Inside(w, v) == w.len = 0 \/ (w.off >= v.off /\ end(w) <= end(v))

\* Every operation of a view gives what the same operation gives on a copy of its
\* characters, and does not look outside of the view.
Denotes(b, v, set) ==
    LET s == chars(b, v)
    IN  /\ Inside(trim(b, v, set), v) /\ chars(b, trim(b, v, set)) = S!trim(s, set)
        /\ Inside(trim_start(b, v, set), v) /\ chars(b, trim_start(b, v, set)) = S!trim_start(s, set)
        /\ Inside(trim_end(b, v, set), v) /\ chars(b, trim_end(b, v, set)) = S!trim_end(s, set)
        /\ texts(b, split(b, v, set)) = S!split(s, set)
        /\ \A i \in DOMAIN split(b, v, set) : Inside(split(b, v, set)[i], v)
        /\ find_first_of(b, v, set) = S!find_first_of(s, set) /\ find_last_of(b, v, set) = S!find_last_of(s, set)
        /\ LET n == S!find_first_of(s, set)
               m == S!find_last_of(Reverse(s), set)
           IN  m = (IF n = 0 THEN 0 ELSE Len(s) - n + 1)

ViewsAgree(b) ==
    \A off, n \in 0..Len(b) :
        LET v == substr(whole(b), off, n)
            s == S!substr(b, off, n)
        IN  /\ chars(b, v) = s /\ to_bool(b, v) = S!to_bool(s)
            /\ \A set \in {Blank, Quotes, Blank \cup {"a"}} : Denotes(b, v, set)
            /\ \A m \in 0..Len(b) :
                  LET t == piece(b, m)
                  IN  /\ starts_with(b, v, t) = S!starts_with(s, t)
                      /\ ends_with(b, v, t) = S!ends_with(s, t)
                      /\ contains(b, v, t) = S!contains(s, t)
                      /\ find(b, v, t) = S!find(s, t, 1) /\ rfind(b, v, t) = S!rfind(s, t)

\* The first of two occurrences that overlap counts.
replaced(b, u, t) ==
    LET step(r, i) ==
            IF r.skip > 0 THEN [r EXCEPT !.skip = @ - 1]
            ELSE IF i + Len(u) - 1 <= Len(b) /\ SubSeq(b, i, least(i + Len(u) - 1, Len(b))) = u
            THEN [skip |-> Len(u) - 1, out |-> r.out \o t]
            ELSE [r EXCEPT !.out = Append(@, b[i])]
    IN  FoldLeft(step, [skip |-> 0, out |-> <<>>], [i \in 1..Len(b) |-> i]).out

\* What is inserted can be erased; replace_all replaces each occurrence once, from the
\* left, and what it has put in is not searched again.
Edits(b) ==
    \A m \in 0..Len(b), t \in {<<>>, <<"a">>, <<"b", "a">>} :
        LET u == piece(b, m)
        IN  /\ S!erase(S!insert(b, m, t), m, Len(t)) = b
            /\ u # <<>> => S!replace_all(b, u, t) = replaced(b, u, t)
            /\ S!replace_all(b, u, u) = b /\ S!replace(b, u, u) = b
            /\ S!append(S!substr(b, 0, m), S!substr(b, m, Len(b))) = b
            /\ u # <<>> => LET at == S!find(b, u, 1) - 1 IN
                  S!replace(b, u, t) = S!plus(S!substr(b, 0, at), S!plus(t, S!substr(b, at + Len(u), Len(b))))

\* A view is copied before it is converted, so that strtol stops at its end.
to_int(b, v, base) == S!to_int(chars(b, v), base)
to_uint(b, v, base) == S!to_uint(chars(b, v), base)
to_int64(b, v, base) == S!to_int64(chars(b, v), base)
to_uint64(b, v, base) == S!to_uint64(chars(b, v), base)

\* Numbers read back as they were written, also where other digits stand around them;
\* but a negative int64_t only in decimal, and in octal and hexadecimal a negative int
\* only where a long is longer, as 2^IntBits fits only a longer one.
NumbersReadBack ==
    /\ \A n \in (0 - 2^(IntBits - 1))..(2^(IntBits - 1) - 1), base \in {8, 10, 16} :
          LET s == S!from_int(n, base)
              u == S!from_uint(n % 2^IntBits, base)
              b == <<"7">> \o u \o <<"1">>
              k == Len(s)
          IN  /\ LongBits > IntBits \/ n >= 0 \/ base = 10 => S!to_int(s, base) = n
              /\ LongBits > IntBits => to_int(<<"7">> \o s \o <<"1">>, View(1, k), base) = n
              /\ S!to_uint(u, base) = n % 2^IntBits /\ to_uint(b, View(1, Len(u)), base) = n % 2^IntBits
    /\ \A m \in {0 - 2^(LongBits - 1), -1, 0, 2^IntBits, 2^(LongBits - 1) - 1}, base \in {8, 10, 16} :
          m < 2^(LongBits - 1) =>
          LET s == S!from_int64(m, base)
              u == S!from_uint16(m % 2^LongBits, base)
          IN  /\ S!to_int64(s, base) = (IF m >= 0 \/ base = 10 THEN m ELSE 2^(LongBits - 1) - 1)
              /\ to_int64(s \o <<"1">>, View(0, Len(s)), base) = S!to_int64(s, base)
              /\ S!to_uint64(u, base) = m % 2^LongBits
              /\ to_uint64(<<"1">> \o u, View(1, Len(u)), base) = m % 2^LongBits
    /\ \A v \in BOOLEAN : S!to_bool(S!from_bool(v)) = v

-----------------------------------------------------------------------------
\* The tokens of a line stand in it in their order, and leave out only blanks and
\* quotes.
Cover(b) ==
    LET ts == tokens(b)
        In(i) == \E k \in DOMAIN ts : i > ts[k].off /\ i <= end(ts[k])
    IN  /\ \A k \in 2..Len(ts) : end(ts[k - 1]) <= ts[k].off
        /\ \A i \in DOMAIN b : In(i) \/ b[i] \in Blank \cup Quotes

\* A line without quotes is split at its blanks; what stands in quotes is one token.
Words(b) ==
    LET quoted(q) == <<q>> \o b \o <<q>>
        line == <<" ">> \o quoted("\"") \o <<" ">> \o quoted("'")
    IN  /\ (\A i \in DOMAIN b : b[i] \notin Quotes) =>
              texts(b, tokens(b)) = texts(b, split(b, whole(b), Blank))
        /\ (\A i \in DOMAIN b : b[i] \notin Quotes) /\ b # <<>> => texts(line, tokens(line)) = <<b, b>>
=============================================================================
