------------------------------ MODULE CPrintf ------------------------------
(***************************************************************************)
(* What C says a conversion writes, and where Printf agrees with it.         *)
(***************************************************************************)
EXTENDS Printf

CONSTANTS
    ShortBits,  \* width of short: 16
    CharBits    \* width of char: 8

ASSUME LengthAssumption ==
    /\ CharBits \in Nat \ {0} /\ ShortBits \in Nat
    /\ CharBits <= ShortBits /\ ShortBits <= IntBits

fill(s, d, c) == copies(c, d.width - Len(s))
in_field(s, d) == IF has(d, "left") THEN s \o fill(s, d, " ") ELSE fill(s, d, " ") \o s
zero_filled(head, body, d) ==
    head \o (IF has(d, "zeropad") /\ ~has(d, "left") THEN fill(head \o body, d, "0") ELSE <<>>) \o body

sign_of(neg, d) ==
    IF neg THEN <<"-">> ELSE IF has(d, "plus") THEN <<"+">>
    ELSE IF has(d, "space") THEN <<" ">> ELSE <<>>

\* The argument is passed as an int or a long, and C converts it to the type the length names.
passed_bits(d) == IF has(d, "long") THEN LongBits ELSE IntBits
width_of(d) == IF has(d, "char") THEN CharBits ELSE IF has(d, "short") THEN ShortBits ELSE passed_bits(d)
of_width(c, v, bits) == IF c = "d" THEN wrap(v, bits) ELSE v % 2^bits
converted(c, v, d) == of_width(c, v, width_of(d))
magnitude(c, v, d) == IF converted(c, v, d) < 0 THEN 0 - converted(c, v, d) ELSE converted(c, v, d)
min_digits(d) == IF has(d, "precision") THEN d.prec ELSE 0
raw(c, n, d) ==
    IF n = 0 /\ has(d, "precision") THEN <<>>
    ELSE to_digits(n, base_of(c), IF c = "X" THEN Upper ELSE Lower)
marked(c, n, d) == has(d, "hash") /\ base_of(c) # 10 /\ n # 0

\* An integer: sign, mark of the base, at least min_digits digits, in a field.  The mark of an
\* octal number is a zero that it would not begin with.
c_integer(c, v, d) ==
    LET n    == magnitude(c, v, d)
        body == copies("0", min_digits(d) - Len(raw(c, n, d))) \o raw(c, n, d)
        zero == has(d, "hash") /\ min_digits(d) <= Len(raw(c, n, d)) /\ (n # 0 \/ raw(c, n, d) = <<>>)
        mark == IF c = "o" THEN IF zero THEN <<"0">> ELSE <<>> ELSE IF marked(c, n, d) THEN <<"0", c>> ELSE <<>>
        head == (IF c = "d" THEN sign_of(converted(c, v, d) < 0, d) ELSE <<>>) \o mark
    IN  in_field(IF has(d, "precision") THEN head \o body ELSE zero_filled(head, body, d), d)

\* A double rounded to the nearest number of parts; halfway, as IEC 60559 has it, to the even one.
nearest(v, scale) ==
    LET n  == v.whole * scale + v.frac
        up == \/ v.rest = "above"
              \/ v.rest = "half" /\ (v.exact = "more" \/ (v.exact = "same" /\ n % 2 = 1))
    IN  IF up THEN n + 1 ELSE n

asked_of(d) == IF has(d, "precision") THEN d.prec ELSE DefaultFrac
decimals_of(d) == smaller(asked_of(d), MaxFrac)

\* Its digits, without sign and field.
plain(v, d) ==
    LET p == decimals_of(d)
        n == nearest(v, pow10(p))
        f == to_digits((n % pow10(p)) + pow10(p), 10, Lower)
    IN  to_digits(n \div pow10(p), 10, Lower)
          \o (IF asked_of(d) = 0 /\ ~has(d, "hash") THEN <<>> ELSE <<".">>)
          \o (IF p = 0 THEN <<>> ELSE Tail(f)) \o copies("0", asked_of(d) - p)

c_float(v, d) == in_field(zero_filled(sign_of(v.neg, d), plain(v, d), d), d)

-----------------------------------------------------------------------------
(***************************************************************************)
(* Where Printf differs.  N is the number of characters that are digits.    *)
(***************************************************************************)
\* Everything fits into the buffer, the zeros of a field included.
Room(N, d, extra) == N + extra <= Bufsiz /\ (has(d, "zeropad") /\ ~has(d, "left") => d.width <= Bufsiz)

\* A sign that has no room in a field filled by digits takes the place of the first.
SignFits(N, d, neg) == signed(d, neg) => N # d.width

UsualInteger(c, v, d) ==
    LET n == magnitude(c, v, d)
        L == Len(raw(c, n, d))
        N == IF L > min_digits(d) THEN L ELSE min_digits(d)
        pads == has(d, "zeropad") /\ ~has(d, "precision") /\ ~has(d, "left")
    IN  /\ Room(N, d, 2)
        /\ ~d.omitted                                \* taken as the precision 0
        /\ converted(c, v, d) = of_width(c, v, passed_bits(d))  \* h and hh cut nothing off
        /\ c = "d" => SignFits(N, d, v < 0)
        /\ c = "d" /\ ~has(d, "long") => n < 2^(IntBits - 1)    \* the least int
        /\ has(d, "left") => min_digits(d) <= L      \* no leading zeros
        /\ has(d, "hash") =>                         \* the mark, like the sign
            /\ c \in {"x", "X"} => n = 0 \/ has(d, "precision") \/
                                   (N # d.width /\ ~(pads /\ d.width = N + 1))
            /\ c = "b" => n = 0 \/ has(d, "precision") \/ (N # d.width /\ ~(pads /\ N < d.width))
            /\ c = "o" => ~has(d, "precision") /\ (n = 0 \/ N # d.width)

UsualFloat(v, d) ==
    LET p == decimals_of(d)
        N == Len(to_digits(v.whole + 1, 10, Lower)) + asked_of(d) + 1
    IN  /\ ~beyond(v) /\ Room(N, d, 1)
        /\ ~d.omitted
        /\ v.neg => negative(v)                      \* no sign of -0.0
        /\ has(d, "hash") => asked_of(d) > 0         \* no point without decimals
        /\ asked_of(d) > MaxFrac => v.rest = "none" /\ v.exact = "same"  \* the others are zeros
        /\ SignFits(Len(plain(v, d)), d, v.neg)
        \* A product rounded to a half goes the way of a half, with no carry out of the nines.
        /\ v.rest = "half" /\ v.exact # "same" => (v.exact = "more" <=> round_frac(v, p) = v.frac + 1)
        /\ ~(p > 0 /\ v.rest = "half" /\ v.frac = pow10(p) - 1)

\* A conversion of an integer or a double writes what C says: at every flag, width,
\* precision, length and value, except where the conditions above name a difference.
ConformsToC ==
    CASE last.c \in {"d", "u", "x", "X", "o", "b"} ->
            UsualInteger(last.c, last.v, last.d) => out = c_integer(last.c, last.v, last.d)
      [] last.c = "f" -> UsualFloat(last.v, last.d) => out = c_float(last.v, last.d)
      [] OTHER -> TRUE
=============================================================================
