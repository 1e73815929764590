------------------------------- MODULE Printf -------------------------------
(***************************************************************************)
(* Printf (src/src/printf.cpp): one call of vprintf.  The format is not stored: *)
(* each step reads its next symbol, a character or a whole number, and the   *)
(* environment chooses the symbol and the argument a conversion takes.       *)
(*                                                                          *)
(* Numbers are converted into a buffer that the code fills from its last     *)
(* character to its first; here it is a sequence in the order of writing.    *)
(***************************************************************************)
EXTENDS Number, SequencesExt

CONSTANTS
    Bufsiz,     \* PRF_NTOA_BUFSIZ = PRF_FTOA_BUFSIZ = 32
    DefaultFrac, MaxFrac, \* decimals by default, 6, and at most, 9: more are zeros
    MaxWhole,   \* thres_max = 0x7FFFFFFF
    Ints,       \* the integers given as arguments
    Wholes,     \* the whole parts of doubles
    Texts,      \* the strings
    Numbers     \* the widths and precisions

ASSUME PrintfAssumption ==
    /\ Bufsiz \in Nat \ {0} /\ MaxFrac \in 1..9 /\ DefaultFrac \in 0..MaxFrac /\ MaxWhole \in Nat
    /\ Ints \subseteq (0 - 2^(LongBits - 1))..(2^(LongBits - 1) - 1)
    /\ Wholes \subseteq Nat /\ Numbers \subseteq Nat \ {0}

VARIABLES
    phase,   \* what is read next: "text", in a directive "flags", "point", "precision",
             \* "length" or "specifier", "skip", or nothing: "returned", "overrun"
    flags, width, precision,
    out,     \* what the last step gave to printf_write_char
    last,    \* ghost: the conversion that wrote it, [c, d, v], or NoConversion
    omitted  \* ghost: the precision is an argument below 0, which C takes as not given

printfVars == <<phase, flags, width, precision, out, last, omitted>>

NoConversion == [c |-> "none"]

smaller(m, n) == IF m < n THEN m ELSE n
copies(c, n) == [i \in 1..n |-> c]
keep_last(s, n) == IF Len(s) <= n THEN s ELSE SubSeq(s, Len(s) - n + 1, Len(s))

-----------------------------------------------------------------------------
(***************************************************************************)
(* Conversions.  d is a directive: [flags, width, prec, omitted].           *)
(***************************************************************************)
has(d, f) == f \in d.flags
signed(d, neg) == neg \/ has(d, "plus") \/ has(d, "space")
drop(s) == IF s = <<>> THEN s ELSE Tail(s)

\* buf[len++] = c, if there is room.
lead(s, c) == IF Len(s) < Bufsiz THEN <<c>> \o s ELSE s
zeros(s, n) == copies("0", smaller(n, Bufsiz) - Len(s)) \o s

spaces(s, d) ==
    LET blanks == copies(" ", d.width - Len(s))
    IN  IF has(d, "left") THEN s \o blanks ELSE IF has(d, "zeropad") THEN s ELSE blanks \o s

\* A sign, or the base, takes the place of a digit where the digits fill the width:
\* that of a zero put there to fill it, or of a digit of the number.
sign(s, neg, d) ==
    LET t == IF s # <<>> /\ Len(s) = d.width /\ signed(d, neg) THEN drop(s) ELSE s
    IN  IF neg THEN lead(t, "-") ELSE IF has(d, "plus") THEN lead(t, "+")
        ELSE IF has(d, "space") THEN lead(t, " ") ELSE t

mark_base(s, base, d) ==
    LET fills == ~has(d, "precision") /\ s # <<>> /\ Len(s) \in {d.prec, d.width}
        t == IF ~fills THEN s ELSE IF base = 16 THEN drop(drop(s)) ELSE drop(s)
        u == IF base = 16 THEN lead(t, IF has(d, "uppercase") THEN "X" ELSE "x")
             ELSE IF base = 2 THEN lead(t, "b") ELSE t
    IN  lead(u, "0")

ntoa(s, neg, base, d) ==
    LET t == IF has(d, "left") THEN s
             ELSE IF has(d, "zeropad") THEN zeros(zeros(s, d.prec), d.width) ELSE zeros(s, d.prec)
        u == IF has(d, "hash") THEN mark_base(t, base, d) ELSE t
    IN  spaces(sign(u, neg, d), d)

ltoa(n, neg, base, d) ==
    LET s == to_digits(n, base, IF has(d, "uppercase") THEN Upper ELSE Lower)
    IN  ntoa(IF has(d, "precision") /\ n = 0 THEN <<>> ELSE keep_last(s, Bufsiz),
             neg, base, IF n = 0 THEN [d EXCEPT !.flags = @ \ {"hash"}] ELSE d)

\* The same for unsigned long long.
lltoa(n, neg, base, d) == ltoa(n, neg, base, d)

\* ABS in the type of its argument: the least int stays negative, and is extended to long.
ABS(v, bits) == IF v < 0 /\ v # 0 - 2^(bits - 1) THEN 0 - v ELSE v % 2^LongBits

base_of(c) == IF c \in {"x", "X"} THEN 16 ELSE IF c = "o" THEN 8 ELSE IF c = "b" THEN 2 ELSE 10

integer(c, v, d) ==
    LET bits == IF has(d, "long") THEN LongBits ELSE IntBits
        off  == (IF base_of(c) = 10 THEN {"hash"} ELSE {})
                \cup (IF c # "d" THEN {"plus", "space"} ELSE {})
                \cup (IF has(d, "precision") THEN {"zeropad"} ELSE {})
        e    == [d EXCEPT !.flags = (@ \ off) \cup (IF c = "X" THEN {"uppercase"} ELSE {})]
        n    == IF c = "d" THEN ABS(v, bits) ELSE v % 2^bits
        neg  == c = "d" /\ v < 0
    IN  IF has(d, "longlong") THEN lltoa(n, neg, base_of(c), e) ELSE ltoa(n, neg, base_of(c), e)

pow10(p) == <<1, 10, 100, 1000, 10000, 100000, 1000000, 10000000, 100000000, 1000000000>>[p + 1]

\* A double, finite, is its sign, its whole part and its fraction times 10^p as computed:
\* frac, its digits as a number, and rest, where the remainder stands to one half ("none":
\* there is none).  The product is rounded: the exact one is "less", the "same" or "more".
negative(v) == v.neg /\ ~(v.whole = 0 /\ v.frac = 0 /\ v.rest = "none")
beyond(v) == v.whole > MaxWhole \/ (v.whole = MaxWhole /\ (v.frac # 0 \/ v.rest # "none"))

round_frac(v, p) ==
    IF v.rest = "above" \/ (v.rest = "half" /\ (v.frac = 0 \/ v.frac % 2 = 1)) THEN v.frac + 1 ELSE v.frac

\* Mutant: the carry is looked for before the last digit is rounded up.
late_rollover(v, p) == v.rest = "above" /\ v.frac >= pow10(p)
rollover(v, p) == v.rest = "above" /\ v.frac + 1 >= pow10(p)

\* The decimals: where the number has more than p digits, the count of zeros to add
\* has wrapped, and they fill the buffer.
decimals(frac, p, extra) ==
    LET s == to_digits(frac, 10, Lower)
    IN  zeros(keep_last(s \o extra, Bufsiz), IF Len(s) <= p THEN p + Len(extra) ELSE Bufsiz)

ftoa(v, d) ==
    LET asked == IF has(d, "precision") THEN d.prec ELSE DefaultFrac
        p     == smaller(asked, MaxFrac)
        extra == copies("0", asked - p)
        up    == rollover(v, p)
        whole == IF up THEN v.whole + 1
                 ELSE IF p = 0 /\ v.rest = "half" /\ v.whole % 2 = 1 THEN v.whole + 1 ELSE v.whole
        tail  == IF p = 0 THEN extra
                 ELSE lead(decimals(IF up THEN 0 ELSE round_frac(v, p), p, extra), ".")
        all   == keep_last(to_digits(whole, 10, Lower), Bufsiz - Len(tail)) \o tail
        t     == IF ~has(d, "left") /\ has(d, "zeropad") THEN zeros(all, d.width) ELSE all
    IN  IF beyond(v) THEN <<>> ELSE spaces(sign(t, negative(v), d), d)

\* %c, %s and %%.
character(v, d) == spaces(<<v>>, [d EXCEPT !.flags = @ \ {"zeropad"}])
string(v, d) == spaces(IF has(d, "precision") THEN SubSeq(v, 1, smaller(d.prec, Len(v))) ELSE v,
                       [d EXCEPT !.flags = @ \ {"zeropad"}])
pointer(v, d) ==
    <<"0", "x">> \o lltoa(v, FALSE, 16, [d EXCEPT !.width = LongBits \div 4,
                                                  !.flags = @ \cup {"zeropad", "uppercase"}])

-----------------------------------------------------------------------------
(***************************************************************************)
(* vprintf.                                                                 *)
(***************************************************************************)
PrintfInit ==
    /\ phase = "text" /\ flags = {} /\ width = 0 /\ precision = 0
    /\ out = <<>> /\ last = NoConversion /\ omitted = FALSE

directive == [flags |-> flags, width |-> width, prec |-> precision, omitted |-> omitted]
InDirective == phase \in {"flags", "point", "precision", "length", "specifier"}

\* A step that reads a symbol of a directive and writes nothing.
reads(from, to) == phase \in from /\ phase' = to /\ UNCHANGED <<out, last>>

writes(s, conversion) ==
    /\ out' = s /\ last' = conversion
    /\ UNCHANGED <<flags, width, precision, omitted>>

literal(c) == phase = "text" /\ phase' = "text" /\ writes(<<c>>, NoConversion)

percent ==
    /\ phase = "text" /\ phase' = "flags"
    /\ flags' = {} /\ width' = 0 /\ precision' = 0 /\ omitted' = FALSE
    /\ out' = <<>> /\ last' = NoConversion

flag(f) ==
    /\ reads({"flags"}, "flags")
    /\ flags' = flags \cup {f}
    /\ UNCHANGED <<width, precision, omitted>>

\* Digits, or '*' with the argument n.
width_field(n) ==
    /\ reads({"flags"}, "point")
    /\ width' = IF n < 0 THEN 0 - n ELSE n
    /\ flags' = IF n < 0 THEN flags \cup {"left"} ELSE flags
    /\ UNCHANGED <<precision, omitted>>

point ==
    /\ reads({"flags", "point"}, "precision")
    /\ flags' = flags \cup {"precision"}
    /\ UNCHANGED <<width, precision, omitted>>

precision_field(n) ==
    /\ reads({"precision"}, "length")
    /\ precision' = (IF n > 0 THEN n ELSE 0) /\ omitted' = (n < 0)
    /\ UNCHANGED <<flags, width>>

\* "long": l, t, j and z; "longlong": ll.  "short", h, and "char", hh, no conversion looks at.
length_field(fs) ==
    /\ reads({"flags", "point", "precision", "length"}, "specifier")
    /\ flags' = flags \cup fs
    /\ UNCHANGED <<width, precision, omitted>>

converts(c, v, s) ==
    /\ InDirective /\ phase' = "text"
    /\ writes(s, [c |-> c, d |-> directive, v |-> v])

\* The argument has the type that the length asks for.
argument_bits == IF "long" \in flags THEN LongBits ELSE IntBits
convert_integer(c, v) ==
    /\ v \in (0 - 2^(argument_bits - 1))..(2^(argument_bits - 1) - 1)
    /\ converts(c, v, integer(c, v, directive))
convert_float(v) == converts("f", v, ftoa(v, directive))
convert_char(v) == converts("c", v, character(v, directive))
convert_string(v) == converts("s", v, string(v, directive))
convert_pointer(v) == converts("p", v, pointer(v, directive))
convert_percent == converts("%", "%", <<"%">>)

\* Any other symbol is written, and the one behind it is skipped.
unknown(c) == InDirective /\ phase' = "skip" /\ writes(<<c>>, NoConversion)
skip == phase = "skip" /\ phase' = "text" /\ writes(<<>>, NoConversion)

\* The end of the format.  In a directive it counts as an unknown symbol, is written,
\* and the loop goes on behind it.
end_of_format ==
    /\ phase \notin {"returned", "overrun"}
    /\ phase' = IF phase = "text" THEN "returned" ELSE "overrun"
    /\ writes(IF InDirective THEN <<"NUL">> ELSE <<>>, NoConversion)

\* The digits of a fraction at the ends of their range, where rounding carries, and one fraction
\* that ends in a half: frac + 1/2 parts are a double only if fives divides 2 * frac + 1.
\* Exact is told where it matters, of a product that is a half or a digit.  No length but l
\* goes with %f.
Doubles ==
    LET asked == IF has(directive, "precision") THEN precision ELSE DefaultFrac
        p     == smaller(asked, MaxFrac)
        top   == pow10(p) - 1
        fives == <<1, 5, 25, 125, 625, 3125, 15625, 78125, 390625, 1953125>>[p + 1]
        all   == [neg : BOOLEAN, whole : Wholes, frac : {0, 1, 2, 12, top} \cap 0..top,
                  rest : {"none", "below", "half", "above"}, exact : {"less", "same", "more"}]
    IN  {v \in all :
            /\ flags \cap {"short", "longlong"} = {}
            /\ v.exact # "same" => p > 0 /\ (v.rest = "half" \/ (v.rest = "none" /\ v.frac # 0))
            /\ v.rest = "half" /\ v.exact = "same" => (2 * v.frac + 1) % fives = 0}

PrintfNext ==
    \/ literal("a") \/ percent \/ point \/ convert_percent \/ unknown("y") \/ skip \/ end_of_format
    \/ \E f \in {"zeropad", "left", "plus", "space", "hash"} : flag(f)
    \/ \E n \in Numbers : width_field(n) \/ width_field(0 - n) \/ precision_field(n) \/ precision_field(0 - n)
    \/ \E fs \in {{}, {"long"}, {"long", "longlong"}, {"short"}, {"short", "char"}} : length_field(fs)
    \/ \E c \in {"d", "u", "x", "X", "o", "b"}, v \in Ints : convert_integer(c, v)
    \/ \E v \in Doubles : convert_float(v)
    \/ \E s \in Texts : convert_string(s) \/ (s # <<>> /\ convert_char(Head(s)))
    \/ \E v \in Ints : convert_pointer(v % 2^LongBits)
=============================================================================
