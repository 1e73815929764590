------------------------------- MODULE Scanf -------------------------------
(***************************************************************************)
(* Scanf (src/src/scanf.cpp): one call of vscanf on an input that is still   *)
(* arriving.  scanf_read_char does not wait: where nothing has arrived it    *)
(* returns EOF.  Each read of a character is a step.                        *)
(*                                                                          *)
(* The symbols of a format are conversions such as "%d" and characters.      *)
(* What a sender sends is a sequence of items [sym, text, value]: the value  *)
(* and the characters that show it, or a character of the format.            *)
(***************************************************************************)
EXTENDS Number, SequencesExt

CONSTANTS
    Formats,     \* the formats
    Items,       \* the items
    MaxItems     \* bound: the items sent

VARIABLES
    fmt,              \* what is left of the format
    at,               \* the loop that reads: "format", "sign", "first", "digits", "fsign",
                      \* "float", "string"; or "returned", "overrun"
    val, neg, places, \* the number read so far; decimals behind the point, -1 before it
    got,              \* what was stored through the arguments, in order
    ring, coming,     \* the input that has arrived, and that has not
    starved,          \* ghost: EOF was read before all had arrived
    format, sent      \* ghost: the whole format, and the items

Space == {" "}
EOF == "EOF"
Conversions == {"%d", "%f", "%s"}

\* The text t of an item shows its value in decimal, with one character behind it: the
\* digits in body, a sign before them, and in a double a point among them.
value_of(body) ==
    FoldLeft(LAMBDA n, c : IF c \in Decimal THEN n * 10 + digit_of(c) ELSE n, 0, body)
decimals_in(body) ==
    IF "." \in Range(body) THEN Len(body) - CHOOSE k \in DOMAIN body : body[k] = "." ELSE 0
digits_in(t, Marks) ==
    LET body == Front(t)
    IN  /\ t # <<>> /\ Last(t) \notin Decimal \cup Marks /\ (body = <<>> => Last(t) # "-")
        /\ \A k \in DOMAIN body : body[k] \in Decimal \cup Marks \/ (k = 1 /\ body[k] = "-")
with_sign(t, n) == IF Head(t) = "-" THEN 0 - n ELSE n

Shows(i) ==
    CASE i.sym = "%d" -> /\ digits_in(i.text, {}) /\ Len(i.text) > 1 /\ Last(Front(i.text)) \in Decimal
                         /\ i.value = with_sign(i.text, value_of(Front(i.text)))
                         /\ i.value \in (0 - 2^(IntBits - 1))..(2^(IntBits - 1) - 1)
      [] i.sym = "%f" -> /\ digits_in(i.text, {"."})
                         /\ \A k, m \in DOMAIN i.text : i.text[k] = "." /\ i.text[m] = "." => k = m
                         /\ i.value = <<with_sign(i.text, value_of(Front(i.text))), decimals_in(Front(i.text))>>
      [] i.sym = "%s" -> /\ i.value \in Seq(STRING) /\ Range(i.value) \cap (Space \cup {EOF}) = {}
                         /\ \E c \in Space : i.text = Append(i.value, c)
      [] OTHER -> i.sym \notin {"%x", "%"} /\ i.text = <<i.sym>>

ASSUME ScanfAssumption ==
    /\ MaxItems \in Nat /\ Formats \subseteq Seq(STRING)
    /\ \A i \in Items : i.sym \in STRING /\ i.text \in Seq(STRING) /\ Shows(i)

number == <<val, neg, places>>
scanfVars == <<fmt, at, val, neg, places, got, ring, coming, starved, format, sent>>

texts_sent == [i \in 1..Len(sent) |-> sent[i].text]

ScanfInit ==
    /\ format \in Formats /\ fmt = format /\ at = "format"
    /\ val = 0 /\ neg = FALSE /\ places = -1 /\ got = <<>>
    /\ sent \in UNION {[1..n -> Items] : n \in 0..MaxItems}
    /\ ring = <<>> /\ coming = FlattenSeq(texts_sent)
    /\ starved = FALSE

-----------------------------------------------------------------------------
uart_intput ==
    /\ at \notin {"returned", "overrun"} /\ coming # <<>>
    /\ ring' = Append(ring, Head(coming)) /\ coming' = Tail(coming)
    /\ UNCHANGED <<fmt, at, number, got, starved, format, sent>>

\* What it returns, and what it does to the input.
next_char == IF ring = <<>> THEN EOF ELSE Head(ring)
scanf_read_char ==
    /\ ring' = IF ring = <<>> THEN ring ELSE Tail(ring)
    /\ starved' = (starved \/ (ring = <<>> /\ coming # <<>>))
    /\ UNCHANGED <<coming, format, sent>>

\* Mutant: what ends a number is read again.
scanf_put_back ==
    /\ starved' = (starved \/ (ring = <<>> /\ coming # <<>>))
    /\ UNCHANGED <<ring, coming, format, sent>>
read_terminator == scanf_read_char

goes(to) == at' = to /\ UNCHANGED <<fmt, got>>
returns == goes("returned") /\ UNCHANGED number
stores(v) == at' = "format" /\ got' = Append(got, v) /\ fmt' = Tail(fmt)

\* A character of the format must be the next one of the input.
match ==
    /\ at = "format" /\ fmt # <<>> /\ Head(fmt) \notin Conversions \cup {"%x", "%"}
    /\ scanf_read_char
    /\ IF next_char = Head(fmt) THEN fmt' = Tail(fmt) /\ UNCHANGED <<at, number, got>> ELSE returns

begin(sym, loop) ==
    /\ at = "format" /\ fmt # <<>> /\ Head(fmt) = sym
    /\ goes(loop) /\ val' = (IF sym = "%s" THEN <<>> ELSE 0) /\ neg' = FALSE /\ places' = -1
    /\ UNCHANGED <<ring, coming, starved, format, sent>>

\* Other conversions are ignored; behind a '%' that ends the format, the loop goes on
\* past the end.
ignore ==
    /\ at = "format" /\ fmt # <<>> /\ Head(fmt) \in {"%x", "%"}
    /\ IF fmt = <<"%">> THEN goes("overrun") ELSE fmt' = Tail(fmt) /\ UNCHANGED <<at, got>>
    /\ UNCHANGED <<number, ring, coming, starved, format, sent>>

end_of_scan ==
    /\ at = "format" /\ fmt = <<>> /\ returns
    /\ UNCHANGED <<ring, coming, starved, format, sent>>

minus ==
    /\ at \in {"sign", "fsign"} /\ next_char = "-"
    /\ scanf_read_char
    /\ goes(IF at = "sign" THEN "first" ELSE "float") /\ neg' = TRUE /\ UNCHANGED <<val, places>>

\* %d needs a digit; overflow of val is taken to wrap.
first_digit ==
    /\ at = "first" \/ (at = "sign" /\ next_char # "-")
    /\ scanf_read_char
    /\ IF next_char \in Decimal
       THEN goes("digits") /\ val' = digit_of(next_char) /\ UNCHANGED <<neg, places>>
       ELSE returns

digit ==
    /\ at = "digits" /\ next_char \in Decimal
    /\ scanf_read_char
    /\ goes("digits") /\ val' = wrap(val * 10 + digit_of(next_char), IntBits) /\ UNCHANGED <<neg, places>>

store_int ==
    /\ at = "digits" /\ next_char \notin Decimal
    /\ read_terminator
    /\ stores(IF neg THEN wrap(0 - val, IntBits) ELSE val) /\ UNCHANGED number

\* %f takes any run of digits and points, also an empty one.
float_char ==
    /\ at \in {"fsign", "float"} /\ next_char \in Decimal \cup {"."}
    /\ scanf_read_char
    /\ goes("float")
    /\ IF next_char = "." THEN val' = val /\ places' = IF places < 0 THEN 0 ELSE places
       ELSE val' = val * 10 + digit_of(next_char) /\ places' = IF places < 0 THEN places ELSE places + 1
    /\ UNCHANGED neg

\* The value is exact here: val scaled by its decimals.
store_float ==
    /\ at \in {"fsign", "float"} /\ next_char \notin Decimal \cup {"."} /\ (next_char = "-" => at = "float")
    /\ read_terminator
    /\ stores(<<IF neg THEN 0 - val ELSE val, IF places < 0 THEN 0 ELSE places>>) /\ UNCHANGED number

\* %s reads to the next space; EOF is neither a space nor '\0' and is stored, again and
\* again, behind the end of any buffer.
string_char ==
    /\ at = "string" /\ next_char \notin Space
    /\ scanf_read_char
    /\ IF next_char = EOF THEN goes("overrun") /\ UNCHANGED val
       ELSE goes("string") /\ val' = Append(val, next_char)
    /\ UNCHANGED <<neg, places>>

store_string ==
    /\ at = "string" /\ next_char \in Space
    /\ scanf_read_char
    /\ stores(val) /\ UNCHANGED number

ScanfNext ==
    \/ uart_intput \/ ignore \/ end_of_scan
    \/ begin("%d", "sign") \/ begin("%f", "fsign") \/ begin("%s", "string")
    \/ match \/ minus \/ first_digit \/ digit \/ store_int
    \/ float_char \/ store_float \/ string_char \/ store_string

-----------------------------------------------------------------------------
\* Once all has arrived in time, a format that asks for what was sent, an item for each
\* symbol, stores every value as it was sent, and leaves nothing of the input: each
\* number and string takes the one separator behind it.
symbols == [i \in 1..Len(format) |-> IF format[i] = "%x" THEN <<>> ELSE <<format[i]>>]
values == [i \in 1..Len(sent) |-> IF sent[i].sym \in Conversions THEN <<sent[i].value>> ELSE <<>>]
Asked == FlattenSeq(symbols) = [i \in 1..Len(sent) |-> sent[i].sym]
ReadsBack ==
    at = "returned" /\ ~starved /\ Asked => got = FlattenSeq(values) /\ ring = <<>> /\ coming = <<>>
=============================================================================
