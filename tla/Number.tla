------------------------------- MODULE Number -------------------------------
(***************************************************************************)
(* The integers of C that Str, Printf and Scanf convert: their widths, and   *)
(* their digits as characters.                                              *)
(***************************************************************************)
EXTENDS Integers, Sequences

CONSTANTS
    IntBits,    \* width of int: 32
    LongBits    \* width of long and of long long: 64 on a host

ASSUME WidthAssumption == IntBits \in Nat \ {0} /\ LongBits \in Nat /\ LongBits >= IntBits

Lower == <<"0", "1", "2", "3", "4", "5", "6", "7", "8", "9", "a", "b", "c", "d", "e", "f">>
Upper == <<"0", "1", "2", "3", "4", "5", "6", "7", "8", "9", "A", "B", "C", "D", "E", "F">>
Decimal == {Lower[i] : i \in 1..10}
digit_of(c) == (CHOOSE i \in 1..16 : Lower[i] = c) - 1

\* n written in a base, without sign.
to_digits(n, base, Digit) ==
    LET d[k \in 0..n] == IF k < base THEN <<Digit[k + 1]>> ELSE Append(d[k \div base], Digit[(k % base) + 1])
    IN  d[n]

\* n cut to a signed integer of so many bits.
wrap(n, bits) == ((n + 2^(bits - 1)) % 2^bits) - 2^(bits - 1)
=============================================================================
