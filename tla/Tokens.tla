------------------------------- MODULE Tokens -------------------------------
(***************************************************************************)
(* The tokenizer of the console (pares_cmd in src/src/console.cpp): a command *)
(* line is divided into views of it.                                        *)
(***************************************************************************)
EXTENDS StrView

Blank == {" "}
Quotes == {"\"", "'"}

\* Mutant: the quote is part of the token it opens.
with_quote(i) == i
after_quote(i) == i + 1

\* What stands from start to last is a token; start is 0 between the tokens.
token(start, last) ==
    IF start # 0 /\ last >= start THEN <<View(start - 1, last - start + 1)>> ELSE <<>>

\* A quote opens a token, or goes on with the one it stands in; its like ends it.
scan(b, s, i) ==
    CASE s.quote = "" /\ b[i] \in Quotes ->
            [s EXCEPT !.quote = b[i], !.start = IF @ = 0 THEN after_quote(i) ELSE @]
      [] s.quote = "" /\ b[i] \notin Quotes /\ b[i] \in Blank ->
            [s EXCEPT !.start = 0, !.out = @ \o token(s.start, i - 1)]
      [] s.quote = "" /\ b[i] \notin Quotes \cup Blank /\ s.start = 0 ->
            [s EXCEPT !.start = i]
      [] s.quote # "" /\ b[i] = s.quote ->
            [quote |-> "", start |-> 0, out |-> s.out \o token(s.start, i - 1)]
      [] OTHER -> s

\* The tokens of view v.
pares_cmd(b, v) ==
    LET s == FoldLeft(LAMBDA r, i : scan(b, r, i), [quote |-> "", start |-> 0, out |-> <<>>],
                      [i \in 1..v.len |-> v.off + i])
    IN  s.out \o token(s.start, end(v))

tokens(b) == pares_cmd(b, trim(b, whole(b), Blank))
=============================================================================
