----------------------------- MODULE MCLibrary -----------------------------
(***************************************************************************)
(* The library's algorithms for TLC: one call of printf, one of scanf, or a  *)
(* string or a sequence of numbers that grows, with all that is computed     *)
(* from it.                                                                 *)
(***************************************************************************)
EXTENDS CPrintf, Scanf, Text

CONSTANTS
    Letters,  \* the characters of the string
    MaxText   \* bound: its length, and that of the sequence

VARIABLES call, text

C == INSTANCE Containers WITH Default <- 0

libraryVars == <<call, text, printfVars, scanfVars>>

SomeTexts == {<<"x">>}
SomeInts == {-128, -12, -5, 0, 7, 12, 127, 300}
item(s, t, v) == [sym |-> s, text |-> t, value |-> v]
SomeItems ==
    {item("%d", <<"1", "2", " ">>, 12), item("%d", <<"-", "5", " ">>, -5),
     item("%f", <<"-", "1", ".", "5", " ">>, <<-15, 1>>), item("%s", <<"a", " ">>, <<"a">>),
     item("a", <<"a">>, "a")}
SomeFormats ==
    UNION {[1..n -> {"%d", "%f", "%s", "a", "%x"}] : n \in 0..2}
    \cup {<<"%d", "a", "%d">>, <<"%d", "%d", "%s">>, <<"%s", "%d", "%f">>, <<"a", "%f", "%">>}

LibraryInit ==
    /\ call \in {"printf", "scanf", "text", "numbers"} /\ text = <<>>
    /\ PrintfInit /\ ScanfInit /\ (call = "scanf" \/ (format = <<>> /\ sent = <<>>))

grow ==
    /\ Len(text) < MaxText
    /\ \E c \in IF call = "text" THEN Letters ELSE 1..3 : text' = Append(text, c)

LibraryNext ==
    \/ call = "printf" /\ PrintfNext /\ UNCHANGED <<call, text, scanfVars>>
    \/ call = "scanf" /\ ScanfNext /\ UNCHANGED <<call, text, printfVars>>
    \/ call \in {"text", "numbers"} /\ grow /\ UNCHANGED <<call, printfVars, scanfVars>>

LibrarySpec == LibraryInit /\ [][LibraryNext]_libraryVars

\* StrView and Str agree, and the edits of a Str: of every string.
ViewsDenote ==
    call = "text" =>
        /\ ViewsAgree(text) /\ Edits(text) /\ (text = <<>> => NumbersReadBack)
        /\ S!split(C!join(S!split(text, Blank), <<" ">>), Blank) = S!split(text, Blank)

\* The console's tokenizer, on every line.
TokensReadBack == call = "text" => Cover(text) /\ Words(text)

\* The containers, on every sequence of numbers.
ContainersAgree ==
    call = "numbers" =>
        /\ C!SequencesEdit(text, 1..3) /\ C!SetsCompare(text)
        /\ C!MapsCount(text) /\ C!ArraysConvert(text)
=============================================================================
