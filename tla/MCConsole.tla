----------------------------- MODULE MCConsole -----------------------------
(***************************************************************************)
(* Console for TLC: one builtin command, called "a"; every other name is     *)
(* unknown.                                                                 *)
(***************************************************************************)
EXTENDS Console
SomeBuiltins == {<<"a">>}
=============================================================================
