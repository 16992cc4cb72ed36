---------------------------- MODULE MCStopStream ----------------------------
(***************************************************************************)
(* StopStream with more paths than slots, any of them handled before the   *)
(* drain, a closure that failed before it, and a socket that holds less    *)
(* than two lines.                                                         *)
(***************************************************************************)
EXTENDS StopStream

CONSTANTS a, b

MCPath == {a, b}
MCClosureErrors == {<<a>>}
=============================================================================
