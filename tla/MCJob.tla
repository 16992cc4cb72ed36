------------------------------- MODULE MCJob -------------------------------
(***************************************************************************)
(* A job that uses the action three times; one of the drains may get stuck *)
(***************************************************************************)
EXTENDS Job
=============================================================================
