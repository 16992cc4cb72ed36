----------------------------- MODULE MCUploader -----------------------------
(***************************************************************************)
(* Uploader with one push, whose closure has two paths, and two slots, so  *)
(* that two handlers run side by side.                                     *)
(***************************************************************************)
EXTENDS Uploader

CONSTANTS a, b, r

MCClosure == [q \in Request |-> <<a, b>>]
=============================================================================
