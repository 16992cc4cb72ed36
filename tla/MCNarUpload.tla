----------------------------- MODULE MCNarUpload -----------------------------
(***************************************************************************)
(* NarUpload with parts of two bytes and three part numbers, so that NARs  *)
(* that end within a part, at the end of a part and at the last part number*)
(* all occur, and with a clock that lets URLs expire between any two steps.*)
(***************************************************************************)
EXTENDS NarUpload
=============================================================================
