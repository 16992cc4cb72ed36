----------------------------- MODULE MCRelease -----------------------------
(***************************************************************************)
(* Release with four tags on pages of two.  The tag `h` looks like a       *)
(* commit, and like that of the tag v1; `s` abbreviates the commits of two *)
(* tags, `t` those of two of which one has no release, and `u` is `t` in   *)
(* upper case.                                                             *)
(***************************************************************************)
EXTENDS Release

CONSTANTS v1, v2, v3, h, s, t, u

MCTag == {v1, v2, v3, h}
MCHexTag == {h}
MCSha == {s, t, u}
MCUpperCase == {u}
MCReleased == {v1, v2, h}
MCAbbreviates == (s :> {v1, v2}) @@ (t :> {v2, v3}) @@ (u :> {v2, v3}) @@ (h :> {v1})
=============================================================================
