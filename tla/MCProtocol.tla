----------------------------- MODULE MCProtocol -----------------------------
(***************************************************************************)
(* A short path, one that just fits into the Receiver's buffer with its    *)
(* separator, one that is a byte too long, one that does not parse, and one*)
(* whose text contains a separator.  The texts are prefixes of each other, *)
(* so that a message cut short is another message.                         *)
(***************************************************************************)
EXTENDS Protocol, TLC

CONSTANTS short, fits, long, bad, split, x, y

MCText == (short :> <<x>>) @@ (fits :> <<x, y>>) @@ (long :> <<x, y, x>>)
            @@ (bad :> <<y>>) @@ (split :> <<x, Separator, x>>)
=============================================================================
