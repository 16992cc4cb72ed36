------------------------------ MODULE MCDaemon ------------------------------
(***************************************************************************)
(* Daemon with one push process, which writes four paths, the third of     *)
(* which may be garbled, and one or two stop processes.                    *)
(***************************************************************************)
EXTENDS Daemon

CONSTANTS b, r1, r2, r3, r4, p1, s1, s2

MCPath == {b}
MCRequest == {r1, r2, r3, r4}
MCClosure == [r \in MCRequest |-> <<b>>]

MCPushes == [x \in Connection |-> IF x = p1 THEN <<r1, r2, r3, r4>> ELSE <<>>]
=============================================================================
