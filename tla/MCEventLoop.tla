----------------------------- MODULE MCEventLoop -----------------------------
(***************************************************************************)
(* EventLoop with overlapping closures: the second request repeats a path  *)
(* of the first one, and there are more paths than slots.                  *)
(***************************************************************************)
EXTENDS EventLoop

CONSTANTS a, b, c, d, r1, r2

MCRequest == {r1, r2}

\* Two slots, four paths.
MCPath == {a, b, c, d}
MCClosure == [r \in MCRequest |-> IF r = r1 THEN <<a, b, c>> ELSE <<c, d>>]
==============================================================================
