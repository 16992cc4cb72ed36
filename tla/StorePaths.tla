----------------------------- MODULE StorePaths -----------------------------
(***************************************************************************)
(* What the event loop and the handlers it spawns share: the store paths   *)
(* and the results of a handler.                                           *)
(***************************************************************************)
EXTENDS FiniteSets

CONSTANT Path   \* store paths, told apart by their hash

ASSUME PathAssumption == IsFiniteSet(Path)

\* The Ok(Some), Ok(None) and Err results of handle_store_path.
Outcome == {"pushed", "skipped", "failed"}
=============================================================================
