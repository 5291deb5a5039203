---------------------------- MODULE ReplayClaims ----------------------------
(***************************************************************************)
(* What comments of the code say of a replay run and the code does not do. *)
(* Each is checked alone, on an instance where TLC finds the run that      *)
(* refutes it.                                                             *)
(***************************************************************************)
EXTENDS Replay

\* src/engine/strategy.rs:962, close_all "reconciles against the commands
\* already in `out` so each leg is closed exactly once": a close that close_all
\* appended never finds its leg gone or too small.  A replacement that closes
\* the leg is not reconciled against.
FlattenOnce ==
  (Walking /\ k > onEndStart)
    => WalkFault \notin {"close_not_open", "close_oversize"}
=============================================================================
