---------------------------- MODULE BundleStore ----------------------------
(***************************************************************************)
(* What the bundle writer promises to whoever looks at one run id: the     *)
(* bundle seen under the run's name is always a complete one, and once a   *)
(* complete bundle exists one always does, in its place or set aside.      *)
(*                                                                         *)
(* A version is the number of the write_bundle call that produced it.      *)
(***************************************************************************)
EXTENDS Naturals

CONSTANT MaxCalls

VARIABLES
  visible,   \* the version under <output_dir>/<run_id>, 0 for none
  kept       \* the version set aside while it is replaced, 0 for none

storeVars == <<visible, kept>>

StoreInit == visible = 0 /\ kept = 0

\* A new version appears under a name that is free.
Appear ==
  /\ visible = 0
  /\ visible' \in 1..MaxCalls
  /\ UNCHANGED kept

\* The visible version makes room for the one that will replace it.
SetAside ==
  /\ visible # 0 /\ kept = 0
  /\ kept' = visible
  /\ visible' = 0

\* The replacement did not come: the old version returns.
Return ==
  /\ visible = 0 /\ kept # 0
  /\ visible' = kept
  /\ kept' = 0

\* The old version goes, never before there is a new one.
Forget ==
  /\ visible # 0 /\ kept # 0
  /\ kept' = 0
  /\ UNCHANGED visible

StoreNext == Appear \/ SetAside \/ Return \/ Forget

StoreSpec == StoreInit /\ [][StoreNext]_storeVars
=============================================================================
