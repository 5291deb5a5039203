------------------------------- MODULE BatchMC -------------------------------
(***************************************************************************)
(* Batches for TLC: replicas and explicit seeds over one recorded file,    *)
(* pinned or not, a stress test over simulator walks, a source the batch   *)
(* does not take, and the parameters expand refuses.                       *)
(***************************************************************************)
EXTENDS Batch

MCRecorded(pin) == [kind |-> "parquet", pin |-> pin]
MCWalk(variant) ==
  [kind |-> "simulator", pin |-> "none", data_seed |-> <<>>, volatility |-> 2,
   fields |-> WalkMethod(variant, [f \in WalkFields[variant] |-> 2]).fields]
MCCsv == [kind |-> "csv", pin |-> "none"]

MCSeed(s) == [NoOverride EXCEPT !.seed = s]
MCShock(factor, delta) == [seed |-> None, factor |-> factor, delta |-> delta]

MCParams(kind, count, sweep) ==
  [kind |-> kind, base_seed |-> 7, count |-> count, sweep |-> sweep]

MCRequest(params, source, overwrite) ==
  [params |-> params, overwrite |-> overwrite, knobs |-> TRUE, 
   base |-> [seed |-> <<>>, source |-> source, valid |-> TRUE]]

MCReplicas == MCParams("MonteCarlo", 3, <<>>)
MCSeeds(a, b, count) == MCParams("Custom", count, <<MCSeed(a), MCSeed(b)>>)
MCStress == MCParams("StressTest", 1, <<MCShock(2, None), MCShock(None, 1), MCShock(-1, None)>>)

MCRequests ==
  {MCRequest(MCReplicas, MCRecorded(pin), o) : pin \in {"none", "t1"}, o \in BOOLEAN}
    \cup {MCRequest(MCSeeds(1, 2, 1), MCRecorded("none"), FALSE),
          MCRequest(MCSeeds(1, 1, 1), MCRecorded("none"), FALSE),
          MCRequest(MCParams("MonteCarlo", 2, <<MCSeed(1)>>), MCRecorded("none"), FALSE),
          MCRequest(MCSeeds(None, None, 1), MCWalk("GeometricBrownian"), FALSE),
          MCRequest(MCSeeds(None, None, 3), MCRecorded("none"), FALSE),
          MCRequest(MCParams("MonteCarlo", 0, <<>>), MCRecorded("none"), FALSE),
          MCRequest(MCParams("MonteCarlo", 1, <<>>), MCCsv, FALSE),
          [MCRequest(MCSeeds(None, None, 1), MCWalk("GeometricBrownian"), FALSE)
             EXCEPT !.knobs = FALSE],
          [MCRequest(MCParams("MonteCarlo", 2, <<>>), MCRecorded("none"), FALSE)
             EXCEPT !.base.valid = FALSE],
          MCRequest([MCStress EXCEPT !.sweep = SubSeq(@, 1, 2)], MCWalk("MeanReverting"), FALSE),
          MCRequest(MCStress, MCWalk("MeanReverting"), FALSE),
          MCRequest([MCStress EXCEPT !.kind = "MonteCarlo"], MCWalk("MeanReverting"), FALSE)}

MCFailing == {child_seed(7, 1)}
=============================================================================
