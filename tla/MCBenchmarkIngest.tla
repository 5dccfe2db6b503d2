-------------------------- MODULE MCBenchmarkIngest --------------------------
(***************************************************************************)
(* BenchmarkIngest with a few cycles and starters.  The candidate is as    *)
(* small as lets every phase have a first and a last step: two artifacts,  *)
(* one subset of up to two pages, and partitions, batches and cache keys   *)
(* by the cfg.  Cycles, and republications, are interchangeable.           *)
(***************************************************************************)
EXTENDS BenchmarkIngest

CONSTANTS d1, d2

OneContent == {d1}
MCRanks == [d \in Content |-> 1]

MCArtifacts == <<"models", "leaderboard">>

OneArtifact == <<"models">>

CycleSymmetry == Permutations(Cycle)
=============================================================================
