----------------------- MODULE MCBenchmarkPublication -----------------------
(***************************************************************************)
(* BenchmarkPublication with two cycles in one week, a republication next  *)
(* to them, and one catalog publication underneath.  The first content     *)
(* supports fewer ranks than the second.                                   *)
(***************************************************************************)
EXTENDS BenchmarkPublication, TLC

CONSTANTS c1, c2, p1, p2, d1, d2, models, metrics, profiles, k1, w1

MCCycle == {c1, c2}
MCContent == {d1, d2}
MCRanks == (d1 :> 1) @@ (d2 :> 2)
MCRepublisher == {p1, p2}

AttemptSymmetry == Permutations(MCCycle) \cup Permutations(MCRepublisher)
=============================================================================
