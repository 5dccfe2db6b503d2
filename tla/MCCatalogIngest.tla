--------------------------- MODULE MCCatalogIngest ---------------------------
(***************************************************************************)
(* CatalogIngest with a few cycles and starters, and either all the        *)
(* sources of the code or one, which leaves room for more cycles, faults   *)
(* and overlapping calls.  Cycles, and starters, are interchangeable.      *)
(***************************************************************************)
EXTENDS CatalogIngest, TLC

OneSource == <<"retrieve-openrouter">>

AllSources == <<"retrieve-openrouter", "retrieve-opencode-models",
                "retrieve-opencode-pricing">>

CycleSymmetry == Permutations(Cycle)

CycleAndStarterSymmetry == Permutations(Cycle) \cup Permutations(Starter)
=============================================================================
