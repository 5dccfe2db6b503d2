-------------------------- MODULE MCBenchmarkTables --------------------------
(***************************************************************************)
(* What a benchmark cycle retrieves, and what it makes public.  The        *)
(* retrieval hands a whole candidate to the publication and shares nothing *)
(* else with it: a behaviour of one of the two at a time is enough.        *)
(*                                                                         *)
(* Three of the six BenchLM artifacts, two LMArena subsets of which one    *)
(* has two pages in the first dataset revision and one in the second.      *)
(***************************************************************************)
EXTENDS MCBenchmarkPublication, SourceSteps

VARIABLE part

MCBenchLm == <<"leaderboard", "models", "public">>
MCSubsets == <<"text", "agent">>
MCPageCount == <<[text |-> 2, agent |-> 1], [text |-> 1, agent |-> 1]>>

TablesInit ==
    /\ part \in {"sources", "tables"}
    /\ PublicationInit /\ SourceInit
    \* A part that stays as it is needs one initial state.
    /\ part = "tables" => published = {}

TablesNext ==
    \/ part = "sources" /\ SourceNext /\ UNCHANGED <<publicationVars, part>>
    \/ part = "tables" /\ PublicationNext /\ UNCHANGED <<sourceVars, part>>

TablesSpec == TablesInit /\ [][TablesNext]_<<publicationVars, sourceVars, part>>
=============================================================================
