----------------------------- MODULE MCCampaign -----------------------------
(***************************************************************************)
(* The newsletter scripts.  The campaign script looks at the bundle before *)
(* it opens its state directory and never again, and the facts are fixed   *)
(* before a bundle is rendered, so the three parts share no state, and a   *)
(* behaviour of one of them at a time is enough.                           *)
(***************************************************************************)
EXTENDS CampaignDraft, CheatsheetBundle, RevisionFacts, TLC

CONSTANTS r1, r2, r3, a, b, i1, i2, i3, g1, g2

VARIABLE part

MCRun == {r1, r2, r3}
MCCampaigns == {a, b}
MCInode == {i1, i2, i3}
MCGenerator == {g1, g2}

(* Two models and two routes.  The snapshots hold a route that gets cheaper *)
(* on one side and dearer on the other, a rate that goes missing, two       *)
(* primary rows that agree or do not, and a row that does not count.        *)
Row(model, route, source, check, asks, gives) ==
    [model |-> model, route |-> route, source |-> source, check |-> check,
     input |-> asks, output |-> gives]

Offered(route, asks, gives) == {[route |-> route, input |-> asks, output |-> gives]}

EarlyOffers == Offered("x", 2, 2) \cup Offered("x", 1, 3) \cup Offered("x", 2, 1)
LateOffers == Offered("x", 1, 1)

MCSnapshots ==
    {[models |-> {"m1"}, offers |-> EarlyOffers,
      rows |-> {Row("m1", "x", "openrouter", "primary", 2, 2),
                Row("m1", "y", "benchlm", "primary", 1, 3)}],
     [models |-> {"m1", "m2"}, offers |-> EarlyOffers,
      rows |-> {Row("m1", "x", "openrouter", "primary", 1, 3),
                Row("m1", "x", "litellm", "conflict", 3, 1),
                Row("m1", "y", "benchlm", "primary", None, 3),
                Row("m2", "y", "benchlm", "primary", None, 1)}],
     [models |-> {"m1", "m2"}, offers |-> EarlyOffers,
      rows |-> {Row("m1", "x", "openrouter", "primary", 2, 1),
                Row("m1", "x", "benchlm", "primary", 3, 3)}],
     [models |-> {"m1"}, offers |-> LateOffers,
      rows |-> {Row("m1", "x", "openrouter", "primary", 2, 1)}]}

MCResponses == {[offers |-> EarlyOffers, fresh |-> TRUE],
                [offers |-> EarlyOffers, fresh |-> FALSE],
                [offers |-> LateOffers, fresh |-> TRUE]}

MCInit ==
    /\ part \in {"draft", "bundle", "facts"}
    /\ DraftInit /\ SheetInit /\ FactsInit
    \* A part that stays as it is needs one initial state.
    /\ part # "draft" => campaign = [r \in MCRun |-> a]

MCNext ==
    /\ UNCHANGED part
    /\ \/ part = "draft" /\ DraftNext /\ UNCHANGED <<sheetVars, factVars>>
       \/ part = "bundle" /\ SheetNext /\ UNCHANGED <<draftVars, factVars>>
       \/ part = "facts" /\ FactsNext /\ UNCHANGED <<draftVars, sheetVars>>

MCSpec == MCInit /\ [][MCNext]_<<draftVars, sheetVars, factVars, part>>

ScriptSymmetry == Permutations(MCRun) \cup Permutations(MCCampaigns) \cup Permutations(MCInode)
=============================================================================
