---------------------------- MODULE CampaignOnce ----------------------------
(***************************************************************************)
(* What the campaign script promises about one revision pair, however      *)
(* often it is run: a draft is announced on disk before it is created, at  *)
(* most one is ever created, and it is recorded only after it exists.      *)
(***************************************************************************)
CONSTANTS Campaign, None

VARIABLES
    announced,  \* the campaign that a pending record on disk names, or None
    created,    \* the campaigns of the remote drafts ever created
    recorded    \* the campaign of the receipt on disk, or None

onceVars == <<announced, created, recorded>>

OnceInit == announced = None /\ created = {} /\ recorded = None

(* A pending record is never replaced, unless it is of no use any more. *)
Announce(c) ==
    /\ announced = None \/ recorded # None
    /\ announced' = c
    /\ UNCHANGED <<created, recorded>>

Create(c) ==
    /\ announced = c /\ created = {}
    /\ created' = {c}
    /\ UNCHANGED <<announced, recorded>>

Record(c) ==
    /\ c \in created /\ recorded = None
    /\ recorded' = c
    /\ UNCHANGED <<announced, created>>

(* The receipt takes the place of the pending record. *)
Forget ==
    /\ recorded # None
    /\ announced' = None
    /\ UNCHANGED <<created, recorded>>

OnceNext ==
    \/ \E c \in Campaign : Announce(c) \/ Create(c) \/ Record(c)
    \/ Forget

OnceSpec == OnceInit /\ [][OnceNext]_onceVars
=============================================================================
