--------------------------- MODULE PublishedView ---------------------------
(***************************************************************************)
(* What the publication tables promise a reader of the public API: one     *)
(* revision is served at a time, together with one materialized response   *)
(* set of that very revision; once something is served there is no gap;    *)
(* and a revision that was replaced is never served again.                 *)
(***************************************************************************)
CONSTANTS
    Revision,  \* every revision that may ever be published
    Owner,     \* the cycles that may materialize responses
    None       \* a cold system: nothing is published yet

VARIABLES
    served,    \* the served <<revision, owner of its responses>>, or None
    retired    \* the revisions that were replaced

ViewTypeOK ==
    /\ served \in (Revision \X Owner) \cup {None}
    /\ retired \subseteq Revision

ViewInit ==
    /\ served = None
    /\ retired = {}

(* A new revision replaces the served one, with its own responses.         *)
Replace(r, o) ==
    /\ r \notin retired
    /\ served # None => served[1] # r
    /\ served' = <<r, o>>
    /\ retired' = IF served = None THEN retired ELSE retired \cup {served[1]}

(* A fresh set of responses of the revision that is already served.        *)
Refresh(o) ==
    /\ served # None
    /\ served' = <<served[1], o>>
    /\ UNCHANGED retired

ViewNext ==
    \E o \in Owner : Refresh(o) \/ \E r \in Revision : Replace(r, o)

ViewSpec == ViewInit /\ [][ViewNext]_<<served, retired>>
=============================================================================
