------------------------------- MODULE Signup -------------------------------
(***************************************************************************)
(* The newsletter form (frontend/newsletter-signup.tsx), its endpoint      *)
(* (functions/api/newsletter/subscribe.ts) and the one call it makes to    *)
(* Brevo (functions/_shared/brevo.ts), which may be accepted after the     *)
(* endpoint has given up on it.                                            *)
(***************************************************************************)
EXTENDS Naturals, Nothing

CONSTANTS
    Address, Valid,      \* what may be typed, and what both sides accept
    MaxSubmissions, MaxFailures

ASSUME Typable == Valid \subseteq Address /\ None \notin Address \cup Nat /\ MaxSubmissions \in Nat

VARIABLES
    form,      \* the fields, the feedback and the active request of the form on the page
    requests,  \* requests that the endpoint has not answered, or whose answer is under way
    calls,     \* calls to Brevo that Brevo has not decided
    contacts,  \* addresses that Brevo knows
    submitted, failures

signupVars == <<form, requests, calls, contacts, submitted, failures>>

\* The fields of a form as it appears on a page.
NewForm == [profile |-> FALSE, address |-> None, trap |-> FALSE, feedback |-> "idle", active |-> None, last |-> None]

SignupInit ==
    /\ form = NewForm
    /\ requests = {} /\ calls = {} /\ contacts = {}
    /\ submitted = 0 /\ failures = 0

SignupFault == failures < MaxFailures /\ failures' = failures + 1

---------------------------------------------------------------------------
(* The form.  What is typed into a visible field clears the feedback; the   *)
(* fields are disabled while a request is active.                           *)

Typing(new) ==
    /\ form.active = None
    /\ form' = new /\ form' # form
    /\ UNCHANGED <<requests, calls, contacts, submitted, failures>>

Type ==
    \/ Typing([form EXCEPT !.profile = TRUE, !.feedback = "idle"])
    \/ \E a \in Address : Typing([form EXCEPT !.address = a, !.feedback = "idle"])
    \/ Typing([form EXCEPT !.trap = TRUE])

(* The form and the endpoint each have the same test of an address. *)
IsValidEmail(address) == address \in Valid

ParsesAsSignup(r) == IsValidEmail(r.address)

Refuse(feedback) ==
    form' = [form EXCEPT !.feedback = feedback] /\ UNCHANGED <<requests, submitted>>

Submit ==
    /\ form.active = None /\ submitted < MaxSubmissions
    /\ IF ~form.profile THEN Refuse("invalid-profile")
       ELSE IF ~IsValidEmail(form.address) THEN Refuse("invalid-email")
       ELSE LET id == submitted + 1
            IN /\ form' = [form EXCEPT !.feedback = "idle", !.active = id,
                                       !.last = [address |-> form.address, trap |-> form.trap]]
               /\ requests' = requests \cup {[id |-> id, address |-> form.address, trap |-> form.trap,
                                              stage |-> "sent", status |-> None]}
               /\ submitted' = id
    /\ UNCHANGED <<calls, contacts, failures>>

(* The page is left: its request is aborted, and goes on at the site. *)
Leave ==
    /\ form # NewForm /\ form' = NewForm
    /\ requests' = {r \in requests : r.stage # "answered"}
    /\ UNCHANGED <<calls, contacts, submitted, failures>>

---------------------------------------------------------------------------
(* The endpoint *)

\* Slip: the answer of a request keeps the stage of its call.
AnsweredBy_Calling(r, status) == [r EXCEPT !.status = status]

AnsweredBy(r, status) == [r EXCEPT !.stage = "answered", !.status = status]

(* Nobody waits for the answer to a page that was left. *)
Answer(r, status) ==
    requests' = (requests \ {r}) \cup (IF form.active = r.id THEN {AnsweredBy(r, status)} ELSE {})

(* Without its bindings the endpoint cannot call Brevo. *)
CallBrevo(r) ==
    \/ /\ requests' = (requests \ {r}) \cup {[r EXCEPT !.stage = "calling"]}
       /\ calls' = calls \cup {[id |-> r.id, address |-> r.address]}
       /\ UNCHANGED failures
    \/ SignupFault /\ Answer(r, 503) /\ UNCHANGED calls

\* Slip: the trap is not looked at.
Handle_Trusting(r) ==
    /\ r.stage = "sent"
    /\ IF ~ParsesAsSignup(r) THEN Answer(r, 400) /\ UNCHANGED <<calls, failures>> ELSE CallBrevo(r)
    /\ UNCHANGED <<form, contacts, submitted>>

Handle(r) ==
    /\ r.stage = "sent"
    /\ IF ~ParsesAsSignup(r) THEN Answer(r, 400) /\ UNCHANGED <<calls, failures>>
       ELSE IF r.trap THEN Answer(r, 202) /\ UNCHANGED <<calls, failures>>
       ELSE CallBrevo(r)
    /\ UNCHANGED <<form, contacts, submitted>>

\* Slip: any answer of Brevo counts as a confirmation.
StatusFor_Any(outcome) == 202

(* 201 and 409 look the same to the visitor. *)
StatusFor(outcome) == IF outcome \in {201, 409} THEN 202 ELSE 503

(* Brevo decides, and the endpoint sees it if it still waits. *)
Decide(c) ==
    \E outcome \in {201, 409, 500} :
       /\ outcome = 409 <=> (c.address \in contacts /\ outcome # 500)
       /\ outcome = 500 => SignupFault
       /\ outcome # 500 => UNCHANGED failures
       /\ contacts' = IF outcome = 201 THEN contacts \cup {c.address} ELSE contacts
       /\ calls' = calls \ {c}
       /\ IF \E r \in requests : r.id = c.id /\ r.stage = "calling"
          THEN \E r \in requests : r.id = c.id /\ Answer(r, StatusFor(outcome))
          ELSE UNCHANGED requests
       /\ UNCHANGED <<form, submitted>>

\* Slip: the call is awaited without a limit.
GiveUp_Never(r) == FALSE /\ UNCHANGED signupVars

(* Ten seconds, or a connection that fails: the call may still be accepted. *)
GiveUp(r) ==
    /\ r.stage = "calling"
    /\ Answer(r, 503)
    /\ UNCHANGED <<form, calls, contacts, submitted, failures>>

(* The call never reaches Brevo. *)
LoseCall(c) ==
    /\ SignupFault /\ calls' = calls \ {c}
    /\ UNCHANGED <<form, requests, contacts, submitted>>

---------------------------------------------------------------------------
(* The answer at the form *)

Outcome(status) ==
    IF status = 202 THEN [NewForm EXCEPT !.feedback = "confirmation-required", !.trap = form.trap, !.last = form.last]
    ELSE [form EXCEPT !.feedback = "retry", !.active = None]

ReceiveAnswer(r) ==
    /\ r.stage = "answered" /\ requests' = requests \ {r}
    /\ form' = IF form.active = r.id THEN Outcome(r.status) ELSE form
    /\ UNCHANGED <<calls, contacts, submitted, failures>>

(* The connection of the form fails; the endpoint goes on. *)
Disconnect ==
    /\ form.active # None /\ SignupFault
    /\ form' = Outcome(None)
    /\ requests' = {r \in requests : r.stage # "answered"}
    /\ UNCHANGED <<calls, contacts, submitted>>

Serve == \E r \in requests : Handle(r) \/ GiveUp(r) \/ ReceiveAnswer(r)

SignupNext ==
    \/ Type \/ Submit \/ Leave \/ Serve \/ Disconnect
    \/ \E c \in calls : Decide(c) \/ LoseCall(c)

(* The endpoint runs, its timer fires and its answer arrives.  Of Brevo     *)
(* nothing is assumed.                                                      *)
SignupFairness == WF_signupVars(Serve)

SignupSpec == SignupInit /\ [][SignupNext]_signupVars /\ SignupFairness

---------------------------------------------------------------------------
(* Properties *)

SignupTypeOK ==
    /\ form.address \in Address \cup {None}
    /\ form.feedback \in {"idle", "invalid-profile", "invalid-email", "confirmation-required", "retry"}
    /\ contacts \subseteq Valid
    /\ \A r \in requests : r.stage \in {"sent", "calling", "answered"} /\ r.id <= submitted
    /\ \A r \in requests : (r.stage = "answered") = (r.status # None)

(* Who is told to look for a mail is a contact of Brevo, whatever was given *)
(* up, lost, refused or retried before; only a filled trap is told so       *)
(* without it (onRequest, createDoubleOptInContact).                        *)
ConfirmedIsContact ==
    form.feedback = "confirmation-required" => form.last.trap \/ form.last.address \in contacts

(* An address sent with a filled trap never reaches Brevo.                  *)
TrapIsSilent == \A c \in calls : \A r \in requests : r.id = c.id => ~r.trap

(* A form does not wait for ever, although it has no limit of its own and   *)
(* Brevo may never answer.                                                  *)
SubmissionEnds == form.active # None ~> form.active = None

(* What the visitor is told about a submission is true, and a bot reaches nobody. *)
SignupIsTrue ==
    /\ SignupTypeOK
    /\ ConfirmedIsContact
    /\ TrapIsSilent
=============================================================================
