---------------------------- MODULE Site_proofs ----------------------------
(***************************************************************************)
(* Proofs about what a visitor meets: the newsletter form, the calculator, *)
(* the pages that load the catalog, and a leaderboard.  They share no      *)
(* state.                                                                  *)
(***************************************************************************)
EXTENDS Signup, CalculatorPage, CatalogReading, LeaderboardBrowsing, FiniteSetTheorems, TLAPS

---------------------------------------------------------------------------
(* THE NEWSLETTER FORM.                                                    *)
(*                                                                         *)
(* Who is confirmed is a contact, and a filled trap is silent, for any set *)
(* of addresses and any number of submissions and failures.  Neither is    *)
(* inductive: both need that a request and its call keep their number,     *)
(* which no later submission is given again.                               *)

Feedback == {"idle", "invalid-profile", "invalid-email", "confirmation-required", "retry"}
AnswerStatus == {None, 202, 400, 503}

FormRecord ==
    [profile : BOOLEAN, address : Address \cup {None}, trap : BOOLEAN, feedback : Feedback,
     active : Nat \cup {None}, last : [address : Valid, trap : BOOLEAN] \cup {None}]

RequestRecord ==
    [id : Nat, address : Valid, trap : BOOLEAN, stage : {"sent", "calling", "answered"}, status : AnswerStatus]

CallRecord == [id : Nat, address : Valid]

Typed ==
    /\ form \in FormRecord
    /\ requests \subseteq RequestRecord
    /\ calls \subseteq CallRecord
    /\ contacts \subseteq Valid
    /\ submitted \in Nat

(* Numbers were given out by submissions, to one request each. *)
RequestsNumbered ==
    /\ form.active # None => form.active <= submitted
    /\ \A r \in requests : r.id <= submitted
    /\ \A c \in calls : c.id <= submitted
    /\ \A r, s \in requests : r.id = s.id => r = s

(* A call was made for its request, and not for a trap. *)
CallsAreTheirs ==
    \A c \in calls : \A r \in requests : r.id = c.id => ~r.trap /\ r.address = c.address

(* The form remembers what its active request was sent with. *)
RememberedInForm ==
    \A r \in requests : form.active = r.id => form.last = [address |-> r.address, trap |-> r.trap]

(* Answers are kept for the request that is waited for, and a good one is true. *)
AnswersHold ==
    \A r \in requests :
       /\ (r.stage = "answered") = (r.status # None)
       /\ r.stage = "answered" => form.active = r.id
       /\ r.status = 202 => r.trap \/ r.address \in contacts

SignupInv ==
    Typed /\ RequestsNumbered /\ CallsAreTheirs /\ RememberedInForm /\ AnswersHold /\ ConfirmedIsContact

---------------------------------------------------------------------------
\* Nobody has asked for anything at first.
LEMMA SignupInitially == SignupInit => SignupInv
BY Typable, SMT
   DEF SignupInit, NewForm, SignupInv, Typed, FormRecord, Feedback, RequestsNumbered, CallsAreTheirs,
       RememberedInForm, AnswersHold, ConfirmedIsContact

\* Typing into the form keeps the invariant.
LEMMA TypeKeeps == SignupInv /\ Type => SignupInv'
<1> SUFFICES ASSUME SignupInv, Type PROVE SignupInv'
  OBVIOUS
<1>1. form.active = None /\ UNCHANGED <<requests, calls, contacts, submitted>>
  BY DEF Type, Typing
<1>2. /\ form' \in FormRecord
      /\ form'.active = form.active /\ form'.last = form.last
      /\ form'.feedback \in {form.feedback, "idle"}
  <2>1. form \in FormRecord
    BY DEF SignupInv, Typed
  <2>2. CASE Typing([form EXCEPT !.profile = TRUE, !.feedback = "idle"])
    BY <2>1, <2>2 DEF Typing, FormRecord, Feedback
  <2>3. CASE \E a \in Address : Typing([form EXCEPT !.address = a, !.feedback = "idle"])
    BY <2>1, <2>3 DEF Typing, FormRecord, Feedback
  <2>4. CASE Typing([form EXCEPT !.trap = TRUE])
    BY <2>1, <2>4 DEF Typing, FormRecord, Feedback
  <2> QED
    BY <2>2, <2>3, <2>4 DEF Type
<1>3. QED
  BY <1>1, <1>2, Typable
     DEF SignupInv, Typed, RequestsNumbered, CallsAreTheirs, RememberedInForm, AnswersHold, ConfirmedIsContact,
         RequestRecord

\* A submission opens one request, or none.
LEMMA SubmitKeeps == SignupInv /\ Submit => SignupInv'
<1> SUFFICES ASSUME SignupInv, Submit PROVE SignupInv'
  OBVIOUS
<1>1. form.active = None /\ UNCHANGED <<calls, contacts>>
  BY DEF Submit
<1>2. CASE \E f \in {"invalid-profile", "invalid-email"} : Refuse(f)
  <2>1. /\ form' \in FormRecord /\ form'.active = form.active /\ form'.last = form.last
        /\ form'.feedback # "confirmation-required"
        /\ UNCHANGED <<requests, submitted>>
    BY <1>2 DEF Refuse, SignupInv, Typed, FormRecord, Feedback
  <2>2. QED
    BY <1>1, <2>1 DEF SignupInv, Typed, RequestsNumbered, CallsAreTheirs, RememberedInForm, AnswersHold,
                      ConfirmedIsContact
<1>3. CASE ~\E f \in {"invalid-profile", "invalid-email"} : Refuse(f)
  <2> DEFINE new == [id |-> submitted + 1, address |-> form.address, trap |-> form.trap,
                     stage |-> "sent", status |-> None]
  <2>1. /\ form.address \in Valid
        /\ form' = [form EXCEPT !.feedback = "idle", !.active = submitted + 1,
                                !.last = [address |-> form.address, trap |-> form.trap]]
        /\ requests' = requests \cup {new}
        /\ submitted' = submitted + 1
    BY <1>3 DEF Submit, IsValidEmail
  <2>2. /\ form' \in FormRecord /\ form'.active = submitted + 1 /\ form'.feedback = "idle"
        /\ form'.last = [address |-> new.address, trap |-> new.trap]
    <3>1. /\ form \in FormRecord /\ submitted + 1 \in Nat
          /\ [address |-> form.address, trap |-> form.trap] \in [address : Valid, trap : BOOLEAN]
      BY <2>1 DEF SignupInv, Typed, FormRecord
    <3> HIDE DEF new
    <3>2. /\ form' \in FormRecord /\ form'.active = submitted + 1 /\ form'.feedback = "idle"
          /\ form'.last = [address |-> form.address, trap |-> form.trap]
      BY <2>1, <3>1 DEF FormRecord, Feedback
    <3>3. new.address = form.address /\ new.trap = form.trap
      BY DEF new
    <3>4. QED
      BY <3>2, <3>3
  <2>3. new \in RequestRecord
    BY <2>1 DEF SignupInv, Typed, FormRecord, RequestRecord, AnswerStatus
  <2>4. Typed'
    BY <1>1, <2>1, <2>2, <2>3 DEF SignupInv, Typed
  <2>5. RequestsNumbered'
    BY <1>1, <2>1, <2>2 DEF SignupInv, Typed, RequestsNumbered, RequestRecord, CallRecord
  <2>6. CallsAreTheirs'
    BY <1>1, <2>1 DEF SignupInv, Typed, RequestsNumbered, CallsAreTheirs, CallRecord
  <2>7. RememberedInForm'
    BY <2>1, <2>2 DEF SignupInv, Typed, RequestsNumbered, RememberedInForm, RequestRecord
  <2>8. AnswersHold'
    BY <1>1, <2>1, <2>2, Typable DEF SignupInv, Typed, RequestsNumbered, AnswersHold, RequestRecord
  <2>9. QED
    BY <2>2, <2>4, <2>5, <2>6, <2>7, <2>8 DEF SignupInv, ConfirmedIsContact
<1>4. QED
  BY <1>2, <1>3

\* Leaving the page forgets the form; its requests go on.
LEMMA LeaveKeeps == SignupInv /\ Leave => SignupInv'
<1> SUFFICES ASSUME SignupInv, Leave PROVE SignupInv'
  OBVIOUS
<1>1. /\ form' = NewForm /\ NewForm \in FormRecord
      /\ NewForm.active = None /\ NewForm.feedback = "idle"
  BY DEF Leave, NewForm, FormRecord, Feedback
<1>2. /\ requests' = {r \in requests : r.stage # "answered"}
      /\ UNCHANGED <<calls, contacts, submitted>>
  BY DEF Leave
<1>3. QED
  BY <1>1, <1>2, Typable
     DEF SignupInv, Typed, RequestsNumbered, CallsAreTheirs, RememberedInForm, AnswersHold, ConfirmedIsContact,
         RequestRecord

(* An answer that is true keeps the invariant, whoever waits for it. *)
LEMMA AnswerKeeps ==
    ASSUME SignupInv, NEW r \in requests, r.stage # "answered", NEW status \in {202, 400, 503},
           Answer(r, status),
           contacts \subseteq contacts', contacts' \subseteq Valid,
           status = 202 => r.trap \/ r.address \in contacts',
           calls' \subseteq calls, UNCHANGED <<form, submitted>>
    PROVE  SignupInv'
<1> DEFINE reply == AnsweredBy(r, status)
<1>1. /\ reply \in RequestRecord
      /\ reply.id = r.id /\ reply.trap = r.trap /\ reply.address = r.address
      /\ reply.stage = "answered" /\ reply.status = status
  <2>1. r \in RequestRecord
    BY DEF SignupInv, Typed
  <2>2. reply = [r EXCEPT !.stage = "answered", !.status = status]
    BY DEF AnsweredBy
  <2> HIDE DEF reply
  <2>3. status \in AnswerStatus
    BY DEF AnswerStatus
  <2>4. reply \in RequestRecord
    BY <2>1, <2>2, <2>3 DEF RequestRecord
  <2>5. /\ reply.id = r.id /\ reply.trap = r.trap /\ reply.address = r.address
        /\ reply.stage = "answered" /\ reply.status = status
    BY <2>1, <2>2 DEF RequestRecord
  <2>6. QED
    BY <2>4, <2>5
<1> HIDE DEF reply
<1>2. \A s \in requests' : \/ s \in requests \ {r}
                           \/ s = reply /\ form.active = r.id
  BY DEF Answer, reply
<1>3. Typed'
  BY <1>1, <1>2 DEF SignupInv, Typed
<1>4. RequestsNumbered'
  BY <1>1, <1>2 DEF SignupInv, RequestsNumbered
<1>5. CallsAreTheirs'
  BY <1>1, <1>2 DEF SignupInv, CallsAreTheirs
<1>6. RememberedInForm'
  BY <1>1, <1>2 DEF SignupInv, RememberedInForm
<1>7. AnswersHold'
  BY <1>1, <1>2, Typable DEF SignupInv, AnswersHold
<1>8. QED
  BY <1>3, <1>4, <1>5, <1>6, <1>7 DEF SignupInv, ConfirmedIsContact

\* The endpoint answers a request, or calls Brevo once for it.
LEMMA HandleKeeps == ASSUME SignupInv, NEW r \in requests, Handle(r) PROVE SignupInv'
<1>1. r.stage = "sent" /\ UNCHANGED <<form, contacts, submitted>>
  BY DEF Handle
<1>2. CASE UNCHANGED calls /\ \E status \in {400, 503} : Answer(r, status)
  BY <1>1, <1>2, AnswerKeeps DEF SignupInv, Typed
<1>3. CASE UNCHANGED calls /\ r.trap /\ Answer(r, 202)
  BY <1>1, <1>3, AnswerKeeps DEF SignupInv, Typed
<1>4. CASE /\ ~r.trap
           /\ requests' = (requests \ {r}) \cup {[r EXCEPT !.stage = "calling"]}
           /\ calls' = calls \cup {[id |-> r.id, address |-> r.address]}
  <2> DEFINE calling == [r EXCEPT !.stage = "calling"]
             call == [id |-> r.id, address |-> r.address]
  <2>1. /\ calling \in RequestRecord /\ call \in CallRecord
        /\ calling.id = r.id /\ calling.address = r.address /\ calling.trap = r.trap
        /\ calling.stage = "calling" /\ calling.status = r.status
        /\ r.status = None
    <3>1. r \in RequestRecord /\ r.status = None
      BY <1>1 DEF SignupInv, Typed, AnswersHold
    <3>2. QED
      BY <3>1 DEF RequestRecord, CallRecord
  <2> /\ requests' = (requests \ {r}) \cup {calling}
      /\ calls' = calls \cup {call}
      /\ call.id = r.id /\ call.address = r.address
    BY <1>4
  <2> HIDE DEF calling, call
  <2>2. Typed'
    BY <1>1, <1>4, <2>1 DEF SignupInv, Typed
  <2>3. RequestsNumbered'
    BY <1>1, <1>4, <2>1 DEF SignupInv, RequestsNumbered
  <2>4. CallsAreTheirs'
    BY <1>1, <1>4, <2>1 DEF SignupInv, RequestsNumbered, CallsAreTheirs
  <2>5. RememberedInForm'
    BY <1>1, <1>4, <2>1 DEF SignupInv, RememberedInForm
  <2>6. AnswersHold'
    BY <1>1, <1>4, <2>1, Typable DEF SignupInv, AnswersHold
  <2>7. QED
    BY <1>1, <2>2, <2>3, <2>4, <2>5, <2>6 DEF SignupInv, ConfirmedIsContact
<1>5. QED
  BY <1>2, <1>3, <1>4 DEF Handle, CallBrevo

\* Giving up on Brevo answers the request.
LEMMA GiveUpKeeps == ASSUME SignupInv, NEW r \in requests, GiveUp(r) PROVE SignupInv'
<1>1. r.stage = "calling" /\ Answer(r, 503) /\ UNCHANGED <<form, calls, contacts, submitted>>
  BY DEF GiveUp
<1>2. QED
  BY <1>1, AnswerKeeps DEF SignupInv, Typed

\* Brevo decides a call.
LEMMA DecideKeeps == ASSUME SignupInv, NEW c \in calls, Decide(c) PROVE SignupInv'
<1>1. PICK outcome \in {201, 409, 500} :
         /\ outcome = 409 => c.address \in contacts
         /\ contacts' = IF outcome = 201 THEN contacts \cup {c.address} ELSE contacts
         /\ calls' = calls \ {c}
         /\ IF \E r \in requests : r.id = c.id /\ r.stage = "calling"
            THEN \E r \in requests : r.id = c.id /\ Answer(r, StatusFor(outcome))
            ELSE UNCHANGED requests
         /\ UNCHANGED <<form, submitted>>
  BY DEF Decide
<1>2. contacts \subseteq contacts' /\ contacts' \subseteq Valid
  BY <1>1 DEF SignupInv, Typed, CallRecord
<1>3. CASE \E r \in requests : r.id = c.id /\ r.stage = "calling"
  <2>1. PICK r \in requests : r.id = c.id /\ Answer(r, StatusFor(outcome))
    BY <1>1, <1>3
  <2>2. r.stage # "answered" /\ r.address = c.address
    BY <1>3, <2>1 DEF SignupInv, RequestsNumbered, CallsAreTheirs
  <2>3. /\ StatusFor(outcome) \in {202, 503}
        /\ StatusFor(outcome) = 202 => r.address \in contacts'
    BY <1>1, <2>2 DEF StatusFor
  <2>4. QED
    BY <1>1, <1>2, <2>1, <2>2, <2>3, AnswerKeeps
<1>4. CASE ~\E r \in requests : r.id = c.id /\ r.stage = "calling"
  BY <1>1, <1>2, <1>4
     DEF SignupInv, Typed, RequestsNumbered, CallsAreTheirs, RememberedInForm, AnswersHold, ConfirmedIsContact
<1>5. QED
  BY <1>3, <1>4

\* An answer reaches the page that asked.
LEMMA ReceiveKeeps == ASSUME SignupInv, NEW r \in requests, ReceiveAnswer(r) PROVE SignupInv'
<1>1. /\ r.stage = "answered" /\ requests' = requests \ {r}
      /\ form.active = r.id /\ form' = Outcome(r.status)
      /\ UNCHANGED <<calls, contacts, submitted>>
  BY DEF ReceiveAnswer, SignupInv, AnswersHold
<1>2. /\ form' \in FormRecord /\ form'.active = None /\ form'.last = form.last
      /\ form'.feedback = IF r.status = 202 THEN "confirmation-required" ELSE "retry"
  <2>1. form \in FormRecord
    BY DEF SignupInv, Typed
  <2>2. CASE r.status = 202
    BY <1>1, <2>1, <2>2 DEF Outcome, NewForm, FormRecord, Feedback
  <2>3. CASE r.status # 202
    <3>1. form' = [form EXCEPT !.feedback = "retry", !.active = None]
      BY <1>1, <2>3 DEF Outcome
    <3>2. PICK retried \in FormRecord : retried = [form EXCEPT !.feedback = "retry"]
      BY <2>1 DEF FormRecord, Feedback
    <3>3. retried.last = form.last /\ retried.feedback = "retry" /\ form' = [retried EXCEPT !.active = None]
      BY <2>1, <3>1, <3>2 DEF FormRecord
    <3> QED
      BY <2>3, <3>3 DEF FormRecord
  <2>4. QED
    BY <2>2, <2>3
<1>3. form.last = [address |-> r.address, trap |-> r.trap]
  BY <1>1 DEF SignupInv, RememberedInForm
<1>4. ConfirmedIsContact'
  BY <1>1, <1>2, <1>3 DEF SignupInv, AnswersHold, ConfirmedIsContact
<1>5. Typed' /\ RequestsNumbered' /\ CallsAreTheirs'
  BY <1>1, <1>2 DEF SignupInv, Typed, RequestsNumbered, CallsAreTheirs
<1>6. \A s \in requests' : form.active # s.id
  BY <1>1 DEF SignupInv, RequestsNumbered
<1>7. RememberedInForm' /\ AnswersHold'
  BY <1>1, <1>2, <1>6, Typable DEF SignupInv, Typed, RequestRecord, RememberedInForm, AnswersHold
<1>8. QED
  BY <1>4, <1>5, <1>7 DEF SignupInv

\* A form that loses its connection offers another try.
LEMMA DisconnectKeeps == SignupInv /\ Disconnect => SignupInv'
<1> SUFFICES ASSUME SignupInv, Disconnect PROVE SignupInv'
  OBVIOUS
<1>1. /\ form' = [form EXCEPT !.feedback = "retry", !.active = None]
      /\ requests' = {r \in requests : r.stage # "answered"}
      /\ UNCHANGED <<calls, contacts, submitted>>
  BY Typable DEF Disconnect, Outcome
<1>2. form' \in FormRecord /\ form'.active = None /\ form'.feedback = "retry"
  BY <1>1 DEF SignupInv, Typed, FormRecord, Feedback
<1>3. QED
  BY <1>1, <1>2, Typable
     DEF SignupInv, Typed, RequestsNumbered, CallsAreTheirs, RememberedInForm, AnswersHold, ConfirmedIsContact,
         RequestRecord

\* A call that is lost decides nothing.
LEMMA LoseCallKeeps == ASSUME SignupInv, NEW c \in calls, LoseCall(c) PROVE SignupInv'
BY DEF LoseCall, SignupInv, Typed, RequestsNumbered, CallsAreTheirs, RememberedInForm, AnswersHold, ConfirmedIsContact

---------------------------------------------------------------------------
(* Whatever is typed, sent, given up, lost and answered, the requests, the  *)
(* calls and the form agree on what was asked (subscribe.ts, brevo.ts).     *)
THEOREM SignupInvariance == SignupSpec => []SignupInv
<1>1. SignupInv /\ [SignupNext]_signupVars => SignupInv'
  <2> SUFFICES ASSUME SignupInv, [SignupNext]_signupVars PROVE SignupInv'
    OBVIOUS
  <2>1. CASE Type
    BY <2>1, TypeKeeps
  <2>2. CASE Submit
    BY <2>2, SubmitKeeps
  <2>3. CASE Leave
    BY <2>3, LeaveKeeps
  <2>4. CASE Serve
    BY <2>4, HandleKeeps, GiveUpKeeps, ReceiveKeeps DEF Serve
  <2>5. CASE Disconnect
    BY <2>5, DisconnectKeeps
  <2>6. CASE \E c \in calls : Decide(c) \/ LoseCall(c)
    BY <2>6, DecideKeeps, LoseCallKeeps
  <2>7. CASE UNCHANGED signupVars
    BY <2>7 DEF signupVars, SignupInv, Typed, RequestsNumbered, CallsAreTheirs, RememberedInForm, AnswersHold,
                ConfirmedIsContact
  <2>8. QED
    BY <2>1, <2>2, <2>3, <2>4, <2>5, <2>6, <2>7 DEF SignupNext
<1>2. QED
  BY SignupInitially, <1>1, PTL DEF SignupSpec

(* The visitor is told to look for a mail only when Brevo knows the address *)
(* or the trap was filled, and no call is made for a filled trap (onRequest *)
(* of subscribe.ts, createDoubleOptInContact of brevo.ts).                  *)
THEOREM SignupIsAlwaysTrue == SignupSpec => []SignupIsTrue
<1>1. SignupInv => SignupTypeOK
  BY DEF SignupInv, Typed, FormRecord, Feedback, RequestRecord, RequestsNumbered, AnswersHold, SignupTypeOK
<1>2. SignupInv => ConfirmedIsContact /\ TrapIsSilent
  BY DEF SignupInv, CallsAreTheirs, TrapIsSilent
<1>3. SignupInv => SignupIsTrue
  BY <1>1, <1>2 DEF SignupIsTrue
<1>4. QED
  BY <1>3, SignupInvariance, PTL

---------------------------------------------------------------------------
(* THE CALCULATOR.                                                         *)
(*                                                                         *)
(* Of its arithmetic, for every price, plan and workload: a rounded result *)
(* is half a unit from the true one, the messages to break even are the    *)
(* least with which the plan costs no more, and the four answers of a      *)
(* comparison agree though each is rounded on its own.                     *)
(*                                                                         *)
(* Of the page, for every list of catalogs: its type, and that the         *)
(* provider and the plan a visitor acts on are those of the catalog.  What *)
(* Total and SelectSeq compute is induction over data and stays with TLC.  *)

---------------------------------------------------------------------------
(* Division *)

LEMMA DivFacts ==
    ASSUME NEW n \in Int, NEW d \in Nat \ {0}
    PROVE  /\ n \div d \in Int /\ n % d \in 0..(d - 1)
           /\ n = d * (n \div d) + (n % d)
  BY SMT

(* Products grow with a factor. *)
LEMMA ProductGrows ==
    ASSUME NEW d \in Nat, NEW x \in Int, NEW y \in Int, x <= y
    PROVE  d * x \in Int /\ d * y \in Int /\ d * x <= d * y
  <1>1. d * (y - x) >= 0 /\ d * (y - x) = d * y - d * x
    BY SMT
  <1> QED
    BY <1>1

(* Rounded is half a unit from the true quotient, at most. *)
THEOREM RoundedIsNear ==
    ASSUME NEW n \in Int, NEW d \in Nat \ {0}
    PROVE  /\ Rounded(n, d) \in Int
           /\ 2 * (d * Rounded(n, d)) - 2 * n <= d
           /\ 2 * n - 2 * (d * Rounded(n, d)) <= d
  <1> DEFINE h == d \div 2
             r == (n + h) \div d
  <1>1. h \in Int /\ 2 * h <= d /\ d <= 2 * h + 1
    BY SMT
  <1> HIDE DEF h
  <1>2. r \in Int /\ n + h = d * r + ((n + h) % d) /\ (n + h) % d \in 0..(d - 1)
    <2>1. n + h \in Int
      BY <1>1
    <2> QED
      BY <2>1, DivFacts
  <1>3. Rounded(n, d) = r
    BY DEF Rounded, h
  <1> HIDE DEF r
  <1> DEFINE p == d * r
             rest == (n + h) % d
  <1>4. p \in Int /\ rest \in 0..(d - 1) /\ n + h = p + rest
    BY <1>2
  <1> HIDE DEF p, rest
  <1>5. 2 * p - 2 * n <= d /\ 2 * n - 2 * p <= d
    BY <1>1, <1>4
  <1> QED
    BY <1>2, <1>3, <1>5 DEF p

(* Ceiling is the least number of units that reaches n. *)
LEMMA CeilingIsLeast ==
    ASSUME NEW n \in Int, NEW d \in Nat \ {0}, NEW x \in Int
    PROVE  /\ Ceiling(n, d) \in Int
           /\ Ceiling(n, d) <= x <=> n <= d * x
  <1> DEFINE c == (n + d - 1) \div d
  <1>1. /\ c \in Int /\ (n + d - 1) % d \in 0..(d - 1)
        /\ n + d - 1 = d * c + ((n + d - 1) % d)
    BY DivFacts
  <1>2. Ceiling(n, d) = c
    BY DEF Ceiling
  <1>3. d * c \in Int /\ d * x \in Int
    BY <1>1
  <1>4. n <= d * c /\ d * c < n + d
    <2> DEFINE rest == (n + d - 1) % d
    <2> HIDE DEF c, rest
    <2>1. rest \in 0..(d - 1) /\ n + d - 1 = d * c + rest
      BY <1>1 DEF rest
    <2> QED
      BY <1>3, <2>1
  <1> HIDE DEF c
  <1>5. CASE c <= x
    <2>1. d * c <= d * x
      BY <1>1, <1>5, ProductGrows
    <2> QED
      BY <1>2, <1>1, <1>3, <1>4, <1>5, <2>1
  <1>6. CASE x + 1 <= c
    <2>1. d * (x + 1) <= d * c /\ d * (x + 1) = d * x + d
      BY <1>1, <1>6, ProductGrows, SMT
    <2> QED
      BY <1>2, <1>1, <1>3, <1>4, <1>6, <2>1
  <1> QED
    BY <1>1, <1>5, <1>6

---------------------------------------------------------------------------
(* The comparison *)

(* The messages to break even are the least of a day that make paying by    *)
(* token as expensive as the plan, at the price of a message of the         *)
(* workload (compareSubscriptionWithApi, breakEvenMessagesPerDay).          *)
THEOREM BreakEvenIsLeast ==
    ASSUME NEW plan \in Nat, NEW messages \in Nat \ {0}, NEW cost \in Nat \ {0}, NEW days \in Nat \ {0},
           NEW x \in Nat
    PROVE  BreakEven(plan, messages, cost, days) <= x <=> plan * messages <= (cost * days) * x
  <1>1. plan * messages \in Int /\ cost * days \in Nat \ {0}
    <2>1. cost * days >= 1 * days
      BY ProductGrows, SMT
    <2> QED
      BY <2>1, SMT
  <1> QED
    BY <1>1, CeilingIsLeast DEF BreakEven

(* The recommendation is for paying by token exactly when the day of the    *)
(* workload has fewer messages than it takes to break even: the two are     *)
(* computed and shown apart from each other (cheaper and                    *)
(* breakEvenMessagesPerDay).                                                *)
THEOREM CheaperMeetsBreakEven ==
    ASSUME NEW plan \in Nat, NEW cost \in Nat \ {0}, NEW perDay \in Nat \ {0}, NEW days \in Nat \ {0}
    PROVE  plan > cost <=> perDay < BreakEven(plan, perDay * days, cost, days)
  <1> DEFINE month == perDay * days
  <1>1. month \in Nat \ {0}
    <2>1. perDay * days >= 1 * days
      BY ProductGrows, SMT
    <2> QED
      BY <2>1, SMT
  <1>2. (cost * days) * perDay = cost * month
    BY SMT
  <1>3. BreakEven(plan, month, cost, days) <= perDay <=> plan * month <= cost * month
    BY <1>1, <1>2, BreakEvenIsLeast
  <1>4. BreakEven(plan, month, cost, days) \in Int
    <2>1. plan * month \in Int /\ cost * days \in Nat \ {0}
      <3>1. cost * days >= 1 * days
        BY ProductGrows, SMT
      <3> QED
        BY <1>1, <3>1, SMT
    <2> QED
      BY <2>1, CeilingIsLeast DEF BreakEven
  <1> HIDE DEF month
  <1>5. plan * month <= cost * month <=> plan <= cost
    <2>1. CASE plan <= cost
      <3>1. month * plan <= month * cost
        BY <1>1, <2>1, ProductGrows
      <3> QED
        BY <1>1, <2>1, <3>1, SMT
    <2>2. CASE cost + 1 <= plan
      <3>1. month * (cost + 1) <= month * plan /\ month * (cost + 1) = month * cost + month
        BY <1>1, <2>2, ProductGrows, SMT
      <3>2. month * plan = plan * month /\ month * cost = cost * month
        BY <1>1, SMT
      <3>3. month * cost \in Int /\ month * plan \in Int
        BY <1>1
      <3> QED
        BY <1>1, <2>2, <3>1, <3>2, <3>3
    <2> QED
      BY <2>1, <2>2
  <1> QED
    BY <1>3, <1>4, <1>5 DEF month

(* A result rounds to a number of its own sign, or to zero. *)
LEMMA RoundedKeepsSign ==
    ASSUME NEW n \in Int, NEW d \in Nat \ {0}
    PROVE  (n <= 0 => Rounded(n, d) <= 0) /\ (n >= 0 => Rounded(n, d) >= 0)
  <1> DEFINE r == Rounded(n, d)
             p == d * r
  <1>1. r \in Int /\ p \in Int /\ 2 * p - 2 * n <= d /\ 2 * n - 2 * p <= d
    BY RoundedIsNear
  <1>2. r >= 1 => p >= d
    <2>1. r >= 1 => d * 1 <= d * r
      BY <1>1, ProductGrows
    <2> QED
      BY <2>1
  <1>3. r <= -1 => p <= -d
    <2>1. r <= -1 => d * r <= d * (-1)
      BY <1>1, ProductGrows
    <2> QED
      BY <2>1
  <1> HIDE DEF p, r
  <1>4. (n <= 0 => r <= 0) /\ (n >= 0 => r >= 0)
    BY <1>1, <1>2, <1>3
  <1> QED
    BY <1>4 DEF r

(* The four answers of a comparison agree, for every plan, cost and day     *)
(* (compareSubscriptionWithApi): the recommendation with the sign of the    *)
(* difference, with the messages to break even, and with the efficiency.    *)
THEOREM ComparisonAgrees ==
    ASSUME NEW plan \in Nat, NEW cost \in Nat, NEW perDay \in Nat, NEW days \in Nat
    PROVE  Agrees(Compared(plan, perDay * days, cost, days), perDay)
  <1> DEFINE result == Compared(plan, perDay * days, cost, days)
  <1>1. /\ result.difference = cost - plan
        /\ result.cheaper = Cheaper(plan, cost)
        /\ result.efficiency = IF cost > 0 THEN Efficiency(plan, cost) ELSE None
        /\ result.breakEven = IF days > 0 /\ perDay * days > 0 /\ cost > 0
                              THEN BreakEven(plan, perDay * days, cost, days) ELSE None
    BY DEF Compared
  <1> HIDE DEF result
  <1>2. /\ result.cheaper = "subscription" <=> plan < cost
        /\ result.cheaper = "api" <=> plan > cost
    BY <1>1 DEF Cheaper
  <1>3. ASSUME result.breakEven # None
        PROVE  result.cheaper = "api" <=> perDay < result.breakEven
    <2>1. days > 0 /\ perDay * days > 0 /\ cost > 0
      BY <1>1, <1>3
    <2>2. perDay > 0
      <3>1. perDay = 0 => perDay * days = 0
        BY SMT
      <3> QED
        BY <2>1, <3>1
    <2>3. plan > cost <=> perDay < BreakEven(plan, perDay * days, cost, days)
      <3>1. cost \in Nat \ {0} /\ perDay \in Nat \ {0} /\ days \in Nat \ {0}
        BY <2>1, <2>2
      <3> QED
        BY <3>1, CheaperMeetsBreakEven
    <2> QED
      BY <1>1, <1>2, <2>1, <2>3
  <1>4. ASSUME result.efficiency # None
        PROVE  /\ result.efficiency > 0 => result.difference > 0
               /\ result.efficiency < 0 => result.difference < 0
    <2>1. cost > 0 /\ result.efficiency = Rounded((cost - plan) * BasisPoints, cost)
      BY <1>1, <1>4 DEF Efficiency
    <2> DEFINE n == (cost - plan) * BasisPoints
    <2>2. /\ n \in Int
          /\ cost - plan <= 0 => n <= 0
          /\ cost - plan >= 0 => n >= 0
      <3>1. BasisPoints \in Nat /\ cost - plan \in Int
        BY ArithmeticAssumption
      <3>2. n = BasisPoints * (cost - plan) /\ BasisPoints * 0 = 0
        BY <3>1, SMT
      <3>3. /\ cost - plan <= 0 => BasisPoints * (cost - plan) <= BasisPoints * 0
            /\ 0 <= cost - plan => BasisPoints * 0 <= BasisPoints * (cost - plan)
            /\ BasisPoints * (cost - plan) \in Int
        <4> DEFINE difference == cost - plan
        <4>1. difference \in Int
          BY <3>1
        <4> HIDE DEF difference
        <4>2. /\ difference <= 0 => BasisPoints * difference <= BasisPoints * 0
              /\ 0 <= difference => BasisPoints * 0 <= BasisPoints * difference
              /\ BasisPoints * difference \in Int
          BY <3>1, <4>1, ProductGrows
        <4> QED
          BY <4>2 DEF difference
      <3> QED
        BY <3>2, <3>3
    <2> HIDE DEF n
    <2>3. /\ Rounded(n, cost) \in Int
          /\ n <= 0 => Rounded(n, cost) <= 0
          /\ n >= 0 => Rounded(n, cost) >= 0
      <3>1. cost \in Nat \ {0} /\ n \in Int
        BY <2>1, <2>2
      <3> QED
        BY <3>1, RoundedKeepsSign, RoundedIsNear
    <2>4. result.efficiency = Rounded(n, cost)
      BY <2>1 DEF n
    <2> QED
      BY <1>1, <2>2, <2>3, <2>4
  <1> QED
    BY <1>1, <1>2, <1>3, <1>4 DEF Agrees, result

(* The cost of a month is one unit from the true one, at most, although each *)
(* direction is rounded before the sum (calculateApiEquivalentCost).         *)
THEOREM ApiCostIsNear ==
    ASSUME NEW input \in Nat, NEW output \in Nat, NEW inRate \in Nat, NEW outRate \in Nat
    PROVE  LET cost == ApiCost([input |-> input, output |-> output], [input |-> inRate, output |-> outRate])
               exact == input * inRate + output * outRate
           IN /\ cost \in Int
              /\ Million * cost - exact <= Million /\ exact - Million * cost <= Million
  <1> DEFINE m == input * inRate
             n == output * outRate
             a == Rounded(m, Million)
             b == Rounded(n, Million)
  <1>1. m \in Int /\ n \in Int /\ Million \in Nat \ {0}
    BY ArithmeticAssumption, SMT
  <1>2. ApiCost([input |-> input, output |-> output], [input |-> inRate, output |-> outRate]) = a + b
    BY DEF ApiCost
  <1> HIDE DEF m, n
  <1>3. /\ a \in Int /\ 2 * (Million * a) - 2 * m <= Million /\ 2 * m - 2 * (Million * a) <= Million
        /\ b \in Int /\ 2 * (Million * b) - 2 * n <= Million /\ 2 * n - 2 * (Million * b) <= Million
    BY <1>1, RoundedIsNear
  <1> HIDE DEF a, b
  <1> DEFINE p == Million * a
             q == Million * b
  <1>4. p \in Int /\ q \in Int /\ Million * (a + b) = p + q
    BY <1>1, <1>3, SMT
  <1>5. /\ 2 * p - 2 * m <= Million /\ 2 * m - 2 * p <= Million
        /\ 2 * q - 2 * n <= Million /\ 2 * n - 2 * q <= Million
    BY <1>3
  <1> HIDE DEF p, q
  <1>6. (p + q) - (m + n) <= Million /\ (m + n) - (p + q) <= Million
    BY <1>1, <1>4, <1>5
  <1> QED
    BY <1>2, <1>3, <1>4, <1>6 DEF m, n

(* What a slider leaves to another model, the last one excepted, is a share *)
(* again: not below zero and not above what is left (redistributeModelMix;  *)
(* of the last one SharesInRange shows that it may be below zero).          *)
THEOREM GivenShareFits ==
    ASSUME NEW rest \in Nat, NEW total \in Nat \ {0}, NEW share \in 0..total
    PROVE  Rounded(rest * share, total) \in 0..rest
  <1> DEFINE n == rest * share
             r == Rounded(n, total)
             whole == total * rest
  <1>1. n \in Int /\ 0 <= n /\ n <= whole /\ whole \in Int
    <2>1. rest * 0 <= rest * share /\ rest * share <= rest * total
      BY ProductGrows
    <2> QED
      BY <2>1, SMT
  <1> HIDE DEF n, whole
  <1> DEFINE p == total * r
  <1>2. r \in Int /\ p \in Int /\ 2 * p - 2 * n <= total /\ r >= 0
    BY <1>1, RoundedIsNear, RoundedKeepsSign
  <1>3. r >= rest + 1 => p >= whole + total
    <2>1. r >= rest + 1 => total * (rest + 1) <= total * r
      BY <1>2, ProductGrows
    <2>2. total * (rest + 1) = total * rest + total
      BY SMT
    <2> QED
      BY <2>1, <2>2 DEF whole
  <1> HIDE DEF p, r
  <1>4. r <= rest
    BY <1>1, <1>2, <1>3
  <1> QED
    BY <1>2, <1>4 DEF r, n

---------------------------------------------------------------------------
(* The page *)

Fields == {"catalog", "provider", "plan", "mode", "applied", "hydrated", "skip", "pending", "gone"}

(* What an effect and a handler may rely on: a page has its fields, and the *)
(* effect that repairs a selection is never skipped.                        *)
IsPage(calc) ==
    /\ Fields \subseteq DOMAIN calc
    /\ calc.mode \in {"default", "override"}
    /\ calc.applied \in BOOLEAN /\ calc.hydrated \in BOOLEAN
    /\ calc.pending \in BOOLEAN /\ calc.gone \in BOOLEAN
    /\ calc.hydrated => calc.applied
    /\ calc.skip = FALSE

HasItsPlan(calc) ==
    /\ calc.provider \in ProviderIds(Catalogs[calc.catalog])
    /\ calc.plan # None => PaidPlan(Catalogs[calc.catalog], calc.provider, calc.plan) # None

(* The inductive invariant: a page that waits for no effect has a plan of   *)
(* its catalog, shown or not.                                               *)
PageInv ==
    /\ edition \in DOMAIN Catalogs
    /\ IsPage(tool)
    /\ tool.catalog \in (1..edition) \cup {None}
    /\ tool.catalog # None /\ ~tool.pending => HasItsPlan(tool)

(* Each catalog has a provider to choose: else the flag that skips an effect *)
(* stays up until a catalog has one, and that catalog is then not repaired.  *)
EachHasProviders == \A c \in DOMAIN Catalogs : ProviderIds(Catalogs[c]) # {}

LEMMA CatalogDomain == DOMAIN Catalogs = 1..Len(Catalogs) /\ Len(Catalogs) \in Nat \ {0}
  BY CatalogsAssumption

LEMMA ThrowsIsBoolean == ASSUME NEW calc PROVE Throws(calc) \in BOOLEAN
  BY DEF Throws, HasUnsafe

(* A render changes nothing else. *)
LEMMA RenderedKeeps ==
    ASSUME NEW calc, IsPage(calc)
    PROVE  /\ IsPage(Rendered(calc))
           /\ Rendered(calc).catalog = calc.catalog /\ Rendered(calc).pending = calc.pending
           /\ Rendered(calc).provider = calc.provider /\ Rendered(calc).plan = calc.plan
  <1> PICK throws \in BOOLEAN : throws = Throws(calc)
    BY ThrowsIsBoolean
  <1>1. Rendered(calc) = [calc EXCEPT !.gone = throws]
    BY DEF Rendered
  <1> QED
    BY <1>1 DEF IsPage, Fields

(* A selection is set with the effects still to run. *)
LEMMA SelectWaits ==
    ASSUME NEW calc, IsPage(calc)
    PROVE  \A provider, plan :
              /\ IsPage(Select(calc, provider, plan))
              /\ Select(calc, provider, plan).catalog = calc.catalog
              /\ Select(calc, provider, plan).pending = TRUE
              /\ Select(calc, provider, plan).provider = provider
              /\ Select(calc, provider, plan).plan = plan
  <1> TAKE provider, plan
  <1> PICK selection : selection = DefaultSelection(Catalogs[calc.catalog], provider, plan)
    OBVIOUS
  <1>1. Select(calc, provider, plan) =
          [calc EXCEPT !.provider = provider, !.plan = plan, !.mode = "default", !.pending = TRUE,
                       !.ids = selection.ids, !.mix = selection.mix]
    BY DEF Select
  <1> QED
    BY <1>1 DEF IsPage, Fields

(* The second effect ends only with a provider and a plan of the catalog. *)
LEMMA ReconciledHasItsPlan ==
    ASSUME NEW calc, IsPage(calc), calc.pending = TRUE, ProviderIds(Catalogs[calc.catalog]) # {}
    PROVE  /\ IsPage(Reconciled(calc))
           /\ Reconciled(calc).catalog = calc.catalog
           /\ ~Reconciled(calc).pending => HasItsPlan(Reconciled(calc))
  <1> DEFINE catalog == Catalogs[calc.catalog]
             firstPlan == FirstPlanId(catalog, calc.provider)
             default == Select(calc, calc.provider, calc.plan)
             done == [calc EXCEPT !.pending = FALSE]
  <1> PICK best : best = BestProvider(catalog)
    OBVIOUS
  <1> PICK chosen, standard : chosen = Select(calc, calc.provider, firstPlan) /\ standard = default
    OBVIOUS
  <1>0. /\ chosen = Select(calc, calc.provider, firstPlan) /\ standard = Select(calc, calc.provider, calc.plan)
        /\ IsPage(chosen) /\ chosen.catalog = calc.catalog /\ chosen.pending = TRUE
        /\ IsPage(standard) /\ standard.catalog = calc.catalog
        /\ standard.provider = calc.provider /\ standard.plan = calc.plan
    <2> HIDE DEF firstPlan, default
    <2>1. standard = Select(calc, calc.provider, calc.plan)
      BY DEF default
    <2>2. \A provider, plan :
              /\ IsPage(Select(calc, provider, plan))
              /\ Select(calc, provider, plan).catalog = calc.catalog
              /\ Select(calc, provider, plan).pending = TRUE
              /\ Select(calc, provider, plan).provider = provider
              /\ Select(calc, provider, plan).plan = plan
      BY SelectWaits, Zenon
    <2>3. IsPage(chosen) /\ chosen.catalog = calc.catalog /\ chosen.pending = TRUE
      BY <2>2
    <2> QED
      BY <2>1, <2>2, <2>3
  <1>1. calc.skip = FALSE
    BY DEF IsPage
  <1>2. CASE calc.provider \notin ProviderIds(catalog)
    <2>1. Reconciled(calc) = [calc EXCEPT !.provider = best]
      BY <1>1, <1>2 DEF Reconciled
    <2>2. /\ IsPage(Reconciled(calc)) /\ Reconciled(calc).catalog = calc.catalog
          /\ Reconciled(calc).pending = TRUE
      BY <2>1 DEF IsPage, Fields
    <2> QED
      BY <2>2
  <1>3. CASE calc.provider \in ProviderIds(catalog) /\ calc.plan # None /\ PaidPlan(catalog, calc.provider, calc.plan) = None
    <2>1. Reconciled(calc) = chosen
      BY <1>0, <1>1, <1>3 DEF Reconciled
    <2> QED
      BY <1>0, <2>1
  <1>4. CASE /\ calc.provider \in ProviderIds(catalog)
             /\ calc.plan # None => PaidPlan(catalog, calc.provider, calc.plan) # None
    <2>1. /\ IsPage(done) /\ done.catalog = calc.catalog /\ done.provider = calc.provider
          /\ done.plan = calc.plan
      BY DEF IsPage, Fields
    <2>2. HasItsPlan(done)
      BY <1>4, <2>1 DEF HasItsPlan
    <2> PICK differs \in BOOLEAN : differs = Differs(calc, default)
      BY DEF Differs
    <2> DEFINE repaired == [standard EXCEPT !.pending = differs]
    <2>3. /\ IsPage(repaired) /\ repaired.catalog = calc.catalog /\ repaired.provider = calc.provider
          /\ repaired.plan = calc.plan
      BY <1>0 DEF IsPage, Fields
    <2>4. HasItsPlan(repaired)
      <3> HIDE DEF repaired
      <3> QED
        BY <1>4, <2>3 DEF HasItsPlan
    <2>5. CASE calc.plan = None /\ firstPlan # None /\ ~calc.hydrated
      <3>1. Reconciled(calc) = chosen
        BY <1>0, <1>1, <1>4, <2>5 DEF Reconciled
      <3> QED
        BY <1>0, <3>1
    <2>6. CASE ~(calc.plan = None /\ firstPlan # None /\ ~calc.hydrated)
      <3>1. Reconciled(calc) = IF ~calc.hydrated /\ ~HasModel(calc)
                               THEN [default EXCEPT !.pending = Differs(calc, default)] ELSE done
        BY <1>1, <1>4, <2>6 DEF Reconciled
      <3>2. Reconciled(calc) = repaired \/ Reconciled(calc) = done
        BY <1>0, <3>1
      <3> HIDE DEF repaired, done
      <3> QED
        BY <2>1, <2>2, <2>3, <2>4, <3>2
    <2> QED
      BY <2>5, <2>6
  <1> QED
    BY <1>2, <1>3, <1>4

(* A link that is taken over leaves the repair to the next commit. *)
LEMMA HydratedWaits ==
    ASSUME NEW calc, IsPage(calc), ProviderIds(Catalogs[calc.catalog]) # {},
           NEW url, Decode(url, Catalogs[calc.catalog]) # None
    PROVE  LET next == Hydrated(calc, Decode(url, Catalogs[calc.catalog]))
           IN IsPage(next) /\ next.catalog = calc.catalog /\ next.pending = TRUE
  <1> PICK decoded : decoded = Decode(url, Catalogs[calc.catalog])
    OBVIOUS
  <1>1. decoded.mode \in {"default", "override"}
    <2> DEFINE catalog == Catalogs[calc.catalog]
               kept == Surviving(url, catalog)
               mix == NormalizedMix(Ids(kept), [i \in DOMAIN kept |-> kept[i].weight])
               plan == IF PaidPlan(catalog, url.provider, url.plan) = None THEN None ELSE url.plan
    <2>1. decoded.mode = InferredMode(catalog, url.provider, plan, mix)
      BY DEF Decode
    <2>2. \A p, m : InferredMode(catalog, url.provider, p, m) \in {"default", "override"}
      BY DEF InferredMode
    <2> QED
      BY <2>1, <2>2
  <1> DEFINE next == [calc EXCEPT !.applied = TRUE, !.hydrated = TRUE, !.pending = TRUE,
                                  !.skip = ProviderIds(Catalogs[calc.catalog]) = {},
                                  !.provider = decoded.provider, !.plan = decoded.plan,
                                  !.ids = decoded.ids, !.mix = decoded.mix,
                                  !.workload = decoded.workload, !.mode = decoded.mode]
  <1>2. IsPage(next) /\ next.catalog = calc.catalog /\ next.pending = TRUE
    BY <1>1 DEF IsPage, Fields
  <1>3. PICK seen : Hydrated(calc, decoded) = [next EXCEPT !.address = seen]
    BY DEF Hydrated
  <1> HIDE DEF next
  <1>4. /\ IsPage(Hydrated(calc, decoded)) /\ Hydrated(calc, decoded).catalog = calc.catalog
        /\ Hydrated(calc, decoded).pending = TRUE
    BY <1>2, <1>3 DEF IsPage, Fields
  <1> QED
    BY <1>4

(* What an edit does: it waits for the effects, or leaves catalog, provider *)
(* and plan as they were.                                                   *)
LEMMA EditKeeps ==
    ASSUME PageInv, NEW calc, Edits(calc), IsPage(calc), calc.catalog = tool.catalog,
           calc.pending = TRUE \/ (calc.provider = tool.provider /\ calc.plan = tool.plan)
    PROVE  PageInv'
  <1>1. Settled /\ edition' = edition
    BY DEF Edits
  <1> DEFINE touched == [calc EXCEPT !.touched = TRUE]
  <1>2. /\ IsPage(touched) /\ touched.catalog = calc.catalog /\ touched.pending = calc.pending
        /\ touched.provider = calc.provider /\ touched.plan = calc.plan
    BY DEF IsPage, Fields
  <1>3. tool' = Rendered(touched)
    BY DEF Edits
  <1> HIDE DEF touched
  <1>4. /\ IsPage(tool') /\ tool'.catalog = calc.catalog /\ tool'.pending = calc.pending
        /\ tool'.provider = calc.provider /\ tool'.plan = calc.plan
    BY <1>2, <1>3, RenderedKeeps
  <1>5. HasItsPlan(tool)
    BY <1>1 DEF PageInv, Settled, Shown
  <1>6. calc.pending # TRUE => HasItsPlan(tool')
    BY <1>4, <1>5 DEF HasItsPlan
  <1> QED
    BY <1>1, <1>4, <1>6 DEF PageInv, IsPage

LEMMA PageInvInit == CalculatorInit => PageInv
  <1> SUFFICES ASSUME CalculatorInit PROVE PageInv
    OBVIOUS
  <1>1. edition \in DOMAIN Catalogs
    BY CatalogDomain DEF CalculatorInit
  <1>2. IsPage(tool) /\ tool.catalog = None
    BY DEF CalculatorInit, NewPage, IsPage, Fields
  <1> QED
    BY <1>1, <1>2 DEF PageInv

LEMMA PageInvNext ==
    ASSUME PageInv, EachHasProviders, [CalculatorNext]_calculatorVars
    PROVE  PageInv'
  <1> USE EachHasProviders
  <1>1. CASE PublishesCatalog
    <2>1. edition' \in DOMAIN Catalogs /\ edition \in Int /\ edition' = edition + 1 /\ tool' = tool
      BY <1>1, CatalogDomain DEF PublishesCatalog, PageInv
    <2>2. 1..edition \subseteq 1..edition'
      BY <2>1
    <2> QED
      BY <2>1, <2>2 DEF PageInv, IsPage, HasItsPlan
  <1>2. ASSUME NEW url, OpensPage(url) PROVE PageInv'
    <2>1. tool' = NewPage(url) /\ edition' = edition
      BY <1>2 DEF OpensPage
    <2>2. IsPage(tool') /\ tool'.catalog = None
      BY <2>1 DEF NewPage, IsPage, Fields
    <2> QED
      BY <2>1, <2>2 DEF PageInv
  <1>3. ASSUME NEW c \in DOMAIN Catalogs, ReceivesCatalog(c) PROVE PageInv'
    <2> PICK replaced : replaced = (tool.catalog \notin {None, c})
      OBVIOUS
    <2> DEFINE next == [tool EXCEPT !.catalog = c, !.pending = TRUE, !.replaced = replaced]
    <2>1. tool' = Rendered(next) /\ edition' = edition /\ c \in 1..edition
      BY <1>3 DEF ReceivesCatalog
    <2>2. IsPage(next) /\ next.catalog = c /\ next.pending = TRUE
      BY DEF PageInv, IsPage, Fields
    <2> HIDE DEF next
    <2>3. IsPage(tool') /\ tool'.catalog = c /\ tool'.pending = TRUE
      BY <2>1, <2>2, RenderedKeeps
    <2> QED
      BY <2>1, <2>3 DEF PageInv
  <1>4. CASE RunsEffects
    <2>1. /\ tool.catalog \in 1..edition /\ tool.pending = TRUE /\ tool' = AfterEffects /\ edition' = edition
      BY <1>4 DEF RunsEffects, HasEffects, Shown, PageInv, IsPage
    <2>2. tool.catalog \in DOMAIN Catalogs
      BY <2>1, CatalogDomain DEF PageInv
    <2>3. ProviderIds(Catalogs[tool.catalog]) # {}
      BY <2>2 DEF EachHasProviders
    <2> DEFINE begun == [tool EXCEPT !.applied = TRUE]
               hydrated == Hydrated(tool, Decode(tool.address, Catalogs[tool.catalog]))
    <2>4. \/ tool' = Rendered(hydrated) /\ Decode(tool.address, Catalogs[tool.catalog]) # None
          \/ tool' = Rendered(Reconciled(begun))
      BY <2>1 DEF AfterEffects
    <2>5. IsPage(tool)
      BY DEF PageInv
    <2>6. CASE tool' = Rendered(hydrated) /\ Decode(tool.address, Catalogs[tool.catalog]) # None
      <3>1. IsPage(hydrated) /\ hydrated.catalog = tool.catalog /\ hydrated.pending = TRUE
        BY <2>3, <2>5, <2>6, HydratedWaits
      <3> HIDE DEF hydrated
      <3>2. IsPage(tool') /\ tool'.catalog = tool.catalog /\ tool'.pending = TRUE
        BY <2>6, <3>1, RenderedKeeps
      <3> QED
        BY <2>1, <3>2 DEF PageInv
    <2>7. CASE tool' = Rendered(Reconciled(begun))
      <3>1. IsPage(begun) /\ begun.catalog = tool.catalog /\ begun.pending = TRUE
        BY <2>1, <2>5 DEF IsPage, Fields
      <3> HIDE DEF begun
      <3> PICK next : next = Reconciled(begun)
        OBVIOUS
      <3>2. IsPage(next) /\ next.catalog = tool.catalog /\ (~next.pending => HasItsPlan(next))
        BY <2>3, <3>1, ReconciledHasItsPlan
      <3>3. /\ IsPage(tool') /\ tool'.catalog = next.catalog /\ tool'.pending = next.pending
            /\ tool'.provider = next.provider /\ tool'.plan = next.plan
        BY <2>7, <3>2, RenderedKeeps
      <3>4. ~tool'.pending => HasItsPlan(tool')
        BY <3>2, <3>3 DEF HasItsPlan
      <3> QED
        BY <2>1, <3>2, <3>3, <3>4 DEF PageInv
    <2> QED
      BY <2>4, <2>6, <2>7
  <1>5. ASSUME NEW provider, NEW plan, Edits(Select(tool, provider, plan)) PROVE PageInv'
    <2> PICK selection : selection = DefaultSelection(Catalogs[tool.catalog], provider, plan)
      OBVIOUS
    <2> DEFINE next == [tool EXCEPT !.provider = provider, !.plan = plan, !.mode = "default", !.pending = TRUE,
                                    !.ids = selection.ids, !.mix = selection.mix]
    <2>1. IsPage(next) /\ next.catalog = tool.catalog /\ next.pending = TRUE
      BY DEF PageInv, IsPage, Fields
    <2>2. Edits(next)
      BY <1>5 DEF Select
    <2> HIDE DEF next
    <2> QED
      BY <2>1, <2>2, EditKeeps
  <1>6. ASSUME NEW id, TogglesModel(id) PROVE PageInv'
    <2> PICK ids : Edits([tool EXCEPT !.mode = "override", !.pending = TRUE, !.ids = ids, !.mix = EvenMix(ids)])
      BY <1>6 DEF TogglesModel
    <2> PICK mix : mix = EvenMix(ids)
      OBVIOUS
    <2> DEFINE next == [tool EXCEPT !.mode = "override", !.pending = TRUE, !.ids = ids, !.mix = mix]
    <2>1. IsPage(next) /\ next.catalog = tool.catalog /\ next.pending = TRUE
      BY DEF PageInv, IsPage, Fields
    <2>2. Edits(next)
      OBVIOUS
    <2> HIDE DEF next
    <2> QED
      BY <2>1, <2>2, EditKeeps
  <1>7. ASSUME NEW id, NEW share, MovesSlider(id, share) PROVE PageInv'
    <2> PICK mix : mix = Redistribute(tool.mix, id, share)
      OBVIOUS
    <2> DEFINE next == [tool EXCEPT !.mode = "override", !.mix = mix]
    <2>1. /\ IsPage(next) /\ next.catalog = tool.catalog
          /\ next.provider = tool.provider /\ next.plan = tool.plan
      BY DEF PageInv, IsPage, Fields
    <2>2. Edits(next)
      BY <1>7 DEF MovesSlider
    <2> HIDE DEF next
    <2> QED
      BY <2>1, <2>2, EditKeeps
  <1>8. ASSUME NEW w, EntersWorkload(w) PROVE PageInv'
    <2> DEFINE next == [tool EXCEPT !.workload = w]
    <2>1. /\ IsPage(next) /\ next.catalog = tool.catalog
          /\ next.provider = tool.provider /\ next.plan = tool.plan
      BY DEF PageInv, IsPage, Fields
    <2>2. Edits(next)
      BY <1>8 DEF EntersWorkload
    <2> HIDE DEF next
    <2> QED
      BY <2>1, <2>2, EditKeeps
  <1>9. CASE OpensMapping
    <2> DEFINE next == [tool EXCEPT !.mode = "override"]
    <2>1. /\ IsPage(next) /\ next.catalog = tool.catalog
          /\ next.provider = tool.provider /\ next.plan = tool.plan
      BY DEF PageInv, IsPage, Fields
    <2>2. Edits(next)
      BY <1>9 DEF OpensMapping
    <2> HIDE DEF next
    <2> QED
      BY <2>1, <2>2, EditKeeps
  <1>10. CASE SharesLink \/ UNCHANGED calculatorVars
    <2>1. tool' = tool /\ edition' = edition
      BY <1>10 DEF SharesLink, calculatorVars
    <2> QED
      BY <2>1 DEF PageInv, IsPage, HasItsPlan
  <1>11. ASSUME NEW provider, ChangesProvider(provider) PROVE PageInv'
    BY <1>5, <1>11 DEF ChangesProvider
  <1>12. ASSUME NEW id, ChangesPlan(id) PROVE PageInv'
    BY <1>5, <1>12 DEF ChangesPlan
  <1> QED
    BY <1>1, <1>2, <1>3, <1>4, <1>6, <1>7, <1>8, <1>9, <1>10, <1>11, <1>12 DEF CalculatorNext

(* Whatever is published, opened, changed and shared, and however the       *)
(* answers of loads fall between the effects: once the effects have run,    *)
(* the provider is one of the catalog shown and the plan is his             *)
(* (App.tsx:139-180).  By the invariant PageInv.                            *)
THEOREM PlanAlwaysBelongs == EachHasProviders /\ CalculatorSpec => []PlanBelongs
  <1> SUFFICES ASSUME EachHasProviders PROVE CalculatorSpec => []PlanBelongs
    OBVIOUS
  <1>1. CalculatorInit => PageInv
    BY PageInvInit
  <1>2. PageInv /\ [CalculatorNext]_calculatorVars => PageInv'
    BY PageInvNext
  <1>3. PageInv => PlanBelongs
    BY DEF PageInv, PlanBelongs, Settled, Shown, HasItsPlan
  <1> QED
    BY <1>1, <1>2, <1>3, PTL DEF CalculatorSpec

(* The page and the published catalog have their types. *)
THEOREM CalculatorTypeCorrect == EachHasProviders /\ CalculatorSpec => []CalculatorTypeOK
  <1> SUFFICES ASSUME EachHasProviders PROVE CalculatorSpec => []CalculatorTypeOK
    OBVIOUS
  <1>1. CalculatorInit => PageInv
    BY PageInvInit
  <1>2. PageInv /\ [CalculatorNext]_calculatorVars => PageInv'
    BY PageInvNext
  <1>3. PageInv => CalculatorTypeOK
    BY DEF PageInv, CalculatorTypeOK, IsPage
  <1> QED
    BY <1>1, <1>2, <1>3, PTL DEF CalculatorSpec

---------------------------------------------------------------------------
(* THE CATALOG.                                                            *)
(*                                                                         *)
(* Whatever is published, lost and stored by late loads, what a load       *)
(* brings is what the site could answer while it was asked.  A 304 brings  *)
(* what was stored long ago, so the invariant says of every stored entry,  *)
(* wherever a load has taken it, that its tag is the one of its body; and  *)
(* that a load which is still asking has seen all that could be answered.  *)

\* A body as the pages get it: all offers of its revision.
IsWhole(body) == body \in Bodies /\ body.offers = body.rev /\ (body.rev = 0 <=> body.status = "bootstrap")

Meanings == (Revision \cup {0, None}) \X {"fresh", "stale", "bootstrap"}

TabRecord ==
    [phase : {"closed", "loading", "ready"}, catalog : Bodies \cup {None},
     from : Nat \cup {None}, latest : Nat \cup {None}]

LoadRecord ==
    [id : Nat, tab : Tabs \cup {Client}, provider : Provider \cup {None}, cached : Entries \cup {None},
     stage : {"stored", "empty", "rebuilt", "answered"}, tag : TagName \cup {None}, body : Bodies \cup {None},
     meant : Meanings \cup {None}, verified : BOOLEAN \cup {None}, possible : SUBSET Meanings]

PublishedTyped ==
    /\ active.rev \in Revision \cup {0}
    /\ active.stored # None => active.rev # 0

ReadingTyped ==
    /\ PublishedTyped
    /\ storage \in Entries \cup {None}
    /\ tabs \in [Tabs -> TabRecord]
    /\ loads \subseteq LoadRecord
    /\ started \in Nat

\* An entry that may be sent with a request, and is shown when it is confirmed.
IsConfirmable(entry) == IsWhole(entry.body) /\ entry.tag = Tag(entry.body)

\* What was answered: a body, or a 304 that confirms the entry of the load.
AnswerHolds(load) ==
    /\ load.tab \in Tabs => load.meant \in load.possible
    /\ load.body # None => /\ load.meant = Meaning(load.body)
                           /\ load.tab \in Tabs => IsWhole(load.body) /\ load.tag = Tag(load.body)
    /\ load.body = None => load.cached # None /\ load.cached.tag = load.tag /\ Meaning(load.cached.body) = load.meant

LoadHolds(load) ==
    /\ load.id <= started
    /\ load.tab = Client => load.cached = None
    /\ load.tab # Client => load.provider = None
    /\ load.cached # None => IsConfirmable(load.cached)
    /\ load.stage = "empty" => load.provider # None
    /\ load.stage # "answered" => Possible[load.provider] \subseteq load.possible
    /\ load.stage = "answered" => AnswerHolds(load)

TabHolds(t) ==
    /\ tabs[t].phase = "ready" => tabs[t].catalog # None
    /\ tabs[t].phase # "ready" => tabs[t].catalog = None
    /\ tabs[t].phase # "closed" => tabs[t].latest \in 1..started
    /\ tabs[t].phase = "closed" => tabs[t].latest = None
    /\ \A l \in loads : l.id = tabs[t].latest => l.tab = t
    /\ tabs[t].phase # "closed" /\ (\A l \in loads : l.id # tabs[t].latest) => tabs[t].from = tabs[t].latest

ReadingInv ==
    /\ ReadingTyped
    /\ storage # None => IsConfirmable(storage)
    /\ \A l \in loads : LoadHolds(l)
    /\ \A k, l \in loads : k.id = l.id => k = l
    /\ \A t \in Tabs : TabHolds(t)

---------------------------------------------------------------------------
LEMMA RevisionsAre == /\ 0 \notin Revision /\ 1 \in Revision
                      /\ \A r \in Revision : r \in Nat
<1>1. PICK n : n = Cardinality(DOMAIN Provides)
  OBVIOUS
<1>2. Provides \in [1..n -> SUBSET Provider]
  BY <1>1, Numbered
<1>3. Revision = 1..n
  BY <1>2 DEF Revision
<1> QED
  BY <1>3, ReadingAssumption

\* What the site can answer.
LEMMA BodiesAre ==
    ASSUME PublishedTyped, NEW p \in Provider \cup {None}
    PROVE  /\ Rebuilt(p) \in Bodies /\ Bootstrap \in Bodies
           /\ active.stored # None => Stored(p) \in Bodies /\ [Stored(p) EXCEPT !.offers = None] \in Bodies
           /\ IsWhole(Bootstrap) /\ IsWhole(Rebuilt(None))
           /\ active.stored # None => IsWhole(Stored(None))
<1>1. Status \in {"fresh", "stale"}
  BY DEF Status
<1>2. active.rev \in Revision \cup {0} /\ (active.stored # None => active.rev # 0)
  BY DEF PublishedTyped
<1>3. \A q \in {p, None} : OffersFor(q) \in Revision \cup {0, None}
  BY <1>2 DEF OffersFor
<1>4. OffersFor(None) = active.rev
  BY DEF OffersFor
<1>5. Bootstrap \in Bodies /\ IsWhole(Bootstrap)
  BY DEF Bodies, Bootstrap, IsWhole
<1>6. ASSUME NEW q \in {p, None}, NEW status \in {"fresh", "stale"}
      PROVE  /\ Filtered(q, status) \in Bodies /\ [Filtered(q, status) EXCEPT !.offers = None] \in Bodies
             /\ Filtered(q, status).rev = active.rev /\ Filtered(q, status).offers = OffersFor(q)
             /\ Filtered(q, status).status = status
  BY <1>2, <1>3 DEF Filtered, Bodies
<1>7. ASSUME NEW q \in {p, None}
      PROVE  \E status \in {"fresh", "stale"} : Stored(q) = Filtered(q, status)
  BY DEF Stored
<1>8. ASSUME NEW q \in {p, None}, active.rev # 0
      PROVE  Rebuilt(q) = Filtered(q, Status)
  BY <1>8 DEF Rebuilt
<1>9. ASSUME active.rev = 0, NEW q \in {p, None}
      PROVE  Rebuilt(q) = Bootstrap
  BY <1>9 DEF Rebuilt
<1>10. ASSUME NEW q \in {p, None}
       PROVE  Rebuilt(q) \in Bodies /\ (q = None => IsWhole(Rebuilt(q)))
  <2>1. CASE active.rev = 0
    BY <1>5, <1>9, <2>1
  <2>2. CASE active.rev # 0
    BY <1>1, <1>4, <1>6, <1>8, <2>2 DEF IsWhole
  <2> QED
    BY <2>1, <2>2
<1>11. ASSUME NEW q \in {p, None}, active.stored # None
       PROVE  /\ Stored(q) \in Bodies /\ [Stored(q) EXCEPT !.offers = None] \in Bodies
              /\ q = None => IsWhole(Stored(q))
  BY <1>2, <1>4, <1>6, <1>7, <1>11 DEF IsWhole
<1> QED
  BY <1>5, <1>10, <1>11

LEMMA MeaningIs == ASSUME NEW body \in Bodies PROVE Meaning(body) \in Meanings /\ Tag(body) \in TagName
BY DEF Bodies, Meaning, Meanings, TagName

LEMMA PossibleIs ==
    ASSUME PublishedTyped, NEW p \in Provider \cup {None}
    PROVE  /\ Possible[p] \subseteq Meanings
           /\ Meaning(Rebuilt(p)) \in Possible[p] /\ Meaning(Bootstrap) \in Possible[p]
           /\ active.stored # None => Meaning(Stored(p)) \in Possible[p]
BY BodiesAre, MeaningIs DEF Possible

\* Whole bodies with one tag say the same.
LEMMA TagsAgree ==
    ASSUME NEW a, NEW b, IsWhole(a), IsWhole(b), Tag(a) = Tag(b)
    PROVE  Meaning(a) = Meaning(b)
<1>1. /\ a \in Bodies /\ b \in Bodies /\ a.offers = a.rev /\ b.offers = b.rev
      /\ a.rev = 0 <=> a.status = "bootstrap"
      /\ b.rev = 0 <=> b.status = "bootstrap"
      /\ a.status \in {"fresh", "stale", "bootstrap"} /\ b.status \in {"fresh", "stale", "bootstrap"}
  BY DEF IsWhole, Bodies
<1>2. a.rev = b.rev /\ (a.status = "stale" <=> b.status = "stale")
  <2>1. CASE a.status = "stale" /\ b.status = "stale"
    BY <2>1 DEF Tag
  <2>2. CASE a.status # "stale" /\ b.status # "stale"
    BY <2>2 DEF Tag
  <2>3. CASE a.status = "stale" /\ b.status # "stale"
    <3>1. Tag(a) = <<a.rev, "stale">> /\ Tag(b) = <<b.rev>>
      BY <2>3 DEF Tag
    <3>2. Len(Tag(a)) = 2 /\ Len(Tag(b)) = 1
      BY <3>1
    <3> QED
      BY <3>2
  <2>4. CASE a.status # "stale" /\ b.status = "stale"
    <3>1. Tag(b) = <<b.rev, "stale">> /\ Tag(a) = <<a.rev>>
      BY <2>4 DEF Tag
    <3>2. Len(Tag(b)) = 2 /\ Len(Tag(a)) = 1
      BY <3>1
    <3> QED
      BY <3>2
  <2> QED
    BY <2>1, <2>2, <2>3, <2>4
<1>3. a.status = b.status
  BY <1>1, <1>2
<1> QED
  BY <1>1, <1>2, <1>3 DEF Meaning

LEMMA ReadingInitially == ReadingInit => ReadingInv
<1> SUFFICES ASSUME ReadingInit PROVE ReadingInv
  OBVIOUS
<1>1. PICK r \in {0, 1} : active = [rev |-> r, checked |-> 0, observed |-> [s \in Sources |-> 0], stored |-> None]
  BY DEF ReadingInit
<1>2. active.rev \in Revision \cup {0} /\ active.stored = None
  BY <1>1, RevisionsAre
<1>3. /\ tabs = [t \in Tabs |-> [phase |-> "closed", catalog |-> None, from |-> None, latest |-> None]]
      /\ loads = {} /\ started = 0
  BY DEF ReadingInit
<1>4. IsWhole(Rebuilt(None))
  <2>1. Status \in {"fresh", "stale"} /\ OffersFor(None) = active.rev
    BY DEF Status, OffersFor
  <2> QED
    BY <1>2, <2>1 DEF Rebuilt, Filtered, Bootstrap, IsWhole, Bodies
<1>5. storage # None => storage \in Entries /\ IsConfirmable(storage)
  BY <1>4, MeaningIs DEF ReadingInit, IsConfirmable, Entries, IsWhole
<1>6. ReadingTyped
  BY <1>2, <1>3, <1>5 DEF ReadingTyped, PublishedTyped, TabRecord
<1>7. \A t \in Tabs : TabHolds(t)
  BY <1>3 DEF TabHolds
<1> QED
  BY <1>3, <1>5, <1>6, <1>7 DEF ReadingInv
---------------------------------------------------------------------------
\* A load goes on, and nothing else.
LEMMA ReplaceKeeps ==
    ASSUME ReadingInv, NEW load \in loads, NEW new \in LoadRecord, Replace(load, new),
           UNCHANGED <<now, active, storage, tabs, started>>,
           new.id = load.id, new.tab = load.tab, LoadHolds(new)
    PROVE  ReadingInv'
<1>1. loads' = (loads \ {load}) \cup {new}
  BY DEF Replace
<1>2. ReadingTyped'
  BY <1>1 DEF ReadingInv, ReadingTyped, PublishedTyped
<1>3. Possible' = Possible
  BY DEF Possible, Rebuilt, Stored, Filtered, Status, OffersFor, EvidenceIsFresh
<1>4. ASSUME NEW l \in loads'
      PROVE  LoadHolds(l)'
  <2>1. LoadHolds(l)
    BY <1>1 DEF ReadingInv
  <2> QED
    BY <1>3, <2>1 DEF LoadHolds, AnswerHolds
<1>5. \A k, l \in loads' : k.id = l.id => k = l
  BY <1>1 DEF ReadingInv
<1>6. ASSUME NEW t \in Tabs
      PROVE  TabHolds(t)'
  <2>1. TabHolds(t)
    BY DEF ReadingInv
  <2>2. \A l \in loads' : l.id = tabs[t].latest => l.tab = t
    BY <1>1, <2>1 DEF TabHolds
  <2>3. (\A l \in loads' : l.id # tabs[t].latest) => \A l \in loads : l.id # tabs[t].latest
    BY <1>1
  <2> QED
    BY <2>1, <2>2, <2>3 DEF TabHolds
<1> QED
  BY <1>2, <1>4, <1>5, <1>6 DEF ReadingInv

LEMMA SetVerified == ASSUME NEW l \in LoadRecord, NEW verified \in BOOLEAN
                     PROVE  [l EXCEPT !.verified = verified] \in LoadRecord
BY Zenon DEF LoadRecord

LEMMA SetMeant == ASSUME NEW l \in LoadRecord, NEW meant \in Meanings
                  PROVE  [l EXCEPT !.meant = meant] \in LoadRecord
BY DEF LoadRecord

\* An answer that the site can give confirms what is stored, or replaces it.
LEMMA RespondKeeps ==
    ASSUME ReadingInv, NEW load \in loads, NEW body \in Bodies, NEW observed,
           load.stage # "answered", Respond(load, body, observed),
           UNCHANGED <<now, active, storage, tabs, started>>,
           load.tab # Client => IsWhole(body) /\ Meaning(body) \in Possible[None]
    PROVE  ReadingInv'
<1>a. PICK verified \in BOOLEAN : verified = (body.status = "fresh" => EvidenceIsFresh(observed))
  OBVIOUS
<1>b. PICK brings \in Bodies \cup {None} : brings = IF NotModified(load, body) THEN None ELSE body
  OBVIOUS
<1>c. PICK tag \in TagName : tag = Tag(body)
  BY MeaningIs
<1>d. PICK meant \in Meanings : meant = Meaning(body)
  BY MeaningIs
<1> DEFINE new == [load EXCEPT !.stage = "answered", !.tag = tag, !.meant = meant,
                               !.verified = verified, !.body = brings]
<1>1. Replace(load, new)
  BY <1>a, <1>b, <1>c, <1>d DEF Respond
<1>2. load \in LoadRecord /\ LoadHolds(load)
  BY DEF ReadingInv, ReadingTyped
<1>4. /\ new \in LoadRecord /\ new.id = load.id /\ new.tab = load.tab /\ new.cached = load.cached
      /\ new.provider = load.provider /\ new.possible = load.possible /\ new.stage = "answered"
      /\ new.tag = tag /\ new.meant = meant /\ new.body = brings
  <2>1. PICK n1 \in LoadRecord : n1 = [load EXCEPT !.stage = "answered", !.tag = tag]
    BY <1>2 DEF LoadRecord
  <2>2. /\ n1.id = load.id /\ n1.tab = load.tab /\ n1.cached = load.cached
        /\ n1.provider = load.provider /\ n1.possible = load.possible /\ n1.stage = "answered" /\ n1.tag = tag
    BY <1>2, <2>1 DEF LoadRecord
  <2>3. PICK n0 \in LoadRecord : n0 = [n1 EXCEPT !.verified = verified]
    BY SetVerified
  <2>4. PICK n2 \in LoadRecord : n2 = [n0 EXCEPT !.meant = meant]
    BY SetMeant
  <2>5. /\ n0.id = load.id /\ n0.tab = load.tab /\ n0.cached = load.cached
        /\ n0.provider = load.provider /\ n0.possible = load.possible /\ n0.stage = "answered" /\ n0.tag = tag
    BY <2>2, <2>3 DEF LoadRecord
  <2>6. /\ n2.id = load.id /\ n2.tab = load.tab /\ n2.cached = load.cached
        /\ n2.provider = load.provider /\ n2.possible = load.possible /\ n2.stage = "answered" /\ n2.tag = tag
        /\ n2.meant = meant
    BY <2>4, <2>5 DEF LoadRecord
  <2>7. new = [n2 EXCEPT !.body = brings]
    BY <2>1, <2>3, <2>4
  <2> HIDE DEF new
  <2> QED
    BY <2>6, <2>7 DEF LoadRecord
<1> HIDE DEF new
<1>5. None \notin Bodies
  BY ReadingNone
<1>6. AnswerHolds(new)
  <2>1. new.tab \in Tabs => new.meant \in new.possible
    BY <1>2, <1>4, <1>d, ReadingAssumption DEF LoadHolds
  <2>2. CASE NotModified(load, body)
    <3>1. load.cached # None /\ load.cached.tag = Tag(body) /\ load.tab # Client
      BY <1>2, <2>2 DEF NotModified, LoadHolds
    <3>2. IsWhole(load.cached.body) /\ load.cached.tag = Tag(load.cached.body)
      BY <1>2, <3>1 DEF LoadHolds, IsConfirmable
    <3>3. Meaning(load.cached.body) = Meaning(body)
      BY <3>1, <3>2, TagsAgree
    <3> QED
      BY <1>4, <1>b, <1>c, <1>d, <2>1, <2>2, <3>1, <3>3 DEF AnswerHolds
  <2>3. CASE ~NotModified(load, body)
    BY <1>4, <1>5, <1>b, <1>c, <1>d, <2>1, <2>3, ReadingAssumption DEF AnswerHolds
  <2> QED
    BY <2>2, <2>3
<1>7. LoadHolds(new)
  BY <1>2, <1>4, <1>6 DEF LoadHolds
<1> QED
  BY <1>1, <1>4, <1>7, ReplaceKeeps

\* A load that finds nothing, or a query that fails, goes on to the next stage.
LEMMA StageKeeps ==
    ASSUME ReadingInv, NEW load \in loads, NEW stage \in {"empty", "rebuilt"},
           load.stage # "answered", stage = "empty" => load.provider # None,
           Replace(load, [load EXCEPT !.stage = stage]), UNCHANGED <<now, active, storage, tabs, started>>
    PROVE  ReadingInv'
<1> DEFINE new == [load EXCEPT !.stage = stage]
<1>1. load \in LoadRecord /\ LoadHolds(load)
  BY DEF ReadingInv, ReadingTyped
<1>2. /\ new \in LoadRecord /\ new.id = load.id /\ new.tab = load.tab /\ new.cached = load.cached
      /\ new.provider = load.provider /\ new.possible = load.possible /\ new.stage = stage
  BY <1>1 DEF LoadRecord
<1>3. Replace(load, new)
  OBVIOUS
<1> HIDE DEF new
<1>4. LoadHolds(new)
  BY <1>1, <1>2 DEF LoadHolds
<1> QED
  BY <1>2, <1>3, <1>4, ReplaceKeeps

LEMMA ReadsKeep ==
    ASSUME ReadingInv, NEW load \in loads, ReadStored(load) \/ ReadEmpty(load) \/ ReadPublished(load)
    PROVE  ReadingInv'
<1>1. /\ load.stage \in {"stored", "empty", "rebuilt"} /\ UNCHANGED <<now, active, storage, tabs, started>>
      /\ load.stage # "answered"
  BY DEF ReadStored, ReadEmpty, ReadPublished, Serving
<1>2. /\ load \in LoadRecord /\ LoadHolds(load) /\ load.provider \in Provider \cup {None}
      /\ load.tab # Client => load.provider = None
  BY DEF ReadingInv, ReadingTyped, LoadRecord, LoadHolds
<1>3. PublishedTyped
  BY DEF ReadingInv, ReadingTyped
<1>4. CASE Respond(load, Stored(load.provider), active.stored.observed) /\ HasKey(load.provider)
  <2>1. active.stored # None
    BY <1>4 DEF HasKey
  <2>2. /\ Stored(load.provider) \in Bodies
        /\ load.tab # Client => IsWhole(Stored(load.provider)) /\ Meaning(Stored(load.provider)) \in Possible[None]
    BY <1>2, <1>3, <2>1, BodiesAre, PossibleIs
  <2> QED
    BY <1>1, <1>4, <2>2, RespondKeeps
<1>5. CASE Respond(load, [Stored(load.provider) EXCEPT !.offers = None], active.stored.observed)
           /\ active.stored # None /\ load.stage = "empty"
  <2>1. [Stored(load.provider) EXCEPT !.offers = None] \in Bodies /\ load.tab = Client
    BY <1>2, <1>3, <1>5, BodiesAre DEF LoadHolds
  <2> QED
    BY <1>1, <1>5, <2>1, RespondKeeps
<1>6. CASE Respond(load, Rebuilt(load.provider), active.observed)
  <2>1. /\ Rebuilt(load.provider) \in Bodies
        /\ load.tab # Client => IsWhole(Rebuilt(load.provider)) /\ Meaning(Rebuilt(load.provider)) \in Possible[None]
    BY <1>2, <1>3, BodiesAre, PossibleIs
  <2> QED
    BY <1>1, <1>6, <2>1, RespondKeeps
<1>7. CASE Respond(load, Bootstrap, active.observed)
  <2>1. Bootstrap \in Bodies /\ IsWhole(Bootstrap) /\ Meaning(Bootstrap) \in Possible[None]
    BY <1>3, BodiesAre, PossibleIs
  <2> QED
    BY <1>1, <1>7, <2>1, RespondKeeps
<1>8. CASE Replace(load, [load EXCEPT !.stage = "rebuilt"])
  BY <1>1, <1>8, StageKeeps
<1>9. CASE Replace(load, [load EXCEPT !.stage = "empty"]) /\ load.provider # None
  BY <1>1, <1>9, StageKeeps
<1> QED
  BY <1>4, <1>5, <1>6, <1>7, <1>8, <1>9 DEF ReadStored, ReadEmpty, ReadPublished, Serving
---------------------------------------------------------------------------
LEMMA PossibleTyped == PublishedTyped => \A p \in Provider \cup {None} : Possible[p] \subseteq Meanings
BY PossibleIs

\* Something is published, or time passes, and who is asking sees it.
LEMMA WitnessKeeps ==
    ASSUME ReadingInv, Witness, UNCHANGED <<storage, tabs, started>>, PublishedTyped'
    PROVE  ReadingInv'
<1> DEFINE grown(l) == [l EXCEPT !.possible = IF l.stage = "answered" THEN @ ELSE @ \cup Possible'[l.provider]]
<1>1. loads' = {grown(l) : l \in loads}
  BY DEF Witness
<1>2. \A p \in Provider \cup {None} : Possible'[p] \subseteq Meanings
  <2>1. (PublishedTyped => \A p \in Provider \cup {None} : Possible[p] \subseteq Meanings)'
    BY PossibleTyped, PTL
  <2> QED
    BY <2>1
<1>3. ASSUME NEW l \in loads, NEW g, g = grown(l)
      PROVE  g \in LoadRecord /\ g.id = l.id /\ g.tab = l.tab /\ LoadHolds(g)'
  <2>1. l \in LoadRecord /\ LoadHolds(l)
    BY DEF ReadingInv, ReadingTyped
  <2>2. CASE l.stage = "answered"
    <3>1. g = l
      BY <1>3, <2>1, <2>2 DEF LoadRecord
    <3> QED
      BY <2>1, <2>2, <3>1 DEF LoadHolds, AnswerHolds
  <2>3. CASE l.stage # "answered"
    <3>1. PICK more : more = l.possible \cup Possible'[l.provider]
      OBVIOUS
    <3>2. more \in SUBSET Meanings
      BY <1>2, <2>1, <3>1 DEF LoadRecord
    <3>3. g = [l EXCEPT !.possible = more]
      BY <1>3, <2>3, <3>1
    <3>4. /\ g \in LoadRecord /\ g.id = l.id /\ g.tab = l.tab /\ g.stage = l.stage
          /\ g.cached = l.cached /\ g.provider = l.provider /\ g.possible = more
      BY <2>1, <3>2, <3>3 DEF LoadRecord
    <3> QED
      BY <2>1, <2>3, <3>1, <3>4 DEF LoadHolds
  <2> QED
    BY <2>2, <2>3
<1> HIDE DEF grown
<1>8. \A g \in loads' : \E l \in loads : g = grown(l)
  BY <1>1
<1>4. ReadingTyped'
  BY <1>3, <1>8 DEF ReadingInv, ReadingTyped
<1>5. \A l \in loads' : LoadHolds(l)'
  BY <1>3, <1>8
<1>6. \A k, l \in loads' : k.id = l.id => k = l
  BY <1>3, <1>8 DEF ReadingInv
<1>7. ASSUME NEW t \in Tabs
      PROVE  TabHolds(t)'
  BY <1>1, <1>3 DEF ReadingInv, TabHolds
<1> QED
  BY <1>4, <1>5, <1>6, <1>7 DEF ReadingInv, IsConfirmable

LEMMA PublisherKeeps == ASSUME ReadingInv, PublishCatalog \/ Tick PROVE ReadingInv'
<1>1. Witness /\ UNCHANGED <<storage, tabs, started>>
  BY DEF PublishCatalog, Tick
<1>2. PublishedTyped'
  <2>1. CASE PublishCatalog
    BY <2>1 DEF PublishCatalog, PublishedTyped, ReadingInv, ReadingTyped
  <2>2. CASE Tick
    BY <2>2 DEF Tick, PublishedTyped, ReadingInv, ReadingTyped
  <2> QED
    BY <2>1, <2>2
<1> QED
  BY <1>1, <1>2, WitnessKeeps
---------------------------------------------------------------------------
\* A load that begins with what may be confirmed, or with nothing.
LEMMA NewLoadHolds ==
    ASSUME ReadingInv, NEW tab \in Tabs \cup {Client}, NEW p \in Provider \cup {None}, NEW cached,
           cached # None => cached \in Entries /\ IsConfirmable(cached),
           tab = Client => cached = None, tab # Client => p = None,
           started' = started + 1, UNCHANGED <<now, active>>, NEW new, new = NewLoad(tab, p, cached)
    PROVE  /\ new \in LoadRecord /\ new.id = started + 1 /\ new.tab = tab
           /\ LoadHolds(new)'
           /\ \A l \in loads : LoadHolds(l)'
<1>1. started \in Nat /\ PublishedTyped
  BY DEF ReadingInv, ReadingTyped
<1>2. PICK n \in Nat : n = started + 1
  BY <1>1
<1>3. PICK possible \in SUBSET Meanings : possible = Possible[p]
  BY <1>1, PossibleIs
<1>4. NewLoad(tab, p, cached) =
         [id |-> n, tab |-> tab, provider |-> p, cached |-> cached, stage |-> "stored",
          tag |-> None, body |-> None, meant |-> None, verified |-> None, possible |-> possible]
  BY <1>2, <1>3 DEF NewLoad
<1>5. /\ new \in LoadRecord /\ new.id = n /\ new.tab = tab /\ new.provider = p /\ new.cached = cached
      /\ new.stage = "stored" /\ new.possible = possible
  BY <1>4 DEF LoadRecord
<1>6. Possible' = Possible
  BY DEF Possible, Rebuilt, Stored, Filtered, Status, OffersFor, EvidenceIsFresh
<1>7. LoadHolds(new)'
  <2>1. new.id <= started'
    BY <1>1, <1>2, <1>5
  <2> QED
    BY <1>3, <1>5, <1>6, <2>1 DEF LoadHolds
<1>8. ASSUME NEW l \in loads
      PROVE  LoadHolds(l)'
  <2>1. LoadHolds(l) /\ l.id \in Nat
    BY DEF ReadingInv, ReadingTyped, LoadRecord
  <2>2. l.id <= started'
    BY <1>1, <2>1 DEF LoadHolds
  <2> QED
    BY <1>6, <2>1, <2>2 DEF LoadHolds, AnswerHolds
<1> QED
  BY <1>2, <1>5, <1>7, <1>8

LEMMA IdsAre ==
    ASSUME ReadingInv, NEW l \in loads
    PROVE  l.id \in Nat /\ l.id # started + 1 /\ started \in Nat /\ started + 1 # None
<1>1. l.id \in Nat /\ l.id <= started /\ started \in Nat
  BY DEF ReadingInv, ReadingTyped, LoadRecord, LoadHolds
<1> QED
  BY <1>1, ReadingNone

LEMMA BeginKeeps ==
    ASSUME ReadingInv, NEW tab \in Tabs, NEW others \in SUBSET loads, Begin(tab, others), NEW seen \in TabRecord,
           tabs' = [tabs EXCEPT ![tab] = seen], seen.latest = started + 1,
           (seen.phase = "ready" /\ seen.catalog # None) \/ (seen.phase = "loading" /\ seen.catalog = None),
           \A l \in loads \ others : l.tab = tab
    PROVE  ReadingInv'
<1> PICK new : new = NewLoad(tab, None, storage')
  OBVIOUS
<1>1. started' = started + 1 /\ loads' = others \cup {new} /\ UNCHANGED <<now, active>> /\ storage' \in {storage, None}
  BY DEF Begin
<1>2. storage' # None => storage' \in Entries /\ IsConfirmable(storage')
  BY <1>1 DEF ReadingInv, ReadingTyped
<1>3. tab # Client /\ tab \in Tabs \cup {Client}
  BY ReadingAssumption
<1>4. /\ new \in LoadRecord /\ new.id = started + 1 /\ new.tab = tab /\ LoadHolds(new)'
      /\ \A l \in loads : LoadHolds(l)'
  BY <1>1, <1>2, <1>3, NewLoadHolds
<1>5. started \in Nat /\ tabs \in [Tabs -> TabRecord]
  BY DEF ReadingInv, ReadingTyped
<1>6. ReadingTyped'
  BY <1>1, <1>2, <1>4, <1>5 DEF ReadingInv, ReadingTyped, PublishedTyped
<1>7. \A l \in loads' : LoadHolds(l)'
  BY <1>1, <1>4
<1>8. \A l \in loads : l.id # started + 1
  BY IdsAre
<1>9. \A k, l \in loads' : k.id = l.id => k = l
  BY <1>1, <1>4, <1>8 DEF ReadingInv
<1>10. ASSUME NEW t \in Tabs
       PROVE  TabHolds(t)'
  <2>1. CASE t = tab
    <3>1. tabs'[t] = seen
      BY <1>5, <2>1
    <3>2. seen.latest \in 1..started'
      BY <1>1, <1>5
    <3>3. \A l \in loads' : l.id = seen.latest => l.tab = t
      BY <1>1, <1>4, <1>8, <2>1
    <3>4. ~ \A l \in loads' : l.id # seen.latest
      BY <1>1, <1>4
    <3> QED
      BY <3>1, <3>2, <3>3, <3>4 DEF TabHolds
  <2>2. CASE t # tab
    <3>1. tabs'[t] = tabs[t] /\ TabHolds(t)
      BY <1>5, <2>2 DEF ReadingInv
    <3>2. tabs[t].latest # started + 1
      <4>1. tabs[t].phase # "closed" => tabs[t].latest \in 1..started
        BY <3>1 DEF TabHolds
      <4>2. tabs[t].phase = "closed" => tabs[t].latest = None
        BY <3>1 DEF TabHolds
      <4>3. started + 1 # None /\ started + 1 \notin 1..started
        BY <1>5, ReadingNone
      <4> QED
        BY <4>1, <4>2, <4>3
    <3>3. tabs[t].phase # "closed" => tabs[t].latest \in 1..started'
      BY <1>1, <1>5, <3>1 DEF TabHolds
    <3>4. \A l \in loads' : l.id = tabs[t].latest => l.tab = t
      BY <1>1, <1>4, <3>1, <3>2 DEF TabHolds
    <3>5. (\A l \in loads' : l.id # tabs[t].latest) => \A l \in loads : l.id # tabs[t].latest
      BY <1>1, <2>2, <3>1 DEF TabHolds
    <3> QED
      BY <3>1, <3>3, <3>4, <3>5 DEF TabHolds
  <2> QED
    BY <2>1, <2>2
<1> QED
  BY <1>2, <1>6, <1>7, <1>9, <1>10 DEF ReadingInv, IsConfirmable

LEMMA OpenKeeps == ASSUME ReadingInv, NEW tab \in Tabs, Open(tab) \/ RetryLoad(tab) PROVE ReadingInv'
<1>1. started + 1 \in Nat /\ tabs \in [Tabs -> TabRecord] /\ TabHolds(tab)
  BY DEF ReadingInv, ReadingTyped
<1>2. PICK n \in Nat : n = started + 1
  BY <1>1
<1>3. CASE Open(tab)
  <2>1. PICK seen : seen = [phase |-> "loading", catalog |-> None, from |-> None, latest |-> n]
    OBVIOUS
  <2>2. /\ seen \in TabRecord /\ seen.latest = started + 1 /\ seen.phase = "loading" /\ seen.catalog = None
    BY <1>2, <2>1 DEF TabRecord
  <2>3. PICK others \in SUBSET loads : others = {l \in loads : l.tab # tab}
    OBVIOUS
  <2>4. Begin(tab, others) /\ tabs' = [tabs EXCEPT ![tab] = seen]
    BY <1>2, <1>3, <2>1, <2>3 DEF Open
  <2>5. \A l \in loads \ others : l.tab = tab
    BY <2>3
  <2> QED
    BY <2>2, <2>4, <2>5, BeginKeeps
<1>4. CASE RetryLoad(tab)
  <2>1. PICK phase : phase = IF tabs[tab].catalog = None THEN "loading" ELSE tabs[tab].phase
    OBVIOUS
  <2>2. (phase = "ready" /\ tabs[tab].catalog # None) \/ (phase = "loading" /\ tabs[tab].catalog = None)
    <3>1. CASE tabs[tab].catalog = None
      BY <2>1, <3>1
    <3>2. CASE tabs[tab].catalog # None
      <4>1. tabs[tab].phase = "ready"
        BY <1>1, <3>2 DEF TabHolds
      <4> QED
        BY <2>1, <3>2, <4>1
    <3> QED
      BY <3>1, <3>2
  <2>3. PICK seen : seen = [tabs[tab] EXCEPT !.latest = n, !.phase = phase]
    OBVIOUS
  <2>4. /\ seen \in TabRecord /\ seen.latest = n /\ seen.phase = phase /\ seen.catalog = tabs[tab].catalog
    BY <1>1, <2>2, <2>3 DEF TabRecord
  <2>5. tabs' = [tabs EXCEPT ![tab].latest = n,
                             ![tab].phase = IF tabs[tab].catalog = None THEN "loading" ELSE @]
    BY <1>2, <1>4 DEF RetryLoad
  <2>6. tabs' = [tabs EXCEPT ![tab] = seen]
    BY <1>1, <2>1, <2>3, <2>5 DEF TabRecord
  <2>7. Begin(tab, loads)
    BY <1>4 DEF RetryLoad
  <2> QED
    BY <1>2, <2>2, <2>4, <2>6, <2>7, BeginKeeps
<1> QED
  BY <1>3, <1>4

LEMMA AskKeeps == ASSUME ReadingInv, NEW p \in Provider, AskProvider(p) PROVE ReadingInv'
<1> PICK new : new = NewLoad(Client, p, None)
  OBVIOUS
<1>1. started' = started + 1 /\ loads = {} /\ loads' = {new} /\ UNCHANGED <<now, active, storage, tabs>>
  BY DEF AskProvider
<1>2. new \in LoadRecord /\ new.id = started + 1 /\ LoadHolds(new)'
  BY <1>1, NewLoadHolds
<1>3. started \in Nat
  BY DEF ReadingInv, ReadingTyped
<1>4. ReadingTyped'
  BY <1>1, <1>2, <1>3 DEF ReadingInv, ReadingTyped, PublishedTyped
<1>5. ASSUME NEW t \in Tabs
      PROVE  TabHolds(t)'
  <2>1. TabHolds(t)
    BY DEF ReadingInv
  <2>2. tabs[t].latest # started + 1 /\ (tabs[t].phase # "closed" => tabs[t].latest \in 1..started')
    <3>1. tabs[t].phase # "closed" => tabs[t].latest \in 1..started
      BY <2>1 DEF TabHolds
    <3>2. tabs[t].phase = "closed" => tabs[t].latest = None
      BY <2>1 DEF TabHolds
    <3>3. started + 1 # None /\ \A n \in 1..started : n # started + 1 /\ n \in 1..started'
      BY <1>1, <1>3, ReadingNone
    <3> QED
      BY <3>1, <3>2, <3>3
  <2> QED
    BY <1>1, <1>2, <2>1, <2>2 DEF TabHolds
<1> QED
  BY <1>1, <1>2, <1>4, <1>5 DEF ReadingInv, IsConfirmable
---------------------------------------------------------------------------
\* A load ends, and the hook takes its outcome if it is the latest.
LEMMA EndKeeps ==
    ASSUME ReadingInv, NEW load \in loads, NEW catalog \in Bodies, Shows(load, catalog),
           loads' = loads \ {load}, UNCHANGED <<now, active, started>>,
           storage' # None => storage' \in Entries /\ IsConfirmable(storage')
    PROVE  ReadingInv'
<1>1. /\ load \in LoadRecord /\ tabs \in [Tabs -> TabRecord] /\ load.id \in Nat /\ load.id # None
      /\ catalog # None
  BY ReadingNone DEF ReadingInv, ReadingTyped, LoadRecord
<1>2. Possible' = Possible
  BY DEF Possible, Rebuilt, Stored, Filtered, Status, OffersFor, EvidenceIsFresh
<1>3. \A l \in loads' : LoadHolds(l)'
  BY <1>2 DEF ReadingInv, LoadHolds, AnswerHolds
<1>4. \A k, l \in loads' : k.id = l.id => k = l
  BY DEF ReadingInv
<1>5. \A t \in Tabs : TabHolds(t)
  BY DEF ReadingInv
<1>6. CASE tabs' = tabs /\ \A t \in Tabs : load.id # tabs[t].latest
  <2>1. ReadingTyped'
    BY <1>6 DEF ReadingInv, ReadingTyped, PublishedTyped
  <2>2. ASSUME NEW t \in Tabs
        PROVE  TabHolds(t)'
    BY <1>5, <1>6 DEF TabHolds
  <2> QED
    BY <1>3, <1>4, <2>1, <2>2 DEF ReadingInv, IsConfirmable
<1>7. CASE load.tab \in Tabs /\ IsLatest(load)
           /\ tabs' = [tabs EXCEPT ![load.tab].phase = "ready", ![load.tab].catalog = catalog, ![load.tab].from = load.id]
  <2>1. PICK seen : seen = [tabs[load.tab] EXCEPT !.phase = "ready", !.catalog = catalog, !.from = load.id]
    OBVIOUS
  <2>2. /\ seen \in TabRecord /\ seen.phase = "ready" /\ seen.catalog = catalog /\ seen.from = load.id
        /\ seen.latest = tabs[load.tab].latest
    BY <1>1, <1>7, <2>1 DEF TabRecord
  <2>3. tabs' = [tabs EXCEPT ![load.tab] = seen]
    BY <1>1, <1>7, <2>1 DEF TabRecord
  <2>4. ReadingTyped'
    BY <1>1, <2>2, <2>3 DEF ReadingInv, ReadingTyped, PublishedTyped
  <2>5. ASSUME NEW t \in Tabs, t # load.tab
        PROVE  TabHolds(t)'
    <3>1. tabs'[t] = tabs[t] /\ TabHolds(t)
      BY <1>1, <1>5, <2>3, <2>5
    <3>2. load.id # tabs[t].latest
      BY <2>5, <3>1 DEF TabHolds
    <3> QED
      BY <3>1, <3>2 DEF TabHolds
  <2>6. TabHolds(load.tab)'
    <3>1. tabs'[load.tab] = seen /\ tabs[load.tab].latest = load.id /\ TabHolds(load.tab)
      BY <1>1, <1>5, <1>7, <2>3 DEF IsLatest
    <3>2. tabs[load.tab].phase # "closed"
      BY <1>1, <3>1 DEF TabHolds
    <3> QED
      BY <1>1, <2>2, <3>1, <3>2 DEF TabHolds
  <2> QED
    BY <1>3, <1>4, <2>4, <2>5, <2>6 DEF ReadingInv, IsConfirmable
<1>8. load.tab \in Tabs \/ load.tab = Client
  BY <1>1 DEF LoadRecord
<1>9. \A t \in Tabs : load.id = tabs[t].latest => load.tab = t /\ load.tab # Client /\ IsLatest(load)
  BY <1>5, ReadingAssumption DEF TabHolds, IsLatest
<1> QED
  BY <1>6, <1>7, <1>8, <1>9 DEF Shows

LEMMA EndsKeep ==
    ASSUME ReadingInv, NEW load \in loads, Receive(load) \/ LoadFails(load)
    PROVE  ReadingInv'
<1>1. /\ load \in LoadRecord /\ LoadHolds(load) /\ load.tab \in Tabs \cup {Client}
      /\ load.cached \in Entries \cup {None} /\ load.body \in Bodies \cup {None}
      /\ storage # None => storage \in Entries /\ IsConfirmable(storage)
  BY DEF ReadingInv, ReadingTyped, LoadRecord
<1>2. None \notin Entries /\ None \notin Bodies
  BY ReadingNone
<1>3. CASE Receive(load)
  <2>1. /\ load.stage = "answered" /\ loads' = loads \ {load} /\ Shows(load, Loaded(load))
        /\ UNCHANGED <<now, active, started>>
        /\ \/ storage' = storage
           \/ load.tab # Client /\ storage' = [tag |-> load.tag, body |-> Loaded(load)]
    <3>1. /\ load.stage = "answered" /\ loads' = loads \ {load} /\ Shows(load, Loaded(load))
          /\ UNCHANGED <<now, active, started>>
      BY <1>3 DEF Receive
    <3>2. \/ storage' = (IF load.tab = Client THEN storage ELSE [tag |-> load.tag, body |-> Loaded(load)])
          \/ UNCHANGED storage
      BY <1>3 DEF Receive
    <3> QED
      BY <3>1, <3>2
  <2>2. AnswerHolds(load)
    BY <1>1, <2>1 DEF LoadHolds
  <2>3. Loaded(load) \in Bodies
    BY <1>1, <2>2 DEF Loaded, Confirmed, AnswerHolds, Entries
  <2>4. load.tab # Client => IsWhole(Loaded(load)) /\ load.tag = Tag(Loaded(load))
    <3>1. SUFFICES ASSUME load.tab # Client PROVE IsWhole(Loaded(load)) /\ load.tag = Tag(Loaded(load))
      OBVIOUS
    <3>2. CASE load.body # None
      BY <1>1, <2>2, <3>1, <3>2 DEF AnswerHolds, Loaded
    <3>3. CASE load.body = None
      <4>1. load.cached # None /\ load.cached.tag = load.tag /\ Loaded(load) = load.cached.body
        BY <2>2, <3>3 DEF AnswerHolds, Loaded, Confirmed
      <4> QED
        BY <1>1, <4>1 DEF LoadHolds, IsConfirmable
    <3> QED
      BY <3>2, <3>3
  <2>5. storage' # None => storage' \in Entries /\ IsConfirmable(storage')
    <3>1. CASE storage' = storage
      BY <1>1, <3>1
    <3>2. CASE load.tab # Client /\ storage' = [tag |-> load.tag, body |-> Loaded(load)]
      BY <2>3, <2>4, <3>2, MeaningIs DEF IsConfirmable, Entries
    <3> QED
      BY <2>1, <3>1, <3>2
  <2> QED
    BY <2>1, <2>3, <2>5, EndKeeps
<1>4. CASE LoadFails(load)
  <2>1. loads' = loads \ {load} /\ UNCHANGED <<now, active, storage, started>>
    BY <1>4 DEF LoadFails
  <2>2. \E catalog \in Bodies : Shows(load, catalog)
    <3>1. CASE load.cached = None
      <4>1. Bootstrap \in Bodies
        BY BodiesAre DEF ReadingInv, ReadingTyped
      <4> QED
        BY <1>4, <3>1, <4>1 DEF LoadFails, FailedWithout
    <3>2. CASE load.cached # None
      <4>1. [load.cached.body EXCEPT !.status = "stale"] \in Bodies
        BY <1>1, <3>2 DEF Entries, Bodies
      <4> QED
        BY <1>4, <3>2, <4>1 DEF LoadFails
    <3> QED
      BY <3>1, <3>2
  <2> QED
    BY <1>1, <2>1, <2>2, EndKeeps
<1> QED
  BY <1>3, <1>4
---------------------------------------------------------------------------
(* The invariant: every stored entry is what a 304 may confirm, every load  *)
(* that still asks has seen all that the site could answer, and the latest  *)
(* load of a tab is there until its outcome is shown.                       *)
THEOREM ReadingInvariance == ReadingSpec => []ReadingInv
<1>1. ReadingInit => ReadingInv
  BY ReadingInitially
<1>2. ReadingInv /\ [ReadingNext]_readingVars => ReadingInv'
  <2> SUFFICES ASSUME ReadingInv, [ReadingNext]_readingVars PROVE ReadingInv'
    OBVIOUS
  <2>1. CASE UNCHANGED readingVars
    <3>1. UNCHANGED <<now, active, storage, tabs, loads, started>>
      BY <2>1 DEF readingVars
    <3>2. Possible' = Possible
      BY <3>1 DEF Possible, Rebuilt, Stored, Filtered, Status, OffersFor, EvidenceIsFresh
    <3> QED
      BY <3>1, <3>2 DEF ReadingInv, ReadingTyped, PublishedTyped, LoadHolds, AnswerHolds, TabHolds, IsConfirmable
  <2>2. CASE PublishCatalog \/ Tick
    BY <2>2, PublisherKeeps
  <2>3. CASE \E t \in Tabs : Open(t) \/ RetryLoad(t)
    BY <2>3, OpenKeeps
  <2>4. CASE \E p \in Provider : AskProvider(p)
    BY <2>4, AskKeeps
  <2>5. CASE \E l \in loads : Answers(l) \/ LoadFails(l)
    BY <2>5, ReadsKeep, EndsKeep DEF Answers
  <2> QED
    BY <2>1, <2>2, <2>3, <2>4, <2>5 DEF ReadingNext
<1> QED
  BY <1>1, <1>2, PTL DEF ReadingSpec

(* Whatever other tabs and late loads store meanwhile, a load brings what   *)
(* the site could answer while it was asked, a 304 is given only to who     *)
(* holds what a 200 would have brought, and a tab shows the outcome of its  *)
(* latest load (loadCatalog, onRequestGet, useCatalog).                     *)
THEOREM LoadsAreAlwaysTrue == ReadingSpec => []LoadsAreTrue
<1>1. ReadingInv => ReadingTypeOK
  <2> SUFFICES ASSUME ReadingInv PROVE ReadingTypeOK
    OBVIOUS
  <2>1. storage # None => storage.body \in Bodies /\ storage.body.offers # None
    <3>1. \A r \in Revision \cup {0} : r # None
      BY RevisionsAre, ReadingNone
    <3> QED
      BY <3>1 DEF ReadingInv, IsConfirmable, IsWhole, Bodies
  <2>2. ASSUME NEW t \in Tabs
        PROVE  /\ tabs[t].phase = "ready" => tabs[t].catalog \in Bodies
               /\ tabs[t].phase \in {"closed", "loading"} => tabs[t].catalog = None
    <3>1. tabs[t].catalog \in Bodies \cup {None} /\ TabHolds(t)
      BY DEF ReadingInv, ReadingTyped, TabRecord
    <3> QED
      BY <3>1 DEF TabHolds
  <2> QED
    BY <2>1, <2>2 DEF ReadingInv, ReadingTyped, LoadRecord, LoadHolds, ReadingTypeOK
<1>2. ReadingInv => LoadIsCurrent /\ RevalidationIsExact
  <2> SUFFICES ASSUME ReadingInv, NEW l \in loads, l.stage = "answered"
               PROVE  /\ l.tab \in Tabs => Meaning(Loaded(l)) \in l.possible
                      /\ l.body = None => l.cached # None /\ Meaning(l.cached.body) = l.meant
    BY DEF LoadIsCurrent, RevalidationIsExact
  <2>1. AnswerHolds(l)
    BY DEF ReadingInv, LoadHolds
  <2> QED
    BY <2>1 DEF AnswerHolds, Loaded, Confirmed
<1>3. ReadingInv => LatestIsShown
  BY DEF ReadingInv, TabHolds, LatestIsShown
<1>4. ReadingInv => LoadsAreTrue
  BY <1>1, <1>2, <1>3 DEF LoadsAreTrue
<1> QED
  BY <1>4, ReadingInvariance, PTL

---------------------------------------------------------------------------
(* THE LEADERBOARD.                                                        *)
(*                                                                         *)
(* A page at rest shows what it asks for, for any lists, any number of     *)
(* clicks and any troubles.  What makes it inductive: a request that is    *)
(* open asks what the effect of the hook last saw, an aborted one leaves   *)
(* such a request behind it, and one run of the effects removes whatever   *)
(* could change the filter of the next request.                            *)

TrueCursors ==
    {c \in Cursors : c.filter \in Offered[c.rev] \cup {All} /\ c.page \in 2..Pages[c.rev][c.filter]}

TrueQueries == [filter : Filters, cursor : TrueCursors \cup {None}]

Place(cursor) == IF cursor = None THEN 1 ELSE cursor.page

(* What the site answers, whenever it does. *)
IsAnswer(e) ==
    /\ e \in Envelopes /\ e.query \in TrueQueries /\ e.next \in TrueCursors \cup {None}
    /\ e.offered = Offered[e.rev]
    /\ e.page = Place(e.query.cursor)
    /\ e.query.cursor # None => e.query.cursor.rev = e.rev
    /\ e.next # None => e.next.rev = e.rev /\ e.next.page = e.page + 1

SiteAnswers == {e \in Envelopes : IsAnswer(e)}

WalkRecord == [identity : Filters, cursor : TrueCursors \cup {None}, previous : Seq(TrueCursors \cup {None})]

ShownRecord ==
    [phase : {"loading", "ready", "stale", "unavailable", "error"}, envelope : SiteAnswers \cup {None},
     status : {None, 400, 503}, fallback : {"none", "browser-cache"}, for : TrueQueries \cup {None}]

Asking == [query : TrueQueries, stage : {"reply", "body"}, body : SiteAnswers \cup {None}]

BrowsingTyped ==
    /\ current \in Revisions
    /\ filters \in Filters /\ address \in Filters
    /\ known \in Range(Offered) \cup {None}
    /\ page \in WalkRecord
    /\ shown \in ShownRecord
    /\ asked \in [query : TrueQueries, tries : Nat] \cup {None}
    /\ tries \in Nat
    /\ request \in Asking \cup {None}
    /\ aborted \subseteq Asking
    /\ lastValid \in SiteAnswers \cup {None}
    /\ stored \subseteq SiteAnswers
    /\ settled \in BOOLEAN /\ strayed \in BOOLEAN /\ due \in BOOLEAN

(* Who waits: the open request asks what the effect last saw, and an aborted *)
(* one has been replaced.                                                    *)
RequestsAsk ==
    /\ request # None => asked # None /\ request.query = asked.query
                         /\ (request.stage = "body" => request.body # None /\ request.body.query = request.query)
    /\ aborted # {} => request # None
    /\ asked = None => ~settled /\ request = None /\ shown = Loading(None)
    /\ \A e, f \in stored : e.query = f.query => e = f

(* What a request that has ended leaves to be shown. *)
OutcomeIsShown ==
    /\ shown.phase = "loading" => shown.envelope = None
    /\ shown.status = 400 => shown.phase = "error" /\ shown.envelope = None
    /\ request # None => strayed \/ shown.phase = "loading"
    /\ request = None /\ asked # None =>
          /\ shown.phase # "loading" /\ shown.for = asked.query
          /\ shown.envelope # None => shown.envelope.query = asked.query
          /\ shown.status = 400 => \E r \in 1..current : IsRefused(r, asked.query)
          /\ shown.phase \in {"unavailable", "error"} /\ shown.status # 400 =>
                \A e \in stored \cup ({lastValid} \ {None}) : e.query # asked.query

(* One run of the effects would change neither the filters nor the page. *)
Steady ==
    /\ ~IsOutdated
    /\ shown.envelope # None => known = shown.envelope.offered /\ Normalized(filters, known) = filters

EffectsHaveRun ==
    settled => Steady /\ ~Changed /\ page.identity = RequestFilter /\ ~due

(* While nothing that the effect of the address depends on has changed, the *)
(* address, read again, gives the controls: going back moves it only as far *)
(* as that, or makes the effect due.                                        *)
AddressGives ==
    ~due /\ shown.envelope # None =>
        /\ Normalized(filters, shown.envelope.offered) = filters
        /\ Normalized(address, shown.envelope.offered) = filters

(* A request is aborted once for a change that the visitor or an answer makes, *)
(* and once for what the effects make of it.                                   *)
AbortedAreFew ==
    \/ aborted = {}
    \/ (Steady \/ ~Changed) /\ \E a \in aborted : aborted = {a}
    \/ Steady /\ ~Changed /\ \E a, b \in aborted : aborted = {a, b}

(* The pages before the page are those of the list, in order. *)
IsWalk(walk) ==
    /\ walk.cursor = None => walk.previous = <<>>
    /\ walk.cursor # None => Len(walk.previous) + 1 = walk.cursor.page /\ walk.previous[1] = None
    /\ \A i \in DOMAIN walk.previous : i # 1 =>
          /\ walk.previous[i] # None /\ walk.previous[i].page = i
          /\ walk.previous[i].rev = walk.cursor.rev

BrowsingInv ==
    /\ BrowsingTyped
    /\ RequestsAsk
    /\ OutcomeIsShown
    /\ EffectsHaveRun
    /\ AddressGives
    /\ AbortedAreFew
    /\ ~strayed => IsWalk(page)

---------------------------------------------------------------------------
LEMMA FiltersAre ==
    /\ All \in Filters
    /\ \A r \in Revisions : Offered[r] \cup {All} \subseteq Filters /\ Offered[r] \in Range(Offered)
    /\ \A offered \in Range(Offered) : offered \subseteq Filters
    /\ \A f \in Filters, offered \in Range(Offered) : Normalized(f, offered) \in Filters
BY DEF Filters, Revisions, Range, Normalized

LEMMA ListsAreNumbered == Revisions = 1..Len(Offered) /\ Len(Offered) \in Nat \ {0}
BY Listed DEF Revisions

\* A place of a list may be asked for.
LEMMA PagesAre ==
    ASSUME NEW r \in Revisions, NEW f \in Offered[r] \cup {All}
    PROVE  Pages[r][f] \in Nat
BY Listed DEF Revisions

LEMMA EnvelopeIsAnswer ==
    ASSUME NEW r \in Revisions, NEW query \in TrueQueries, ~IsRefused(r, query),
           NEW freshness \in {"fresh", "stale"}
    PROVE  Envelope(r, query, freshness) \in SiteAnswers /\ Envelope(r, query, freshness).query = query
<1> DEFINE place == IF query.cursor = None THEN 1 ELSE query.cursor.page
           more == HasSuccessor(r, query, place)
           next == [rev |-> r, filter |-> query.filter, page |-> place + 1]
<1>1. /\ query.filter \in Filters /\ query.cursor \in TrueCursors \cup {None}
      /\ query.filter \in Offered[r] \cup {All}
      /\ query.cursor # None => query.cursor.rev = r
  BY DEF TrueQueries, IsRefused
<1>2. query \in Queries
  BY <1>1 DEF Queries, TrueQueries, TrueCursors
<1>3. place \in Nat \ {0}
  BY <1>1, PagesAre DEF TrueCursors, Cursors
<1>4. more => next \in TrueCursors /\ next.rev = r /\ next.page = place + 1
  <2> SUFFICES ASSUME more PROVE next \in TrueCursors /\ next.rev = r /\ next.page = place + 1
    OBVIOUS
  <2>1. place + 1 \in 2..Pages[r][query.filter]
    BY <1>1, <1>3, PagesAre DEF HasSuccessor
  <2> QED
    BY <1>1, <1>3, <2>1 DEF TrueCursors, Cursors
<1>5. Envelope(r, query, freshness) =
        [query |-> query, rev |-> r, freshness |-> freshness, offered |-> Offered[r], page |-> place,
         next |-> IF more THEN next ELSE None]
  BY DEF Envelope
<1>6. (IF more THEN next ELSE None) \in TrueCursors \cup {None}
  BY <1>4
<1> HIDE DEF place, more, next
<1>7. Envelope(r, query, freshness) \in Envelopes
  BY <1>2, <1>3, <1>5, <1>6, FiltersAre DEF Envelopes, TrueCursors
<1>8. IsAnswer(Envelope(r, query, freshness))
  BY <1>1, <1>4, <1>5, <1>6, <1>7 DEF IsAnswer, Place, place
<1> QED
  BY <1>5, <1>7, <1>8 DEF SiteAnswers

LEMMA NotNone ==
    /\ None \notin TrueCursors /\ None \notin SiteAnswers /\ None \notin Asking
    /\ None \notin [query : TrueQueries, tries : Nat]
    /\ None # 400
<1>1. TrueCursors \subseteq Cursors /\ SiteAnswers \subseteq Envelopes
  BY DEF TrueCursors, SiteAnswers
<1>2. TrueQueries \subseteq Queries
  BY <1>1 DEF TrueQueries, Queries
<1>3. Asking \subseteq Requests
  BY <1>1, <1>2 DEF Asking, Requests
<1>4. [query : TrueQueries, tries : Nat] \subseteq Questions
  BY <1>2 DEF Questions
<1> QED
  BY <1>1, <1>3, <1>4, BrowsingNone

\* What is remembered of a query answers that query; if nothing is, no
\* answer is held.
LEMMA RememberedIs ==
    ASSUME BrowsingTyped, NEW query
    PROVE  \/ Remembered(query) \in SiteAnswers /\ Remembered(query).query = query
           \/ /\ Remembered(query) = None
              /\ \A e \in stored \cup ({lastValid} \ {None}) : e.query # query
<1>1. CASE lastValid # None /\ lastValid.query = query
  BY <1>1 DEF Remembered, BrowsingTyped
<1>2. CASE ~(lastValid # None /\ lastValid.query = query) /\ \E e \in stored : e.query = query
  <2>1. Remembered(query) = CHOOSE e \in stored : e.query = query
    BY <1>2 DEF Remembered
  <2>2. Remembered(query) \in stored /\ Remembered(query).query = query
    BY <1>2, <2>1
  <2> QED
    BY <2>2 DEF BrowsingTyped
<1>3. CASE ~(lastValid # None /\ lastValid.query = query) /\ ~\E e \in stored : e.query = query
  BY <1>3 DEF Remembered
<1> QED
  BY <1>1, <1>2, <1>3

LEMMA RequestFilterIs ==
    ASSUME BrowsingTyped
    PROVE  /\ RequestFilter \in Filters
           /\ FirstPage \in WalkRecord /\ FirstPage.identity = RequestFilter /\ FirstPage.cursor = None
           /\ ActivePage \in WalkRecord /\ ActivePage.identity = RequestFilter
           /\ Endpoint \in TrueQueries /\ Endpoint.filter = RequestFilter /\ Endpoint.cursor = ActivePage.cursor
           /\ IsWalk(FirstPage) /\ (IsWalk(page) => IsWalk(ActivePage))
<1>1. RequestFilter \in Filters
  BY FiltersAre DEF BrowsingTyped, RequestFilter
<1>2. FirstPage \in WalkRecord /\ FirstPage.identity = RequestFilter /\ FirstPage.cursor = None
      /\ FirstPage.previous = <<>>
  BY <1>1 DEF FirstPage, WalkRecord
<1>3. ActivePage \in WalkRecord /\ ActivePage.identity = RequestFilter
  BY <1>2 DEF ActivePage, BrowsingTyped
<1>4. Endpoint \in TrueQueries /\ Endpoint.filter = RequestFilter /\ Endpoint.cursor = ActivePage.cursor
  BY <1>1, <1>3 DEF Endpoint, TrueQueries, WalkRecord
<1>5. IsWalk(FirstPage)
  BY <1>2 DEF IsWalk
<1> QED
  BY <1>1, <1>2, <1>3, <1>4, <1>5 DEF ActivePage

LEMMA BrowsingInitially == BrowsingInit => BrowsingInv
<1> SUFFICES ASSUME BrowsingInit PROVE BrowsingInv
  OBVIOUS
<1> DEFINE first == [filter |-> All, cursor |-> None]
<1>1. /\ current = 1 /\ filters \in Filters /\ address = filters /\ known = None /\ asked = None /\ tries = 0
      /\ page = FirstPage /\ shown = Loading(None) /\ request = None /\ aborted = {} /\ lastValid = None
      /\ stored \in {{}, {Envelope(1, first, "fresh")}} /\ settled = FALSE /\ strayed = FALSE /\ due = TRUE
  BY DEF BrowsingInit
<1>2. 1 \in Revisions
  BY ListsAreNumbered
<1>3. first \in TrueQueries /\ ~IsRefused(1, first)
  BY FiltersAre DEF TrueQueries, IsRefused
<1>4. Envelope(1, first, "fresh") \in SiteAnswers
  BY <1>2, <1>3, EnvelopeIsAnswer
<1>5. page \in WalkRecord /\ IsWalk(page)
  BY <1>1, FiltersAre DEF FirstPage, WalkRecord, IsWalk, RequestFilter
<1>6. shown \in ShownRecord
  BY <1>1 DEF Loading, ShownRecord
<1>7. BrowsingTyped
  BY <1>1, <1>2, <1>4, <1>5, <1>6 DEF BrowsingTyped
<1>8. shown.phase = "loading" /\ shown.envelope = None /\ shown.status = None
  BY <1>1 DEF Loading
<1>9. RequestsAsk
  BY <1>1 DEF RequestsAsk
<1>10. OutcomeIsShown
  BY <1>1, <1>8, NotNone DEF OutcomeIsShown
<1> QED
  BY <1>1, <1>5, <1>7, <1>9, <1>10 DEF BrowsingInv, EffectsHaveRun, AddressGives, AbortedAreFew

---------------------------------------------------------------------------
(* The effects.                                                            *)

LEMMA EffectsAre ==
    ASSUME BrowsingTyped, RunEffects
    PROVE  /\ page' = (IF IsOutdated THEN FirstPage ELSE ActivePage)
           /\ page'.identity = RequestFilter /\ page' \in WalkRecord
           /\ filters' = (IF shown.envelope = None THEN filters ELSE Normalized(filters, shown.envelope.offered))
           /\ filters' \in Filters /\ address' \in Filters
           /\ known' = (IF IsOutdated THEN None
                        ELSE IF shown.envelope # None THEN shown.envelope.offered ELSE known)
           /\ known' \in Range(Offered) \cup {None}
<1>1. page' = (IF IsOutdated THEN FirstPage ELSE ActivePage)
  BY DEF RunEffects, AfterRefusal
<1>2. shown.envelope # None => shown.envelope \in SiteAnswers /\ shown.envelope.offered \in Range(Offered)
                               /\ Capabilities = shown.envelope.offered
  BY DEF BrowsingTyped, ShownRecord, SiteAnswers, Envelopes, Capabilities
<1>3. filters' = (IF shown.envelope = None THEN filters ELSE Normalized(filters, shown.envelope.offered))
  BY <1>2 DEF RunEffects
<1>4. filters' \in Filters
  BY <1>2, <1>3, FiltersAre DEF BrowsingTyped
<1>5. address' \in Filters
  BY DEF RunEffects, BrowsingTyped
<1>6. known' = (IF IsOutdated THEN None
                ELSE IF shown.envelope # None THEN shown.envelope.offered ELSE known)
  BY DEF RunEffects
<1>7. known' \in Range(Offered) \cup {None}
  BY <1>2, <1>6 DEF BrowsingTyped
<1> QED
  BY <1>1, <1>3, <1>4, <1>5, <1>6, <1>7, RequestFilterIs

\* One run leaves nothing that a second would change.
LEMMA EffectsMakeSteady ==
    ASSUME BrowsingTyped, OutcomeIsShown, RunEffects
    PROVE  Steady'
<1>1. CASE Changed
  <2>1. shown' = Loading(Endpoint)
    BY <1>1 DEF RunEffects
  <2> QED
    BY <2>1 DEF Steady, IsOutdated, Loading
<1>2. CASE ~Changed
  <2>1. shown' = shown
    BY <1>2 DEF RunEffects
  <2>2. ~IsOutdated'
    <3>1. SUFFICES ASSUME shown.phase = "error", shown.status = 400 PROVE ActivePage'.cursor = None
      BY <2>1 DEF IsOutdated
    <3>2. page'.cursor = None
      BY <3>1, EffectsAre, RequestFilterIs DEF IsOutdated
    <3> QED
      BY <3>2 DEF ActivePage, FirstPage
  <2>3. ASSUME shown.envelope # None
        PROVE  known' = shown.envelope.offered /\ Normalized(filters', known') = filters'
    <3>1. ~IsOutdated
      BY <2>3 DEF OutcomeIsShown, IsOutdated
    <3>2. known' = shown.envelope.offered /\ filters' = Normalized(filters, shown.envelope.offered)
      BY <2>3, <3>1, EffectsAre
    <3>3. All \notin shown.envelope.offered
      <4>1. shown.envelope.offered \in Range(Offered)
        BY <2>3 DEF BrowsingTyped, ShownRecord, SiteAnswers, Envelopes
      <4> QED
        BY <4>1, Listed DEF Range
    <3> QED
      BY <3>2, <3>3 DEF Normalized
  <2> QED
    BY <2>1, <2>2, <2>3 DEF Steady
<1> QED
  BY <1>1, <1>2

\* A second run leaves the request as it is.
LEMMA EffectsAreDone ==
    ASSUME BrowsingTyped, Steady, RunEffects
    PROVE  ~Changed' /\ Endpoint' = Endpoint
<1>1. known' = known /\ filters' = filters /\ page' = ActivePage
  BY EffectsAre DEF Steady
<1>2. RequestFilter' = RequestFilter
  BY <1>1 DEF RequestFilter
<1>3. ActivePage' = ActivePage
  BY <1>1, <1>2, RequestFilterIs DEF ActivePage
<1>4. Endpoint' = Endpoint /\ tries' = tries
  BY <1>2, <1>3 DEF Endpoint, RunEffects
<1>5. CASE Changed
  <2>1. asked' = [query |-> Endpoint, tries |-> tries]
    BY <1>5 DEF RunEffects
  <2>2. asked' # None
    BY <2>1, NotNone, RequestFilterIs DEF BrowsingTyped
  <2> QED
    BY <1>4, <2>1, <2>2 DEF Changed
<1>6. CASE ~Changed
  BY <1>4, <1>6 DEF RunEffects, Changed
<1> QED
  BY <1>4, <1>5, <1>6

LEMMA EffectsKeep ==
    ASSUME BrowsingInv, RunEffects
    PROVE  BrowsingInv'
<1> USE DEF BrowsingInv
<1>1. UNCHANGED <<current, tries, lastValid, stored, strayed>>
  BY DEF RunEffects
<1>2. /\ Changed => /\ asked' = [query |-> Endpoint, tries |-> tries]
                    /\ request' = [query |-> Endpoint, stage |-> "reply", body |-> None]
                    /\ aborted' = (IF request = None THEN aborted ELSE aborted \cup {request})
                    /\ shown' = Loading(Endpoint)
      /\ ~Changed => UNCHANGED <<asked, request, aborted, shown>>
  BY DEF RunEffects
<1>3. Changed => /\ asked' \in [query : TrueQueries, tries : Nat] /\ asked' # None
                 /\ request' \in Asking /\ request' # None /\ aborted' \subseteq Asking
                 /\ shown' \in ShownRecord /\ shown'.phase = "loading" /\ shown'.envelope = None
                 /\ shown'.status = None
  <2> SUFFICES ASSUME Changed
               PROVE  /\ asked' \in [query : TrueQueries, tries : Nat] /\ asked' # None
                      /\ request' \in Asking /\ request' # None /\ aborted' \subseteq Asking
                      /\ shown' \in ShownRecord /\ shown'.phase = "loading" /\ shown'.envelope = None
                      /\ shown'.status = None
    OBVIOUS
  <2>1. Endpoint \in TrueQueries
    BY RequestFilterIs
  <2>2. asked' \in [query : TrueQueries, tries : Nat] /\ request' \in Asking
    BY <1>2, <2>1 DEF BrowsingTyped, Asking
  <2>3. aborted' \subseteq Asking
    BY <1>2 DEF BrowsingTyped
  <2>4. shown' \in ShownRecord /\ shown'.phase = "loading" /\ shown'.envelope = None /\ shown'.status = None
    BY <1>2, <2>1 DEF Loading, ShownRecord
  <2> QED
    BY <2>2, <2>3, <2>4, NotNone
<1>4. settled' \in BOOLEAN /\ due' \in BOOLEAN
  BY DEF RunEffects
<1>5. BrowsingTyped'
  <2>1. shown' \in ShownRecord /\ asked' \in [query : TrueQueries, tries : Nat] \cup {None}
        /\ request' \in Asking \cup {None} /\ aborted' \subseteq Asking
    BY <1>2, <1>3 DEF BrowsingTyped
  <2> QED
    BY <1>1, <1>4, <2>1, EffectsAre DEF BrowsingTyped
<1>6. RequestsAsk'
  <2>1. CASE Changed
    BY <1>1, <1>2, <1>3, <2>1 DEF RequestsAsk
  <2>2. CASE ~Changed
    BY <1>1, <1>2, <2>2 DEF RequestsAsk, Changed
  <2> QED
    BY <2>1, <2>2
<1>7. OutcomeIsShown'
  <2>1. CASE Changed
    BY <1>3, <2>1, NotNone DEF OutcomeIsShown
  <2>2. CASE ~Changed
    BY <1>1, <1>2, <2>2 DEF OutcomeIsShown
  <2> QED
    BY <2>1, <2>2
<1>8. Steady'
  BY EffectsMakeSteady
<1>9. EffectsHaveRun'
  <2> SUFFICES ASSUME settled'
               PROVE  ~Changed' /\ page'.identity = RequestFilter' /\ ~due'
    BY <1>8 DEF EffectsHaveRun
  <2>1. UNCHANGED <<asked, shown, known, page, filters>>
    BY DEF RunEffects
  <2>2. RequestFilter' = RequestFilter /\ Endpoint' = Endpoint
    BY <2>1 DEF RequestFilter, Endpoint, ActivePage, FirstPage
  <2>3. ~Changed
    <3>1. SUFFICES ASSUME Changed PROVE FALSE
      OBVIOUS
    <3>2. asked.query = Endpoint /\ asked.tries = tries /\ asked # None
      BY <1>2, <1>3, <2>1, <3>1
    <3> QED
      BY <3>1, <3>2 DEF Changed
  <2>4. ~Changed'
    BY <1>1, <2>1, <2>2, <2>3 DEF Changed
  <2>5. ~due'
    BY <2>1 DEF RunEffects
  <2> QED
    BY <2>1, <2>2, <2>4, <2>5, EffectsAre
<1>10. AbortedAreFew'
  <2>1. CASE aborted = {}
    BY <1>2, <1>8, <2>1 DEF AbortedAreFew
  <2>2. ASSUME Steady \/ ~Changed, NEW a \in aborted, aborted = {a}
        PROVE  AbortedAreFew'
    <3>1. CASE Changed
      <4>1. ~Changed'
        BY <2>2, <3>1, EffectsAreDone
      <4>2. aborted' = {a} \/ aborted' = {a, request}
        BY <1>2, <2>2, <3>1
      <4> QED
        BY <1>8, <4>1, <4>2 DEF AbortedAreFew
    <3>2. CASE ~Changed
      BY <1>2, <1>8, <2>2, <3>2 DEF AbortedAreFew
    <3> QED
      BY <3>1, <3>2
  <2>3. ASSUME Steady, ~Changed, NEW a \in aborted, NEW b \in aborted, aborted = {a, b}
        PROVE  AbortedAreFew'
    <3>1. ~Changed' /\ aborted' = aborted
      BY <1>2, <2>3, EffectsAreDone
    <3> QED
      BY <1>8, <2>3, <3>1 DEF AbortedAreFew
  <2> QED
    BY <2>1, <2>2, <2>3 DEF AbortedAreFew
<1>11. ~strayed' => IsWalk(page')
  <2>1. ~strayed => IsWalk(page')
    BY EffectsAre, RequestFilterIs
  <2> QED
    BY <1>1, <2>1
<1>12. AddressGives'
  <2> SUFFICES ASSUME ~due', shown'.envelope # None
               PROVE  /\ Normalized(filters', shown'.envelope.offered) = filters'
                      /\ Normalized(address', shown'.envelope.offered) = filters'
    BY DEF AddressGives
  <2>1. filters' = filters /\ shown' = shown /\ Capabilities = shown.envelope.offered /\ shown.envelope # None
    BY DEF RunEffects, Capabilities
  <2>2. Normalized(filters, Capabilities) = filters
    BY <2>1, EffectsAre
  <2>3. address' = (IF due THEN filters ELSE address)
    BY <2>1, <2>2 DEF RunEffects, WritesAddress
  <2> QED
    BY <2>1, <2>2, <2>3 DEF AddressGives
<1> QED
  BY <1>5, <1>6, <1>7, <1>9, <1>10, <1>11, <1>12 DEF IsWalk

---------------------------------------------------------------------------
(* The request.                                                            *)

\* What the request of a hook at rest in its effects asks for.
LEMMA WhoAwaits ==
    ASSUME BrowsingInv, Quiet
    PROVE  /\ aborted = {} /\ settled /\ asked # None /\ asked \in [query : TrueQueries, tries : Nat]
           /\ asked.query = Endpoint /\ asked.query \in TrueQueries
           /\ request # None => request \in Asking /\ request.query = asked.query
           /\ Steady /\ ~Changed /\ page.identity = RequestFilter /\ ActivePage = page
<1>1. aborted = {} /\ settled /\ asked # None
  BY DEF Quiet, BrowsingInv, RequestsAsk
<1>2. asked \in [query : TrueQueries, tries : Nat]
  BY <1>1 DEF BrowsingInv, BrowsingTyped
<1>3. Steady /\ ~Changed /\ page.identity = RequestFilter
  BY <1>1 DEF BrowsingInv, EffectsHaveRun
<1>4. request # None => request \in Asking /\ request.query = asked.query
  BY DEF BrowsingInv, BrowsingTyped, RequestsAsk
<1> QED
  BY <1>1, <1>2, <1>3, <1>4 DEF Changed, ActivePage

\* A request has ended, and what is now shown is an outcome of it.
LEMMA EndKeepsPage ==
    ASSUME BrowsingInv, Quiet, Render, Ends,
           shown' \in ShownRecord, lastValid' \in SiteAnswers \cup {None}, stored' \subseteq SiteAnswers,
           \A e, f \in stored' : e.query = f.query => e = f,
           shown'.phase # "loading", shown'.for = asked.query,
           shown'.envelope # None => shown'.envelope.query = asked.query,
           shown'.status = 400 => shown'.phase = "error" /\ shown'.envelope = None
                                  /\ \E r \in 1..current : IsRefused(r, asked.query),
           shown'.phase \in {"unavailable", "error"} /\ shown'.status # 400 =>
               \A e \in stored' \cup ({lastValid'} \ {None}) : e.query # asked.query
    PROVE  BrowsingInv'
<1>1. /\ settled' = FALSE /\ due' = TRUE /\ request' = None
      /\ UNCHANGED <<current, filters, page, tries, known, asked, address>>
      /\ UNCHANGED <<aborted, strayed>>
  BY DEF Render, Ends, visitor
<1>2. aborted' = {} /\ asked' # None
  BY <1>1, WhoAwaits
<1>3. BrowsingTyped'
  BY <1>1 DEF BrowsingInv, BrowsingTyped
<1>4. RequestsAsk'
  BY <1>1, <1>2 DEF RequestsAsk
<1>5. OutcomeIsShown'
  BY <1>1, <1>2 DEF OutcomeIsShown
<1>6. ~strayed' => IsWalk(page')
  BY <1>1 DEF BrowsingInv
<1> QED
  BY <1>1, <1>2, <1>3, <1>4, <1>5, <1>6
     DEF BrowsingInv, EffectsHaveRun, AddressGives, AbortedAreFew, IsWalk

LEMMA TerminalsAre ==
    ASSUME NEW phase \in {"unavailable", "error"}, NEW status \in {None, 400, 503}, NEW query \in TrueQueries
    PROVE  /\ Terminal(phase, status, query) \in ShownRecord
           /\ Terminal(phase, status, query).phase = phase /\ Terminal(phase, status, query).status = status
           /\ Terminal(phase, status, query).envelope = None /\ Terminal(phase, status, query).for = query
BY DEF Terminal, ShownRecord

\* What recover shows: the failure only where no answer is held.
LEMMA RecoverShows ==
    ASSUME BrowsingTyped, NEW phase \in {"unavailable", "error"}, NEW status \in {None, 400, 503},
           NEW query \in TrueQueries, Recover(Terminal(phase, status, query), query)
    PROVE  /\ shown' \in ShownRecord /\ shown'.phase # "loading" /\ shown'.for = query
           /\ shown'.envelope # None => shown'.envelope.query = query /\ shown'.phase = "stale"
           /\ shown'.status = status
           /\ status = 400 => shown'.envelope = None /\ shown'.phase = phase
           /\ shown'.phase \in {"unavailable", "error"} /\ status # 400 =>
                 \A e \in stored \cup ({lastValid} \ {None}) : e.query # query
<1> DEFINE terminal == Terminal(phase, status, query)
<1>1. /\ terminal \in ShownRecord /\ terminal.phase = phase /\ terminal.status = status
      /\ terminal.envelope = None /\ terminal.for = query
  BY TerminalsAre
<1>2. shown' = (IF status = 400 \/ Remembered(query) = None THEN terminal
                ELSE [phase |-> "stale", envelope |-> Remembered(query), status |-> status,
                      fallback |-> "browser-cache", for |-> query])
  BY <1>1 DEF Recover
<1> HIDE DEF terminal
<1>3. CASE status = 400
  BY <1>1, <1>2, <1>3
<1>4. CASE status # 400 /\ Remembered(query) = None
  <2>1. \A e \in stored \cup ({lastValid} \ {None}) : e.query # query
    BY <1>4, RememberedIs, NotNone
  <2> QED
    BY <1>1, <1>2, <1>4, <2>1
<1>5. CASE status # 400 /\ Remembered(query) # None
  <2>1. Remembered(query) \in SiteAnswers /\ Remembered(query).query = query
    BY <1>5, RememberedIs
  <2>2. shown' = [phase |-> "stale", envelope |-> Remembered(query), status |-> status,
                  fallback |-> "browser-cache", for |-> query]
    BY <1>2, <1>5
  <2> QED
    BY <1>5, <2>1, <2>2 DEF ShownRecord
<1> QED
  BY <1>3, <1>4, <1>5

\* A request fails, or is refused.
LEMMA FailureKeeps ==
    ASSUME BrowsingInv, Quiet, request # None, Render, Ends, UNCHANGED <<lastValid, stored>>,
           NEW phase \in {"unavailable", "error"}, NEW status \in {None, 400, 503},
           Recover(Terminal(phase, status, request.query), request.query),
           status = 400 => phase = "error" /\ \E r \in 1..current : IsRefused(r, request.query)
    PROVE  BrowsingInv'
<1>1. request.query = asked.query /\ asked.query \in TrueQueries
  BY WhoAwaits
<1>2. BrowsingTyped
  BY DEF BrowsingInv
<1>3. lastValid' \in SiteAnswers \cup {None} /\ stored' \subseteq SiteAnswers
      /\ \A e, f \in stored' : e.query = f.query => e = f
  BY DEF BrowsingInv, BrowsingTyped, RequestsAsk
<1>4. /\ shown' \in ShownRecord /\ shown'.phase # "loading" /\ shown'.for = asked.query
      /\ shown'.envelope # None => shown'.envelope.query = asked.query
      /\ shown'.status = status
      /\ status = 400 => shown'.envelope = None /\ shown'.phase = phase
      /\ shown'.phase \in {"unavailable", "error"} /\ status # 400 =>
            \A e \in stored \cup ({lastValid} \ {None}) : e.query # asked.query
  BY <1>1, <1>2, RecoverShows
<1>5. shown'.phase \in {"unavailable", "error"} /\ shown'.status # 400 =>
         \A e \in stored' \cup ({lastValid'} \ {None}) : e.query # asked.query
  BY <1>4
<1>6. shown'.status = 400 => shown'.phase = "error" /\ shown'.envelope = None
                             /\ \E r \in 1..current : IsRefused(r, asked.query)
  BY <1>1, <1>4
<1> QED
  BY <1>3, <1>4, <1>5, <1>6, EndKeepsPage

LEMMA ReplyKeeps ==
    ASSUME BrowsingInv, Reply
    PROVE  BrowsingInv'
<1>1. Quiet /\ request # None /\ request.stage = "reply"
  BY DEF Reply, Awaits
<1>2. PICK r \in Revisions, freshness \in {"fresh", "stale"} :
         /\ Serves(r, freshness)
         /\ IF IsRefused(r, request.query)
            THEN /\ Recover(Terminal("error", 400, request.query), request.query)
                 /\ Ends /\ Render /\ UNCHANGED <<lastValid, stored>>
            ELSE /\ request' = [request EXCEPT !.stage = "body",
                                               !.body = Envelope(r, request.query, freshness)]
                 /\ UNCHANGED <<current, visitor, known, asked, address, settled, due>>
                 /\ UNCHANGED <<shown, aborted, lastValid, stored, strayed>>
  BY DEF Reply
<1>3. r \in 1..current
  BY <1>2, ListsAreNumbered DEF Serves, BrowsingInv, BrowsingTyped
<1>4. request \in Asking /\ request.query \in TrueQueries /\ request.query = asked.query
  BY <1>1, WhoAwaits DEF Asking
<1>5. CASE IsRefused(r, request.query)
  BY <1>1, <1>2, <1>3, <1>5, FailureKeeps
<1>6. CASE ~IsRefused(r, request.query)
  <2> DEFINE e == Envelope(r, request.query, freshness)
  <2>1. e \in SiteAnswers /\ e.query = request.query
    BY <1>4, <1>6, EnvelopeIsAnswer
  <2>2. /\ request' = [request EXCEPT !.stage = "body", !.body = e]
        /\ UNCHANGED <<current, filters, page, tries, known, asked, address, settled, due>>
        /\ UNCHANGED <<shown, aborted, lastValid, stored, strayed>>
    BY <1>2, <1>6 DEF visitor
  <2> HIDE DEF e
  <2>3. request' \in Asking /\ request'.query = request.query /\ request'.body = e /\ request'.stage = "body"
    BY <1>4, <2>1, <2>2 DEF Asking
  <2>4. request' # None /\ e # None
    BY <2>1, <2>3, NotNone
  <2>5. BrowsingTyped'
    BY <2>2, <2>3 DEF BrowsingInv, BrowsingTyped
  <2>6. RequestsAsk'
    BY <1>1, <2>1, <2>2, <2>3, <2>4 DEF BrowsingInv, RequestsAsk
  <2>7. OutcomeIsShown'
    BY <1>1, <2>2, <2>4 DEF BrowsingInv, OutcomeIsShown
  <2>8. (Steady <=> Steady') /\ (Changed <=> Changed') /\ RequestFilter' = RequestFilter
    BY <2>2 DEF Steady, IsOutdated, ActivePage, FirstPage, RequestFilter, Changed, Endpoint
  <2>9. EffectsHaveRun' /\ AddressGives' /\ AbortedAreFew'
    BY <2>2, <2>8 DEF BrowsingInv, EffectsHaveRun, AddressGives, AbortedAreFew
  <2>10. ~strayed' => IsWalk(page')
    BY <2>2 DEF BrowsingInv
  <2> QED
    BY <2>5, <2>6, <2>7, <2>9, <2>10 DEF BrowsingInv, IsWalk
<1> QED
  BY <1>5, <1>6

LEMMA ReplyFailsKeeps ==
    ASSUME BrowsingInv, ReplyFails \/ BodyFails
    PROVE  BrowsingInv'
<1>1. Quiet /\ request # None /\ Ends /\ Render /\ UNCHANGED <<lastValid, stored>>
  BY DEF ReplyFails, BodyFails, Awaits
<1>2. \/ Recover(Terminal("unavailable", 503, request.query), request.query)
      \/ Recover(Terminal("error", None, request.query), request.query)
      \/ Recover(Terminal("unavailable", None, request.query), request.query)
  BY DEF ReplyFails, BodyFails
<1>3. None # 400
  BY NotNone
<1> QED
  BY <1>1, <1>2, <1>3, FailureKeeps

LEMMA BodyKeeps ==
    ASSUME BrowsingInv, Body
    PROVE  BrowsingInv'
<1>1. Quiet /\ request # None /\ request.stage = "body" /\ Ends /\ Render
  BY DEF Body, Awaits
<1>2. request.query = asked.query /\ asked.query \in TrueQueries /\ request \in Asking
  BY <1>1, WhoAwaits
<1>3. request.body \in SiteAnswers /\ request.body.query = asked.query
  BY <1>1, <1>2 DEF BrowsingInv, RequestsAsk, Asking
<1>4. /\ lastValid' = request.body
      /\ stored' = {e \in stored : e.query # request.query} \cup {request.body}
      /\ shown' = [phase |-> IF request.body.freshness = "fresh" THEN "ready" ELSE "stale",
                   envelope |-> request.body, status |-> None, fallback |-> "none", for |-> request.query]
  BY DEF Body
<1>5. lastValid' \in SiteAnswers /\ stored' \subseteq SiteAnswers
  BY <1>3, <1>4 DEF BrowsingInv, BrowsingTyped
<1>6. \A e, f \in stored' : e.query = f.query => e = f
  BY <1>2, <1>3, <1>4 DEF BrowsingInv, RequestsAsk
<1>7. /\ shown' \in ShownRecord /\ shown'.phase \in {"ready", "stale"} /\ shown'.for = asked.query
      /\ shown'.envelope = request.body /\ shown'.status = None
  BY <1>2, <1>3, <1>4 DEF ShownRecord
<1>8. None # 400
  BY NotNone
<1> QED
  BY <1>1, <1>3, <1>5, <1>6, <1>7, <1>8, EndKeepsPage

LEMMA RejectedKeeps ==
    ASSUME BrowsingInv, Rejected
    PROVE  BrowsingInv'
<1>1. PICK r \in aborted :
         /\ aborted' = aborted \ {r}
         /\ IF r.stage = "body"
            THEN Recover(Terminal("unavailable", None, r.query), r.query) /\ Render /\ strayed' = TRUE
            ELSE UNCHANGED <<shown, current, visitor, known, asked, address, settled, due, strayed>>
         /\ UNCHANGED <<request, lastValid, stored, troubles>>
  BY DEF Rejected
<1>2. request # None /\ asked # None /\ r \in Asking /\ r.query \in TrueQueries
  BY DEF BrowsingInv, BrowsingTyped, RequestsAsk, Asking
<1>3. /\ UNCHANGED <<current, filters, page, tries, known, asked, address, request, lastValid, stored>>
      /\ shown' \in ShownRecord /\ settled' \in BOOLEAN /\ strayed' \in BOOLEAN /\ due' \in BOOLEAN
      /\ \/ UNCHANGED <<shown, settled, strayed, due>>
         \/ /\ ~settled' /\ strayed' /\ due' /\ shown'.phase # "loading" /\ shown'.status = None
  <2>1. CASE r.stage = "body"
    <3>1. BrowsingTyped /\ shown' \in ShownRecord /\ shown'.phase # "loading" /\ shown'.status = None
      BY <1>1, <1>2, <2>1, RecoverShows DEF BrowsingInv
    <3> QED
      BY <1>1, <2>1, <3>1 DEF Render, visitor
  <2>2. CASE r.stage # "body"
    BY <1>1, <2>2 DEF BrowsingInv, BrowsingTyped, visitor
  <2> QED
    BY <2>1, <2>2
<1>4. aborted' \subseteq aborted
  BY <1>1
<1>5. BrowsingTyped'
  BY <1>3, <1>4 DEF BrowsingInv, BrowsingTyped
<1>6. RequestsAsk'
  BY <1>2, <1>3 DEF BrowsingInv, RequestsAsk
<1>7. Changed' <=> Changed
  BY <1>3 DEF Changed, Endpoint, ActivePage, FirstPage, RequestFilter
<1>8. CASE UNCHANGED <<shown, settled, strayed, due>>
  <2>1. OutcomeIsShown'
    BY <1>3, <1>8 DEF BrowsingInv, OutcomeIsShown
  <2>2. (Steady' <=> Steady) /\ RequestFilter' = RequestFilter
    BY <1>3, <1>8 DEF Steady, IsOutdated, ActivePage, FirstPage, RequestFilter
  <2>3. EffectsHaveRun' /\ AddressGives'
    BY <1>3, <1>7, <1>8, <2>2 DEF BrowsingInv, EffectsHaveRun, AddressGives
  <2>4. AbortedAreFew'
    <3>1. CASE \E a \in aborted : aborted = {a}
      BY <1>1, <3>1 DEF AbortedAreFew
    <3>2. ASSUME Steady, ~Changed, NEW a \in aborted, NEW b \in aborted, aborted = {a, b}
          PROVE  AbortedAreFew'
      BY <1>1, <1>7, <2>2, <3>2 DEF AbortedAreFew
    <3> QED
      BY <3>1, <3>2 DEF BrowsingInv, AbortedAreFew
  <2> QED
    BY <1>3, <1>5, <1>6, <1>8, <2>1, <2>3, <2>4 DEF BrowsingInv, IsWalk
<1>9. CASE ~settled' /\ strayed' /\ due' /\ shown'.phase # "loading" /\ shown'.status = None
  <2>1. OutcomeIsShown'
    BY <1>2, <1>3, <1>9, NotNone DEF OutcomeIsShown
  <2>2. AbortedAreFew'
    <3>1. CASE \E a \in aborted : aborted = {a}
      BY <1>1, <3>1 DEF AbortedAreFew
    <3>2. ASSUME Steady, ~Changed, NEW a \in aborted, NEW b \in aborted, aborted = {a, b}
          PROVE  AbortedAreFew'
      BY <1>1, <1>7, <3>2 DEF AbortedAreFew
    <3> QED
      BY <3>1, <3>2 DEF BrowsingInv, AbortedAreFew
  <2> QED
    BY <1>5, <1>6, <1>9, <2>1, <2>2 DEF BrowsingInv, EffectsHaveRun, AddressGives
<1> QED
  BY <1>3, <1>8, <1>9

---------------------------------------------------------------------------
(* The visitor, and the publisher.                                         *)

\* A click after which the page renders: the effect of the address is due, or
\* neither the filters nor the address have moved.
LEMMA ClickKeepsPage ==
    ASSUME BrowsingInv, Click, settled' = FALSE, tries' \in Nat, filters' \in Filters, address' \in Filters,
           page' \in WalkRecord, ~strayed => IsWalk(page'), due' = TRUE \/ UNCHANGED <<filters, address, due>>
    PROVE  BrowsingInv'
<1>1. /\ UNCHANGED <<current, shown, request, aborted, lastValid, stored, strayed, known, asked>>
      /\ Quiet /\ settled' = FALSE
  BY DEF Click, hook
<1>2. aborted' = {} /\ asked' # None
  BY <1>1, WhoAwaits
<1>3. BrowsingTyped'
  BY <1>1 DEF BrowsingInv, BrowsingTyped
<1>4. RequestsAsk'
  BY <1>1, <1>2 DEF BrowsingInv, RequestsAsk
<1>5. OutcomeIsShown'
  BY <1>1 DEF BrowsingInv, OutcomeIsShown
<1>6. AddressGives'
  BY <1>1 DEF BrowsingInv, AddressGives
<1> QED
  BY <1>1, <1>2, <1>3, <1>4, <1>5, <1>6 DEF BrowsingInv, EffectsHaveRun, AbortedAreFew, IsWalk

LEMMA ChooseKeeps ==
    ASSUME BrowsingInv, NEW f \in Filters, Choose(f)
    PROVE  BrowsingInv'
<1>1. Click /\ UNCHANGED <<address, page, tries>> /\ filters' = f /\ settled' = FALSE /\ due' = TRUE
  BY DEF Choose
<1> QED
  BY <1>1, ClickKeepsPage DEF BrowsingInv, BrowsingTyped

\* Where going back gives the filters that are chosen already, the page stays
\* as it is, and the address is another way to write them.
LEMMA PopStateKeeps ==
    ASSUME BrowsingInv, NEW f \in Filters, PopState(f)
    PROVE  BrowsingInv'
<1>1. /\ Click /\ UNCHANGED <<page, tries>> /\ address' = f /\ filters' = Restored(f)
      /\ filters' = filters => UNCHANGED <<settled, due>>
      /\ filters' # filters => settled' = FALSE /\ due' = TRUE
  BY DEF PopState
<1>2. Restored(f) \in Filters
  BY FiltersAre DEF Restored, Normalized
<1>3. CASE filters' # filters
  BY <1>1, <1>2, <1>3, ClickKeepsPage DEF BrowsingInv, BrowsingTyped
<1>4. CASE filters' = filters
  <2>1. UNCHANGED <<current, filters, page, tries, known, asked, settled, due, shown, request, aborted,
                    lastValid, stored, strayed>>
    BY <1>1, <1>4 DEF Click, hook
  <2>2. (Steady' <=> Steady) /\ (Changed' <=> Changed) /\ RequestFilter' = RequestFilter
    BY <2>1 DEF Steady, IsOutdated, ActivePage, FirstPage, RequestFilter, Changed, Endpoint
  <2>3. BrowsingTyped' /\ RequestsAsk' /\ OutcomeIsShown'
    BY <1>1, <2>1 DEF BrowsingInv, BrowsingTyped, RequestsAsk, OutcomeIsShown
  <2>4. EffectsHaveRun' /\ AbortedAreFew'
    BY <2>1, <2>2 DEF BrowsingInv, EffectsHaveRun, AbortedAreFew
  <2>5. AddressGives'
    <3> SUFFICES ASSUME ~due, shown.envelope # None
                 PROVE  /\ Normalized(filters, shown.envelope.offered) = filters
                        /\ Normalized(f, shown.envelope.offered) = filters
      BY <1>1, <2>1 DEF AddressGives
    <3>1. Restored(f) = Normalized(f, shown.envelope.offered)
      BY DEF Restored, Capabilities
    <3> QED
      BY <1>1, <1>4, <3>1 DEF BrowsingInv, AddressGives
  <2> QED
    BY <2>1, <2>3, <2>4, <2>5 DEF BrowsingInv, IsWalk
<1> QED
  BY <1>3, <1>4

LEMMA RetryKeeps ==
    ASSUME BrowsingInv, Retry
    PROVE  BrowsingInv'
<1>1. Click /\ tries' = tries + 1 /\ settled' = FALSE /\ UNCHANGED <<filters, address, due, page>>
  BY DEF Retry, Turns
<1>2. /\ tries' \in Nat /\ filters' \in Filters /\ address' \in Filters /\ page' \in WalkRecord
      /\ UNCHANGED <<filters, address, due>> /\ page' = page
  BY <1>1 DEF BrowsingInv, BrowsingTyped
<1>3. ~strayed => IsWalk(page')
  BY <1>2 DEF BrowsingInv
<1> QED
  BY <1>1, <1>2, <1>3, ClickKeepsPage

\* What is shown beside rows that can be left for the next page: unless an
\* aborted request is shown, the answer to what the page asks.
LEMMA RowsAreAsked ==
    ASSUME BrowsingInv, Quiet, HasRows
    PROVE  /\ shown.envelope \in SiteAnswers
           /\ ~strayed => shown.envelope.query = Endpoint /\ shown.envelope.page = Place(ActivePage.cursor)
<1>1. shown.envelope \in SiteAnswers
  BY DEF HasRows, BrowsingInv, BrowsingTyped, ShownRecord
<1>2. ASSUME ~strayed
      PROVE  shown.envelope.query = Endpoint
  <2>1. request = None
    BY <1>2 DEF BrowsingInv, OutcomeIsShown, HasRows
  <2> QED
    BY <2>1, WhoAwaits DEF BrowsingInv, OutcomeIsShown, HasRows
<1>3. shown.envelope.page = Place(shown.envelope.query.cursor)
  BY <1>1 DEF SiteAnswers, IsAnswer
<1>4. Endpoint.cursor = ActivePage.cursor
  BY DEF Endpoint
<1> QED
  BY <1>1, <1>2, <1>3, <1>4

LEMMA NextPageKeeps ==
    ASSUME BrowsingInv, GoToNextPage
    PROVE  BrowsingInv'
<1>1. /\ HasRows /\ shown.envelope.next # None
      /\ Click /\ settled' = FALSE /\ UNCHANGED <<filters, address, due, tries>>
      /\ page' = [identity |-> RequestFilter, cursor |-> shown.envelope.next,
                  previous |-> Append(ActivePage.previous, ActivePage.cursor)]
  BY DEF GoToNextPage, Turns
<1>2. Quiet
  BY <1>1 DEF Click
<1> DEFINE walk == ActivePage
           next == shown.envelope.next
<1>3. /\ walk \in WalkRecord /\ RequestFilter \in Filters /\ (IsWalk(page) => IsWalk(walk))
  BY RequestFilterIs DEF BrowsingInv
<1>4. /\ shown.envelope \in SiteAnswers /\ next \in TrueCursors
  BY <1>1, <1>2, RowsAreAsked DEF SiteAnswers, IsAnswer
<1>5. /\ walk.previous \in Seq(TrueCursors \cup {None}) /\ walk.cursor \in TrueCursors \cup {None}
  BY <1>3 DEF WalkRecord
<1>6. page' = [identity |-> RequestFilter, cursor |-> next, previous |-> Append(walk.previous, walk.cursor)]
  BY <1>1
<1>7. page' \in WalkRecord
  BY <1>3, <1>4, <1>5, <1>6 DEF WalkRecord
<1>8. ASSUME ~strayed
      PROVE  IsWalk(page')
  <2>1. IsWalk(walk)
    BY <1>3, <1>8 DEF BrowsingInv
  <2>2. /\ next.rev = shown.envelope.rev /\ next.page = Place(walk.cursor) + 1
        /\ walk.cursor # None => walk.cursor.rev = next.rev
    BY <1>1, <1>2, <1>4, <1>8, RowsAreAsked DEF SiteAnswers, IsAnswer, Endpoint
  <2> HIDE DEF walk, next
  <2>3. page'.cursor = next /\ page'.previous = Append(walk.previous, walk.cursor) /\ next # None
    BY <1>4, <1>6, NotNone
  <2>4. CASE walk.cursor = None
    <3>1. page'.previous = <<None>>
      <4>1. walk.previous = <<>>
        BY <2>1, <2>4 DEF IsWalk
      <4>2. page'.previous = Append(<<>>, None)
        BY <2>3, <2>4, <4>1
      <4> QED
        BY <4>2
    <3>2. next.page = 2
      BY <2>2, <2>4 DEF Place
    <3> QED
      BY <2>3, <3>1, <3>2 DEF IsWalk
  <2>5. CASE walk.cursor # None
    <3>1. next.page = walk.cursor.page + 1 /\ walk.cursor.page = Len(walk.previous) + 1
          /\ walk.cursor.rev = next.rev /\ walk.previous[1] = None
      BY <2>1, <2>2, <2>5 DEF IsWalk, Place
    <3>2. Len(walk.previous) \in Nat /\ DOMAIN walk.previous = 1..Len(walk.previous)
          /\ walk.cursor.page \in 2..Pages[walk.cursor.rev][walk.cursor.filter]
          /\ Pages[walk.cursor.rev][walk.cursor.filter] \in Nat
      BY <1>5, <2>5, PagesAre DEF TrueCursors, Cursors
    <3>3. /\ Len(page'.previous) = Len(walk.previous) + 1
          /\ DOMAIN page'.previous = 1..(Len(walk.previous) + 1)
          /\ \A i \in 1..Len(walk.previous) : page'.previous[i] = walk.previous[i]
          /\ page'.previous[Len(walk.previous) + 1] = walk.cursor
      BY <1>5, <2>3
    <3>4. ASSUME NEW i \in DOMAIN page'.previous, i # 1
          PROVE  page'.previous[i] # None /\ page'.previous[i].page = i /\ page'.previous[i].rev = next.rev
      <4>1. CASE i \in DOMAIN walk.previous
        BY <2>1, <3>1, <3>2, <3>3, <3>4, <4>1 DEF IsWalk
      <4>2. CASE i = Len(walk.previous) + 1
        BY <2>5, <3>1, <3>3, <4>2
      <4> QED
        BY <3>2, <3>3, <4>1, <4>2
    <3>5. page'.previous[1] = None /\ Len(page'.previous) + 1 = next.page
      BY <3>1, <3>2, <3>3
    <3> QED
      BY <2>3, <3>4, <3>5 DEF IsWalk
  <2> QED
    BY <2>4, <2>5
<1> QED
  BY <1>1, <1>7, <1>8, ClickKeepsPage DEF BrowsingInv, BrowsingTyped

LEMMA PageBeforeKeeps ==
    ASSUME BrowsingInv, GoToPreviousPage
    PROVE  BrowsingInv'
<1>1. /\ HasRows /\ ActivePage.previous # <<>> /\ page' = PageBefore
      /\ Click /\ settled' = FALSE /\ UNCHANGED <<filters, address, due, tries>>
  BY DEF GoToPreviousPage, Turns
<1> DEFINE walk == ActivePage
           n == Len(walk.previous)
<1>2. /\ walk \in WalkRecord /\ (IsWalk(page) => IsWalk(walk))
  BY RequestFilterIs DEF BrowsingInv
<1>3. /\ walk.previous \in Seq(TrueCursors \cup {None}) /\ n \in Nat \ {0}
      /\ DOMAIN walk.previous = 1..n
  BY <1>1, <1>2 DEF WalkRecord
<1>4. page' = [walk EXCEPT !.cursor = walk.previous[n], !.previous = SubSeq(walk.previous, 1, n - 1)]
  BY <1>1 DEF PageBefore, Last, Front
<1> HIDE DEF walk
<1>5. /\ SubSeq(walk.previous, 1, n - 1) \in Seq(TrueCursors \cup {None})
      /\ Len(SubSeq(walk.previous, 1, n - 1)) = n - 1
      /\ \A i \in 1..(n - 1) : SubSeq(walk.previous, 1, n - 1)[i] = walk.previous[i]
  BY <1>3
<1>6. walk.previous[n] \in TrueCursors \cup {None}
  BY <1>3
<1>7. /\ page'.cursor = walk.previous[n] /\ page'.previous = SubSeq(walk.previous, 1, n - 1)
      /\ page' \in WalkRecord
  BY <1>2, <1>4, <1>5, <1>6 DEF WalkRecord
<1>8. ASSUME ~strayed
      PROVE  IsWalk(page')
  <2>1. IsWalk(walk)
    BY <1>2, <1>8 DEF BrowsingInv
  <2>2. CASE n = 1
    <3>1. walk.cursor # None /\ walk.previous[1] = None
      BY <1>3, <2>1, <2>2 DEF IsWalk
    <3>2. page'.cursor = None /\ Len(page'.previous) = 0 /\ page'.previous \in Seq(TrueCursors \cup {None})
      BY <1>5, <1>7, <2>2, <3>1
    <3>3. page'.previous = <<>>
      BY <3>2
    <3> QED
      BY <3>2, <3>3 DEF IsWalk
  <2>3. CASE n # 1
    <3>1. walk.previous[1] = None
      BY <1>3, <2>1 DEF IsWalk
    <3>2. walk.previous[n] # None /\ walk.previous[n].page = n /\ walk.previous[n].rev = walk.cursor.rev
      <4>1. n \in DOMAIN walk.previous
        BY <1>3
      <4>2. \A i \in DOMAIN walk.previous : i # 1 =>
               /\ walk.previous[i] # None /\ walk.previous[i].page = i
               /\ walk.previous[i].rev = walk.cursor.rev
        BY <2>1 DEF IsWalk
      <4> QED
        BY <2>3, <4>1, <4>2
    <3>3. /\ DOMAIN page'.previous = 1..(n - 1)
          /\ \A i \in 1..(n - 1) : page'.previous[i] = walk.previous[i]
      BY <1>3, <1>5, <1>7
    <3>4. \A i \in DOMAIN page'.previous : i # 1 =>
             /\ page'.previous[i] # None /\ page'.previous[i].page = i
             /\ page'.previous[i].rev = page'.cursor.rev
      BY <1>3, <1>7, <2>1, <3>2, <3>3 DEF IsWalk
    <3>5. Len(page'.previous) + 1 = page'.cursor.page /\ page'.previous[1] = None /\ page'.cursor # None
      BY <1>3, <1>5, <1>7, <2>3, <3>1, <3>2, <3>3
    <3> QED
      BY <3>4, <3>5 DEF IsWalk
  <2> QED
    BY <2>2, <2>3
<1> QED
  BY <1>1, <1>7, <1>8, ClickKeepsPage DEF BrowsingInv, BrowsingTyped

LEMMA PublishKeepsPage ==
    ASSUME BrowsingInv, Publish
    PROVE  BrowsingInv'
<1>1. /\ Quiet /\ current + 1 \in Revisions /\ current' = current + 1
      /\ UNCHANGED <<filters, page, tries, known, asked, address, settled, due>>
      /\ UNCHANGED <<shown, request, aborted, lastValid, stored, strayed>>
  BY DEF Publish, visitor, hook
<1>2. current \in Nat /\ 1..current \subseteq 1..current'
  BY <1>1, ListsAreNumbered DEF BrowsingInv, BrowsingTyped
<1>3. BrowsingTyped'
  BY <1>1 DEF BrowsingInv, BrowsingTyped
<1>4. RequestsAsk'
  BY <1>1 DEF BrowsingInv, RequestsAsk
<1>5. OutcomeIsShown'
  BY <1>1, <1>2 DEF BrowsingInv, OutcomeIsShown
<1>6. (Steady' <=> Steady) /\ (Changed' <=> Changed) /\ RequestFilter' = RequestFilter
  BY <1>1 DEF Steady, IsOutdated, ActivePage, FirstPage, RequestFilter, Changed, Endpoint
<1>7. EffectsHaveRun' /\ AddressGives' /\ AbortedAreFew'
  BY <1>1, <1>6 DEF BrowsingInv, EffectsHaveRun, AddressGives, AbortedAreFew
<1> QED
  BY <1>1, <1>3, <1>4, <1>5, <1>7 DEF BrowsingInv, IsWalk

---------------------------------------------------------------------------
(* The invariant: who is asked, what an ended request leaves to be shown,   *)
(* that the effects have made filters, page and request agree before anyone *)
(* clicks, that the address gives the filters whenever its effect has       *)
(* nothing to do, although going back moves it without a render, and that   *)
(* the pages before the page are those of one list.                         *)
THEOREM BrowsingInvariance == BrowsingSpec => []BrowsingInv
<1>1. BrowsingInit => BrowsingInv
  BY BrowsingInitially
<1>2. BrowsingInv /\ [BrowsingNext]_browsingVars => BrowsingInv'
  <2> SUFFICES ASSUME BrowsingInv, [BrowsingNext]_browsingVars PROVE BrowsingInv'
    OBVIOUS
  <2>1. CASE UNCHANGED browsingVars
    <3>1. UNCHANGED <<current, filters, page, tries, known, asked, address, settled, due, shown, request, aborted,
                      lastValid, stored, strayed>>
      BY <2>1 DEF browsingVars, visitor, hook
    <3>2. (Steady' <=> Steady) /\ (Changed' <=> Changed) /\ RequestFilter' = RequestFilter
      BY <3>1 DEF Steady, IsOutdated, ActivePage, FirstPage, RequestFilter, Changed, Endpoint
    <3>3. BrowsingTyped' /\ RequestsAsk' /\ OutcomeIsShown'
      BY <3>1 DEF BrowsingInv, BrowsingTyped, RequestsAsk, OutcomeIsShown
    <3>4. EffectsHaveRun' /\ AddressGives' /\ AbortedAreFew'
      BY <3>1, <3>2 DEF BrowsingInv, EffectsHaveRun, AddressGives, AbortedAreFew
    <3> QED
      BY <3>1, <3>3, <3>4 DEF BrowsingInv, IsWalk
  <2>2. CASE RunEffects
    BY <2>2, EffectsKeep
  <2>3. CASE Rejected
    BY <2>3, RejectedKeeps
  <2>4. CASE Answering
    BY <2>4, ReplyKeeps, ReplyFailsKeeps, BodyKeeps DEF Answering
  <2>5. CASE Clicking
    BY <2>5, ChooseKeeps, PopStateKeeps, RetryKeeps, NextPageKeeps, PageBeforeKeeps DEF Clicking
  <2>6. CASE Publish
    BY <2>6, PublishKeepsPage
  <2> QED
    BY <2>1, <2>2, <2>3, <2>4, <2>5, <2>6 DEF BrowsingNext
<1> QED
  BY <1>1, <1>2, PTL DEF BrowsingSpec

\* At most two are aborted at a time.
LEMMA FewAreTwo ==
    ASSUME AbortedAreFew
    PROVE  Cardinality(aborted) <= 2
<1>1. CASE aborted = {}
  BY <1>1, FS_EmptySet
<1>2. ASSUME NEW a, aborted = {a}
      PROVE  Cardinality(aborted) <= 2
  BY <1>2, FS_Singleton
<1>3. ASSUME NEW a, NEW b, aborted = {a, b}
      PROVE  Cardinality(aborted) <= 2
  <2>1. IsFiniteSet({a}) /\ Cardinality({a}) = 1
    BY FS_Singleton
  <2>2. Cardinality({a} \cup {b}) = 1 \/ Cardinality({a} \cup {b}) = 2
    BY <2>1, FS_AddElement
  <2>3. aborted = {a} \cup {b}
    BY <1>3
  <2> QED
    BY <2>2, <2>3
<1> QED
  BY <1>1, <1>2, <1>3 DEF AbortedAreFew

\* At rest, the outcome shown is that of what the page asks.
LEMMA RestShowsOutcome ==
    ASSUME BrowsingInv, AtRest
    PROVE  /\ shown.phase # "loading" /\ shown.for = Endpoint
           /\ shown.envelope # None => shown.envelope \in SiteAnswers /\ shown.envelope.query = Endpoint
           /\ shown.status = 400 => /\ shown.phase = "error"
                                    /\ \E r \in 1..current : IsRefused(r, Endpoint)
           /\ shown.phase \in {"unavailable", "error"} /\ shown.status # 400 =>
                 \A e \in stored \cup ({lastValid} \ {None}) : e.query # Endpoint
<1>1. Quiet /\ request = None
  BY DEF AtRest
<1>2. asked # None /\ asked.query = Endpoint
  BY <1>1, WhoAwaits
<1>3. shown.envelope \in SiteAnswers \cup {None}
  BY DEF BrowsingInv, BrowsingTyped, ShownRecord
<1> QED
  BY <1>1, <1>2, <1>3 DEF BrowsingInv, OutcomeIsShown

(* Whatever is published, refused or lost, and however far the visitor goes, *)
(* a page at rest shows the outcome of the request that its controls and its *)
(* walk through the pages ask for, and the address, read again, gives those  *)
(* controls (useBenchmarkLeaderboard and the effects of LeaderboardPage).    *)
THEOREM LeaderboardShowsWhatIsAsked == BrowsingSpec => []ShowsWhatIsAsked
<1>1. BrowsingInv => BrowsingTypeOK
  <2> SUFFICES ASSUME BrowsingInv PROVE BrowsingTypeOK
    OBVIOUS
  <2>1. page.cursor # None => page.cursor.page \in 2..Pages[page.cursor.rev][page.cursor.filter]
    BY DEF BrowsingInv, BrowsingTyped, WalkRecord, TrueCursors
  <2>2. shown.phase \in {"loading", "ready", "stale", "unavailable", "error"}
    BY DEF BrowsingInv, BrowsingTyped, ShownRecord
  <2>3. Cardinality(aborted) <= 2
    BY FewAreTwo DEF BrowsingInv
  <2> QED
    BY <2>1, <2>2, <2>3 DEF BrowsingInv, BrowsingTyped, RequestsAsk, BrowsingTypeOK
<1>2. BrowsingInv => EndsAsAsked
  BY RestShowsOutcome DEF EndsAsAsked
<1>3. BrowsingInv => ControlsMatchRows
  <2> SUFFICES ASSUME BrowsingInv, AtRest, shown.envelope # None
               PROVE  /\ filters = shown.envelope.query.filter
                      /\ Normalized(address, shown.envelope.offered) = filters
    BY DEF ControlsMatchRows
  <2>1. settled
    BY DEF AtRest, Quiet
  <2>2. known = shown.envelope.offered /\ Normalized(address, shown.envelope.offered) = filters
    BY <2>1 DEF BrowsingInv, EffectsHaveRun, AddressGives, Steady
  <2>3. shown.envelope \in SiteAnswers /\ shown.envelope.query = Endpoint
    BY RestShowsOutcome
  <2>4. known # None
    BY <2>2, <2>3, BrowsingNone DEF SiteAnswers, Envelopes
  <2> QED
    BY <2>2, <2>3, <2>4 DEF Endpoint, RequestFilter
<1>4. BrowsingInv => RanksArePlaced
  <2> SUFFICES ASSUME BrowsingInv, AtRest, ~strayed, shown.envelope # None
               PROVE  shown.envelope.page = Len(ActivePage.previous) + 1
    BY DEF RanksArePlaced
  <2>1. shown.envelope.page = Place(Endpoint.cursor)
    BY RestShowsOutcome DEF SiteAnswers, IsAnswer
  <2>2. IsWalk(ActivePage) /\ Endpoint.cursor = ActivePage.cursor
    BY RequestFilterIs DEF BrowsingInv
  <2> QED
    BY <2>1, <2>2 DEF Place, IsWalk
<1>5. BrowsingInv => WalkIsOneList
  <2> SUFFICES ASSUME BrowsingInv, ~strayed,
                      NEW c \in (Range(page.previous) \cup {page.cursor}) \ {None},
                      NEW d \in (Range(page.previous) \cup {page.cursor}) \ {None}
               PROVE  c.rev = d.rev
    BY DEF WalkIsOneList
  <2>1. IsWalk(page)
    BY DEF BrowsingInv
  <2>2. ASSUME NEW e \in (Range(page.previous) \cup {page.cursor}) \ {None}
        PROVE  e.rev = page.cursor.rev
    <3>1. CASE e = page.cursor
      BY <3>1
    <3>2. CASE e \in Range(page.previous)
      <4>1. PICK i \in DOMAIN page.previous : e = page.previous[i]
        BY <3>2 DEF Range
      <4>2. page.cursor # None
        <5>1. SUFFICES ASSUME page.cursor = None PROVE FALSE
          OBVIOUS
        <5>2. page.previous = <<>>
          BY <2>1, <5>1 DEF IsWalk
        <5> QED
          BY <4>1, <5>2
      <4>3. i # 1
        BY <2>1, <2>2, <4>1, <4>2 DEF IsWalk
      <4> QED
        BY <2>1, <4>1, <4>3 DEF IsWalk
    <3> QED
      BY <2>2, <3>1, <3>2
  <2> QED
    BY <2>2
<1>6. BrowsingInv => FailureKeepsRows
  BY RestShowsOutcome DEF FailureKeepsRows
<1>7. BrowsingInv => RefusedForItsFilter
  <2> SUFFICES ASSUME BrowsingInv, AtRest, shown.status = 400
               PROVE  ActivePage.cursor = None /\ \E r \in 1..current : filters \notin Offered[r] \cup {All}
    BY DEF RefusedForItsFilter
  <2>1. Quiet /\ shown.phase = "error"
    BY RestShowsOutcome DEF AtRest
  <2>2. ActivePage.cursor = None
    BY <2>1, WhoAwaits DEF Steady, IsOutdated
  <2>3. PICK r \in 1..current : IsRefused(r, Endpoint)
    BY RestShowsOutcome
  <2>4. RequestFilter \notin Offered[r] \cup {All}
    BY <2>2, <2>3 DEF IsRefused, Endpoint
  <2> QED
    BY <2>2, <2>4 DEF RequestFilter
<1>8. BrowsingInv => ShowsWhatIsAsked
  BY <1>1, <1>2, <1>3, <1>4, <1>5, <1>6, <1>7 DEF ShowsWhatIsAsked
<1> QED
  BY <1>8, BrowsingInvariance, PTL
=============================================================================
