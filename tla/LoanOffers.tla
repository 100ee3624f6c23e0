----------------------------- MODULE LoanOffers -----------------------------
(***************************************************************************)
(* From approval to a loan (services/loan_offers.py,                       *)
(* application_agreement.py, loan_lifecycle.activate_loan and the          *)
(* endpoints around them): an underwriter makes offers, the borrower       *)
(* accepts one, signs the agreement, and staff activate the loan; with the *)
(* flag off the acceptance books it at once.                               *)
(*                                                                         *)
(* A request loads the application when it opens, decides on what it       *)
(* loaded, and writes the columns it changed when it commits; its record   *)
(* keeps what the commit uses, `from` the status it loaded.  Only an       *)
(* acceptance locks rows, those of the application's offers, and reads     *)
(* them under the lock.                                                    *)
(***************************************************************************)
EXTENDS Naturals, FiniteSets
CONSTANTS
    Offers,              \* offers the application may get
    Requests,            \* requests that can be under way together
    ActivationBooksLoan, \* the flag: acceptance leads to an agreement, not to a loan
    None,
    MaxOffers,           \* OFFER_MAX_PER_APPLICATION
    MaxDocs              \* bound on agreements sent

OffersAssumption == ActivationBooksLoan \in BOOLEAN /\ MaxOffers \in Nat /\ MaxDocs \in Nat

VARIABLES
    app,      \* the application: status, agreed terms, agreement and its document
    offer,    \* offer -> status, "overdue" for an offered one past expires_at
    loan,     \* the booked loan, or None
    docs,     \* agreements created at the e-sign vendor
    signed,   \* those the borrower signed
    declined, \* those the borrower declined
    resent,   \* some sender wrote over an agreement that was sent since it looked
    req       \* request -> what it does and what it read, or None

vars == <<app, offer, loan, docs, signed, declined, resent, req>>

Offerable     == {"verifying", "under_review", "approved", "offer_acceptance"}
PreActivation == {"approved", "offer_acceptance", "agreement_signature"}
Closed        == {"rejected", "withdrawn", "expired"}
Terminal      == Closed \cup {"approved", "active"}
Returnable    == {"verifying", "under_review", "offer_acceptance"}
Statuses      == Offerable \cup PreActivation \cup Terminal \cup {"origination"}
Approval      == IF ActivationBooksLoan THEN "offer_acceptance" ELSE "approved"

Init ==
    /\ app = [status |-> "under_review", terms |-> "none", agreement |-> "not_sent", ref |-> 0]
    /\ offer = [o \in Offers |-> "none"]
    /\ loan = None
    /\ docs = 0 /\ signed = {} /\ declined = {} /\ resent = FALSE
    /\ req = [r \in Requests |-> None]

Late   == {o \in Offers : offer[o] = "overdue"}
Open   == {o \in Offers : offer[o] = "offered"} \cup Late
Issued == {o \in Offers : offer[o] # "none"}
Booked == loan # None

Load(r, op, arg) ==
    /\ req[r] = None
    /\ req' = [req EXCEPT ![r] = [op |-> op, arg |-> arg, from |-> app.status,
                                  holds |-> {}, open |-> {}]]
    /\ UNCHANGED <<app, offer, loan, docs, signed, declined, resent>>

Doing(r, op) == req[r] # None /\ req[r].op = op
Done(r)      == req' = [req EXCEPT ![r] = None]

(* A row's UPDATE waits for the request that locked it.                    *)
Unlocked(rows) == \A r \in Requests : req[r] # None => req[r].holds \cap rows = {}

(* SQLAlchemy writes a status only where it differs from the loaded one.   *)
Restatus(r, to) == IF to = req[r].from THEN app.status ELSE to

----------------------------------------------------------------------------
(* create_offers, one offer a time, makes the file approved and starts a   *)
(* new decision record.                                                    *)
MayOffer == app.status \in Offerable /\ ~Booked /\ Cardinality(Open) < MaxOffers

CreateOffer(r) ==
    /\ Doing(r, "create")
    /\ \E o \in Offers : offer[o] = "none" /\ offer' = [offer EXCEPT ![o] = "offered"]
    /\ app' = [app EXCEPT !.terms = "none",
                 !.status = IF req[r].from = "offer_acceptance" THEN @
                            ELSE Restatus(r, "approved")]
    /\ Done(r)
    /\ UNCHANGED <<loan, docs, signed, declined, resent>>

(* withdraw_offer, under the lock of its row.                              *)
WithdrawOffer(o) ==
    /\ o \in Open /\ Unlocked({o})
    /\ offer' = [offer EXCEPT ![o] = "withdrawn"]
    /\ UNCHANGED <<app, loan, docs, signed, declined, resent, req>>

PassExpiry(o) ==
    /\ offer[o] = "offered"
    /\ offer' = [offer EXCEPT ![o] = "overdue"]
    /\ UNCHANGED <<app, loan, docs, signed, declined, resent, req>>

(* _maybe_expire_application.  Sessions do not flush before a query, so it *)
(* sees the committed statuses, not the ones the sweep has just set.       *)
Lapses(status) ==
    /\ status = "approved" /\ ~Booked
    /\ Issued # {} /\ Open = {} /\ \A o \in Issued : offer[o] # "accepted"

(* sweep_application_expiry, on every listing of the offers, without lock. *)
Sweep(r) ==
    /\ Doing(r, "sweep") /\ Unlocked(req[r].arg)
    /\ offer' = [o \in Offers |-> IF o \in req[r].arg THEN "expired" ELSE offer[o]]
    /\ app' = IF Lapses(req[r].from) THEN [app EXCEPT !.status = "expired"] ELSE app
    /\ Done(r)
    /\ UNCHANGED <<loan, docs, signed, declined, resent>>

(* expire_offers, the job: FOR UPDATE SKIP LOCKED.                         *)
ExpireJob ==
    LET late == {o \in Late : Unlocked({o})} IN
    /\ late # {}
    /\ offer' = [o \in Offers |-> IF o \in late THEN "expired" ELSE offer[o]]
    /\ app' = IF Lapses(app.status) THEN [app EXCEPT !.status = "expired"] ELSE app
    /\ UNCHANGED <<loan, docs, signed, declined, resent, req>>

----------------------------------------------------------------------------
(* Mutant of LocksOffers: the offers are read without FOR UPDATE.          *)
ReadsOffers(r) == r \in Requests

LocksOffers(r) == Unlocked(Issued)

(* accept_offer: all offers locked and read again.                         *)
LockOffers(r) ==
    /\ Doing(r, "accept") /\ req[r].holds = {} /\ LocksOffers(r)
    /\ IF /\ \A o \in Offers : offer[o] # "accepted"
          /\ offer[req[r].arg] = "offered"
       THEN req' = [req EXCEPT ![r].holds = Issued, ![r].open = Open]
       ELSE Done(r)
    /\ UNCHANGED <<app, offer, loan, docs, signed, declined, resent>>

NewLoan(terms, ref) == [terms |-> terms, ref |-> ref]

(* book_loan: an existing loan is kept.                                    *)
BookLoan(terms) == loan' = IF Booked THEN loan ELSE NewLoan(terms, 0)

Accept(r) ==
    /\ Doing(r, "accept") /\ req[r].holds # {}
    /\ offer' = [o \in Offers |-> IF o = req[r].arg THEN "accepted"
                                  ELSE IF o \in req[r].open THEN "void" ELSE offer[o]]
    /\ app' = [app EXCEPT !.terms = req[r].arg,
                 !.status = IF ActivationBooksLoan THEN "agreement_signature"
                            ELSE Restatus(r, "approved")]
    /\ IF ActivationBooksLoan THEN loan' = loan ELSE BookLoan(req[r].arg)
    /\ Done(r)
    /\ UNCHANGED <<docs, signed, declined, resent>>

(* book_loan lost the insert to another booker: everything is rolled back. *)
AcceptRolledBack(r) ==
    /\ Doing(r, "accept") /\ req[r].holds # {}
    /\ ~ActivationBooksLoan /\ Booked /\ Done(r)
    /\ UNCHANGED <<app, offer, loan, docs, signed, declined, resent>>

----------------------------------------------------------------------------
(* _decide on a file back in verification, under the application's lock.   *)
AutoDecide ==
    /\ app.status = "verifying"
    /\ \E to \in {Approval, "rejected", "under_review"} :
        /\ app' = [app EXCEPT !.status = to, !.terms = "none"]
        /\ IF to = "approved" THEN BookLoan("none") ELSE loan' = loan
    /\ UNCHANGED <<offer, docs, signed, declined, resent, req>>

(* The staff decision, which replaces the decision record; `arg` is its    *)
(* outcome, and for the moves below the status they lead to.               *)
MayDecide(to) == ~(app.status = "approved" /\ to # "approved" /\ Booked)

StaffDecide(r) ==
    /\ Doing(r, "decide")
    /\ app' = [app EXCEPT !.terms = "none", !.status = Restatus(r, req[r].arg)]
    /\ IF req[r].arg = "approved" /\ ~ActivationBooksLoan THEN BookLoan("none") ELSE loan' = loan
    /\ Done(r)
    /\ UNCHANGED <<offer, docs, signed, declined, resent>>

(* cancel_application, return-for-reprocessing, resubmission, the vendor's *)
(* request for another look.                                               *)
MayMove(to) ==
    \/ to = "withdrawn" /\ ~Booked /\ app.status \notin Terminal \ {"approved"}
    \/ to = "origination" /\ app.status \in Returnable
    \/ to = "verifying" /\ app.status = "origination"
    \/ to = "under_review" /\ app.status = "rejected"

StatusMove(r) ==
    /\ Doing(r, "move")
    /\ app' = [app EXCEPT !.status = Restatus(r, req[r].arg)]
    /\ Done(r)
    /\ UNCHANGED <<offer, loan, docs, signed, declined, resent>>

----------------------------------------------------------------------------
(* send_agreement_for_application: the vendor call, then the commit.       *)
SendCall(r) ==
    /\ Doing(r, "send") /\ req[r].arg = 0
    /\ docs < MaxDocs
    /\ docs' = docs + 1
    /\ req' = [req EXCEPT ![r].arg = docs + 1]
    /\ UNCHANGED <<app, offer, loan, signed, declined, resent>>

SendCommit(r) ==
    /\ Doing(r, "send") /\ req[r].arg # 0
    /\ resent' = (resent \/ app.agreement # "not_sent")
    /\ app' = [app EXCEPT !.agreement = "sent", !.ref = req[r].arg]
    /\ Done(r)
    /\ UNCHANGED <<offer, loan, docs, signed, declined>>

BorrowerAnswers ==
    \E d \in (1..docs) \ (signed \cup declined) :
        /\ \/ signed' = signed \cup {d} /\ UNCHANGED declined
           \/ declined' = declined \cup {d} /\ UNCHANGED signed
        /\ UNCHANGED <<app, offer, loan, docs, resent, req>>

(* The webhook, on the application that carries the document.  A signature *)
(* is ignored on a declined agreement, a refusal is not on a signed one.   *)
OnAgreementSigned(r) ==
    /\ Doing(r, "signed")
    /\ app' = [app EXCEPT !.agreement = "signed"]
    /\ Done(r)
    /\ UNCHANGED <<offer, loan, docs, signed, declined, resent>>

OnAgreementDeclined(r) ==
    /\ Doing(r, "declined")
    /\ app' = [app EXCEPT !.agreement = "declined"]
    /\ Done(r)
    /\ UNCHANGED <<offer, loan, docs, signed, declined, resent>>

(* Mutant of Activatable: an agreement out for signature is enough.        *)
ActivatableOnceSent == app.agreement \in {"sent", "signed"}

Activatable == app.agreement = "signed"

(* activate_loan; the unique application id refuses a second loan.         *)
ActivateLoan(r) ==
    /\ Doing(r, "activate") /\ ~Booked
    /\ loan' = req[r].arg
    /\ app' = [app EXCEPT !.status = Restatus(r, "active")]
    /\ Done(r)
    /\ UNCHANGED <<offer, docs, signed, declined, resent>>

----------------------------------------------------------------------------
(* Every request starts by loading the application; refused ones end here. *)
Begin(r) ==
    \/ MayOffer /\ Load(r, "create", None)
    \/ \E o \in Open : Load(r, "accept", o)
    \/ Late # {} /\ Load(r, "sweep", Late)
    \/ \E to \in {"approved", "rejected", "under_review"} : MayDecide(to) /\ Load(r, "decide", to)
    \/ \E to \in Statuses : MayMove(to) /\ Load(r, "move", to)
    \/ app.agreement = "not_sent" /\ docs < MaxDocs /\ Load(r, "send", 0)
    \/ app.ref \in signed /\ ~Booked /\ app.agreement \in {"not_sent", "sent"}
         /\ Load(r, "signed", app.ref)
    \/ app.ref \in declined /\ ~Booked /\ app.agreement # "declined"
         /\ Load(r, "declined", app.ref)
    \/ Activatable /\ ~Booked /\ Load(r, "activate", NewLoan(app.terms, app.ref))

(* It may also die, or be rolled back, before its commit.                  *)
GiveUp(r) ==
    /\ req[r] # None /\ Done(r)
    /\ UNCHANGED <<app, offer, loan, docs, signed, declined, resent>>

Work(r) ==
    \/ CreateOffer(r) \/ Sweep(r) \/ LockOffers(r) \/ Accept(r) \/ AcceptRolledBack(r)
    \/ StaffDecide(r) \/ StatusMove(r) \/ SendCall(r) \/ SendCommit(r)
    \/ OnAgreementSigned(r) \/ OnAgreementDeclined(r) \/ ActivateLoan(r)

Next ==
    \/ \E o \in Offers : WithdrawOffer(o) \/ PassExpiry(o)
    \/ ExpireJob \/ AutoDecide \/ BorrowerAnswers
    \/ \E r \in Requests : Begin(r) \/ Work(r) \/ GiveUp(r)

Spec == Init /\ [][Next]_vars

(* The expiry job runs on a schedule and a request ends.                   *)
FairSpec ==
    /\ Spec
    /\ WF_vars(ExpireJob)
    /\ \A r \in Requests : WF_vars(Work(r) \/ GiveUp(r))

----------------------------------------------------------------------------
TypeOK ==
    /\ app.status \in Statuses /\ app.terms \in Offers \cup {"none"}
    /\ app.agreement \in {"not_sent", "sent", "signed", "declined"}
    /\ \A o \in Offers :
        offer[o] \in {"none", "offered", "overdue", "accepted", "void", "withdrawn", "expired"}
    /\ signed \cup declined \subseteq 1..docs

(* The borrower holds at most one accepted offer, whatever offers are made,*)
(* withdrawn, swept and accepted at the same time: "two concurrent         *)
(* acceptances can never both book" (accept_offer).                        *)
OneAcceptance == Cardinality({o \in Offers : offer[o] = "accepted"}) <= 1

(* A loan booked at activation carries an agreement that the borrower      *)
(* signed, through every order of sending, answering and re-deciding, as   *)
(* long as no second sender wrote over the first (activate_loan).          *)
BookedOnSignature == Booked /\ loan.ref # 0 => loan.ref \in signed \/ resent

(* Closed files stay closed: no offer of a rejected, withdrawn or expired  *)
(* application is accepted ("they never move a terminal application",      *)
(* flow_orchestrator.py).                                                  *)
ClosedFileTakesNoAcceptance ==
    [][\A o \in Offers : offer[o] # "accepted" /\ offer'[o] = "accepted"
                         => app.status \notin Closed]_vars

(* "When EVERY offer is terminal without an acceptance and no loan exists, *)
(* the approval lapses" (_maybe_expire_application).                       *)
Dead == app.status = "approved" /\ ~Booked /\ Issued # {}
            /\ \A o \in Issued : offer[o] = "expired"
ApprovalLapses == Dead ~> ~Dead
=============================================================================
