---------------------------- MODULE LoanLifecycle ----------------------------
(***************************************************************************)
(* From booking to funding: services/loan_lifecycle.py and the requests    *)
(* that drive it.  A loan is booked, its agreement goes out for signature, *)
(* a signed loan is paid out through the Zumrails rail, and the payout's   *)
(* outcome arrives by webhook or is polled by the reconcile job.  Admins   *)
(* approve charge-offs, payouts and activations filed by other admins.     *)
(* Requests run concurrently; the loan row is locked only where the code   *)
(* locks it, and a commit writes just the columns the handler changed.     *)
(***************************************************************************)
EXTENDS Naturals

CONSTANTS
    Web, Jobs,     \* web workers, reconcile jobs
    Docs,          \* documents SignNow can hold for the loan
    Requests,      \* maker-checker requests
    None,
    MaxFaults      \* bound of the model: crashes and failed vendor calls

Workers  == Web \cup Jobs
Kinds    == {"charge_off", "disburse", "activate"}
Outcomes == {"completed", "failed", "cancelled"}

(* processed_webhooks: the nonces of SignNow's and of the rail's webhooks.  *)
Nonces == (Docs \X {"signed", "declined"}) \cup ({"payout"} \X Outcomes)

ASSUME LifecycleAssumption ==
    /\ Web \cap Jobs = {} /\ None \notin Workers \cup Docs \cup Requests
    /\ MaxFaults \in Nat

VARIABLES
    loan,      \* the row of platform_loans
    requests,  \* request -> what it asks for while undecided, "none" or "decided"
    nonces,    \* committed webhook nonces
    lock,      \* the worker that holds the loan row FOR UPDATE, or None
    docs,      \* document -> its status at SignNow
    rail,      \* status of the loan's payout at Zumrails
    simulated, \* has staff simulated the signature?
    pc,        \* worker -> next step
    seen,      \* worker -> the loan status its session has loaded
    claim,     \* worker -> the nonce it has claimed and not committed, or None
    req,       \* worker -> the request row it has locked, or None
    arg,       \* worker -> the document it sent or the rail's answer, or None
    faults

dbVars     == <<loan, requests, nonces>>
vendorVars == <<docs, rail, simulated>>
procVars   == <<lock, pc, seen, claim, req, arg>>
vars       == <<dbVars, vendorVars, procVars, faults>>

NoLoan == [status |-> "none", agreement |-> "not_sent", ref |-> None,
           disb |-> "not_started", txn |-> FALSE, virtual |-> FALSE]
LoanStatuses == {"none", "pending", "active", "charged_off"}
Loans  == [status : LoanStatuses,
           agreement : {"not_sent", "sent", "signed", "declined"},
           ref : Docs \cup {None},
           disb : {"not_started", "in_progress", "completed", "failed"},
           txn : BOOLEAN,        \* is disbursement_ref set?
           virtual : BOOLEAN]    \* booked_at_activation

Init ==
    /\ loan = NoLoan
    /\ requests = [r \in Requests |-> "none"]
    /\ nonces = {} /\ lock = None
    /\ docs = [d \in Docs |-> "none"]
    /\ rail = "none" /\ simulated = FALSE
    /\ pc = [w \in Workers |-> "idle"]
    /\ seen = [w \in Workers |-> "none"]
    /\ claim = [w \in Workers |-> None]
    /\ req = [w \in Workers |-> None]
    /\ arg = [w \in Workers |-> None]
    /\ faults = 0

---------------------------------------------------------------------------
(* Handlers, sessions and transactions *)

Free(n) == n \notin nonces /\ \A w \in Workers : claim[w] # n

(* A handler starts on what it reads now, without a lock; seen keeps the    *)
(* loan's status where the handler's write depends on it.                   *)
Start(w, step, nonce, request) ==
    /\ pc[w] = "idle"
    /\ pc' = [pc EXCEPT ![w] = step]
    /\ seen' = IF step \in {"resolve", "activate"}
               THEN [seen EXCEPT ![w] = loan.status] ELSE seen
    /\ claim' = [claim EXCEPT ![w] = nonce]
    /\ req' = [req EXCEPT ![w] = request]
    /\ UNCHANGED <<lock, arg>>

Goto(w, step) == pc' = [pc EXCEPT ![w] = step] /\ UNCHANGED <<seen, req>>

(* The session ends and lets go of everything it held.                      *)
End(w) ==
    /\ pc' = [pc EXCEPT ![w] = "idle"]
    /\ seen' = [seen EXCEPT ![w] = "none"]
    /\ claim' = [claim EXCEPT ![w] = None]
    /\ req' = [req EXCEPT ![w] = None]
    /\ arg' = [arg EXCEPT ![w] = None]
    /\ lock' = IF lock = w THEN None ELSE lock

(* A commit keeps the nonce claim and the approval of the same session.     *)
Commit(w) ==
    /\ nonces' = nonces \cup ({claim[w]} \ {None})
    /\ requests' = [r \in Requests |-> IF r = req[w] THEN "decided" ELSE requests[r]]

(* Only a worker that holds the row lock, or none, lets others write.       *)
MayWrite(w) == lock \in {None, w}

Roll(w) == End(w) /\ UNCHANGED dbVars

---------------------------------------------------------------------------
(* Booking and sending the agreement *)

(* book_loan: one loan per application, whoever wins the race.              *)
BookLoan ==
    /\ loan.status = "none"
    /\ loan' = [NoLoan EXCEPT !.status = "pending"]
    /\ UNCHANGED <<requests, nonces, vendorVars, procVars, faults>>

(* send_agreement: forward-only, by an unlocked read.                       *)
SendAgreement(w) ==
    /\ loan.status # "none"
    /\ loan.agreement = "not_sent"
    /\ Start(w, "send", None, None)
    /\ UNCHANGED <<dbVars, vendorVars, faults>>

SendForSignature(w, d) ==
    /\ pc[w] = "send"
    /\ docs[d] = "none"
    /\ docs' = [docs EXCEPT ![d] = "sent"]
    /\ arg' = [arg EXCEPT ![w] = d]
    /\ Goto(w, "sent")
    /\ UNCHANGED <<dbVars, rail, simulated, lock, claim, faults>>

(* Simulator mode sends nothing and writes a labelled reference.            *)
SendCommit(w) ==
    /\ pc[w] \in {"send", "sent"}
    /\ MayWrite(w)
    /\ loan' = [loan EXCEPT !.agreement = "sent", !.ref = arg[w]]
    /\ Commit(w)
    /\ End(w)
    /\ UNCHANGED <<vendorVars, faults>>

(* Live mode without credentials, or SignNow refuses.                       *)
SendNothing(w) ==
    /\ pc[w] = "send"
    /\ Roll(w)
    /\ UNCHANGED <<vendorVars, faults>>

BorrowerDecides(d) ==
    /\ docs[d] = "sent"
    /\ \E s \in {"signed", "declined"} : docs' = [docs EXCEPT ![d] = s]
    /\ UNCHANGED <<dbVars, rail, simulated, procVars, faults>>

---------------------------------------------------------------------------
(* SignNow's webhook finds the loan by the reference the send committed.    *)

SignedWebhook(w, d) ==
    /\ docs[d] = "signed"
    /\ Free(<<d, "signed">>)
    /\ loan.ref = d
    /\ loan.agreement # "declined"
    /\ Start(w, IF loan.agreement = "signed" THEN "release" ELSE "sign",
             <<d, "signed">>, None)
    /\ UNCHANGED <<dbVars, vendorVars, faults>>

DeclinedWebhook(w, d) ==
    /\ docs[d] = "declined"
    /\ Free(<<d, "declined">>)
    /\ loan.ref = d
    /\ loan.agreement # "signed"
    /\ Start(w, "decline", <<d, "declined">>, None)
    /\ UNCHANGED <<dbVars, vendorVars, faults>>

(* No loan has the document's reference (yet): acknowledged for good.       *)
OrphanedDocument(d) ==
    /\ docs[d] \in {"signed", "declined"}
    /\ Free(<<d, docs[d]>>)
    /\ loan.ref # d
    /\ nonces' = nonces \cup {<<d, docs[d]>>}
    /\ UNCHANGED <<loan, requests, vendorVars, procVars, faults>>

(* simulate_signing: the same transition, from any state but "declined".    *)
SimulateSigning(w) ==
    /\ loan.status # "none"
    /\ loan.agreement # "declined"
    /\ Start(w, IF loan.agreement = "signed" THEN "release" ELSE "sign", None, None)
    /\ simulated' = TRUE
    /\ UNCHANGED <<dbVars, docs, rail, faults>>

(* on_agreement_signed commits, and goes on to initiate_disbursement.       *)
SignCommit(w) ==
    /\ pc[w] = "sign"
    /\ MayWrite(w)
    /\ loan' = [loan EXCEPT !.agreement = "signed"]
    /\ Commit(w)
    /\ Goto(w, "release")
    /\ claim' = [claim EXCEPT ![w] = None]
    /\ UNCHANGED <<vendorVars, lock, arg, faults>>

DeclineCommit(w) ==
    /\ pc[w] = "decline"
    /\ MayWrite(w)
    /\ loan' = [loan EXCEPT !.agreement = "declined"]
    /\ Commit(w)
    /\ End(w)
    /\ UNCHANGED <<vendorVars, faults>>

---------------------------------------------------------------------------
(* initiate_disbursement: the only place that pushes a payout.              *)

(* Take the row lock and look again.                                        *)
ReleaseUnlocked(w) ==    \* fault: no FOR UPDATE
    /\ pc[w] = "release"
    /\ loan.disb = "not_started"
    /\ Goto(w, "push")
    /\ UNCHANGED <<dbVars, vendorVars, lock, claim, arg, faults>>
Release(w) ==
    /\ pc[w] = "release"
    /\ lock = None
    /\ loan.disb = "not_started"
    /\ lock' = w
    /\ Goto(w, "push")
    /\ UNCHANGED <<dbVars, vendorVars, claim, arg, faults>>

(* Already started, or no adapter or recipient: nothing is pushed.  Only an *)
(* approval is committed by its own endpoint.                               *)
ReleaseNothing(w) ==
    /\ pc[w] = "release"
    /\ lock = None
    /\ IF req[w] = None THEN UNCHANGED <<requests, nonces>> ELSE Commit(w)
    /\ End(w)
    /\ UNCHANGED <<loan, vendorVars, faults>>

(* The vendor dedupes pushes by the loan's id.                              *)
Push(w) ==
    /\ pc[w] = "push"
    /\ rail' \in IF rail = "none" THEN {"pending", "completed", "failed"} ELSE {rail}
    /\ arg' = [arg EXCEPT ![w] = rail']
    /\ Goto(w, "pushed")
    /\ UNCHANGED <<dbVars, docs, simulated, lock, claim, faults>>

(* The call fails; the rail may have taken the payout all the same.         *)
LeakLock(w) ==    \* fault: the failed session is not rolled back
    /\ pc[w] = "push"
    /\ faults < MaxFaults
    /\ faults' = faults + 1
    /\ pc' = [pc EXCEPT ![w] = "idle"]
    /\ UNCHANGED <<dbVars, vendorVars, lock, seen, claim, req, arg>>
PushFails(w) ==
    /\ pc[w] = "push"
    /\ faults < MaxFaults
    /\ faults' = faults + 1
    /\ rail' \in IF rail = "none" THEN {"none", "pending"} ELSE {rail}
    /\ Roll(w)
    /\ UNCHANGED <<docs, simulated>>

(* _mark_active: the status is written only when the one that was loaded is *)
(* still pending.                                                           *)
MarkActive(loaded) ==
    [loan EXCEPT !.disb = "completed",
                 !.status = IF loaded = "pending" THEN "active" ELSE @]

PushCommit(w) ==
    /\ pc[w] = "pushed"
    /\ loan' = [CASE arg[w] = "completed" -> MarkActive(loan.status)
                  [] arg[w] = "failed"    -> [loan EXCEPT !.disb = "failed"]
                  [] OTHER                -> [loan EXCEPT !.disb = "in_progress"]
                EXCEPT !.txn = TRUE]
    /\ Commit(w)
    /\ End(w)
    /\ UNCHANGED <<vendorVars, faults>>

RailSettles ==
    /\ rail = "pending"
    /\ rail' \in Outcomes
    /\ UNCHANGED <<dbVars, docs, simulated, procVars, faults>>

---------------------------------------------------------------------------
(* The payout's outcome, from the rail's webhook or the reconcile job *)

(* on_disbursement_complete / _failed do nothing on a loan that reads done. *)
Unresolved == IF rail = "completed"
              THEN ~(loan.status = "active" /\ loan.disb = "completed")
              ELSE loan.disb # "completed"

PayoutWebhook(w) ==
    /\ rail \in {"completed", "failed"}
    /\ Free(<<"payout", rail>>)
    /\ loan.txn
    /\ Unresolved
    /\ Start(w, "resolve", <<"payout", rail>>, None)
    /\ UNCHANGED <<dbVars, vendorVars, faults>>

(* No loan with the reference (yet), or an outcome the webhook ignores: the *)
(* nonce is committed and nothing else.                                     *)
IgnoredPayout ==
    /\ rail \in Outcomes
    /\ Free(<<"payout", rail>>)
    /\ ~loan.txn \/ rail = "cancelled"
    /\ nonces' = nonces \cup {<<"payout", rail>>}
    /\ UNCHANGED <<loan, requests, vendorVars, procVars, faults>>

(* reconcile_stuck_disbursements loads its batch first and polls it later.  *)
ReconcilePending(j) ==    \* fault: only loans that still await funding
    /\ loan.disb = "in_progress"
    /\ loan.status = "pending"
    /\ Start(j, "resolve", None, None)
    /\ UNCHANGED <<dbVars, vendorVars, faults>>
Reconcile(j) ==
    /\ loan.disb = "in_progress"
    /\ Start(j, "resolve", None, None)
    /\ UNCHANGED <<dbVars, vendorVars, faults>>

ResolveAnything(w) ==    \* fault: whatever is not completed has failed
    /\ pc[w] = "resolve"
    /\ MayWrite(w)
    /\ loan' = IF rail = "completed" THEN MarkActive(seen[w])
               ELSE [loan EXCEPT !.disb = "failed"]
    /\ Commit(w)
    /\ End(w)
    /\ UNCHANGED <<vendorVars, faults>>
Resolve(w) ==
    /\ pc[w] = "resolve"
    /\ rail \in {"completed", "failed"}
    /\ MayWrite(w)
    /\ loan' = IF rail = "completed" THEN MarkActive(seen[w])
               ELSE [loan EXCEPT !.disb = "failed"]
    /\ Commit(w)
    /\ End(w)
    /\ UNCHANGED <<vendorVars, faults>>

(* The poll answers with another status: left for the next sweep.           *)
ResolveLater(w) ==
    /\ pc[w] = "resolve"
    /\ rail \in {"pending", "cancelled"}
    /\ Roll(w)
    /\ UNCHANGED <<vendorVars, faults>>

---------------------------------------------------------------------------
(* Maker-checker: admin_actions *)

FileRequest(r, kind) ==
    /\ requests[r] = "none"
    /\ kind # "activate" => loan.status # "none"
    /\ requests' = [requests EXCEPT ![r] = kind]
    /\ UNCHANGED <<loan, nonces, vendorVars, procVars, faults>>

Undecided(r) == requests[r] \in Kinds /\ \A w \in Workers : req[w] # r

(* approve_action, up to the executor: the request row is locked, the loan  *)
(* is not.                                                                  *)
Executor == [charge_off |-> "chargeoff", disburse |-> "release", activate |-> "activate"]

ApproveUnlocked(w, r) ==    \* fault: the request row is not locked
    /\ requests[r] \in Kinds
    /\ requests[r] = "disburse" => loan.agreement = "signed" /\ loan.disb = "not_started"
    /\ Start(w, Executor[requests[r]], None, r)
    /\ UNCHANGED <<dbVars, vendorVars, faults>>
ApproveUnsigned(w, r) ==    \* fault: a payout needs no signature
    /\ Undecided(r)
    /\ requests[r] = "disburse" => loan.disb = "not_started"
    /\ Start(w, Executor[requests[r]], None, r)
    /\ UNCHANGED <<dbVars, vendorVars, faults>>
Approve(w, r) ==
    /\ Undecided(r)
    /\ requests[r] = "disburse" => loan.agreement = "signed" /\ loan.disb = "not_started"
    /\ Start(w, Executor[requests[r]], None, r)
    /\ UNCHANGED <<dbVars, vendorVars, faults>>

(* reject_action reads the request's loan_id, which an activation has not.  *)
Reject(r) ==
    /\ Undecided(r)
    /\ requests[r] # "activate"
    /\ requests' = [requests EXCEPT ![r] = "decided"]
    /\ UNCHANGED <<loan, nonces, vendorVars, procVars, faults>>

ChargeOff(w) ==
    /\ pc[w] = "chargeoff"
    /\ MayWrite(w)
    /\ loan' = [loan EXCEPT !.status = "charged_off"]
    /\ Commit(w)
    /\ End(w)
    /\ UNCHANGED <<vendorVars, faults>>

(* activate_loan: book the signed application's loan as funded, unless it   *)
(* has one; losing the race to book it rolls the approval back as well.     *)
ActivateOverBooked(w) ==    \* fault: an existing loan is activated as it is
    /\ pc[w] = "activate"
    /\ loan' = [loan EXCEPT !.status = "active", !.agreement = "signed",
                            !.disb = "completed", !.virtual = TRUE]
    /\ Commit(w)
    /\ End(w)
    /\ UNCHANGED <<vendorVars, faults>>
Activate(w) ==
    /\ pc[w] = "activate"
    /\ \/ /\ seen[w] = "none" /\ loan.status = "none"
          /\ loan' = [NoLoan EXCEPT !.status = "active", !.agreement = "signed",
                                    !.disb = "completed", !.virtual = TRUE]
          /\ Commit(w)
       \/ /\ seen[w] = "none" /\ loan.status # "none"
          /\ UNCHANGED dbVars
       \/ /\ seen[w] # "none"
          /\ UNCHANGED loan
          /\ Commit(w)
    /\ End(w)
    /\ UNCHANGED <<vendorVars, faults>>

---------------------------------------------------------------------------
Crash(w) ==
    /\ pc[w] # "idle"
    /\ faults < MaxFaults
    /\ faults' = faults + 1
    /\ Roll(w)
    /\ UNCHANGED vendorVars

Quiescent == (\A w \in Workers : pc[w] = "idle") /\ UNCHANGED vars

(* What a handler does once it has started.                                 *)
Step(w) ==
    \/ \E d \in Docs : SendForSignature(w, d)
    \/ SendCommit(w) \/ SendNothing(w)
    \/ SignCommit(w) \/ DeclineCommit(w)
    \/ Release(w) \/ ReleaseNothing(w) \/ Push(w) \/ PushFails(w) \/ PushCommit(w)
    \/ Resolve(w) \/ ResolveLater(w)
    \/ ChargeOff(w) \/ Activate(w)

Next ==
    \/ BookLoan
    \/ \E w \in Workers : Step(w) \/ Crash(w)
    \/ \E w \in Web : SendAgreement(w) \/ SimulateSigning(w) \/ PayoutWebhook(w)
    \/ \E w \in Web, d \in Docs : SignedWebhook(w, d) \/ DeclinedWebhook(w, d)
    \/ \E w \in Web, r \in Requests : Approve(w, r)
    \/ \E r \in Requests : Reject(r) \/ \E k \in Kinds : FileRequest(r, k)
    \/ \E d \in Docs : BorrowerDecides(d) \/ OrphanedDocument(d)
    \/ RailSettles \/ IgnoredPayout
    \/ \E j \in Jobs : Reconcile(j)
    \/ Quiescent

Spec == Init /\ [][Next]_vars

(* Handlers run on, and the reconcile cron keeps sweeping.  Nothing is      *)
(* assumed of users, of webhooks or of the rail.                            *)
LiveSpec ==
    /\ Spec
    /\ \A w \in Workers : WF_vars(Step(w))
    /\ \A j \in Jobs : WF_vars(Reconcile(j))
---------------------------------------------------------------------------
(* Properties *)

(* Every variable stays in its range, and the loan's row lock is held by a  *)
(* worker that is pushing its payout and by no other, whatever fails.       *)
TypeOK ==
    /\ loan \in Loans
    /\ requests \in [Requests -> Kinds \cup {"none", "decided"}]
    /\ nonces \subseteq Nonces
    /\ docs \in [Docs -> {"none", "sent", "signed", "declined"}]
    /\ rail \in {"none", "pending"} \cup Outcomes
    /\ simulated \in BOOLEAN
    /\ seen \in [Workers -> LoanStatuses]
    /\ claim \in [Workers -> Nonces \cup {None}]
    /\ req \in [Workers -> Requests \cup {None}]
    /\ \A w \in Workers : lock = w <=> pc[w] \in {"push", "pushed"}
    /\ faults \in 0 .. MaxFaults

(* "Exactly once" (initiate_disbursement): nobody is about to push a payout *)
(* that was already recorded, and no two are at once.                       *)
PushedOnce ==
    \A w \in Workers : pc[w] = "push" =>
        /\ loan.disb = "not_started"
        /\ \A v \in Workers : pc[v] = "push" => v = w

(* The loan's disbursement status is never ahead of the rail, whichever of  *)
(* webhook, synchronous answer and reconcile job wrote it.                  *)
BooksFollowRail ==
    /\ loan.disb = "completed" => loan.virtual \/ rail = "completed"
    /\ loan.disb = "failed" => rail = "failed"
    /\ loan.disb = "in_progress" => rail # "none"

(* A loan is funded in one way: one activated off its application's         *)
(* agreement is never paid out at the rail.                                 *)
FundedOneWay == loan.virtual => rail = "none"

(* No payout before a signature, the borrower's or a simulated one.         *)
PayoutNeedsSignature ==
    rail # "none" => simulated \/ \E d \in Docs : docs[d] = "signed"

(* A decided request is not executed: while an approver acts on a request   *)
(* nobody else has decided it.                                              *)
DecidedOnce ==
    \A w \in Workers : req[w] # None =>
        /\ requests[req[w]] \in Kinds
        /\ \A v \in Workers : req[v] = req[w] => v = w

(* Requests, webhooks and jobs that overlap act once: both of the above     *)
(* "once"s, the push and the decision.                                      *)
ActedOnce == PushedOnce /\ DecidedOnce

(* Money leaves for a signed loan that nobody funded otherwise.             *)
PayoutIsEarned == FundedOneWay /\ PayoutNeedsSignature

(* A payout that completed at the rail ends up completed on the books, also *)
(* when its webhook came too early to find the loan, and whatever else      *)
(* happened to the loan since.                                              *)
PayoutIsRecorded ==
    (rail = "completed" /\ loan.txn) ~> loan.disb = "completed"

(* "Never override a later terminal status" (_mark_active): a charged-off   *)
(* loan stays charged off.                                                  *)
TerminalStatusKept ==
    [][loan.status = "charged_off" => loan'.status = "charged_off"]_vars

(* "Forward-only: no-op once signed" (on_agreement_declined, and so for     *)
(* send_agreement): a signed agreement stays signed.                        *)
SignatureKept ==
    [][loan.agreement = "signed" => loan'.agreement = "signed"]_vars
=============================================================================
