------------------------- MODULE LoanLifecycleProofs -------------------------
(***************************************************************************)
(* A loan is paid out at most once, for a signature, and its books follow  *)
(* the rail, for every number of workers, jobs, documents, maker-checker   *)
(* requests and faults.                                                    *)
(***************************************************************************)
EXTENDS LoanLifecycle, TLAPS

---------------------------------------------------------------------------
(* The inductive invariant *)

(* The steps of a handler, and what each may hold.                          *)
Labels == {"idle", "send", "sent", "sign", "decline", "release", "push", "pushed",
           "resolve", "chargeoff", "activate"}

Typed ==
    /\ TypeOK
    /\ pc \in [Workers -> Labels]
    /\ arg \in [Workers -> Docs \cup {None, "pending"} \cup Outcomes]
    /\ lock \in Workers \cup {None}

(* A session carries the document it sent or the rail's answer only from    *)
(* the vendor's call to its commit, and a request row only while it acts on *)
(* the approval.                                                            *)
HeldAtWork ==
    \A w \in Workers :
        /\ arg[w] # None => pc[w] \in {"sent", "pushed"}
        /\ pc[w] = "sent" => arg[w] \in Docs
        /\ pc[w] = "pushed" => /\ rail # "none"
                               /\ arg[w] \in {"completed", "failed"} => rail = arg[w]
        /\ req[w] # None => pc[w] \in {"chargeoff", "release", "push", "pushed", "activate"}

(* Before it is booked a loan is blank and nobody works on it but an        *)
(* activation that would book it; one that is being paid out has not been.  *)
NothingBeforeBooking ==
    /\ loan.status = "none" => loan = NoLoan /\ rail = "none"
    /\ \A r \in Requests : requests[r] = "charge_off" => loan.status # "none"
    /\ \A w \in Workers :
        /\ pc[w] \notin {"idle", "activate"} => loan.status # "none"
        /\ pc[w] \in {"push", "pushed"} => loan.disb = "not_started"

(* A loan booked as funded stays so.                                        *)
FundedAtBooking == loan.virtual => loan.disb = "completed" /\ rail = "none"

(* The borrower, or staff in simulator mode, has signed.                    *)
Signed == simulated \/ \E d \in Docs : docs[d] = "signed"

SignedFirst ==
    /\ loan.agreement = "signed" /\ ~loan.virtual => Signed
    /\ \A w \in Workers : pc[w] \in {"sign", "release", "push", "pushed"} => Signed
    /\ rail # "none" => Signed

Consistent ==
    /\ HeldAtWork /\ NothingBeforeBooking /\ BooksFollowRail
    /\ FundedAtBooking /\ SignedFirst /\ DecidedOnce

IndInv == Typed /\ Consistent

LEMMA InitHolds == Init => IndInv
<1> SUFFICES ASSUME Init PROVE IndInv
  OBVIOUS
<1>1. loan \in Loans /\ faults \in 0 .. MaxFaults
  BY LifecycleAssumption DEF Init, NoLoan, Loans, LoanStatuses
<1>2. Typed
  BY <1>1, LifecycleAssumption DEF Init, Typed, TypeOK, LoanStatuses, Labels, Workers
<1>3. Consistent
  BY LifecycleAssumption DEF Init, Consistent, HeldAtWork, NothingBeforeBooking, NoLoan,
     BooksFollowRail, FundedAtBooking, SignedFirst, Signed, DecidedOnce, Workers
<1> QED
  BY <1>2, <1>3 DEF IndInv

(* Every range and every table of steps is open to the step lemmas; the     *)
(* actions and what they call are named where they are used.                *)
USE LifecycleAssumption
USE DEF dbVars, vendorVars, procVars, vars, Workers, IndInv, Typed, TypeOK, Labels,
        Kinds, Outcomes, NoLoan, Loans, Consistent, HeldAtWork, NothingBeforeBooking,
        BooksFollowRail, FundedAtBooking, SignedFirst, Signed, DecidedOnce

---------------------------------------------------------------------------
(* Every step keeps it *)

(* What a handler does once it has started.                                 *)
LEMMA StepKeeps == ASSUME IndInv, NEW w \in Workers, Step(w) PROVE IndInv'
<1>1. ASSUME NEW d \in Docs, SendForSignature(w, d) PROVE IndInv'
  <2>1. Typed'
    BY <1>1 DEF SendForSignature, Goto, LoanStatuses, Nonces
  <2>2. Consistent'
    BY <1>1 DEF SendForSignature, Goto
  <2> QED
    BY <2>1, <2>2
<1>2. CASE SendCommit(w)
  <2>1. arg[w] \in Docs \cup {None}
    BY <1>2 DEF SendCommit
  <2>2. loan' \in Loans
    BY <1>2, <2>1 DEF SendCommit
  <2>3. Typed'
    BY <1>2, <2>2 DEF Commit, End, SendCommit, LoanStatuses, Nonces
  <2>4. Consistent'
    BY <1>2 DEF SendCommit, MayWrite, Commit, End
  <2> QED
    BY <2>3, <2>4
<1>3. CASE SendNothing(w)
  <2>1. Typed'
    BY <1>3 DEF SendNothing, Roll, End, LoanStatuses, Nonces
  <2>2. Consistent'
    BY <1>3 DEF SendNothing, Roll, End
  <2> QED
    BY <2>1, <2>2
<1>4. CASE SignCommit(w)
  <2>1. Typed'
    BY <1>4 DEF SignCommit, MayWrite, Commit, Goto, LoanStatuses, Nonces
  <2>2. Consistent'
    BY <1>4 DEF SignCommit, MayWrite, Commit, Goto
  <2> QED
    BY <2>1, <2>2
<1>5. CASE DeclineCommit(w)
  <2>1. Typed'
    BY <1>5 DEF DeclineCommit, MayWrite, Commit, End, LoanStatuses, Nonces
  <2>2. Consistent'
    BY <1>5 DEF DeclineCommit, MayWrite, Commit, End
  <2> QED
    BY <2>1, <2>2
<1>6. CASE Release(w)
  <2>1. Typed'
    BY <1>6 DEF Release, Goto, LoanStatuses, Nonces
  <2>2. Consistent'
    BY <1>6 DEF Release, Goto
  <2> QED
    BY <2>1, <2>2
<1>7. CASE ReleaseNothing(w)
  <2>1. Typed'
    BY <1>7 DEF ReleaseNothing, Commit, End, LoanStatuses, Nonces
  <2>2. Consistent'
    BY <1>7 DEF ReleaseNothing, Commit, End
  <2> QED
    BY <2>1, <2>2
<1>8. CASE Push(w)
  <2>1. Typed'
    BY <1>8 DEF Push, Goto, LoanStatuses, Nonces
  <2>2. Consistent'
    BY <1>8 DEF Push, Goto
  <2> QED
    BY <2>1, <2>2
<1>9. CASE PushFails(w)
  <2>1. Typed'
    BY <1>9 DEF PushFails, Roll, End, LoanStatuses, Nonces
  <2>2. Consistent'
    BY <1>9 DEF PushFails, Roll, End
  <2> QED
    BY <2>1, <2>2
<1>10. CASE PushCommit(w)
  <2>1. loan' \in Loans
    BY <1>10 DEF PushCommit, MarkActive, Commit, End, LoanStatuses
  <2>2. /\ Commit(w) /\ End(w) /\ UNCHANGED <<vendorVars, faults>>
        /\ pc[w] \in {"pushed", "resolve"} /\ lock \in {None, w}
    BY <1>10 DEF PushCommit, MarkActive, Commit, End
  <2>3. Typed'
    <3>1. /\ requests' \in [Requests -> Kinds \cup {"none", "decided"}]
          /\ nonces' \subseteq Nonces
      BY <2>2 DEF Commit
    <3>2. /\ pc' \in [Workers -> Labels] /\ seen' \in [Workers -> LoanStatuses]
          /\ claim' \in [Workers -> Nonces \cup {None}]
          /\ req' \in [Workers -> Requests \cup {None}]
          /\ arg' \in [Workers -> Docs \cup {None, "pending"} \cup Outcomes]
      BY <2>2 DEF End, LoanStatuses
    <3>3. /\ lock' \in Workers \cup {None}
          /\ \A v \in Workers : lock' = v <=> pc'[v] \in {"push", "pushed"}
      BY <2>2 DEF End
    <3> QED
      BY <2>1, <2>2, <3>1, <3>2, <3>3
  <2>4. Consistent'
    BY <1>10 DEF PushCommit, MarkActive, Commit, End
  <2> QED
    BY <2>3, <2>4
<1>11. CASE Resolve(w)
  <2>1. loan' \in Loans
    BY <1>11 DEF Resolve, MarkActive, MayWrite, Commit, End, LoanStatuses
  <2>2. /\ Commit(w) /\ End(w) /\ UNCHANGED <<vendorVars, faults>>
        /\ pc[w] \in {"pushed", "resolve"} /\ lock \in {None, w}
    BY <1>11 DEF Resolve, MarkActive, MayWrite, Commit, End
  <2>3. Typed'
    <3>1. /\ requests' \in [Requests -> Kinds \cup {"none", "decided"}]
          /\ nonces' \subseteq Nonces
      BY <2>2 DEF Commit
    <3>2. /\ pc' \in [Workers -> Labels] /\ seen' \in [Workers -> LoanStatuses]
          /\ claim' \in [Workers -> Nonces \cup {None}]
          /\ req' \in [Workers -> Requests \cup {None}]
          /\ arg' \in [Workers -> Docs \cup {None, "pending"} \cup Outcomes]
      BY <2>2 DEF End, LoanStatuses
    <3>3. /\ lock' \in Workers \cup {None}
          /\ \A v \in Workers : lock' = v <=> pc'[v] \in {"push", "pushed"}
      BY <2>2 DEF End
    <3> QED
      BY <2>1, <2>2, <3>1, <3>2, <3>3
  <2>4. Consistent'
    BY <1>11 DEF Resolve, MarkActive, MayWrite, Commit, End
  <2> QED
    BY <2>3, <2>4
<1>12. CASE ResolveLater(w)
  <2>1. Typed'
    BY <1>12 DEF ResolveLater, Roll, End, LoanStatuses, Nonces
  <2>2. Consistent'
    BY <1>12 DEF ResolveLater, Roll, End
  <2> QED
    BY <2>1, <2>2
<1>13. CASE ChargeOff(w)
  <2>1. Typed'
    BY <1>13 DEF ChargeOff, MayWrite, Commit, End, LoanStatuses, Nonces
  <2>2. Consistent'
    BY <1>13 DEF ChargeOff, MayWrite, Commit, End
  <2> QED
    BY <2>1, <2>2
<1>14. CASE Activate(w)
  <2>1. /\ seen' \in [Workers -> LoanStatuses]
        /\ claim' \in [Workers -> Nonces \cup {None}]
        /\ UNCHANGED <<vendorVars, faults>> /\ End(w)
    BY <1>14 DEF Activate, End, LoanStatuses
  <2>2. CASE /\ loan.status = "none"
             /\ loan' = [NoLoan EXCEPT !.status = "active", !.agreement = "signed",
                                       !.disb = "completed", !.virtual = TRUE]
             /\ Commit(w)
    <3>1. /\ loan' \in Loans /\ loan'.status = "active" /\ loan'.disb = "completed"
          /\ loan'.virtual = TRUE
      BY <2>2 DEF LoanStatuses
    <3>2. rail = "none" /\ \A v \in Workers : pc[v] \in {"idle", "activate"}
      BY <2>2
    <3>3. Typed'
      BY <1>14, <2>1, <2>2, <3>1 DEF End, Commit, Nonces
    <3>4. /\ HeldAtWork' /\ NothingBeforeBooking' /\ DecidedOnce'
      BY <1>14, <2>1, <2>2, <3>1, <3>2 DEF Activate, End, Commit
    <3>5. BooksFollowRail' /\ FundedAtBooking' /\ SignedFirst'
      BY <1>14, <2>1, <2>2, <3>1, <3>2 DEF Activate, End
    <3> QED
      BY <3>3, <3>4, <3>5
  <2>3. CASE UNCHANGED loan /\ (UNCHANGED dbVars \/ Commit(w))
    <3>1. Typed'
      BY <1>14, <2>1, <2>3 DEF Activate, End, Commit, Nonces
    <3>2. Consistent'
      BY <1>14, <2>1, <2>3 DEF Activate, End, Commit
    <3> QED
      BY <3>1, <3>2
  <2> QED
    BY <1>14, <2>2, <2>3 DEF Activate
<1> QED
  BY <1>1, <1>2, <1>3, <1>4, <1>5, <1>6, <1>7, <1>8, <1>9, <1>10, <1>11, <1>12, <1>13, <1>14 DEF Step

(* What starts a handler: users, webhooks, approvals and the sweep.         *)
LEMMA StartKeeps ==
    ASSUME IndInv, NEW w \in Workers,
           \/ SendAgreement(w) \/ SimulateSigning(w) \/ PayoutWebhook(w) \/ Reconcile(w)
           \/ \E d \in Docs : SignedWebhook(w, d) \/ DeclinedWebhook(w, d)
           \/ \E r \in Requests : Approve(w, r)
    PROVE  IndInv'
<1>1. CASE SendAgreement(w)
  <2>1. Typed'
    BY <1>1 DEF SendAgreement, Start, LoanStatuses, Nonces
  <2>2. Consistent'
    BY <1>1 DEF SendAgreement, Start
  <2> QED
    BY <2>1, <2>2
<1>2. CASE SimulateSigning(w)
  <2>1. Typed'
    BY <1>2 DEF SimulateSigning, Start, LoanStatuses, Nonces
  <2>2. Consistent'
    BY <1>2 DEF SimulateSigning, Start
  <2> QED
    BY <2>1, <2>2
<1>3. CASE PayoutWebhook(w)
  <2>1. Typed'
    BY <1>3 DEF PayoutWebhook, Start, LoanStatuses, Nonces
  <2>2. Consistent'
    BY <1>3 DEF PayoutWebhook, Start
  <2> QED
    BY <2>1, <2>2
<1>4. CASE Reconcile(w)
  <2>1. Typed'
    BY <1>4 DEF Reconcile, Start, LoanStatuses, Nonces
  <2>2. Consistent'
    BY <1>4 DEF Reconcile, Start
  <2> QED
    BY <2>1, <2>2
<1>5. ASSUME NEW d \in Docs, SignedWebhook(w, d) PROVE IndInv'
  <2>1. Typed'
    BY <1>5 DEF SignedWebhook, Start, LoanStatuses, Nonces
  <2>2. Consistent'
    BY <1>5 DEF SignedWebhook, Start
  <2> QED
    BY <2>1, <2>2
<1>6. ASSUME NEW d \in Docs, DeclinedWebhook(w, d) PROVE IndInv'
  <2>1. Typed'
    BY <1>6 DEF DeclinedWebhook, Start, LoanStatuses, Nonces
  <2>2. Consistent'
    BY <1>6 DEF DeclinedWebhook, Start
  <2> QED
    BY <2>1, <2>2
<1>7. ASSUME NEW r \in Requests, Approve(w, r) PROVE IndInv'
  <2>1. Typed'
    BY <1>7 DEF Approve, Start, Undecided, Executor, LoanStatuses, Nonces
  <2>2. Consistent'
    BY <1>7 DEF Approve, Start, Undecided, Executor
  <2> QED
    BY <2>1, <2>2
<1> QED
  BY <1>1, <1>2, <1>3, <1>4, <1>5, <1>6, <1>7

(* A crash, and what happens without a handler.                             *)
LEMMA OutsideKeeps ==
    ASSUME IndInv,
           \/ BookLoan \/ RailSettles \/ IgnoredPayout
           \/ \E w \in Workers : Crash(w)
           \/ \E r \in Requests : Reject(r) \/ \E k \in Kinds : FileRequest(r, k)
           \/ \E d \in Docs : BorrowerDecides(d) \/ OrphanedDocument(d)
    PROVE  IndInv'
<1>1. CASE BookLoan
  <2>1. Typed'
    BY <1>1 DEF BookLoan, LoanStatuses, Nonces
  <2>2. Consistent'
    BY <1>1 DEF BookLoan
  <2> QED
    BY <2>1, <2>2
<1>2. CASE RailSettles
  <2>1. Typed'
    BY <1>2 DEF RailSettles, LoanStatuses, Nonces
  <2>2. Consistent'
    BY <1>2 DEF RailSettles
  <2> QED
    BY <2>1, <2>2
<1>3. CASE IgnoredPayout
  <2>1. Typed'
    BY <1>3 DEF IgnoredPayout, LoanStatuses, Nonces
  <2>2. Consistent'
    BY <1>3 DEF IgnoredPayout
  <2> QED
    BY <2>1, <2>2
<1>4. ASSUME NEW w \in Workers, Crash(w) PROVE IndInv'
  <2>1. Typed'
    BY <1>4 DEF Crash, Roll, End, LoanStatuses, Nonces
  <2>2. Consistent'
    BY <1>4 DEF Crash, Roll, End
  <2> QED
    BY <2>1, <2>2
<1>5. ASSUME NEW r \in Requests, Reject(r) PROVE IndInv'
  <2>1. Typed'
    BY <1>5 DEF Reject, Undecided, LoanStatuses, Nonces
  <2>2. Consistent'
    BY <1>5 DEF Reject, Undecided
  <2> QED
    BY <2>1, <2>2
<1>6. ASSUME NEW r \in Requests, NEW k \in Kinds, FileRequest(r, k) PROVE IndInv'
  <2>1. Typed'
    BY <1>6 DEF FileRequest, LoanStatuses, Nonces
  <2>2. Consistent'
    BY <1>6 DEF FileRequest
  <2> QED
    BY <2>1, <2>2
<1>7. ASSUME NEW d \in Docs, BorrowerDecides(d) PROVE IndInv'
  <2>1. Typed'
    BY <1>7 DEF BorrowerDecides, LoanStatuses, Nonces
  <2>2. Consistent'
    BY <1>7 DEF BorrowerDecides
  <2> QED
    BY <2>1, <2>2
<1>8. ASSUME NEW d \in Docs, OrphanedDocument(d) PROVE IndInv'
  <2>1. Typed'
    BY <1>8 DEF OrphanedDocument, LoanStatuses, Nonces
  <2>2. Consistent'
    BY <1>8 DEF OrphanedDocument
  <2> QED
    BY <2>1, <2>2
<1> QED
  BY <1>1, <1>2, <1>3, <1>4, <1>5, <1>6, <1>7, <1>8

LEMMA NextKeeps == IndInv /\ [Next]_vars => IndInv'
<1> SUFFICES ASSUME IndInv, [Next]_vars PROVE IndInv'
  OBVIOUS
<1>1. CASE UNCHANGED vars
  <2>1. Typed'
    BY <1>1
  <2>2. Consistent'
    BY <1>1
  <2> QED
    BY <2>1, <2>2
<1> HIDE DEF IndInv
<1>2. CASE Next
  BY <1>1, <1>2, StepKeeps, StartKeeps, OutsideKeeps DEF Next, Quiescent, Workers
<1> QED
  BY <1>1, <1>2

---------------------------------------------------------------------------
(* Theorems *)

(* The invariant holds of every behaviour of booking, signing, paying out   *)
(* and approving.                                                           *)
THEOREM IndInvHolds == Spec => []IndInv
<1> HIDE DEF IndInv
<1> QED
  BY InitHolds, NextKeeps, PTL DEF Spec

(* Rows, documents, sessions and the row lock keep their ranges: the lock   *)
(* is held by the worker that is pushing the payout (initiate_disbursement).*)
THEOREM TypesHold == Spec => []TypeOK
<1>1. IndInv => TypeOK
  OBVIOUS
<1> HIDE DEF IndInv, TypeOK
<1> QED
  BY <1>1, IndInvHolds, PTL

(* Whatever overlaps, nobody is about to push a recorded payout, no two     *)
(* push at once, and no request is decided twice (initiate_disbursement,    *)
(* approve_action).                                                         *)
THEOREM PayoutAndDecisionOnce == Spec => []ActedOnce
<1>1. IndInv => ActedOnce
  <2>1. IndInv => PushedOnce
    BY DEF PushedOnce
  <2>2. IndInv => DecidedOnce
    OBVIOUS
  <2> QED
    BY <2>1, <2>2 DEF ActedOnce
<1> QED
  BY <1>1, IndInvHolds, PTL

(* The disbursement status is never ahead of the rail, whoever wrote it     *)
(* (on_disbursement_complete, on_disbursement_failed, initiate_disbursement,*)
(* reconcile_stuck_disbursements).                                          *)
THEOREM BooksNeverAhead == Spec => []BooksFollowRail
<1>1. IndInv => BooksFollowRail
  OBVIOUS
<1> HIDE DEF IndInv, BooksFollowRail
<1> QED
  BY <1>1, IndInvHolds, PTL

(* No payout without a signature, and none for a loan that was activated    *)
(* as funded (initiate_disbursement, activate_loan).                        *)
THEOREM PayoutOnlyWhenEarned == Spec => []PayoutIsEarned
<1>1. IndInv => PayoutIsEarned
  BY DEF PayoutIsEarned, FundedOneWay, PayoutNeedsSignature
<1> QED
  BY <1>1, IndInvHolds, PTL

(* A payout recorded as completed stays recorded, whatever webhook, sweep,  *)
(* approval or late answer comes after it (on_disbursement_failed,          *)
(* initiate_disbursement): together with the liveness PayoutIsRecorded,     *)
(* which is only model-checked, the books end up right for good.            *)
RecordedPayoutStays == [][loan.disb = "completed" => loan'.disb = "completed"]_vars

LEMMA StepKeepsRecord ==
    ASSUME IndInv, NEW w \in Workers, Step(w), loan.disb = "completed"
    PROVE  loan'.disb = "completed"
<1>1. CASE PushCommit(w)
  BY <1>1 DEF PushCommit
<1>2. CASE Resolve(w)
  BY <1>2 DEF Resolve, MarkActive, LoanStatuses
<1>3. CASE Activate(w)
  BY <1>3 DEF Activate
<1>4. CASE SendCommit(w) \/ SignCommit(w) \/ DeclineCommit(w) \/ ChargeOff(w)
  <2>1. loan.disb = "completed" /\ loan \in Loans
    OBVIOUS
  <2>2. CASE SendCommit(w)
    BY <2>1, <2>2 DEF SendCommit
  <2>3. CASE SignCommit(w)
    BY <2>1, <2>3 DEF SignCommit
  <2>4. CASE DeclineCommit(w)
    BY <2>1, <2>4 DEF DeclineCommit
  <2>5. CASE ChargeOff(w)
    BY <2>1, <2>5 DEF ChargeOff
  <2> QED
    BY <1>4, <2>2, <2>3, <2>4, <2>5
<1>5. CASE UNCHANGED loan
  BY <1>5
<1> QED
  BY <1>1, <1>2, <1>3, <1>4, <1>5 DEF Step, SendForSignature, SendNothing, Release,
     ReleaseNothing, Push, PushFails, ResolveLater, Roll

THEOREM RecordsArePermanent == Spec => RecordedPayoutStays
<1>1. IndInv /\ [Next]_vars => [loan.disb = "completed" => loan'.disb = "completed"]_vars
  <2> SUFFICES ASSUME IndInv, Next, loan.disb = "completed" PROVE loan'.disb = "completed"
    OBVIOUS
  <2>1. CASE BookLoan
    BY <2>1 DEF BookLoan
  <2>2. CASE \E w \in Workers : Step(w)
    BY <2>2, StepKeepsRecord
  <2>3. CASE UNCHANGED loan
    BY <2>3
  <2> QED
    BY <2>1, <2>2, <2>3 DEF Next, Crash, Roll, SendAgreement, SimulateSigning, PayoutWebhook,
       SignedWebhook, DeclinedWebhook, Approve, Reject, FileRequest, BorrowerDecides,
       OrphanedDocument, RailSettles, IgnoredPayout, Reconcile, Quiescent
<1> HIDE DEF IndInv
<1> QED
  BY <1>1, IndInvHolds, PTL DEF Spec, RecordedPayoutStays
=============================================================================
