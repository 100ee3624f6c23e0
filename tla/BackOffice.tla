----------------------------- MODULE BackOffice -----------------------------
(***************************************************************************)
(* The back-office components that share no row; `lane` picks at the start *)
(* which one moves: a vendor's payouts, a loan's hardship amendment, a     *)
(* patient's marketplace listing, an application on its way to a decision, *)
(* an approved one whose offers are accepted with the activation flag off, *)
(* one whose agreement is signed with the flag on, or the terms of a deal  *)
(* until its loan is booked.                                               *)
(***************************************************************************)
EXTENDS DealTerms

CONSTANTS
    Procs, Months, ShareBps, ExtraFee, HooksWired, Deposits,      \* payouts
    MaxCollected, MaxRows,
    Cases, NItems, Total, Desks, Hooks, MaxDeferred, Window,      \* amendments
    MaxTime,
    Listings, Clinics, Sessions, Trigger,                         \* leads
    Types, Workers, ActivationBooksLoan, MaxEvents, MaxCrashes,   \* decisions
    Offers, Requests, MaxOffers,                                  \* acceptances, signatures
    SignedOffers, \* offers of the file whose agreement is signed
    MaxDocs,      \* bound on documents of an amendment or an agreement
    MaxSent,      \* bound on agreements where acceptances book
    MaxFaults     \* bound on faults of a payout or an amendment

VARIABLES lane,
          month, held, cleared, peak, rows, rail, pc, plan, reply, raced, vfaults,
          today, items, reqs, appended, moved, docs, acked, sess, hfaults,
          status, live, accepted, interest, listed, work,
          file, verifs, received, logged, holder, jobs, ffaults,
          app, offer, loan, agreements, signed, declined, resent, req

termVars      == vars
payoutVars    == <<month, held, cleared, peak, rows, rail, pc, plan, reply, raced, vfaults>>
amendmentVars == <<today, items, reqs, appended, moved, docs, acked, sess, hfaults>>
leadVars      == <<status, live, accepted, interest, listed, work>>
decisionVars  == <<file, verifs, received, logged, holder, jobs, ffaults>>
dealVars      == <<app, offer, loan, agreements, signed, declined, resent, req>>
allVars       == <<lane, termVars, payoutVars, amendmentVars, leadVars, decisionVars, dealVars>>

Payouts == INSTANCE VendorDisbursements

Amendments == INSTANCE Hardship WITH Requests <- Cases

Leads == INSTANCE Marketplace

Decisions == INSTANCE FlowOrchestrator

Acceptances == INSTANCE LoanOffers WITH
    ActivationBooksLoan <- FALSE, MaxDocs <- MaxSent, docs <- agreements

Signatures == INSTANCE LoanOffers WITH
    Offers <- SignedOffers, ActivationBooksLoan <- TRUE, docs <- agreements

DealsInit == IF lane = "acceptances" THEN Acceptances!Init ELSE Signatures!Init

(* What the modules ask of their constants.                                *)
ASSUME ConstantsFit ==
    /\ TermsAssumption /\ ProductsAssumption /\ Payouts!ShareAssumption
    /\ Amendments!HardshipAssumption /\ Leads!TriggerAssumption
    /\ Decisions!FlowAssumption
    /\ Acceptances!OffersAssumption /\ Signatures!OffersAssumption

LaneInit ==
    /\ lane \in {"terms", "payouts", "amendments", "leads", "decisions",
                "acceptances", "signatures"}
    /\ Init /\ (lane # "terms" => booksAt = "activation" /\ product = (CHOOSE p \in Admissible : TRUE))
    /\ Payouts!Init /\ Amendments!Init /\ Leads!Init /\ Decisions!Init /\ DealsInit

EditStep == \E p \in Admissible : lane = "terms" /\ EditProduct(p)
                /\ UNCHANGED <<lane, payoutVars, amendmentVars, leadVars, decisionVars, dealVars>>
TermStep == lane = "terms" /\ FileMoves
                /\ UNCHANGED <<lane, payoutVars, amendmentVars, leadVars, decisionVars, dealVars>>
PayoutStep == lane = "payouts" /\ Payouts!Next
                /\ UNCHANGED <<lane, termVars, amendmentVars, leadVars, decisionVars, dealVars>>
AmendmentStep == lane = "amendments" /\ Amendments!Next
                /\ UNCHANGED <<lane, termVars, payoutVars, leadVars, decisionVars, dealVars>>
LeadStep == lane = "leads" /\ Leads!Next
                /\ UNCHANGED <<lane, termVars, payoutVars, amendmentVars, decisionVars, dealVars>>
DecisionStep == lane = "decisions" /\ Decisions!Next
                /\ UNCHANGED <<lane, termVars, payoutVars, amendmentVars, leadVars, dealVars>>
AcceptanceStep == lane = "acceptances" /\ Acceptances!Next
                /\ UNCHANGED <<lane, termVars, payoutVars, amendmentVars, leadVars, decisionVars>>
SignatureStep == lane = "signatures" /\ Signatures!Next
                /\ UNCHANGED <<lane, termVars, payoutVars, amendmentVars, leadVars, decisionVars>>

LaneNext ==
    \/ EditStep \/ TermStep \/ PayoutStep \/ AmendmentStep \/ LeadStep
    \/ DecisionStep \/ AcceptanceStep \/ SignatureStep

LaneSpec == LaneInit /\ [][LaneNext]_allVars

(* The type invariants of the six modules.                                 *)
AllTypesOK ==
    CASE lane = "terms"       -> TypeOK
      [] lane = "payouts"     -> Payouts!TypeOK
      [] lane = "amendments"  -> Amendments!TypeOK
      [] lane = "leads"       -> Leads!TypeOK
      [] lane = "decisions"   -> Decisions!TypeOK
      [] lane = "acceptances" -> Acceptances!TypeOK
      [] lane = "signatures"  -> Signatures!TypeOK

(* DealTerms.ScheduleTiesOut, AcceptedDealIsBooked, ApprovedFileIsBookable. *)
DealIsKept ==
    lane = "terms" => ScheduleTiesOut /\ AcceptedDealIsBooked /\ ApprovedFileIsBookable

(* VendorDisbursements.PaidMoneyHeld and Entitled.                         *)
VendorIsOwed == lane = "payouts" => Payouts!PaidMoneyHeld /\ Payouts!Entitled

(* Hardship.SignedBeforeChange and DeferredOnceOrNotAtAll.                 *)
AmendmentsAreSigned ==
    lane = "amendments" => Amendments!SignedBeforeChange /\ Amendments!DeferredOnceOrNotAtAll

(* What is told twice counts once: a lead is sold to one clinic, a vendor  *)
(* event is handled once (Marketplace.LeadSoldOnce,                        *)
(* FlowOrchestrator.ResultsCountOnce).                                     *)
CountedOnce ==
    /\ lane = "leads" => Leads!LeadSoldOnce
    /\ lane = "decisions" => Decisions!ResultsCountOnce

(* FlowOrchestrator.LastResultDecides.                                     *)
LastResultDecides == Decisions!LastResultDecides

(* LoanOffers.OneAcceptance where the acceptance books the loan,           *)
(* BookedOnSignature where the signed agreement does.                      *)
DealsAreSound ==
    /\ lane = "acceptances" => Acceptances!OneAcceptance
    /\ lane = "signatures" => Signatures!BookedOnSignature
=============================================================================
