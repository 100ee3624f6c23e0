-------------------------- MODULE BackOfficeProofs --------------------------
(***************************************************************************)
(* What the run of BackOffice shows on small instances, for every value of *)
(* the constants: the terms accepted are the terms booked (DealTerms), a   *)
(* vendor event is logged once and the result that completes an            *)
(* application's file decides it (FlowOrchestrator), a lead is sold to one *)
(* clinic (Marketplace), one offer is accepted and a loan is booked on a   *)
(* signed agreement (LoanOffers), a vendor draws no more than it is owed   *)
(* (VendorDisbursements), and an amendment changes the schedule once and   *)
(* after a signature (Hardship). Each component's part states an inductive *)
(* invariant, shows action by action that it is kept, and ends with what   *)
(* follows for the component; the last part carries this over to the lanes *)
(* of the back office.                                                     *)
(***************************************************************************)
EXTENDS BackOffice, Sequences, FiniteSets, FiniteSetTheorems, SumLemmas, TLAPS

---------------------------------------------------------------------------
(* Terms: an application's terms until its loan is booked *)

(* The application and its offer, as far as their terms go.                 *)
Applications == [terms : AllTerms, under : Products]

(* The offer and whether a loan was there when it was accepted.             *)
OffersMade == [terms : AllTerms, status : {"offered", "accepted"}, onLoan : BOOLEAN]

(* The types, and that every stage after the first has an application.      *)
TermsTyped ==
    /\ TypeOK
    /\ request = None \/ request \in Applications
    /\ deal = None \/ deal \in OffersMade
    /\ stage # "none" => request \in Applications
    /\ deal # None => stage # "none"

(* The accepted offer is the decision until another one replaces it, and    *)
(* what was booked since the acceptance.                                    *)
AcceptedDealStands ==
    deal # None /\ deal.status = "accepted" /\ decision # None =>
        /\ decision = deal.terms
        /\ ~deal.onLoan /\ booked # None => booked = deal.terms

(* The inductive invariant of the terms.                                    *)
TermsInv == TermsTyped /\ AcceptedDealStands

(* No application, no offer, no loan.                                       *)
LEMMA TermsInitHolds == ASSUME Init PROVE TermsInv
BY DEF Init, Admissible, TermsInv, TermsTyped, TypeOK, AcceptedDealStands

(* Whatever is booked next at the product's terms or at the decision's has  *)
(* terms of an application.                                                 *)
LEMMA BookingTermsTyped ==
    ASSUME ProductsAssumption, TermsTyped, stage # "none"
    PROVE  ProductTerms \in AllTerms /\ BookingTerms \in AllTerms
<1>1. request.terms \in AllTerms /\ product.term \in Terms /\ product.rate \in Rates
  BY DEF TermsTyped, TypeOK, Applications, ProductsAssumption
<1>2. ProductTerms \in AllTerms
  BY <1>1 DEF ProductTerms, AllTerms
<1> QED
  BY <1>2 DEF BookingTerms, TermsTyped, TypeOK

(* Every step on a file or a product keeps the invariant.                   *)
LEMMA TermsStepKeeps ==
    ASSUME ProductsAssumption, TermsInv, [Next]_vars
    PROVE  TermsInv'
<1> USE DEF TermsInv, TermsTyped, TypeOK, Bookable
<1>1. ASSUME NEW p \in Admissible, EditProduct(p) PROVE TermsInv'
  BY <1>1 DEF EditProduct, Admissible, AcceptedDealStands
<1>2. ASSUME NEW t \in AllTerms, CreateApplication(t) PROVE TermsInv'
  <2>1. request' \in Applications /\ request'.terms \in AllTerms /\ request'.under \in Products
    BY <1>2 DEF CreateApplication, Applications
  <2> QED
    BY <1>2, <2>1 DEF CreateApplication, AcceptedDealStands
<1>3. ASSUME NEW t \in AllTerms, CreateOffer(t) PROVE TermsInv'
  <2>1. deal' \in OffersMade /\ deal'.terms \in AllTerms /\ deal'.status = "offered"
    BY <1>3 DEF CreateOffer, OffersMade
  <2> QED
    BY <1>3, <2>1 DEF CreateOffer, AcceptedDealStands
<1>4. ASSUME AcceptOffer PROVE TermsInv'
  <2>1. deal \in OffersMade /\ deal # None /\ stage # "none"
    BY <1>4 DEF AcceptOffer
  <2>2. /\ deal' \in OffersMade /\ deal'.terms = deal.terms /\ deal'.status = "accepted"
        /\ deal'.onLoan <=> booked # None
    BY <1>4, <2>1 DEF AcceptOffer, OffersMade
  <2>3. deal.terms \in AllTerms
    BY <2>1 DEF OffersMade
  <2>4. booked' = booked \/ (booked = None /\ booked' = deal.terms)
    BY <1>4 DEF AcceptOffer, BookOnce, Book
  <2>5. /\ decision' = deal.terms /\ stage' \in {"agreement_signature", "approved"}
        /\ UNCHANGED <<booksAt, product, request, agreement>>
    BY <1>4 DEF AcceptOffer
  <2>6. AcceptedDealStands'
    BY <2>2, <2>4, <2>5 DEF AcceptedDealStands
  <2>7. TermsTyped'
    BY <2>1, <2>2, <2>3, <2>4, <2>5 DEF OffersMade
  <2> QED
    BY <2>6, <2>7
<1>5. ASSUME Decide PROVE TermsInv'
  <2>1. ProductTerms \in AllTerms /\ stage # "none"
    BY <1>5, BookingTermsTyped DEF Decide
  <2>2. booked' = booked \/ booked' = ProductTerms
    BY <1>5 DEF Decide, BookOnce, Book
  <2>3. /\ decision' = None /\ stage' = "approved"
        /\ UNCHANGED <<booksAt, product, request, deal, agreement>>
    BY <1>5 DEF Decide
  <2>4. booked' = None \/ booked' \in AllTerms
    BY <2>1, <2>2
  <2> QED
    BY <2>1, <2>3, <2>4 DEF AcceptedDealStands
<1>6. ASSUME SignAgreement PROVE TermsInv'
  BY <1>6 DEF SignAgreement, AcceptedDealStands
<1>7. ASSUME Activate PROVE TermsInv'
  <2>1. /\ BookingTerms \in AllTerms /\ booked' = BookingTerms /\ stage' = "active"
        /\ booked = None /\ stage # "none"
        /\ UNCHANGED <<booksAt, product, request, deal, decision, agreement>>
    BY <1>7, BookingTermsTyped DEF Activate, Book
  <2> QED
    BY <2>1 DEF AcceptedDealStands, BookingTerms
<1>8. CASE UNCHANGED vars
  BY <1>8 DEF vars, AcceptedDealStands
<1> QED
  BY <1>1, <1>2, <1>3, <1>4, <1>5, <1>6, <1>7, <1>8 DEF Next, FileMoves

(* While the decision carries the accepted offer, the preview shows it and  *)
(* it is what is booked.                                                    *)
LEMMA AcceptedDealStandsBooked == ASSUME TermsInv PROVE AcceptedDealIsBooked
BY DEF TermsInv, AcceptedDealStands, AcceptedDealIsBooked, PreviewTerms, BookingTerms

---------------------------------------------------------------------------
(* Decisions: vendor events and the application's status *)

(* What a worker holds of the application while it handles a request.       *)
Jobs == [op : {"result", "submit"} \cup Decisions!Moves, event : Decisions!Events \cup {None},
         at : {"received", "loaded", "checked", "judged", "open"},
         seen : Decisions!Statuses, ready : BOOLEAN]

(* The types of the application's rows and of the workers' jobs.            *)
DecisionsTyped ==
    /\ Decisions!TypeOK
    /\ verifs \in [Types -> {"none", "pending", "done"}]
    /\ logged \in [Decisions!Events -> Nat]
    /\ jobs \in [Workers -> Jobs \cup {None}]
    /\ \A w \in Workers :
        jobs[w] # None /\ jobs[w].op = "result" => jobs[w].event \in Decisions!Events

(* The event a worker handles is claimed by it alone and not yet logged.    *)
Handles(w, e) == jobs[w] # None /\ jobs[w].op = "result" /\ jobs[w].event = e

(* No two workers handle one event, and none an event already logged.       *)
Claimed ==
    \A w \in Workers : \A e \in Decisions!Events : Handles(w, e) =>
        /\ e \in received /\ logged[e] = 0
        /\ \A v \in Workers : Handles(v, e) => v = w

(* A worker that has judged the set holds the row, so that what it found    *)
(* still stands when it commits.                                            *)
Judging(w) == jobs[w] # None /\ jobs[w].at = "judged"

(* So the readiness such a worker found is the readiness now.               *)
JudgedUnderLock ==
    \A w \in Workers :
        /\ Judging(w) => holder = w
        /\ Judging(w) /\ jobs[w].op = "result" =>
             (jobs[w].ready <=> Decisions!Ready(jobs[w].event[1]))

(* The inductive invariant: what a worker has read is protected by its      *)
(* claim on the event and by the row lock.                                  *)
DecisionsInv ==
    DecisionsTyped /\ Decisions!ResultsCountOnce /\ Claimed /\ JudgedUnderLock

(* A fresh application, no event received.                                  *)
LEMMA DecisionsInitHolds ==
    ASSUME Decisions!FlowAssumption, Decisions!Init PROVE DecisionsInv
BY DEF DecisionsInv, DecisionsTyped, Claimed, Handles, Judging, JudgedUnderLock,
   Decisions!FlowAssumption, Decisions!Init, Decisions!TypeOK, Decisions!Statuses,
   Decisions!PreDecision, Decisions!ResultsCountOnce

(* Every step of a worker keeps the invariant, one per handler.             *)
LEMMA DecisionsStepKeeps ==
    ASSUME Decisions!FlowAssumption, DecisionsInv, [Decisions!Next]_Decisions!vars
    PROVE  DecisionsInv'
<1> USE DEF Decisions!FlowAssumption, DecisionsInv, DecisionsTyped, Decisions!TypeOK, Jobs
<1>1. ASSUME NEW t \in Types, Decisions!Initiate(t) PROVE DecisionsInv'
  <2>1. DecisionsTyped'
    BY <1>1 DEF Decisions!Initiate, Decisions!Statuses, Decisions!PreDecision,
       Decisions!Decided, Decisions!Outcomes, Decisions!Approval
  <2>2. Decisions!ResultsCountOnce' /\ Claimed'
    BY <1>1 DEF Decisions!Initiate, Decisions!ResultsCountOnce, Claimed, Handles
  <2>3. JudgedUnderLock'
    BY <1>1 DEF Decisions!Initiate, JudgedUnderLock, Judging, Decisions!Ready
  <2> QED
    BY <2>1, <2>2, <2>3
<1>2. ASSUME NEW w \in Workers, NEW e \in Decisions!Events, Decisions!Receive(w, e) PROVE DecisionsInv'
  <2>1. DecisionsTyped'
    BY <1>2 DEF Decisions!Receive, Decisions!Unclaimed, Decisions!Start, Decisions!Job,
       Decisions!Statuses, Decisions!PreDecision, Decisions!Decided, Decisions!Outcomes,
       Decisions!Approval
  <2>2. Decisions!ResultsCountOnce' /\ Claimed'
    <3>1. jobs[w] = None /\ e \notin received /\ logged[e] = 0
      BY <1>2 DEF Decisions!Receive, Decisions!Unclaimed, Decisions!Start,
         Decisions!ResultsCountOnce
    <3>2. jobs' = [jobs EXCEPT ![w] = Decisions!Job("result", e, "received")]
      BY <1>2 DEF Decisions!Receive, Decisions!Start
    <3>3. \A v \in Workers, f \in Decisions!Events :
            Handles(v, f)' => IF v = w THEN f = e ELSE Handles(v, f)
      BY <3>2 DEF Handles, Decisions!Job
    <3>4. received' = received \cup {e} /\ UNCHANGED logged
      BY <1>2 DEF Decisions!Receive
    <3>5. \A v \in Workers : ~Handles(v, e)
      BY <3>1 DEF Claimed
    <3>6. Claimed'
      <4> SUFFICES ASSUME NEW v \in Workers, NEW f \in Decisions!Events, Handles(v, f)'
                   PROVE  /\ f \in received' /\ logged'[f] = 0
                          /\ \A u \in Workers : Handles(u, f)' => u = v
        BY DEF Claimed
      <4>1. CASE v = w
        BY <4>1, <3>1, <3>3, <3>4, <3>5
      <4>2. CASE v # w
        BY <4>2, <3>3, <3>4, <3>5 DEF Claimed
      <4> QED
        BY <4>1, <4>2
    <3>7. Decisions!ResultsCountOnce'
      BY <3>4 DEF Decisions!ResultsCountOnce
    <3> QED
      BY <3>6, <3>7
  <2>3. JudgedUnderLock'
    BY <1>2 DEF Decisions!Receive, Decisions!Unclaimed, Decisions!Start, Decisions!Job,
       JudgedUnderLock, Judging, Decisions!Ready
  <2> QED
    BY <2>1, <2>2, <2>3
<1>3. ASSUME NEW w \in Workers, Decisions!Load(w) PROVE DecisionsInv'
  <2>1. DecisionsTyped'
    BY <1>3 DEF Decisions!Load, Decisions!At, Decisions!Finish, Decisions!Statuses,
       Decisions!PreDecision, Decisions!Decided, Decisions!Outcomes, Decisions!Approval
  <2>2. Decisions!ResultsCountOnce' /\ Claimed'
    BY <1>3 DEF Decisions!Load, Decisions!At, Decisions!Finish, Decisions!ResultsCountOnce,
       Claimed, Handles
  <2>3. JudgedUnderLock'
    BY <1>3 DEF Decisions!Load, Decisions!At, Decisions!Finish, JudgedUnderLock, Judging,
       Decisions!Ready
  <2> QED
    BY <2>1, <2>2, <2>3
<1>4. ASSUME NEW w \in Workers, Decisions!Judge(w) PROVE DecisionsInv'
  <2>1. DecisionsTyped'
    BY <1>4 DEF Decisions!Judge, Decisions!At, Decisions!LockFree, Decisions!Ready,
       Decisions!Statuses, Decisions!PreDecision, Decisions!Decided, Decisions!Outcomes,
       Decisions!Approval
  <2>2. Decisions!ResultsCountOnce' /\ Claimed'
    BY <1>4 DEF Decisions!Judge, Decisions!At, Decisions!LockFree, Decisions!Ready,
       Decisions!ResultsCountOnce, Claimed, Handles
  <2>3. JudgedUnderLock'
    <3>1. /\ holder = None /\ holder' = w /\ w # None /\ UNCHANGED verifs
          /\ \A v \in Workers : ~Judging(v)
      BY <1>4 DEF Decisions!Judge, Decisions!LockFree, JudgedUnderLock
    <3>2. \A v \in Workers : Judging(v)' => v = w
      BY <1>4, <3>1 DEF Decisions!Judge, Decisions!At, Judging
    <3>3. CASE /\ jobs[w].op = "result" /\ jobs[w] # None
               /\ jobs' = [jobs EXCEPT ![w].at = "judged",
                                      ![w].ready = Decisions!Ready(jobs[w].event[1])]
      BY <3>1, <3>2, <3>3 DEF JudgedUnderLock, Decisions!Ready
    <3>4. CASE /\ jobs[w].op = "submit" /\ jobs[w] # None
               /\ jobs' = [jobs EXCEPT ![w].at = "judged", ![w].ready = TRUE]
      BY <3>1, <3>2, <3>4 DEF JudgedUnderLock
    <3> QED
      BY <1>4, <3>3, <3>4 DEF Decisions!Judge
  <2> QED
    BY <2>1, <2>2, <2>3
<1>5. ASSUME NEW w \in Workers, Decisions!Submit(w) PROVE DecisionsInv'
  <2>1. DecisionsTyped'
    BY <1>5 DEF Decisions!Submit, Decisions!Start, Decisions!Job, Decisions!Statuses,
       Decisions!PreDecision, Decisions!Decided, Decisions!Outcomes, Decisions!Approval
  <2>2. Decisions!ResultsCountOnce' /\ Claimed'
    BY <1>5 DEF Decisions!Submit, Decisions!Start, Decisions!Job, Decisions!ResultsCountOnce,
       Claimed, Handles
  <2>3. JudgedUnderLock'
    BY <1>5 DEF Decisions!Submit, Decisions!Start, Decisions!Job, JudgedUnderLock, Judging,
       Decisions!Ready
  <2> QED
    BY <2>1, <2>2, <2>3
<1>6. ASSUME NEW w \in Workers, Decisions!CheckPending(w) PROVE DecisionsInv'
  <2>1. DecisionsTyped'
    BY <1>6 DEF Decisions!CheckPending, Decisions!At, Decisions!Finish, Decisions!Statuses,
       Decisions!PreDecision, Decisions!Decided, Decisions!Outcomes, Decisions!Approval
  <2>2. Decisions!ResultsCountOnce' /\ Claimed'
    BY <1>6 DEF Decisions!CheckPending, Decisions!At, Decisions!Finish,
       Decisions!ResultsCountOnce, Claimed, Handles
  <2>3. JudgedUnderLock'
    BY <1>6 DEF Decisions!CheckPending, Decisions!At, Decisions!Finish, JudgedUnderLock,
       Judging, Decisions!Ready
  <2> QED
    BY <2>1, <2>2, <2>3
<1>7. ASSUME NEW w \in Workers, Decisions!Commit(w) PROVE DecisionsInv'
  <2>1. DecisionsTyped'
    BY <1>7 DEF Decisions!Commit, Decisions!At, Decisions!Finish, Decisions!Refused,
       Decisions!Statuses, Decisions!PreDecision, Decisions!Decided, Decisions!Outcomes,
       Decisions!Approval
  <2>2. Decisions!ResultsCountOnce' /\ Claimed'
    BY <1>7 DEF Decisions!Commit, Decisions!At, Decisions!Finish, Decisions!Refused,
       Decisions!ResultsCountOnce, Claimed, Handles
  <2>3. JudgedUnderLock'
    BY <1>7 DEF Decisions!Commit, Decisions!At, Decisions!Finish, Decisions!Refused,
       JudgedUnderLock, Judging, Decisions!Ready
  <2> QED
    BY <2>1, <2>2, <2>3
<1>8. ASSUME NEW w \in Workers, Decisions!Crash(w) PROVE DecisionsInv'
  <2>1. DecisionsTyped'
    BY <1>8 DEF Decisions!Crash, Decisions!Finish, Decisions!Statuses, Decisions!PreDecision,
       Decisions!Decided, Decisions!Outcomes, Decisions!Approval
  <2>2. Decisions!ResultsCountOnce' /\ Claimed'
    BY <1>8 DEF Decisions!Crash, Decisions!Finish, Decisions!ResultsCountOnce, Claimed, Handles
  <2>3. JudgedUnderLock'
    BY <1>8 DEF Decisions!Crash, Decisions!Finish, JudgedUnderLock, Judging, Decisions!Ready
  <2> QED
    BY <2>1, <2>2, <2>3
<1>9. ASSUME NEW w \in Workers, NEW op \in Decisions!Moves, Decisions!OpenMove(w, op) PROVE DecisionsInv'
  <2>1. DecisionsTyped'
    BY <1>9 DEF Decisions!OpenMove, Decisions!Moves, Decisions!Start, Decisions!Job,
       Decisions!Statuses, Decisions!PreDecision, Decisions!Decided, Decisions!Outcomes,
       Decisions!Approval
  <2>2. Decisions!ResultsCountOnce' /\ Claimed'
    BY <1>9 DEF Decisions!OpenMove, Decisions!Moves, Decisions!Start, Decisions!Job,
       Decisions!ResultsCountOnce, Claimed, Handles
  <2>3. JudgedUnderLock'
    BY <1>9 DEF Decisions!OpenMove, Decisions!Moves, Decisions!Start, Decisions!Job,
       JudgedUnderLock, Judging, Decisions!Ready
  <2> QED
    BY <2>1, <2>2, <2>3
<1>10. ASSUME NEW w \in Workers, Decisions!CommitMove(w) PROVE DecisionsInv'
  <2>1. DecisionsTyped'
    BY <1>10 DEF Decisions!CommitMove, Decisions!At, Decisions!Finish, Decisions!Statuses,
       Decisions!PreDecision, Decisions!Decided, Decisions!Outcomes, Decisions!Approval
  <2>2. Decisions!ResultsCountOnce' /\ Claimed'
    BY <1>10 DEF Decisions!CommitMove, Decisions!At, Decisions!Finish,
       Decisions!ResultsCountOnce, Claimed, Handles
  <2>3. JudgedUnderLock'
    BY <1>10 DEF Decisions!CommitMove, Decisions!At, Decisions!Finish, JudgedUnderLock, Judging,
       Decisions!Ready
  <2> QED
    BY <2>1, <2>2, <2>3
<1>11. CASE UNCHANGED Decisions!vars
  BY <1>11 DEF Decisions!vars, Decisions!ResultsCountOnce, Claimed, Handles,
     JudgedUnderLock, Judging, Decisions!Ready
<1> QED
  BY <1>1, <1>2, <1>3, <1>4, <1>5, <1>6, <1>7, <1>8, <1>9, <1>10, <1>11 DEF Decisions!Next

(* The step that completes the set is the commit of a worker that found the *)
(* rest of it complete, so it decides the file.                             *)
LEMMA LastCommitDecides ==
    ASSUME Decisions!FlowAssumption, DecisionsInv, [Decisions!Next]_Decisions!vars,
           ~Decisions!AllDone, Decisions!AllDone'
    PROVE  file' \notin Decisions!PreDecision
<1> USE DEF DecisionsInv, DecisionsTyped
<1>1. verifs' # verifs
  BY DEF Decisions!AllDone
<1>2. ~ \E t \in Types : Decisions!Initiate(t)
  BY DEF Decisions!Initiate, Decisions!AllDone
<1>3. PICK w \in Workers : Decisions!Commit(w)
  BY <1>1, <1>2 DEF Decisions!Next, Decisions!vars, Decisions!Receive, Decisions!OpenMove,
     Decisions!Load, Decisions!Judge, Decisions!Submit, Decisions!CheckPending,
     Decisions!Crash, Decisions!CommitMove
<1> DEFINE t == jobs[w].event[1]
<1>4. /\ Judging(w) /\ jobs[w].op = "result" /\ ~Decisions!Refused(w)
      /\ verifs' = [verifs EXCEPT ![t] = "done"]
  BY <1>1, <1>3 DEF Decisions!Commit, Decisions!At, Judging
<1>5. Decisions!Ready(t)
  BY <1>4 DEF Decisions!AllDone, Decisions!Ready
<1>6. jobs[w].ready
  BY <1>4, <1>5 DEF JudgedUnderLock
<1>7. file' \in Decisions!Outcomes
  BY <1>3, <1>4, <1>6 DEF Decisions!Commit
<1> QED
  BY <1>7 DEF Decisions!Outcomes, Decisions!Approval, Decisions!PreDecision

---------------------------------------------------------------------------
(* Leads: listings, selections and charges *)

(* An interest row: a clinic's interest in a listing and its charge.        *)
Rows == [charge : Leads!Triggers \cup {None}, selected : BOOLEAN, booked : BOOLEAN]

(* What a session holds of a listing between two of its statements.         *)
Works == [op : {"pause", "select", "express", "book"}, listing : Listings, clinic : Clinics,
          flushed : BOOLEAN, listed : BOOLEAN, status : {"active", "paused", "closed"},
          accepted : Clinics \cup {None}, row : Rows \cup {None}]

(* The types of the listings, interest rows and sessions.                   *)
LeadsTyped ==
    /\ status \in [Listings -> {"none", "active", "paused", "closed"}]
    /\ live \subseteq Listings /\ listed \in BOOLEAN
    /\ accepted \in [Listings -> Clinics \cup {None}]
    /\ interest \in [Listings -> [Clinics -> Rows \cup {None}]]
    /\ work \in [Sessions -> Works \cup {Leads!Idle}]

(* A listing that took a clinic never becomes active again, whichever stale *)
(* pause is still written over it.                                          *)
TakenForGood == \A l \in Listings : accepted[l] # None => status[l] \in {"paused", "closed"}

(* One session at a time has written to a listing, and one that writes a    *)
(* selection finds the listing active until it commits.                     *)
WritersExclude ==
    \A s \in Sessions : Leads!Flushed(s) =>
        /\ \A r \in Sessions :
             Leads!Flushed(r) /\ work[r].listing = work[s].listing => r = s
        /\ work[s].op \in {"pause", "select"}
        /\ work[s].op = "select" =>
             /\ status[work[s].listing] = "active"
             /\ interest[work[s].listing][work[s].clinic] \in Rows

(* What a session has read and relies on still stands.                      *)
ReadStands ==
    \A s \in Sessions : work[s] # Leads!Idle =>
        /\ work[s].accepted # None => accepted[work[s].listing] = work[s].accepted
        /\ work[s].row # None => interest[work[s].listing][work[s].clinic] \in Rows

(* The inductive invariant of the listings.                                 *)
LeadsInv ==
    LeadsTyped /\ Leads!LeadSoldOnce /\ TakenForGood /\ WritersExclude /\ ReadStands

(* No listing, no interest, every session idle.                             *)
LEMMA LeadsInitHolds == ASSUME Leads!TriggerAssumption, Leads!Init PROVE LeadsInv
BY DEF LeadsInv, LeadsTyped, TakenForGood, WritersExclude, ReadStands, Leads!Init,
   Leads!TriggerAssumption, Leads!LeadSoldOnce, Leads!Flushed, Leads!Idle

(* What a write to one interest row leaves.                                 *)
LEMMA RowWritten ==
    ASSUME LeadsTyped, NEW l \in Listings, NEW c \in Clinics, NEW x \in Rows,
           interest' = [interest EXCEPT ![l][c] = x]
    PROVE  /\ interest' \in [Listings -> [Clinics -> Rows \cup {None}]]
           /\ \A k \in Listings, d \in Clinics :
                interest'[k][d] = IF k = l /\ d = c THEN x ELSE interest[k][d]
BY DEF LeadsTyped

(* A charge, made or already there, leaves who selected and booked.         *)
LEMMA ChargeKeepsRow ==
    ASSUME Leads!TriggerAssumption, NEW row \in Rows, NEW t \in Leads!Triggers
    PROVE  /\ Leads!Charged(row, t) \in Rows
           /\ Leads!Charged(row, t).selected = row.selected
           /\ Leads!Charged(row, t).booked = row.booked
           /\ Leads!Charged(row, t).charge \in {row.charge, t}
BY DEF Rows, Leads!Charged, Leads!TriggerAssumption

(* Every statement of a session keeps the invariant.                        *)
LEMMA LeadsStepKeeps ==
    ASSUME Leads!TriggerAssumption, LeadsInv, [Leads!Next]_Leads!vars
    PROVE  LeadsInv'
<1> USE DEF Leads!TriggerAssumption, Leads!Triggers, LeadsInv, LeadsTyped, Rows, Works,
            Leads!Idle, Leads!rows, Leads!Flushed
<1>1. ASSUME NEW l \in Listings, Leads!CreateListing(l) PROVE LeadsInv'
  <2>1. LeadsTyped'
    BY <1>1 DEF Leads!CreateListing
  <2>2. Leads!LeadSoldOnce'
    BY <1>1 DEF Leads!CreateListing, Leads!LeadSoldOnce, TakenForGood, WritersExclude, ReadStands
  <2>3. TakenForGood'
    BY <1>1 DEF Leads!CreateListing, TakenForGood, WritersExclude
  <2>4. WritersExclude'
    BY <1>1 DEF Leads!CreateListing, WritersExclude
  <2>5. ReadStands'
    BY <1>1 DEF Leads!CreateListing, ReadStands, WritersExclude, TakenForGood
  <2> QED
    BY <2>1, <2>2, <2>3, <2>4, <2>5
<1>2. ASSUME NEW l \in Listings, Leads!Expire(l) PROVE LeadsInv'
  <2>1. LeadsTyped'
    BY <1>2 DEF Leads!Expire
  <2>2. Leads!LeadSoldOnce'
    BY <1>2 DEF Leads!Expire, Leads!LeadSoldOnce, TakenForGood, WritersExclude, ReadStands
  <2>3. TakenForGood'
    BY <1>2 DEF Leads!Expire, TakenForGood, WritersExclude
  <2>4. WritersExclude'
    BY <1>2 DEF Leads!Expire, WritersExclude
  <2>5. ReadStands'
    BY <1>2 DEF Leads!Expire, ReadStands, WritersExclude, TakenForGood
  <2> QED
    BY <2>1, <2>2, <2>3, <2>4, <2>5
<1>3. ASSUME NEW s \in Sessions, Leads!Begin(s) PROVE LeadsInv'
  <2>1. LeadsTyped'
    BY <1>3 DEF Leads!Begin, Leads!Load
  <2>2. Leads!LeadSoldOnce'
    BY <1>3 DEF Leads!Begin, Leads!Load, Leads!LeadSoldOnce, TakenForGood, WritersExclude,
       ReadStands
  <2>3. TakenForGood'
    BY <1>3 DEF Leads!Begin, Leads!Load, TakenForGood, WritersExclude
  <2>4. WritersExclude'
    BY <1>3 DEF Leads!Begin, Leads!Load, WritersExclude
  <2>5. ReadStands'
    BY <1>3 DEF Leads!Begin, Leads!Load, ReadStands, WritersExclude, TakenForGood
  <2> QED
    BY <2>1, <2>2, <2>3, <2>4, <2>5
<1>4. ASSUME NEW s \in Sessions, Leads!Pause(s) PROVE LeadsInv'
  <2>1. /\ work[s] \in Works /\ work[s] # Leads!Idle /\ work[s].op = "pause"
        /\ \A r \in Sessions : ~(Leads!Flushed(r) /\ work[r].listing = work[s].listing)
        /\ UNCHANGED <<Leads!rows, live, listed>>
    BY <1>4 DEF Leads!Pause, Leads!Doing, Leads!Flush, Leads!RowFree
  <2>2. PICK b \in BOOLEAN :
          work' = [work EXCEPT ![s].flushed = TRUE, ![s].listed = b]
    BY <1>4 DEF Leads!Pause, Leads!Flush, Leads!HasLive
  <2>3. /\ work'[s] \in Works /\ work'[s] # Leads!Idle /\ work'[s].flushed
        /\ work'[s].op = "pause" /\ work'[s].listing = work[s].listing
        /\ work'[s].clinic = work[s].clinic /\ work'[s].row = work[s].row
        /\ work'[s].accepted = work[s].accepted
    BY <2>1, <2>2
  <2>4. /\ work' \in [Sessions -> Works \cup {Leads!Idle}]
        /\ \A r \in Sessions : r # s => work'[r] = work[r]
    BY <2>1, <2>2, <2>3
  <2>5. LeadsTyped' /\ Leads!LeadSoldOnce' /\ TakenForGood'
    BY <2>1, <2>4 DEF Leads!LeadSoldOnce, TakenForGood
  <2>6. ReadStands'
    BY <2>1, <2>3, <2>4 DEF ReadStands
  <2>7. work[s].op = "select" => /\ status[work[s].listing] = "active"
                                 /\ interest[work[s].listing][work[s].clinic] \in Rows
    BY <1>4, <2>1 DEF Leads!Pause, Leads!Doing
  <2>8. WritersExclude'
    <3> SUFFICES ASSUME NEW v \in Sessions, Leads!Flushed(v)'
                 PROVE  /\ \A r \in Sessions : Leads!Flushed(r)'
                              /\ work'[r].listing = work'[v].listing => r = v
                        /\ work'[v].op \in {"pause", "select"}
                        /\ work'[v].op = "select" =>
                             /\ status[work'[v].listing] = "active"
                             /\ interest[work'[v].listing][work'[v].clinic] \in Rows
      BY <2>1 DEF WritersExclude
    <3>1. CASE v = s
      BY <2>1, <2>3, <2>4, <2>7, <3>1
    <3>2. CASE v # s
      <4>1. work'[v] = work[v] /\ Leads!Flushed(v) /\ work[v].listing # work[s].listing
        BY <2>1, <2>4, <3>2
      <4>2. ASSUME NEW r \in Sessions, Leads!Flushed(r)', work'[r].listing = work'[v].listing
            PROVE  Leads!Flushed(r) /\ work[r].listing = work[v].listing
        <5>1. r # s
          BY <2>3, <4>1, <4>2
        <5> QED
          BY <2>4, <4>1, <4>2, <5>1
      <4> QED
        BY <4>1, <4>2 DEF WritersExclude
    <3> QED
      BY <3>1, <3>2
  <2> QED
    BY <2>5, <2>6, <2>8
<1>5. ASSUME NEW s \in Sessions, Leads!Select(s) PROVE LeadsInv'
  <2>1. /\ work[s] \in Works /\ work[s] # Leads!Idle /\ work[s].op = "select"
        /\ \A r \in Sessions : ~(Leads!Flushed(r) /\ work[r].listing = work[s].listing)
        /\ UNCHANGED <<Leads!rows, live, listed>>
    BY <1>5 DEF Leads!Select, Leads!Doing, Leads!Flush, Leads!RowFree
  <2>2. PICK b \in BOOLEAN :
          work' = [work EXCEPT ![s].flushed = TRUE, ![s].listed = b]
    BY <1>5 DEF Leads!Select, Leads!Flush, Leads!HasLive
  <2>3. /\ work'[s] \in Works /\ work'[s] # Leads!Idle /\ work'[s].flushed
        /\ work'[s].op = "select" /\ work'[s].listing = work[s].listing
        /\ work'[s].clinic = work[s].clinic /\ work'[s].row = work[s].row
        /\ work'[s].accepted = work[s].accepted
    BY <2>1, <2>2
  <2>4. /\ work' \in [Sessions -> Works \cup {Leads!Idle}]
        /\ \A r \in Sessions : r # s => work'[r] = work[r]
    BY <2>1, <2>2, <2>3
  <2>5. LeadsTyped' /\ Leads!LeadSoldOnce' /\ TakenForGood'
    BY <2>1, <2>4 DEF Leads!LeadSoldOnce, TakenForGood
  <2>6. ReadStands'
    BY <2>1, <2>3, <2>4 DEF ReadStands
  <2>7. work[s].op = "select" => /\ status[work[s].listing] = "active"
                                 /\ interest[work[s].listing][work[s].clinic] \in Rows
    BY <1>5, <2>1 DEF Leads!Select, Leads!StillActive, Leads!Doing
  <2>8. WritersExclude'
    <3> SUFFICES ASSUME NEW v \in Sessions, Leads!Flushed(v)'
                 PROVE  /\ \A r \in Sessions : Leads!Flushed(r)'
                              /\ work'[r].listing = work'[v].listing => r = v
                        /\ work'[v].op \in {"pause", "select"}
                        /\ work'[v].op = "select" =>
                             /\ status[work'[v].listing] = "active"
                             /\ interest[work'[v].listing][work'[v].clinic] \in Rows
      BY <2>1 DEF WritersExclude
    <3>1. CASE v = s
      BY <2>1, <2>3, <2>4, <2>7, <3>1
    <3>2. CASE v # s
      <4>1. work'[v] = work[v] /\ Leads!Flushed(v) /\ work[v].listing # work[s].listing
        BY <2>1, <2>4, <3>2
      <4>2. ASSUME NEW r \in Sessions, Leads!Flushed(r)', work'[r].listing = work'[v].listing
            PROVE  Leads!Flushed(r) /\ work[r].listing = work[v].listing
        <5>1. r # s
          BY <2>3, <4>1, <4>2
        <5> QED
          BY <2>4, <4>1, <4>2, <5>1
      <4> QED
        BY <4>1, <4>2 DEF WritersExclude
    <3> QED
      BY <3>1, <3>2
  <2> QED
    BY <2>5, <2>6, <2>8
<1>6. ASSUME NEW s \in Sessions, Leads!Refuse(s) PROVE LeadsInv'
  <2>1. LeadsTyped'
    BY <1>6 DEF Leads!Refuse, Leads!Give
  <2>2. Leads!LeadSoldOnce'
    BY <1>6 DEF Leads!Refuse, Leads!Give, Leads!LeadSoldOnce, TakenForGood, WritersExclude,
       ReadStands
  <2>3. TakenForGood'
    BY <1>6 DEF Leads!Refuse, Leads!Give, TakenForGood, WritersExclude
  <2>4. WritersExclude'
    BY <1>6 DEF Leads!Refuse, Leads!Give, WritersExclude
  <2>5. ReadStands'
    BY <1>6 DEF Leads!Refuse, Leads!Give, ReadStands, WritersExclude, TakenForGood
  <2> QED
    BY <2>1, <2>2, <2>3, <2>4, <2>5
<1>7. ASSUME NEW s \in Sessions, Leads!CommitPause(s) PROVE LeadsInv'
  <2>1. LeadsTyped'
    BY <1>7 DEF Leads!CommitPause, Leads!Give
  <2>2. Leads!LeadSoldOnce'
    BY <1>7 DEF Leads!CommitPause, Leads!Give, Leads!LeadSoldOnce, TakenForGood, WritersExclude,
       ReadStands
  <2>3. TakenForGood'
    BY <1>7 DEF Leads!CommitPause, Leads!Give, TakenForGood, WritersExclude
  <2>4. WritersExclude'
    BY <1>7 DEF Leads!CommitPause, Leads!Give, WritersExclude
  <2>5. ReadStands'
    BY <1>7 DEF Leads!CommitPause, Leads!Give, ReadStands, WritersExclude, TakenForGood
  <2> QED
    BY <2>1, <2>2, <2>3, <2>4, <2>5
<1>8. ASSUME NEW s \in Sessions, Leads!CommitSelect(s) PROVE LeadsInv'
  <2> DEFINE l == work[s].listing
             c == work[s].clinic
             old == interest[l][c]
             new == [Leads!Charged(old, "patient_selected") EXCEPT !.selected = TRUE]
  <2>1. /\ work[s] # Leads!Idle /\ Leads!Flushed(s) /\ work[s].op = "select"
        /\ l \in Listings /\ c \in Clinics /\ work[s] \in Works
        /\ interest' = [interest EXCEPT ![l][c] = new]
        /\ accepted' = [accepted EXCEPT ![l] = c]
        /\ work' = [work EXCEPT ![s] = Leads!Idle]
    BY <1>8 DEF Leads!CommitSelect, Leads!Doing, Leads!Give
  <2>2. old \in Rows
    BY <2>1 DEF WritersExclude, ReadStands
  <2>3. new \in Rows
    <3>1. Leads!Charged(old, "patient_selected") \in Rows
      BY <2>2, ChargeKeepsRow
    <3> QED
      BY <3>1
  <2> HIDE DEF new, old
  <2>4. /\ interest' \in [Listings -> [Clinics -> Rows \cup {None}]]
        /\ \A k \in Listings, d \in Clinics :
             interest'[k][d] = IF k = l /\ d = c THEN new ELSE interest[k][d]
    BY <2>1, <2>3, RowWritten
  <2>5. LeadsTyped'
    <3>1. /\ status' \in [Listings -> {"none", "active", "paused", "closed"}]
          /\ live' \subseteq Listings /\ listed' \in BOOLEAN
          /\ accepted' \in [Listings -> Clinics \cup {None}]
      BY <1>8, <2>1 DEF Leads!CommitSelect
    <3>2. work' \in [Sessions -> Works \cup {Leads!Idle}]
      BY <2>1
    <3> QED
      BY <2>4, <3>1, <3>2
  <2> accepted'[l] = c /\ \A k \in Listings : k # l => accepted'[k] = accepted[k]
    BY <2>1 DEF ReadStands
  <2>6. \A k \in Listings, d \in Clinics : interest'[k][d] # None /\ accepted'[k] # d =>
           (k # l \/ d # c) /\ interest[k][d] # None /\ accepted[k] # d
    BY <2>1, <2>4 DEF TakenForGood, WritersExclude, ReadStands
  <2>7. Leads!LeadSoldOnce'
    <3> SUFFICES ASSUME NEW k \in Listings, NEW d \in Clinics,
                        interest'[k][d] # None /\ accepted'[k] # d
                 PROVE  /\ ~interest'[k][d].selected /\ ~interest'[k][d].booked
                        /\ interest'[k][d].charge \notin {"patient_selected", "appointment_booked"}
      BY DEF Leads!LeadSoldOnce
    <3>1. interest'[k][d] = interest[k][d]
      BY <2>4, <2>6
    <3> QED
      BY <2>6, <3>1 DEF Leads!LeadSoldOnce
  <2>8. TakenForGood'
    BY <1>8, <2>1 DEF Leads!CommitSelect, TakenForGood, WritersExclude
  <2>9. WritersExclude'
    <3> SUFFICES ASSUME NEW v \in Sessions, Leads!Flushed(v)'
                 PROVE  /\ \A r \in Sessions : Leads!Flushed(r)'
                              /\ work'[r].listing = work'[v].listing => r = v
                        /\ work'[v].op \in {"pause", "select"}
                        /\ work'[v].op = "select" =>
                             /\ status'[work'[v].listing] = "active"
                             /\ interest'[work'[v].listing][work'[v].clinic] \in Rows
      BY DEF WritersExclude
    <3>1. /\ v # s /\ work'[v] = work[v] /\ Leads!Flushed(v) /\ work[v] \in Works
          /\ \A r \in Sessions : Leads!Flushed(r)' => r # s /\ work'[r] = work[r] /\ Leads!Flushed(r)
      BY <2>1
    <3>2. /\ \A r \in Sessions : Leads!Flushed(r)
                              /\ work[r].listing = work[v].listing => r = v
          /\ work[v].op \in {"pause", "select"}
          /\ work[v].op = "select" =>
               /\ status[work[v].listing] = "active"
               /\ interest[work[v].listing][work[v].clinic] \in Rows
      BY <3>1 DEF WritersExclude
    <3>3. status'[work[v].listing] = status[work[v].listing]
      BY <1>8, <2>1, <3>1, <3>2 DEF Leads!CommitSelect
    <3> QED
      BY <2>3, <2>4, <3>1, <3>2, <3>3
  <2>10. ReadStands'
    BY <2>1, <2>3, <2>4 DEF ReadStands, WritersExclude, TakenForGood
  <2> QED
    BY <2>5, <2>7, <2>8, <2>9, <2>10
<1>9. ASSUME NEW s \in Sessions, Leads!Express(s) PROVE LeadsInv'
  <2> DEFINE l == work[s].listing
             c == work[s].clinic
             new == IF interest[l][c] = None
                    THEN Leads!Charged(Leads!NewInterest, "expressed_interest")
                    ELSE interest[l][c]
  <2>1. /\ work[s] # Leads!Idle /\ work[s] \in Works /\ l \in Listings /\ c \in Clinics
        /\ interest' = [interest EXCEPT ![l][c] = new]
        /\ work' = [work EXCEPT ![s] = Leads!Idle]
        /\ UNCHANGED <<status, accepted, live, listed>>
    BY <1>9 DEF Leads!Express, Leads!Doing, Leads!Give
  <2>2. Leads!NewInterest \in Rows
    BY DEF Leads!NewInterest
  <2>3. /\ new \in Rows
        /\ interest[l][c] = None =>
             /\ ~new.selected /\ ~new.booked
             /\ new.charge \notin {"patient_selected", "appointment_booked"}
        /\ interest[l][c] # None => new = interest[l][c]
    <3>1. LET row == Leads!Charged(Leads!NewInterest, "expressed_interest")
          IN  /\ row \in Rows /\ ~row.selected /\ ~row.booked
              /\ row.charge \in {None, "expressed_interest"}
      BY <2>2, ChargeKeepsRow DEF Leads!NewInterest
    <3> QED
      BY <2>1, <3>1
  <2> HIDE DEF new
  <2>4. /\ interest' \in [Listings -> [Clinics -> Rows \cup {None}]]
        /\ \A k \in Listings, d \in Clinics :
             interest'[k][d] = IF k = l /\ d = c THEN new ELSE interest[k][d]
    BY <2>1, <2>3, RowWritten
  <2>5. LeadsTyped'
    BY <2>1, <2>4
  <2>6. Leads!LeadSoldOnce'
    BY <2>1, <2>3, <2>4 DEF Leads!LeadSoldOnce
  <2>7. TakenForGood'
    BY <2>1 DEF TakenForGood
  <2>8. WritersExclude'
    BY <2>1, <2>3, <2>4 DEF WritersExclude
  <2>9. ReadStands'
    BY <2>1, <2>3, <2>4 DEF ReadStands
  <2> QED
    BY <2>5, <2>6, <2>7, <2>8, <2>9
<1>10. ASSUME NEW s \in Sessions, Leads!Book(s) PROVE LeadsInv'
  <2> DEFINE l == work[s].listing
             c == work[s].clinic
             old == interest[l][c]
             new == [Leads!Charged(old, "appointment_booked") EXCEPT !.booked = TRUE]
  <2>1. /\ work[s] # Leads!Idle /\ work[s].accepted = work[s].clinic /\ work[s].row # None
        /\ l \in Listings /\ c \in Clinics /\ work[s] \in Works
        /\ interest' = [interest EXCEPT ![l][c] = new]
        /\ accepted' = accepted
        /\ work' = [work EXCEPT ![s] = Leads!Idle]
    BY <1>10 DEF Leads!Book, Leads!Doing, Leads!Give
  <2>2. old \in Rows
    BY <2>1 DEF WritersExclude, ReadStands
  <2>3. new \in Rows
    <3>1. Leads!Charged(old, "appointment_booked") \in Rows
      BY <2>2, ChargeKeepsRow
    <3> QED
      BY <3>1
  <2> HIDE DEF new, old
  <2>4. /\ interest' \in [Listings -> [Clinics -> Rows \cup {None}]]
        /\ \A k \in Listings, d \in Clinics :
             interest'[k][d] = IF k = l /\ d = c THEN new ELSE interest[k][d]
    BY <2>1, <2>3, RowWritten
  <2>5. LeadsTyped'
    <3>1. /\ status' \in [Listings -> {"none", "active", "paused", "closed"}]
          /\ live' \subseteq Listings /\ listed' \in BOOLEAN
          /\ accepted' \in [Listings -> Clinics \cup {None}]
      BY <1>10, <2>1 DEF Leads!Book
    <3>2. work' \in [Sessions -> Works \cup {Leads!Idle}]
      BY <2>1
    <3> QED
      BY <2>4, <3>1, <3>2
  <2> accepted'[l] = c /\ \A k \in Listings : k # l => accepted'[k] = accepted[k]
    BY <2>1 DEF ReadStands
  <2>6. \A k \in Listings, d \in Clinics : interest'[k][d] # None /\ accepted'[k] # d =>
           (k # l \/ d # c) /\ interest[k][d] # None /\ accepted[k] # d
    BY <2>1, <2>4 DEF TakenForGood, WritersExclude, ReadStands
  <2>7. Leads!LeadSoldOnce'
    <3> SUFFICES ASSUME NEW k \in Listings, NEW d \in Clinics,
                        interest'[k][d] # None /\ accepted'[k] # d
                 PROVE  /\ ~interest'[k][d].selected /\ ~interest'[k][d].booked
                        /\ interest'[k][d].charge \notin {"patient_selected", "appointment_booked"}
      BY DEF Leads!LeadSoldOnce
    <3>1. interest'[k][d] = interest[k][d]
      BY <2>4, <2>6
    <3> QED
      BY <2>6, <3>1 DEF Leads!LeadSoldOnce
  <2>8. TakenForGood'
    BY <1>10, <2>1 DEF Leads!Book, TakenForGood, WritersExclude
  <2>9. WritersExclude'
    <3> SUFFICES ASSUME NEW v \in Sessions, Leads!Flushed(v)'
                 PROVE  /\ \A r \in Sessions : Leads!Flushed(r)'
                              /\ work'[r].listing = work'[v].listing => r = v
                        /\ work'[v].op \in {"pause", "select"}
                        /\ work'[v].op = "select" =>
                             /\ status'[work'[v].listing] = "active"
                             /\ interest'[work'[v].listing][work'[v].clinic] \in Rows
      BY DEF WritersExclude
    <3>1. /\ v # s /\ work'[v] = work[v] /\ Leads!Flushed(v) /\ work[v] \in Works
          /\ \A r \in Sessions : Leads!Flushed(r)' => r # s /\ work'[r] = work[r] /\ Leads!Flushed(r)
      BY <2>1
    <3>2. /\ \A r \in Sessions : Leads!Flushed(r)
                              /\ work[r].listing = work[v].listing => r = v
          /\ work[v].op \in {"pause", "select"}
          /\ work[v].op = "select" =>
               /\ status[work[v].listing] = "active"
               /\ interest[work[v].listing][work[v].clinic] \in Rows
      BY <3>1 DEF WritersExclude
    <3>3. status'[work[v].listing] = status[work[v].listing]
      BY <1>10, <2>1, <3>1, <3>2 DEF Leads!Book
    <3> QED
      BY <2>3, <2>4, <3>1, <3>2, <3>3
  <2>10. ReadStands'
    BY <2>1, <2>3, <2>4 DEF ReadStands, WritersExclude, TakenForGood
  <2> QED
    BY <2>5, <2>7, <2>8, <2>9, <2>10
<1>11. CASE UNCHANGED Leads!vars
  BY <1>11 DEF Leads!vars, Leads!LeadSoldOnce, TakenForGood, WritersExclude, ReadStands
<1> QED
  BY <1>1, <1>2, <1>3, <1>4, <1>5, <1>6, <1>7, <1>8, <1>9, <1>10, <1>11 DEF Leads!Next

---------------------------------------------------------------------------
(* Deals: offers, acceptances, the application agreement *)

(* The proofs about LoanOffers, as the two lanes instantiate it.            *)
Accepting == INSTANCE LoanOffersProofs WITH
    ActivationBooksLoan <- FALSE, MaxDocs <- MaxSent, docs <- agreements

(* The same for the lane where the signed agreement books the loan.         *)
Signing == INSTANCE LoanOffersProofs WITH
    Offers <- SignedOffers, ActivationBooksLoan <- TRUE, docs <- agreements

(* The lane's component and the one the proofs are about are the same.      *)
LEMMA AcceptancesAgree ==
    /\ Acceptances!OffersAssumption => Accepting!OffersAssumption
    /\ Acceptances!Init => Accepting!Init
    /\ Acceptances!vars = Accepting!vars
    /\ Accepting!OneAcceptance => Acceptances!OneAcceptance
BY DEF Acceptances!OffersAssumption, Accepting!OffersAssumption, Acceptances!Init,
   Accepting!Init, Acceptances!vars, Accepting!vars, Acceptances!OneAcceptance,
   Accepting!OneAcceptance, Acceptances!Cardinality, Accepting!Cardinality

(* So are its steps.                                                        *)
LEMMA AcceptanceStepsAgree == Acceptances!Next => Accepting!Next
BY DEF Acceptances!Offerable, Accepting!Offerable, Acceptances!PreActivation,
   Accepting!PreActivation, Acceptances!Closed, Accepting!Closed, Acceptances!Terminal,
   Accepting!Terminal, Acceptances!Returnable, Accepting!Returnable, Acceptances!Statuses,
   Accepting!Statuses, Acceptances!Approval, Accepting!Approval, Acceptances!Late,
   Accepting!Late, Acceptances!Open, Accepting!Open, Acceptances!Issued, Accepting!Issued,
   Acceptances!Booked, Accepting!Booked, Acceptances!Load, Accepting!Load, Acceptances!Doing,
   Accepting!Doing, Acceptances!Done, Accepting!Done, Acceptances!Unlocked, Accepting!Unlocked,
   Acceptances!Restatus, Accepting!Restatus, Acceptances!MayOffer, Accepting!MayOffer,
   Acceptances!CreateOffer, Accepting!CreateOffer, Acceptances!WithdrawOffer,
   Accepting!WithdrawOffer, Acceptances!PassExpiry, Accepting!PassExpiry, Acceptances!Lapses,
   Accepting!Lapses, Acceptances!Sweep, Accepting!Sweep, Acceptances!ExpireJob,
   Accepting!ExpireJob, Acceptances!LocksOffers, Accepting!LocksOffers, Acceptances!LockOffers,
   Accepting!LockOffers, Acceptances!NewLoan, Accepting!NewLoan, Acceptances!BookLoan,
   Accepting!BookLoan, Acceptances!Accept, Accepting!Accept, Acceptances!AcceptRolledBack,
   Accepting!AcceptRolledBack, Acceptances!AutoDecide, Accepting!AutoDecide,
   Acceptances!MayDecide, Accepting!MayDecide, Acceptances!StaffDecide, Accepting!StaffDecide,
   Acceptances!MayMove, Accepting!MayMove, Acceptances!StatusMove, Accepting!StatusMove,
   Acceptances!SendCall, Accepting!SendCall, Acceptances!SendCommit, Accepting!SendCommit,
   Acceptances!BorrowerAnswers, Accepting!BorrowerAnswers, Acceptances!OnAgreementSigned,
   Accepting!OnAgreementSigned, Acceptances!OnAgreementDeclined, Accepting!OnAgreementDeclined,
   Acceptances!Activatable, Accepting!Activatable, Acceptances!ActivateLoan,
   Accepting!ActivateLoan, Acceptances!Begin, Accepting!Begin, Acceptances!GiveUp,
   Accepting!GiveUp, Acceptances!Work, Accepting!Work, Acceptances!Cardinality,
   Accepting!Cardinality, Acceptances!Next, Accepting!Next

(* The same where the signed agreement books the loan.                      *)
LEMMA SignaturesAgree ==
    /\ Signatures!OffersAssumption => Signing!OffersAssumption
    /\ Signatures!Init => Signing!Init
    /\ Signatures!vars = Signing!vars
    /\ Signing!BookedOnSignature => Signatures!BookedOnSignature
BY DEF Signatures!OffersAssumption, Signing!OffersAssumption, Signatures!Init, Signing!Init,
   Signatures!vars, Signing!vars, Signatures!BookedOnSignature, Signing!BookedOnSignature,
   Signatures!Booked, Signing!Booked

(* And its steps.                                                           *)
LEMMA SignatureStepsAgree == Signatures!Next => Signing!Next
BY DEF Signatures!Offerable, Signing!Offerable, Signatures!PreActivation, Signing!PreActivation,
   Signatures!Closed, Signing!Closed, Signatures!Terminal, Signing!Terminal,
   Signatures!Returnable, Signing!Returnable, Signatures!Statuses, Signing!Statuses,
   Signatures!Approval, Signing!Approval, Signatures!Late, Signing!Late, Signatures!Open,
   Signing!Open, Signatures!Issued, Signing!Issued, Signatures!Booked, Signing!Booked,
   Signatures!Load, Signing!Load, Signatures!Doing, Signing!Doing, Signatures!Done,
   Signing!Done, Signatures!Unlocked, Signing!Unlocked, Signatures!Restatus, Signing!Restatus,
   Signatures!MayOffer, Signing!MayOffer, Signatures!CreateOffer, Signing!CreateOffer,
   Signatures!WithdrawOffer, Signing!WithdrawOffer, Signatures!PassExpiry, Signing!PassExpiry,
   Signatures!Lapses, Signing!Lapses, Signatures!Sweep, Signing!Sweep, Signatures!ExpireJob,
   Signing!ExpireJob, Signatures!LocksOffers, Signing!LocksOffers, Signatures!LockOffers,
   Signing!LockOffers, Signatures!NewLoan, Signing!NewLoan, Signatures!BookLoan,
   Signing!BookLoan, Signatures!Accept, Signing!Accept, Signatures!AcceptRolledBack,
   Signing!AcceptRolledBack, Signatures!AutoDecide, Signing!AutoDecide, Signatures!MayDecide,
   Signing!MayDecide, Signatures!StaffDecide, Signing!StaffDecide, Signatures!MayMove,
   Signing!MayMove, Signatures!StatusMove, Signing!StatusMove, Signatures!SendCall,
   Signing!SendCall, Signatures!SendCommit, Signing!SendCommit, Signatures!BorrowerAnswers,
   Signing!BorrowerAnswers, Signatures!OnAgreementSigned, Signing!OnAgreementSigned,
   Signatures!OnAgreementDeclined, Signing!OnAgreementDeclined, Signatures!Activatable,
   Signing!Activatable, Signatures!ActivateLoan, Signing!ActivateLoan, Signatures!Begin,
   Signing!Begin, Signatures!GiveUp, Signing!GiveUp, Signatures!Work, Signing!Work,
   Signatures!Cardinality, Signing!Cardinality, Signatures!Next, Signing!Next

(* And their types.                                                         *)
LEMMA AcceptanceTypesAgree == Accepting!TypeOK => Acceptances!TypeOK
BY DEF Accepting!TypeOK, Acceptances!TypeOK, Accepting!Statuses, Acceptances!Statuses,
   Accepting!Offerable, Acceptances!Offerable, Accepting!PreActivation,
   Acceptances!PreActivation, Accepting!Terminal, Acceptances!Terminal, Accepting!Closed,
   Acceptances!Closed

(* The same where the signed agreement books the loan.                      *)
LEMMA SignatureTypesAgree == Signing!TypeOK => Signatures!TypeOK
BY DEF Signing!TypeOK, Signatures!TypeOK, Signing!Statuses, Signatures!Statuses,
   Signing!Offerable, Signatures!Offerable, Signing!PreActivation, Signatures!PreActivation,
   Signing!Terminal, Signatures!Terminal, Signing!Closed, Signatures!Closed

(* What the lane that is open knows of its application.                     *)
LaneDeals ==
    /\ lane = "acceptances" => Accepting!DealsInv
    /\ lane = "signatures" => Signing!DealsInv

---------------------------------------------------------------------------
(* Payouts: the vendor wallet and its disbursements                         *)

(* What a row draws on the wallet: its amount and its fee.                  *)
Weights(R) == [i \in DOMAIN R |-> R[i].amount + R[i].fee]

(* The rows whose status is among the given ones.                           *)
Drawing(R, statuses) == {i \in DOMAIN R : R[i].status \in statuses}

(* What these rows draw together.                                           *)
Drawn(R, statuses) == SumOf(Weights(R), Drawing(R, statuses))

(* A disbursement row.                                                      *)
PayoutRows == [kind : {"extra", "auto"}, month : Nat, status : Payouts!Statuses,
               amount : Nat, fee : Nat, ref : BOOLEAN]

(* The steps of execute_disbursement.                                       *)
PayoutSteps == {"idle", "claim", "push", "record", "ack"}

(* What the rail did with a row's transfer.                                 *)
RailStates == {"unasked", "taken", "paid", "refused"}

(* A payout planned on a wallet; `seen` is the number of rows it read, then *)
(* the row it claimed.                                                      *)
PayoutPlans == [kind : {"extra", "auto"}, month : Nat, amount : Nat, fee : Nat, seen : Nat]

(* The types of the wallet, its rows and the requests.                      *)
PayoutsTyped ==
    /\ Payouts!TypeOK
    /\ month \in Nat /\ peak \in Nat /\ raced \in BOOLEAN
    /\ rows \in Seq(PayoutRows) /\ rail \in Seq(RailStates) /\ Len(rail) = Len(rows)
    /\ pc \in [Procs -> PayoutSteps]
    /\ reply \in [Procs -> Payouts!Answers \cup {None}]
    /\ plan \in [Procs -> PayoutPlans \cup {None}]
    /\ \A p \in Procs : /\ pc[p] # "idle" => plan[p] \in PayoutPlans
                        /\ pc[p] = "claim" => plan[p].amount > 0

(* What a request that made a claim knows of its row: the row is its own,   *)
(* nobody answers for it until it is recorded, and the rail stands by the   *)
(* answer it gave.                                                          *)
Pushing(p) == pc[p] \in {"push", "record", "ack"}

(* The rail stands by a final answer.                                       *)
AnswerStands(answer, outcome) ==
    /\ answer = "completed" => outcome = "paid"
    /\ answer \in {"failed", "permanent"} => outcome = "refused"

(* A request that made a claim owns its row until it acknowledged it.       *)
OwnRow ==
    \A p \in Procs : Pushing(p) =>
        /\ plan[p].seen \in DOMAIN rows
        /\ \A q \in Procs : Pushing(q) /\ plan[q].seen = plan[p].seen => q = p
        /\ pc[p] \in {"push", "record"} =>
             rows[plan[p].seen].status = "pending" /\ ~rows[plan[p].seen].ref
        /\ pc[p] = "push" => rail[plan[p].seen] = "unasked"
        /\ pc[p] \in {"record", "ack"} =>
             reply[p] \in Payouts!Answers /\ AnswerStands(reply[p], rail[plan[p].seen])

(* A plan on an up to date wallet still fits under what was once due.       *)
PlansFit ==
    /\ Payouts!vendor_share_cents(cleared) <= peak
    /\ \A p \in Procs : pc[p] = "claim" =>
        /\ plan[p].seen <= Len(rows)
        /\ plan[p].seen = Len(rows) =>
             Payouts!disbursed(Payouts!Counted) + plan[p].amount + plan[p].fee <= peak

(* The inductive invariant of the payouts.                                  *)
PayoutsInv == PayoutsTyped /\ OwnRow /\ Payouts!PaidMoneyHeld /\ PlansFit /\ Payouts!Entitled

(* The rows to add up are finitely many, their weights natural.             *)
LEMMA DrawingFinite ==
    ASSUME NEW R \in Seq(PayoutRows), NEW statuses
    PROVE  /\ IsFiniteSet(Drawing(R, statuses))
           /\ \A i \in Drawing(R, statuses) : Weights(R)[i] = R[i].amount + R[i].fee
           /\ \A i \in Drawing(R, statuses) : Weights(R)[i] \in Nat
<1>1. DOMAIN R = 1..Len(R) /\ IsFiniteSet(1..Len(R))
  BY FS_Interval
<1>2. Drawing(R, statuses) \in SUBSET (1..Len(R))
  BY <1>1 DEF Drawing
<1>3. IsFiniteSet(Drawing(R, statuses))
  BY <1>1, <1>2, FS_Subset
<1>4. \A i \in Drawing(R, statuses) : i \in DOMAIN R /\ R[i] \in PayoutRows
  BY <1>1 DEF Drawing
<1>5. \A i \in Drawing(R, statuses) : R[i].amount + R[i].fee \in Nat
  BY <1>4 DEF PayoutRows
<1>6. \A i \in Drawing(R, statuses) : Weights(R)[i] = R[i].amount + R[i].fee
  BY <1>4 DEF Weights
<1> QED
  BY <1>3, <1>5, <1>6

(* The fold of the wallet (disbursed) is the sum of the weights.            *)
LEMMA DisbursedIsDrawn ==
    ASSUME NEW statuses, rows \in Seq(PayoutRows)
    PROVE  Payouts!disbursed(statuses) = Drawn(rows, statuses)
<1> DEFINE S == Drawing(rows, statuses)
           w == Weights(rows)
           Fits(i) == i = [s \in SUBSET S |->
                        IF s = {} THEN 0
                        ELSE rows[Pick(s)].amount + rows[Pick(s)].fee + i[s \ {Pick(s)}]]
           iter == CHOOSE i : Fits(i)
<1>1. Payouts!disbursed(statuses) = iter[S]
  BY DEF Payouts!disbursed, Payouts!MapThenSumSet, Payouts!MapThenFoldSet, Pick, Payouts!Ids,
     Drawing
<1>2. IsFiniteSet(S) /\ \A y \in S : w[y] \in Nat /\ w[y] = rows[y].amount + rows[y].fee
  BY DrawingFinite
<1>3. \A s \in SUBSET S : s # {} => Pick(s) \in S
  BY DEF Pick
<1> HIDE DEF S, w
<1>4. \A i : Fits(i) <=> Adds(i, w, S)
  BY <1>2, <1>3 DEF Adds
<1>5. Adds(iter, w, S)
  BY <1>2, <1>4, SumAdds
<1> HIDE DEF iter
<1> QED
  BY <1>1, <1>2, <1>5, AddsIsSum DEF Drawn, S, w

(* The same of the next state's rows.                                       *)
LEMMA DisbursedNextIsDrawn ==
    ASSUME NEW statuses, rows' \in Seq(PayoutRows)
    PROVE  Payouts!disbursed(statuses)' = Drawn(rows', statuses)
<1> DEFINE S == Drawing(rows', statuses)
           w == Weights(rows')
           Fits(i) == i = [s \in SUBSET S |->
                        IF s = {} THEN 0
                        ELSE rows'[Pick(s)].amount + rows'[Pick(s)].fee + i[s \ {Pick(s)}]]
           iter == CHOOSE i : Fits(i)
<1>1. Payouts!disbursed(statuses)' = iter[S]
  BY DEF Payouts!disbursed, Payouts!MapThenSumSet, Payouts!MapThenFoldSet, Pick, Payouts!Ids,
     Drawing
<1>2. IsFiniteSet(S) /\ \A y \in S : w[y] \in Nat /\ w[y] = rows'[y].amount + rows'[y].fee
  BY DrawingFinite
<1>3. \A s \in SUBSET S : s # {} => Pick(s) \in S
  BY DEF Pick
<1> HIDE DEF S, w
<1>4. \A i : Fits(i) <=> Adds(i, w, S)
  BY <1>2, <1>3 DEF Adds
<1>5. Adds(iter, w, S)
  BY <1>2, <1>4, SumAdds
<1> HIDE DEF iter
<1> QED
  BY <1>1, <1>2, <1>5, AddsIsSum DEF Drawn, S, w

(* Rows that leave the given statuses draw less.                            *)
LEMMA DrawnFalls ==
    ASSUME NEW R \in Seq(PayoutRows), NEW Q \in Seq(PayoutRows), Len(Q) = Len(R), NEW statuses,
           \A i \in DOMAIN R : /\ Q[i].amount = R[i].amount /\ Q[i].fee = R[i].fee
                               /\ Q[i].status \in statuses => R[i].status \in statuses
    PROVE  Drawn(Q, statuses) <= Drawn(R, statuses)
<1>1. Drawing(Q, statuses) \in SUBSET Drawing(R, statuses)
  BY DEF Drawing
<1>2. \A i \in Drawing(Q, statuses) : Weights(Q)[i] = Weights(R)[i]
  BY DEF Drawing, Weights
<1>3. SumOf(Weights(Q), Drawing(Q, statuses)) = SumOf(Weights(R), Drawing(Q, statuses))
  BY <1>2, SumSame
<1> QED
  BY <1>1, <1>3, DrawingFinite, SumShrinks DEF Drawn

(* A sum of draws is a natural number.                                      *)
LEMMA DrawnIsNat ==
    ASSUME NEW R \in Seq(PayoutRows), NEW statuses PROVE Drawn(R, statuses) \in Nat
BY DrawingFinite, SumShrinks DEF Drawn

(* A claimed row adds its amount and its fee.                               *)
LEMMA DrawnGrows ==
    ASSUME NEW R \in Seq(PayoutRows), NEW x \in PayoutRows, NEW statuses, x.status \in statuses
    PROVE  Drawn(Append(R, x), statuses) = Drawn(R, statuses) + x.amount + x.fee
<1> DEFINE Q == Append(R, x)
           n == Len(R) + 1
<1>1. /\ Q \in Seq(PayoutRows) /\ DOMAIN Q = 1..n /\ DOMAIN R = 1..Len(R) /\ Len(R) \in Nat
      /\ Q[n] = x /\ \A i \in 1..Len(R) : Q[i] = R[i]
  OBVIOUS
<1> HIDE DEF Q
<1>2. n \in Drawing(Q, statuses) /\ Drawing(Q, statuses) \ {n} = Drawing(R, statuses)
  BY <1>1 DEF Drawing
<1>3. \A i \in Drawing(R, statuses) : Weights(Q)[i] = Weights(R)[i]
  BY <1>1 DEF Drawing, Weights
<1>4. Weights(Q)[n] = x.amount + x.fee
  BY <1>1 DEF Weights
<1>5. Drawn(Q, statuses) = Weights(Q)[n] + SumOf(Weights(Q), Drawing(R, statuses))
  <2>1. /\ IsFiniteSet(Drawing(Q, statuses))
        /\ \A i \in Drawing(Q, statuses) : Weights(Q)[i] \in Nat
    BY <1>1, DrawingFinite
  <2>2. SumOf(Weights(Q), Drawing(Q, statuses)) =
          Weights(Q)[n] + SumOf(Weights(Q), Drawing(Q, statuses) \ {n})
    BY <1>2, <2>1, SumStep
  <2> QED
    BY <1>2, <2>2 DEF Drawn
<1>6. SumOf(Weights(Q), Drawing(R, statuses)) = Drawn(R, statuses)
  BY <1>3, SumSame DEF Drawn
<1>7. Drawn(R, statuses) \in Nat /\ x.amount \in Nat /\ x.fee \in Nat
  BY DrawnIsNat DEF PayoutRows
<1> QED
  BY <1>4, <1>5, <1>6, <1>7 DEF Q

(* What is in flight or settled is one sum.                                 *)
LEMMA CountedSplits ==
    ASSUME rows \in Seq(PayoutRows)
    PROVE  /\ Payouts!disbursed({"completed"}) + Payouts!disbursed({"pending", "processing"})
                = Payouts!disbursed(Payouts!Counted)
           /\ Payouts!disbursed({"completed"}) \in Nat
           /\ Payouts!disbursed({"pending", "processing"}) \in Nat
<1> DEFINE A == Drawing(rows, {"completed"})
           B == Drawing(rows, {"pending", "processing"})
<1>1. A \cup B = Drawing(rows, Payouts!Counted) /\ A \cap B = {}
  BY DEF Drawing, Payouts!Counted
<1>2. /\ IsFiniteSet(A) /\ IsFiniteSet(B)
      /\ \A i \in A \cup B : Weights(rows)[i] \in Nat
  BY DrawingFinite
<1> HIDE DEF A, B
<1>3. SumOf(Weights(rows), A \cup B) = SumOf(Weights(rows), A) + SumOf(Weights(rows), B)
  BY <1>1, <1>2, SumSplit
<1>4. /\ Payouts!disbursed({"completed"}) = SumOf(Weights(rows), A)
      /\ Payouts!disbursed({"pending", "processing"}) = SumOf(Weights(rows), B)
      /\ Payouts!disbursed(Payouts!Counted) = SumOf(Weights(rows), A \cup B)
  BY <1>1, DisbursedIsDrawn DEF Drawn, A, B
<1>5. SumOf(Weights(rows), A) \in Nat /\ SumOf(Weights(rows), B) \in Nat
  BY DrawnIsNat DEF Drawn, A, B
<1> QED
  BY <1>3, <1>4, <1>5

(* Steps that leave the rows' money alone and bring none back into count.   *)
LEMMA DisbursedFalls ==
    ASSUME rows \in Seq(PayoutRows), rows' \in Seq(PayoutRows), Len(rows') = Len(rows),
           \A i \in DOMAIN rows :
               /\ rows'[i].amount = rows[i].amount /\ rows'[i].fee = rows[i].fee
               /\ rows'[i].status \in Payouts!Counted => rows[i].status \in Payouts!Counted
    PROVE  /\ Payouts!disbursed(Payouts!Counted)' <= Payouts!disbursed(Payouts!Counted)
           /\ Payouts!disbursed(Payouts!Counted)' \in Nat
           /\ Payouts!disbursed(Payouts!Counted) \in Nat
<1>1. Payouts!disbursed(Payouts!Counted) = Drawn(rows, Payouts!Counted)
  BY DisbursedIsDrawn
<1>2. Payouts!disbursed(Payouts!Counted)' = Drawn(rows', Payouts!Counted)
  BY DisbursedNextIsDrawn
<1> QED
  BY <1>1, <1>2, DrawnFalls, DrawnIsNat

(* The vendor's share of a natural number of cents is one.                  *)
LEMMA ShareIsNat ==
    ASSUME Payouts!ShareAssumption, NEW c \in Nat
    PROVE  Payouts!vendor_share_cents(c) \in Nat
<1>1. c * ShareBps \in Nat
  BY DEF Payouts!ShareAssumption
<1> DEFINE k == c * ShareBps
<1> HIDE DEF k
<1>2. k \in Nat => k \div 10000 \in Nat
  OBVIOUS
<1> QED
  BY <1>1, <1>2 DEF Payouts!vendor_share_cents, Payouts!BPS_DENOMINATOR, k

(* A reversal never raises the vendor's share.                              *)
LEMMA ShareFalls ==
    ASSUME Payouts!ShareAssumption, NEW c \in Nat, c > 0
    PROVE  Payouts!vendor_share_cents(c - 1) <= Payouts!vendor_share_cents(c)
<1> DEFINE a == (c - 1) * ShareBps
           b == c * ShareBps
<1>1. a \in Nat /\ b \in Nat /\ a <= b
  BY DEF Payouts!ShareAssumption
<1> HIDE DEF a, b
<1>2. a \div 10000 <= b \div 10000 /\ 0 <= b \div 10000
  BY <1>1
<1> QED
  BY <1>1, <1>2 DEF Payouts!vendor_share_cents, Payouts!BPS_DENOMINATOR, a, b

(* A plan draws what the wallet offers: with its fee never more than the    *)
(* share of what cleared, less what is in flight or settled.                *)
LEMMA PlannedFits ==
    ASSUME Payouts!ShareAssumption, cleared \in Nat, month \in Nat, rows \in Seq(PayoutRows),
           NEW kind \in {"extra", "auto"}, Payouts!Planned(kind).amount > 0
    PROVE  /\ Payouts!Planned(kind) \in PayoutPlans
           /\ Payouts!Planned(kind).seen = Len(rows)
           /\ Payouts!disbursed(Payouts!Counted) + Payouts!Planned(kind).amount
                + Payouts!Planned(kind).fee <= Payouts!vendor_share_cents(cleared)
<1> DEFINE share == Payouts!vendor_share_cents(cleared)
           out == Payouts!disbursed({"completed"})
           fly == Payouts!disbursed({"pending", "processing"})
<1>1. /\ share \in Nat /\ out \in Nat /\ fly \in Nat
      /\ Payouts!disbursed(Payouts!Counted) = out + fly
  BY ShareIsNat, CountedSplits
<1>2. Payouts!compute_available = IF share - out - fly < 0 THEN 0 ELSE share - out - fly
  BY <1>1 DEF Payouts!compute_available, Payouts!Larger
<1> HIDE DEF share, out, fly
<1>3. Payouts!compute_available \in Nat
  BY <1>1, <1>2
<1>4. Payouts!plan_extra_payout = IF Payouts!compute_available - ExtraFee < 0 THEN 0
                                  ELSE Payouts!compute_available - ExtraFee
  BY <1>3 DEF Payouts!plan_extra_payout, Payouts!Larger, Payouts!ShareAssumption
<1>5. Len(rows) \in Nat
  OBVIOUS
<1>6. CASE kind = "extra"
  <2>1. Payouts!Planned(kind) = [kind |-> kind, month |-> 0, amount |-> Payouts!plan_extra_payout,
                                 fee |-> ExtraFee, seen |-> Len(rows)]
    BY <1>6 DEF Payouts!Planned
  <2>2. Payouts!plan_extra_payout \in Nat /\ ExtraFee \in Nat
    BY <1>3, <1>4 DEF Payouts!ShareAssumption
  <2>3. Payouts!Planned(kind) \in PayoutPlans
    BY <1>5, <2>1, <2>2 DEF PayoutPlans
  <2>4. Payouts!plan_extra_payout > 0
    BY <2>1
  <2>5. out + fly + Payouts!plan_extra_payout + ExtraFee <= share
    BY <1>1, <1>2, <1>4, <2>2, <2>4
  <2> QED
    BY <1>1, <2>1, <2>3, <2>5 DEF share
<1>7. CASE kind = "auto"
  <2>1. Payouts!Planned(kind) = [kind |-> kind, month |-> month, amount |-> Payouts!compute_available,
                                 fee |-> 0, seen |-> Len(rows)]
    BY <1>7 DEF Payouts!Planned
  <2>2. Payouts!Planned(kind) \in PayoutPlans
    BY <1>3, <1>5, <2>1 DEF PayoutPlans
  <2>3. Payouts!compute_available > 0
    BY <2>1
  <2>4. out + fly + Payouts!compute_available + 0 <= share
    BY <1>1, <1>2, <2>3
  <2> QED
    BY <1>1, <2>1, <2>2, <2>4 DEF share
<1> QED
  BY <1>6, <1>7

(* An empty wallet.                                                         *)
LEMMA PayoutsInitHolds == ASSUME Payouts!ShareAssumption, Payouts!Init PROVE PayoutsInv
<1> USE DEF Payouts!Init
<1>1. PayoutsTyped
  <2>1. rows \in Seq(PayoutRows) /\ rail \in Seq(RailStates) /\ Len(rail) = Len(rows)
        /\ Len(rows) = 0 /\ DOMAIN rows = {} /\ DOMAIN rail = {}
    OBVIOUS
  <2>2. Payouts!TypeOK
    BY <2>1 DEF Payouts!TypeOK, Payouts!Ids, Payouts!ShareAssumption
  <2>3. /\ pc \in [Procs -> PayoutSteps] /\ plan \in [Procs -> PayoutPlans \cup {None}]
        /\ reply \in [Procs -> Payouts!Answers \cup {None}]
    BY DEF PayoutSteps
  <2> QED
    BY <2>1, <2>2, <2>3 DEF PayoutsTyped
<1>2. Payouts!disbursed(Payouts!Counted) = 0
  <2>1. Drawing(rows, Payouts!Counted) = {}
    BY DEF Drawing
  <2>2. rows \in Seq(PayoutRows)
    OBVIOUS
  <2> QED
    BY <2>1, <2>2, DisbursedIsDrawn, SumOfNone DEF Drawn
<1>3. Payouts!vendor_share_cents(cleared) = 0
  BY DEF Payouts!vendor_share_cents
<1>4. OwnRow /\ Payouts!PaidMoneyHeld
  BY DEF OwnRow, Pushing, Payouts!PaidMoneyHeld, Payouts!Ids
<1>5. PlansFit
  BY <1>3 DEF PlansFit
<1>6. Payouts!Entitled
  BY <1>2 DEF Payouts!Entitled
<1> QED
  BY <1>1, <1>4, <1>5, <1>6 DEF PayoutsInv

(* What keeps the money part of the invariant: the rows draw no more, the   *)
(* peak and the share stay in order, and no plan is on the wallet that was  *)
(* not on it before.                                                        *)
LEMMA MoneyKept ==
    ASSUME PayoutsInv, PayoutsTyped', UNCHANGED <<cleared, peak, raced>>, Len(rows') = Len(rows),
           \A i \in DOMAIN rows :
               /\ rows'[i].amount = rows[i].amount /\ rows'[i].fee = rows[i].fee
               /\ rows'[i].status \in Payouts!Counted => rows[i].status \in Payouts!Counted,
           \A p \in Procs : pc'[p] = "claim" => pc[p] = "claim" /\ plan'[p] = plan[p]
    PROVE  PlansFit' /\ Payouts!Entitled'
<1>1. /\ rows \in Seq(PayoutRows) /\ rows' \in Seq(PayoutRows)
      /\ \A p \in Procs : pc[p] = "claim" => plan[p] \in PayoutPlans
      /\ peak \in Nat
  BY DEF PayoutsInv, PayoutsTyped
<1>2. /\ Payouts!disbursed(Payouts!Counted)' <= Payouts!disbursed(Payouts!Counted)
      /\ Payouts!disbursed(Payouts!Counted)' \in Nat
      /\ Payouts!disbursed(Payouts!Counted) \in Nat
  BY <1>1, DisbursedFalls
<1>3. Payouts!vendor_share_cents(cleared)' = Payouts!vendor_share_cents(cleared)
  BY DEF Payouts!vendor_share_cents
<1>4. Payouts!Entitled'
  BY <1>1, <1>2 DEF Payouts!Entitled, PayoutsInv
<1>5. ASSUME NEW p \in Procs, pc'[p] = "claim"
      PROVE  /\ plan'[p].seen <= Len(rows')
             /\ plan'[p].seen = Len(rows') =>
                  Payouts!disbursed(Payouts!Counted)' + plan'[p].amount + plan'[p].fee <= peak'
  <2>1. /\ plan'[p] = plan[p] /\ plan[p].amount \in Nat /\ plan[p].fee \in Nat
        /\ plan[p].seen <= Len(rows)
        /\ plan[p].seen = Len(rows) =>
             Payouts!disbursed(Payouts!Counted) + plan[p].amount + plan[p].fee <= peak
    BY <1>1, <1>5 DEF PayoutsInv, PlansFit, PayoutPlans
  <2> QED
    BY <1>1, <1>2, <2>1
<1> QED
  BY <1>3, <1>4, <1>5 DEF PlansFit, PayoutsInv

(* A step that writes one row leaves its money and the other rows alone.    *)
Written(i) ==
    /\ rows' \in Seq(PayoutRows) /\ Len(rows') = Len(rows) /\ DOMAIN rows' = DOMAIN rows
    /\ \A j \in DOMAIN rows : rows'[j].amount = rows[j].amount /\ rows'[j].fee = rows[j].fee
    /\ \A j \in DOMAIN rows \ {i} : rows'[j] = rows[j]

(* A row written in place leaves the length and the other rows.             *)
LEMMA RowReplaced ==
    ASSUME rows \in Seq(PayoutRows), NEW i \in DOMAIN rows, NEW x \in PayoutRows,
           x.amount = rows[i].amount, x.fee = rows[i].fee, rows' = [rows EXCEPT ![i] = x]
    PROVE  Written(i) /\ rows'[i] = x
<1>1. DOMAIN rows = 1..Len(rows) /\ \A j \in DOMAIN rows : rows[j] \in PayoutRows
  OBVIOUS
<1>2. rows' \in Seq(PayoutRows) /\ Len(rows') = Len(rows) /\ DOMAIN rows' = DOMAIN rows
  OBVIOUS
<1> QED
  BY <1>1, <1>2 DEF Written

(* A new status leaves a row's money alone.                                 *)
LEMMA StatusWritten ==
    ASSUME rows \in Seq(PayoutRows), NEW i \in DOMAIN rows, NEW s \in Payouts!Statuses,
           rows' = [rows EXCEPT ![i].status = s]
    PROVE  Written(i) /\ rows'[i].status = s /\ rows'[i].ref = rows[i].ref
<1> DEFINE x == [rows[i] EXCEPT !.status = s]
<1>1. rows[i] \in PayoutRows
  OBVIOUS
<1>2. /\ x \in PayoutRows /\ x.amount = rows[i].amount /\ x.fee = rows[i].fee
      /\ x.status = s /\ x.ref = rows[i].ref
  BY <1>1 DEF PayoutRows
<1>3. rows' = [rows EXCEPT ![i] = x]
  OBVIOUS
<1> HIDE DEF x
<1> QED
  BY <1>2, <1>3, RowReplaced

(* An accepted transfer: a status and a reference at once.                  *)
LEMMA AcceptanceWritten ==
    ASSUME rows \in Seq(PayoutRows), NEW i \in DOMAIN rows,
           rows' = [rows EXCEPT ![i].status = "processing", ![i].ref = TRUE]
    PROVE  Written(i) /\ rows'[i].status = "processing" /\ rows'[i].ref
<1> DEFINE x == [rows[i] EXCEPT !.status = "processing", !.ref = TRUE]
<1>1. rows[i] \in PayoutRows
  OBVIOUS
<1>2. /\ x \in PayoutRows /\ x.amount = rows[i].amount /\ x.fee = rows[i].fee
      /\ x.status = "processing" /\ x.ref
  BY <1>1 DEF PayoutRows, Payouts!Statuses
<1>3. rows' = [rows EXCEPT ![i] = x]
  OBVIOUS
<1> HIDE DEF x
<1> QED
  BY <1>2, <1>3, RowReplaced

(* What a written row must be for the invariant to survive: typed, still    *)
(* counted unless the rail refused it, and not counted again; pending and   *)
(* without a reference if a request still holds it before its answer.       *)
LEMMA RowStepKeeps ==
    ASSUME Payouts!ShareAssumption, PayoutsInv, NEW i \in DOMAIN rows, Written(i),
           UNCHANGED <<month, held, cleared, peak, rail, raced>>,
           rows'[i].status \in Payouts!Counted => rows[i].status \in Payouts!Counted,
           rail[i] \in {"taken", "paid"} => rows'[i].status \in Payouts!Counted,
           pc' \in [Procs -> PayoutSteps], plan' \in [Procs -> PayoutPlans \cup {None}],
           reply' \in [Procs -> Payouts!Answers \cup {None}],
           \A p \in Procs :
               \/ pc'[p] = "idle"
               \/ /\ pc'[p] = pc[p] /\ plan'[p] = plan[p] /\ reply'[p] = reply[p]
                  /\ pc[p] \in {"push", "record"} => plan[p].seen # i
               \/ /\ pc'[p] = "ack" /\ pc[p] = "record"
                  /\ plan'[p] = plan[p] /\ reply'[p] = reply[p]
    PROVE  PayoutsInv'
<1>1. /\ rows' \in Seq(PayoutRows) /\ Len(rows') = Len(rows) /\ DOMAIN rows' = DOMAIN rows
      /\ \A j \in DOMAIN rows : rows'[j].amount = rows[j].amount /\ rows'[j].fee = rows[j].fee
      /\ \A j \in DOMAIN rows \ {i} : rows'[j] = rows[j]
      /\ \A j \in DOMAIN rows : rows'[j] \in PayoutRows
  BY DEF Written
<1>2. PayoutsTyped'
  BY <1>1 DEF PayoutsInv, PayoutsTyped, Payouts!TypeOK, Payouts!Ids, PayoutRows, PayoutSteps
<1>3. OwnRow'
  BY <1>1 DEF PayoutsInv, OwnRow, Pushing
<1>4. Payouts!PaidMoneyHeld'
  BY <1>1 DEF PayoutsInv, Payouts!PaidMoneyHeld, Payouts!Ids
<1>5. PlansFit' /\ Payouts!Entitled'
  BY <1>1, <1>2, MoneyKept
<1> QED
  BY <1>2, <1>3, <1>4, <1>5 DEF PayoutsInv

(* Every step of a request, of the rail and of the ledger keeps the         *)
(* invariant.                                                               *)
LEMMA PayoutsStepKeeps ==
    ASSUME Payouts!ShareAssumption, PayoutsInv, [Payouts!Next]_Payouts!vars
    PROVE  PayoutsInv'
<1> USE DEF Payouts!ShareAssumption, PayoutsInv, PayoutsTyped, Payouts!TypeOK, Payouts!Ids,
            Payouts!ledgerVars, Payouts!procVars, PayoutSteps, RailStates
<1>1. ASSUME Payouts!Collect PROVE PayoutsInv'
  <2>1. PayoutsTyped'
    BY <1>1 DEF Payouts!Collect, PayoutRows, PayoutPlans, Payouts!Statuses, Payouts!Answers
  <2>2. OwnRow'
    BY <1>1 DEF Payouts!Collect, OwnRow, Pushing, AnswerStands, PayoutRows, PayoutPlans,
       Payouts!Statuses, Payouts!Answers
  <2>3. Payouts!PaidMoneyHeld'
    BY <1>1 DEF Payouts!Collect, OwnRow, Pushing, AnswerStands, Payouts!PaidMoneyHeld,
       Payouts!Counted, PayoutRows, PayoutPlans, Payouts!Statuses, Payouts!Answers
  <2>4. PlansFit' /\ Payouts!Entitled'
    BY <1>1, <2>1, MoneyKept DEF Payouts!Collect, OwnRow, Pushing, AnswerStands,
       Payouts!PaidMoneyHeld, Payouts!Counted, PayoutRows, PayoutPlans, Payouts!Statuses,
       Payouts!Answers
  <2> QED
    BY <2>1, <2>2, <2>3, <2>4
<1>2. ASSUME Payouts!HoldbackPasses PROVE PayoutsInv'
  <2>1. /\ cleared' = cleared + held /\ held' = 0
        /\ peak' = Payouts!Larger(peak, Payouts!vendor_share_cents(cleared'))
        /\ UNCHANGED <<month, rows, rail, pc, plan, reply, raced>>
    BY <1>2 DEF Payouts!HoldbackPasses
  <2>2. cleared' \in Nat /\ Payouts!vendor_share_cents(cleared') \in Nat
    <3>1. cleared' \in Nat
      BY <2>1
    <3> QED
      BY <3>1, ShareIsNat
  <2>3. peak' \in Nat /\ peak <= peak' /\ Payouts!vendor_share_cents(cleared') <= peak'
    BY <2>1, <2>2 DEF Payouts!Larger
  <2>4. Payouts!vendor_share_cents(cleared)' = Payouts!vendor_share_cents(cleared')
    BY DEF Payouts!vendor_share_cents
  <2>5. PayoutsTyped'
    BY <2>1, <2>2, <2>3
  <2>6. OwnRow' /\ Payouts!PaidMoneyHeld'
    BY <2>1 DEF OwnRow, Pushing, Payouts!PaidMoneyHeld
  <2>7. /\ Payouts!disbursed(Payouts!Counted)' = Payouts!disbursed(Payouts!Counted)
        /\ Payouts!disbursed(Payouts!Counted) \in Nat
    BY <2>1, DisbursedIsDrawn, DisbursedNextIsDrawn, DrawnIsNat
  <2>8. PlansFit'
    <3>1. ASSUME NEW p \in Procs, pc[p] = "claim"
          PROVE  plan[p].amount \in Nat /\ plan[p].fee \in Nat
      BY <3>1 DEF PayoutPlans
    <3> QED
      BY <2>1, <2>3, <2>4, <2>7, <3>1 DEF PlansFit
  <2>9. Payouts!Entitled'
    BY <2>1, <2>3, <2>7 DEF Payouts!Entitled
  <2> QED
    BY <2>5, <2>6, <2>8, <2>9
<1>3. ASSUME Payouts!Reverse PROVE PayoutsInv'
  <2>1. /\ cleared' = cleared - 1 /\ cleared > 0
        /\ UNCHANGED <<month, held, peak, rows, rail, pc, plan, reply, raced>>
    BY <1>3 DEF Payouts!Reverse
  <2>2. /\ Payouts!vendor_share_cents(cleared)' <= Payouts!vendor_share_cents(cleared)
        /\ Payouts!vendor_share_cents(cleared)' \in Nat
        /\ Payouts!vendor_share_cents(cleared) \in Nat
    <3>1. Payouts!vendor_share_cents(cleared)' = Payouts!vendor_share_cents(cleared - 1)
      BY <2>1 DEF Payouts!vendor_share_cents
    <3>2. cleared \in Nat /\ cleared - 1 \in Nat
      BY <2>1
    <3> QED
      BY <2>1, <3>1, <3>2, ShareFalls, ShareIsNat
  <2>3. PayoutsTyped'
    BY <2>1
  <2>4. OwnRow' /\ Payouts!PaidMoneyHeld'
    BY <2>1 DEF OwnRow, Pushing, Payouts!PaidMoneyHeld
  <2>5. Payouts!disbursed(Payouts!Counted)' = Payouts!disbursed(Payouts!Counted)
    BY <2>1, DisbursedIsDrawn, DisbursedNextIsDrawn
  <2>6. PlansFit' /\ Payouts!Entitled'
    BY <2>1, <2>2, <2>5 DEF PlansFit, Payouts!Entitled
  <2> QED
    BY <2>3, <2>4, <2>6
<1>4. ASSUME Payouts!NextMonth PROVE PayoutsInv'
  <2>1. PayoutsTyped'
    BY <1>4 DEF Payouts!NextMonth, PayoutRows, PayoutPlans, Payouts!Statuses, Payouts!Answers
  <2>2. OwnRow'
    BY <1>4 DEF Payouts!NextMonth, OwnRow, Pushing, AnswerStands, PayoutRows, PayoutPlans,
       Payouts!Statuses, Payouts!Answers
  <2>3. Payouts!PaidMoneyHeld'
    BY <1>4 DEF Payouts!NextMonth, OwnRow, Pushing, AnswerStands, Payouts!PaidMoneyHeld,
       Payouts!Counted, PayoutRows, PayoutPlans, Payouts!Statuses, Payouts!Answers
  <2>4. PlansFit' /\ Payouts!Entitled'
    BY <1>4, <2>1, MoneyKept DEF Payouts!NextMonth, OwnRow, Pushing, AnswerStands,
       Payouts!PaidMoneyHeld, Payouts!Counted, PayoutRows, PayoutPlans, Payouts!Statuses,
       Payouts!Answers
  <2> QED
    BY <2>1, <2>2, <2>3, <2>4
<1>5. ASSUME NEW p \in Procs, NEW kind \in {"extra", "auto"}, Payouts!ReadWallet(p, kind)
      PROVE  PayoutsInv'
  <2> DEFINE new == Payouts!Planned(kind)
  <2>1. /\ pc[p] = "idle" /\ new.amount > 0
        /\ plan' = [plan EXCEPT ![p] = new] /\ pc' = [pc EXCEPT ![p] = "claim"]
        /\ UNCHANGED <<month, held, cleared, peak, rows, rail, reply, raced>>
    BY <1>5 DEF Payouts!ReadWallet
  <2>2. /\ new \in PayoutPlans /\ new.seen = Len(rows)
        /\ Payouts!disbursed(Payouts!Counted) + new.amount + new.fee
             <= Payouts!vendor_share_cents(cleared)
    BY <2>1, PlannedFits
  <2> HIDE DEF new
  <2>3. PayoutsTyped'
    BY <2>1, <2>2
  <2>4. OwnRow' /\ Payouts!PaidMoneyHeld'
    BY <2>1 DEF OwnRow, Pushing, Payouts!PaidMoneyHeld
  <2>5. /\ Payouts!disbursed(Payouts!Counted)' = Payouts!disbursed(Payouts!Counted)
        /\ Payouts!disbursed(Payouts!Counted) \in Nat
        /\ Payouts!vendor_share_cents(cleared)' = Payouts!vendor_share_cents(cleared)
        /\ Payouts!vendor_share_cents(cleared) \in Nat
    BY <2>1, DisbursedIsDrawn, DisbursedNextIsDrawn, DrawnIsNat, ShareIsNat
       DEF Payouts!vendor_share_cents
  <2>6. ASSUME NEW q \in Procs, pc'[q] = "claim"
        PROVE  /\ plan'[q].seen <= Len(rows)
               /\ plan'[q].seen = Len(rows) =>
                    Payouts!disbursed(Payouts!Counted) + plan'[q].amount + plan'[q].fee <= peak
    <3>1. CASE q = p
      <4>1. plan'[q] = new /\ new.amount \in Nat /\ new.fee \in Nat
        BY <2>1, <2>2, <3>1 DEF PayoutPlans
      <4> QED
        BY <2>2, <2>5, <4>1 DEF PlansFit
    <3>2. CASE q # p
      BY <2>1, <2>6, <3>2 DEF PlansFit
    <3> QED
      BY <3>1, <3>2
  <2>7. PlansFit' /\ Payouts!Entitled'
    BY <2>1, <2>5, <2>6 DEF PlansFit, Payouts!Entitled
  <2> QED
    BY <2>3, <2>4, <2>7
<1>6. ASSUME NEW p \in Procs, Payouts!ClaimDuplicate(p) PROVE PayoutsInv'
  <2>1. PayoutsTyped'
    BY <1>6 DEF Payouts!ClaimDuplicate, Payouts!Return, PayoutRows, PayoutPlans,
       Payouts!Statuses, Payouts!Answers
  <2>2. OwnRow'
    BY <1>6 DEF Payouts!ClaimDuplicate, Payouts!Return, OwnRow, Pushing, AnswerStands,
       PayoutRows, PayoutPlans, Payouts!Statuses, Payouts!Answers
  <2>3. Payouts!PaidMoneyHeld'
    BY <1>6 DEF Payouts!ClaimDuplicate, Payouts!Return, OwnRow, Pushing, AnswerStands,
       Payouts!PaidMoneyHeld, Payouts!Counted, PayoutRows, PayoutPlans, Payouts!Statuses,
       Payouts!Answers
  <2>4. PlansFit' /\ Payouts!Entitled'
    BY <1>6, <2>1, MoneyKept DEF Payouts!ClaimDuplicate, Payouts!Return, OwnRow, Pushing,
       AnswerStands, Payouts!PaidMoneyHeld, Payouts!Counted, PayoutRows, PayoutPlans,
       Payouts!Statuses, Payouts!Answers
  <2> QED
    BY <2>1, <2>2, <2>3, <2>4
<1>7. ASSUME NEW p \in Procs, Payouts!Claim(p) PROVE PayoutsInv'
  <2> DEFINE x == [kind |-> plan[p].kind, month |-> plan[p].month, status |-> "pending",
                   amount |-> plan[p].amount, fee |-> plan[p].fee, ref |-> FALSE]
             n == Len(rows) + 1
             now == [plan[p] EXCEPT !.seen = n]
  <2>1. /\ pc[p] = "claim" /\ Len(rows) < MaxRows /\ plan[p] \in PayoutPlans
        /\ rows' = Append(rows, x) /\ rail' = Append(rail, "unasked")
        /\ raced' = (raced \/ plan[p].seen # Len(rows))
        /\ plan' = [plan EXCEPT ![p] = now] /\ pc' = [pc EXCEPT ![p] = "push"]
        /\ UNCHANGED <<month, held, cleared, peak, reply>>
    BY <1>7 DEF Payouts!Claim
  <2> Len(rows) \in Nat /\ n \in Nat
    OBVIOUS
  <2>2. /\ x \in PayoutRows /\ x.status = "pending" /\ ~x.ref /\ x.amount = plan[p].amount
        /\ x.fee = plan[p].fee /\ now \in PayoutPlans /\ now.seen = n
    BY <2>1 DEF PayoutRows, PayoutPlans, Payouts!Statuses
  <2>3. x.amount > 0
    BY <2>1, <2>2
  <2> HIDE DEF x, now
  <2>4. /\ rows' \in Seq(PayoutRows) /\ Len(rows') = n /\ DOMAIN rows' = 1..n
        /\ DOMAIN rows = 1..Len(rows) /\ rows'[n] = x
        /\ \A j \in DOMAIN rows : rows'[j] = rows[j]
    BY <2>1, <2>2
  <2>5. /\ rail' \in Seq(RailStates) /\ Len(rail') = n /\ DOMAIN rail' = 1..n
        /\ rail'[n] = "unasked" /\ \A j \in DOMAIN rows : rail'[j] = rail[j]
    BY <2>1, <2>4
  <2>6. plan' \in [Procs -> PayoutPlans \cup {None}] /\ plan'[p] = now
        /\ \A q \in Procs : q # p => plan'[q] = plan[q] /\ pc'[q] = pc[q]
    BY <2>1, <2>2
  <2>7. PayoutsTyped'
    BY <2>1, <2>2, <2>3, <2>4, <2>5, <2>6 DEF PayoutRows
  <2>8. OwnRow'
    <3>1. ASSUME NEW q \in Procs, Pushing(q)', q # p
          PROVE  Pushing(q) /\ plan'[q].seen \in DOMAIN rows /\ plan'[q].seen # n
      BY <2>1, <2>4, <2>6, <3>1 DEF OwnRow, Pushing
    <3> QED
      BY <2>1, <2>2, <2>4, <2>5, <2>6, <3>1 DEF OwnRow, Pushing
  <2>9. Payouts!PaidMoneyHeld'
    BY <2>2, <2>4, <2>5 DEF Payouts!PaidMoneyHeld, Payouts!Counted
  <2> DEFINE drawn == Payouts!disbursed(Payouts!Counted)
  <2>10. /\ drawn' = drawn + x.amount + x.fee /\ drawn \in Nat
         /\ x.amount \in Nat /\ x.fee \in Nat
    <3>1. drawn = Drawn(rows, Payouts!Counted) /\ drawn' = Drawn(rows', Payouts!Counted)
      BY <2>4, DisbursedIsDrawn, DisbursedNextIsDrawn
    <3>2. x.status \in Payouts!Counted
      BY <2>2 DEF Payouts!Counted
    <3>3. Drawn(rows', Payouts!Counted) = Drawn(rows, Payouts!Counted) + x.amount + x.fee
      BY <2>1, <2>2, <3>2, DrawnGrows
    <3> QED
      BY <2>2, <3>1, <3>3, DrawnIsNat DEF PayoutRows
  <2>11. Payouts!vendor_share_cents(cleared)' = Payouts!vendor_share_cents(cleared)
    BY <2>1 DEF Payouts!vendor_share_cents
  <2>12. PlansFit'
    <3>1. ASSUME NEW q \in Procs, pc'[q] = "claim"
          PROVE  plan'[q].seen <= Len(rows) /\ plan'[q].seen \in Nat
      BY <2>1, <2>6, <3>1 DEF PlansFit, PayoutPlans
    <3> QED
      BY <2>1, <2>4, <2>11, <3>1 DEF PlansFit
  <2>13. Payouts!Entitled'
    <3>1. ~raced' => drawn + plan[p].amount + plan[p].fee <= peak
      BY <2>1 DEF PlansFit
    <3> QED
      BY <2>1, <2>2, <2>10, <3>1 DEF Payouts!Entitled
  <2> QED
    BY <2>7, <2>8, <2>9, <2>12, <2>13
<1>8. ASSUME NEW p \in Procs, Payouts!Push(p) PROVE PayoutsInv'
  <2> DEFINE i == plan[p].seen
  <2>1. PICK answer \in Payouts!Answers, outcome \in RailStates :
          /\ outcome \in Payouts!RailOutcome(answer)
          /\ rail' = [rail EXCEPT ![i] = outcome]
          /\ reply' = [reply EXCEPT ![p] = answer]
    BY <1>8 DEF Payouts!Push, Payouts!Row, Payouts!RailOutcome, Payouts!Answers
  <2>2. /\ pc[p] = "push" /\ pc' = [pc EXCEPT ![p] = "record"]
        /\ UNCHANGED <<month, held, cleared, peak, rows, plan, raced>>
    BY <1>8 DEF Payouts!Push
  <2>3. AnswerStands(answer, outcome)
    BY <2>1 DEF AnswerStands, Payouts!RailOutcome
  <2>4. /\ i \in DOMAIN rows /\ rows[i].status = "pending" /\ ~rows[i].ref
        /\ \A q \in Procs : Pushing(q) /\ plan[q].seen = i => q = p
    BY <2>2 DEF OwnRow, Pushing
  <2>5. /\ rail' \in Seq(RailStates) /\ Len(rail') = Len(rail) /\ DOMAIN rail' = DOMAIN rail
        /\ rail'[i] = outcome /\ \A j \in DOMAIN rail \ {i} : rail'[j] = rail[j]
    BY <2>1, <2>4
  <2>6. PayoutsTyped'
    BY <2>1, <2>2, <2>5
  <2>7. OwnRow'
    <3>1. ASSUME NEW q \in Procs, Pushing(q)', q # p
          PROVE  /\ Pushing(q) /\ plan[q].seen # i /\ pc'[q] = pc[q] /\ reply'[q] = reply[q]
                 /\ rail'[plan[q].seen] = rail[plan[q].seen]
      BY <2>1, <2>2, <2>4, <2>5, <3>1 DEF OwnRow, Pushing
    <3>2. /\ pc'[p] = "record" /\ reply'[p] = answer /\ AnswerStands(answer, rail'[i])
      BY <2>1, <2>2, <2>3, <2>5
    <3> QED
      BY <2>2, <2>4, <3>1, <3>2 DEF OwnRow, Pushing
  <2>8. Payouts!PaidMoneyHeld'
    BY <2>2, <2>4, <2>5 DEF Payouts!PaidMoneyHeld, Payouts!Counted
  <2>9. PlansFit' /\ Payouts!Entitled'
    BY <2>2, <2>6, MoneyKept
  <2> QED
    BY <2>6, <2>7, <2>8, <2>9
<1>9. ASSUME NEW p \in Procs, Payouts!RecordTransient(p) PROVE PayoutsInv'
  <2>1. PayoutsTyped'
    BY <1>9 DEF Payouts!RecordTransient, Payouts!Return, PayoutRows, PayoutPlans,
       Payouts!Statuses, Payouts!Answers
  <2>2. OwnRow'
    BY <1>9 DEF Payouts!RecordTransient, Payouts!Return, OwnRow, Pushing, AnswerStands,
       PayoutRows, PayoutPlans, Payouts!Statuses, Payouts!Answers
  <2>3. Payouts!PaidMoneyHeld'
    BY <1>9 DEF Payouts!RecordTransient, Payouts!Return, OwnRow, Pushing, AnswerStands,
       Payouts!PaidMoneyHeld, Payouts!Counted, PayoutRows, PayoutPlans, Payouts!Statuses,
       Payouts!Answers
  <2>4. PlansFit' /\ Payouts!Entitled'
    BY <1>9, <2>1, MoneyKept DEF Payouts!RecordTransient, Payouts!Return, OwnRow, Pushing,
       AnswerStands, Payouts!PaidMoneyHeld, Payouts!Counted, PayoutRows, PayoutPlans,
       Payouts!Statuses, Payouts!Answers
  <2> QED
    BY <2>1, <2>2, <2>3, <2>4
<1>10. ASSUME NEW p \in Procs, Payouts!RecordPermanent(p) PROVE PayoutsInv'
  <2> DEFINE i == plan[p].seen
  <2>1. /\ i \in DOMAIN rows /\ rail[i] = "refused" /\ pc[p] = "record"
        /\ \A q \in Procs : Pushing(q) /\ plan[q].seen = i => q = p
        /\ rows' = [rows EXCEPT ![i].status = "failed"]
    BY <1>10 DEF Payouts!RecordPermanent, Payouts!Row, OwnRow, Pushing, AnswerStands
  <2>2. Written(i) /\ rows'[i].status = "failed"
    BY <2>1, StatusWritten DEF Payouts!Statuses
  <2>3. /\ pc' = [pc EXCEPT ![p] = "idle"] /\ plan' = [plan EXCEPT ![p] = None]
        /\ reply' = [reply EXCEPT ![p] = None]
        /\ UNCHANGED <<month, held, cleared, peak, rail, raced>>
    BY <1>10 DEF Payouts!RecordPermanent, Payouts!Return
  <2>4. \A q \in Procs :
          \/ pc'[q] = "idle"
          \/ /\ pc'[q] = pc[q] /\ plan'[q] = plan[q] /\ reply'[q] = reply[q]
             /\ pc[q] \in {"push", "record"} => plan[q].seen # i
    BY <2>1, <2>3 DEF Pushing
  <2> HIDE DEF i
  <2> QED
    BY <2>1, <2>2, <2>3, <2>4, RowStepKeeps DEF Payouts!Counted
<1>11. ASSUME NEW p \in Procs, Payouts!RecordAccepted(p) PROVE PayoutsInv'
  <2> DEFINE i == plan[p].seen
  <2>1. /\ i \in DOMAIN rows /\ rows[i].status = "pending" /\ pc[p] = "record"
        /\ \A q \in Procs : Pushing(q) /\ plan[q].seen = i => q = p
        /\ rows' = [rows EXCEPT ![i].status = "processing", ![i].ref = TRUE]
    BY <1>11 DEF Payouts!RecordAccepted, Payouts!Row, OwnRow, Pushing
  <2>2. Written(i) /\ rows'[i].status = "processing"
    BY <2>1, AcceptanceWritten
  <2>3. /\ pc' = [pc EXCEPT ![p] = "ack"]
        /\ UNCHANGED <<month, held, cleared, peak, rail, raced, plan, reply>>
    BY <1>11 DEF Payouts!RecordAccepted
  <2>4. \A q \in Procs :
          \/ /\ pc'[q] = pc[q] /\ plan'[q] = plan[q] /\ reply'[q] = reply[q]
             /\ pc[q] \in {"push", "record"} => plan[q].seen # i
          \/ /\ pc'[q] = "ack" /\ pc[q] = "record"
             /\ plan'[q] = plan[q] /\ reply'[q] = reply[q]
    BY <2>1, <2>3 DEF Pushing
  <2> HIDE DEF i
  <2> QED
    BY <2>1, <2>2, <2>3, <2>4, RowStepKeeps DEF Payouts!Counted
<1>12. ASSUME NEW p \in Procs, Payouts!Acknowledge(p) PROVE PayoutsInv'
  <2> DEFINE i == plan[p].seen
  <2>1. /\ i \in DOMAIN rows /\ pc[p] = "ack" /\ AnswerStands(reply[p], rail[i])
        /\ \A q \in Procs : Pushing(q) /\ plan[q].seen = i => q = p
    BY <1>12 DEF Payouts!Acknowledge, OwnRow, Pushing
  <2>2. /\ pc' = [pc EXCEPT ![p] = "idle"] /\ plan' = [plan EXCEPT ![p] = None]
        /\ reply' = [reply EXCEPT ![p] = None]
        /\ UNCHANGED <<month, held, cleared, peak, rail, raced>>
    BY <1>12 DEF Payouts!Acknowledge, Payouts!Return
  <2>3. \A q \in Procs :
          \/ pc'[q] = "idle"
          \/ /\ pc'[q] = pc[q] /\ plan'[q] = plan[q] /\ reply'[q] = reply[q]
             /\ pc[q] \in {"push", "record"} => plan[q].seen # i
    BY <2>1, <2>2 DEF Pushing
  <2>4. /\ Written(i)
        /\ rows'[i].status \in Payouts!Counted => rows[i].status \in Payouts!Counted
        /\ rail[i] \in {"taken", "paid"} => rows'[i].status \in Payouts!Counted
    <3>1. CASE rows' = rows
      BY <2>1, <3>1 DEF Written, Payouts!PaidMoneyHeld
    <3>2. CASE reply[p] = "completed" /\ rows' = [rows EXCEPT ![i].status = "completed"]
      <4>1. Written(i) /\ rows'[i].status = "completed"
        BY <2>1, <3>2, StatusWritten DEF Payouts!Statuses
      <4>2. rail[i] = "paid"
        BY <2>1, <3>2 DEF AnswerStands
      <4> QED
        BY <2>1, <4>1, <4>2 DEF Payouts!PaidMoneyHeld, Payouts!Counted
    <3>3. CASE reply[p] = "failed" /\ rows' = [rows EXCEPT ![i].status = "failed"]
      <4>1. Written(i) /\ rows'[i].status = "failed"
        BY <2>1, <3>3, StatusWritten DEF Payouts!Statuses
      <4>2. rail[i] = "refused"
        BY <2>1, <3>3 DEF AnswerStands
      <4> QED
        BY <4>1, <4>2 DEF Payouts!Counted
    <3> QED
      BY <1>12, <3>1, <3>2, <3>3
         DEF Payouts!Acknowledge, Payouts!Row, Payouts!Settled, Payouts!Failed
  <2> HIDE DEF i
  <2> QED
    BY <2>1, <2>2, <2>3, <2>4, RowStepKeeps
<1>13. ASSUME NEW p \in Procs, Payouts!Crash(p) PROVE PayoutsInv'
  <2>1. /\ pc' = [pc EXCEPT ![p] = "idle"] /\ plan' = [plan EXCEPT ![p] = None]
        /\ reply' = [reply EXCEPT ![p] = None]
        /\ UNCHANGED <<month, held, cleared, peak, rows, rail, raced>>
    BY <1>13 DEF Payouts!Crash, Payouts!Return
  <2>2. PayoutsTyped'
    BY <2>1
  <2>3. OwnRow' /\ Payouts!PaidMoneyHeld'
    BY <2>1 DEF OwnRow, Pushing, Payouts!PaidMoneyHeld
  <2>4. PlansFit' /\ Payouts!Entitled'
    BY <2>1, <2>2, MoneyKept
  <2> QED
    BY <2>2, <2>3, <2>4
<1>14. ASSUME NEW i \in Payouts!Ids, Payouts!RailDecides(i) PROVE PayoutsInv'
  <2>1. PayoutsTyped'
    BY <1>14 DEF Payouts!RailDecides, PayoutRows, PayoutPlans, Payouts!Statuses, Payouts!Answers
  <2>2. OwnRow'
    BY <1>14 DEF Payouts!RailDecides, OwnRow, Pushing, AnswerStands, PayoutRows, PayoutPlans,
       Payouts!Statuses, Payouts!Answers
  <2>3. Payouts!PaidMoneyHeld'
    BY <1>14 DEF Payouts!RailDecides, OwnRow, Pushing, AnswerStands, Payouts!PaidMoneyHeld,
       Payouts!Counted, PayoutRows, PayoutPlans, Payouts!Statuses, Payouts!Answers
  <2>4. PlansFit' /\ Payouts!Entitled'
    BY <1>14, <2>1, MoneyKept DEF Payouts!RailDecides, OwnRow, Pushing, AnswerStands,
       Payouts!PaidMoneyHeld, Payouts!Counted, PayoutRows, PayoutPlans, Payouts!Statuses,
       Payouts!Answers
  <2> QED
    BY <2>1, <2>2, <2>3, <2>4
<1>15. ASSUME NEW i \in Payouts!Ids, Payouts!Hook(i) PROVE PayoutsInv'
  <2>1. /\ i \in DOMAIN rows /\ rows[i].ref /\ rail[i] \in {"paid", "refused"}
        /\ UNCHANGED <<month, held, cleared, peak, rail, raced, pc, plan, reply>>
    BY <1>15 DEF Payouts!Hook
  <2>2. \A q \in Procs : pc[q] \in {"push", "record"} => plan[q].seen # i
    BY <2>1 DEF OwnRow, Pushing
  <2>3. /\ Written(i)
        /\ rows'[i].status \in Payouts!Counted => rows[i].status \in Payouts!Counted
        /\ rail[i] \in {"taken", "paid"} => rows'[i].status \in Payouts!Counted
    <3>1. CASE rail[i] = "paid" /\ rows' = [rows EXCEPT ![i].status = "completed"]
      <4>1. Written(i) /\ rows'[i].status = "completed"
        BY <2>1, <3>1, StatusWritten DEF Payouts!Statuses
      <4> QED
        BY <2>1, <3>1, <4>1 DEF Payouts!PaidMoneyHeld, Payouts!Counted
    <3>2. CASE rail[i] = "refused" /\ rows' = [rows EXCEPT ![i].status = "failed"]
      <4>1. Written(i) /\ rows'[i].status = "failed"
        BY <2>1, <3>2, StatusWritten DEF Payouts!Statuses
      <4> QED
        BY <3>2, <4>1 DEF Payouts!Counted
    <3>3. CASE rows' = rows
      BY <2>1, <3>3 DEF Written, Payouts!PaidMoneyHeld
    <3> QED
      BY <1>15, <2>1, <3>1, <3>2, <3>3 DEF Payouts!Hook, Payouts!Settled, Payouts!Failed
  <2> QED
    BY <2>1, <2>2, <2>3, RowStepKeeps
<1>16. CASE UNCHANGED Payouts!vars
  <2>1. PayoutsTyped' /\ OwnRow' /\ Payouts!PaidMoneyHeld'
    BY <1>16 DEF Payouts!vars, OwnRow, Pushing, Payouts!PaidMoneyHeld
  <2>2. PlansFit' /\ Payouts!Entitled'
    BY <1>16, <2>1, MoneyKept DEF Payouts!vars
  <2> QED
    BY <2>1, <2>2
<1> QED
  BY <1>1, <1>2, <1>3, <1>4, <1>5, <1>6, <1>7, <1>8, <1>9, <1>10, <1>11, <1>12, <1>13, <1>14,
     <1>15, <1>16 DEF Payouts!Next, Payouts!Step

---------------------------------------------------------------------------
(* Amendments: hardship requests, their documents and the schedule *)

(* A hardship request: its row, what it asks of which installments, its     *)
(* document and the window of its signature.                                *)
RequestRows ==
    [status : {"none", "draft", "awaiting_signature", "declined", "cancelled", "expired",
               "active", "completed"},
     kind : {"deferment", "due_date_change"}, targets : SUBSET (1..NItems), doc : Nat,
     expires : Nat, signed : Int, resent : BOOLEAN]

(* An installment of the schedule.                                          *)
ItemRows == [status : {"scheduled", "partial", "late", "paid", "suspended"}, paid : 0..Total]

(* A request's documents at the vendor, oldest first.                       *)
Papers == Seq({"out", "signed", "declined"})

(* What a session of a desk or of a webhook read when it opened, and the    *)
(* installments when it applies a signature.                                *)
Visits == [op : {"send", "cancel", "maintain", "signed", "declined", "applying"},
           req : Cases \cup {None}, doc : Nat, at : Nat, reqs : [Cases -> RequestRows],
           items : [1..NItems -> ItemRows] \cup {<< >>}]

(* The types of the requests; a request points at a document it has.        *)
RequestsTyped ==
    /\ reqs \in [Cases -> RequestRows]
    /\ \A r \in Cases : reqs[r].doc <= Len(docs[r])

(* The types of the clock and the schedule.                                 *)
ScheduleTyped == today \in 0..MaxTime /\ items \in [1..NItems -> ItemRows]

(* The types of what requests did to the schedule.                          *)
ChangesTyped ==
    /\ appended \in [Cases -> [1..NItems -> Nat]]
    /\ moved \in SUBSET (Cases \X (1..NItems))

(* A session is open.                                                       *)
Visited(s) == sess[s] # None

(* The types of the sessions: desks send, cancel and maintain, webhooks     *)
(* bring answers, and each has its request.                                 *)
VisitsTyped ==
    /\ sess \in [Desks \cup Hooks -> Visits \cup {None}]
    /\ \A s \in Desks \cup Hooks : Visited(s) =>
        /\ sess[s].op = "send" => sess[s].doc <= Len(docs[sess[s].req])
        /\ sess[s].op # "maintain" => sess[s].req \in Cases
        /\ sess[s].op \in {"send", "cancel", "maintain"} <=> s \in Desks

(* A webhook session brings the answer the borrower gave on its document,   *)
(* and applies it if it is a signature.                                     *)
Answered(s) == Visited(s) /\ sess[s].op \in {"signed", "declined", "applying"}
Answer(op)  == IF op = "applying" THEN "signed" ELSE op

(* The answer a webhook brings is the one on the document.                  *)
AnswersBrought ==
    \A s \in Desks \cup Hooks : Answered(s) =>
        /\ sess[s].doc \in DOMAIN docs[sess[s].req]
        /\ docs[sess[s].req][sess[s].doc] = Answer(sess[s].op)

(* A request that changed the schedule has a document its borrower signed.  *)
SignatureOnFile ==
    \A r \in Cases : Amendments!Touched(r) => \E d \in DOMAIN docs[r] : docs[r][d] = "signed"

(* The inductive invariant of the amendments, for any number of desks.      *)
AmendmentsInv ==
    /\ docs \in [Cases -> Papers] /\ RequestsTyped /\ ScheduleTyped /\ ChangesTyped
    /\ VisitsTyped /\ AnswersBrought /\ SignatureOnFile

(* A request is drafted without a document: a document a send writes comes  *)
(* first, or over an earlier one.                                           *)
SentOnce == \A r \in Cases : reqs[r].status \in {"none", "draft"} => reqs[r].doc = 0

(* A signature is applied that was recorded inside the window its webhook   *)
(* read.                                                                    *)
InTime(s) ==
    sess[s].op = "applying" => sess[s].at <= sess[s].reqs[sess[s].req].expires

(* What a webhook read of its request is what the row says.                 *)
ReadHolds(s) ==
    /\ sess[s].doc = reqs[sess[s].req].doc
    /\ sess[s].reqs[sess[s].req].targets = reqs[sess[s].req].targets
    /\ sess[s].reqs[sess[s].req].expires = reqs[sess[s].req].expires

(* An answer under way is on a document of a request that was sent, is not  *)
(* yet acknowledged and in no other session; and what its session read of   *)
(* the request stands, unless another send was written over the first.      *)
ReadsStand ==
    \A s \in Desks \cup Hooks : Answered(s) =>
        /\ reqs[sess[s].req].doc # 0
        /\ <<sess[s].req, sess[s].doc>> \notin acked
        /\ \A h \in Desks \cup Hooks :
             Answered(h) /\ sess[h].req = sess[s].req /\ sess[h].doc = sess[s].doc => h = s
        /\ InTime(s) /\ (reqs[sess[s].req].resent \/ ReadHolds(s))

(* A request that changed the schedule has its answer acknowledged: no      *)
(* second delivery of it is handled.  If it was sent again, another         *)
(* document's may be.                                                       *)
TouchedOnce ==
    \A r \in Cases : Amendments!Touched(r) =>
        /\ reqs[r].doc # 0
        /\ \/ reqs[r].resent
           \/ <<r, reqs[r].doc>> \in acked /\ reqs[r].signed \in 0..reqs[r].expires

(* What is invariant beside AmendmentsInv, however many desks and jobs work *)
(* on a request at once.                                                    *)
DesksInv == SentOnce /\ ReadsStand /\ TouchedOnce /\ Amendments!DeferredOnceOrNotAtAll

(* The invariant contains the types.                                        *)
LEMMA AmendmentsTyped == ASSUME AmendmentsInv PROVE Amendments!TypeOK
<1>1. \A r \in Cases : reqs[r] \in RequestRows /\ reqs[r].doc <= Len(docs[r])
  BY DEF AmendmentsInv, RequestsTyped
<1>2. \A i \in 1..NItems : items[i] \in ItemRows
  BY DEF AmendmentsInv, ScheduleTyped
<1> QED
  BY <1>1, <1>2 DEF AmendmentsInv, RequestsTyped, ScheduleTyped, ChangesTyped, RequestRows,
     ItemRows, Amendments!TypeOK, Amendments!Items, Amendments!Open, Amendments!InForce

(* No request, no document, no session.                                     *)
LEMMA AmendmentsInitHolds ==
    ASSUME Amendments!HardshipAssumption, Amendments!Init
    PROVE  AmendmentsInv /\ DesksInv
<1> USE DEF Amendments!HardshipAssumption, Amendments!Init
<1>1. docs \in [Cases -> Papers] /\ \A r \in Cases : Len(docs[r]) = 0
  BY DEF Papers
<1>2. RequestsTyped
  BY <1>1 DEF RequestsTyped, RequestRows, Amendments!NoRequest
<1>3. ScheduleTyped /\ ChangesTyped
  BY DEF ScheduleTyped, ChangesTyped, ItemRows, Amendments!Items
<1>4. VisitsTyped /\ AnswersBrought /\ ReadsStand
  BY DEF VisitsTyped, AnswersBrought, ReadsStand, Answered, Visited
<1>5. \A r \in Cases : ~Amendments!Touched(r)
  BY DEF Amendments!Touched
<1>6. SignatureOnFile /\ TouchedOnce
  BY <1>5 DEF SignatureOnFile, TouchedOnce
<1>7. SentOnce
  BY DEF SentOnce, Amendments!NoRequest
<1>8. Amendments!DeferredOnceOrNotAtAll
  BY DEF Amendments!DeferredOnceOrNotAtAll
<1> QED
  BY <1>1, <1>2, <1>3, <1>4, <1>6, <1>7, <1>8 DEF AmendmentsInv, DesksInv

(* Documents are only added, and an answer once given stays.                *)
PapersStand ==
    /\ docs' \in [Cases -> Papers]
    /\ \A r \in Cases :
        /\ Len(docs[r]) <= Len(docs'[r])
        /\ \A d \in DOMAIN docs[r] :
             d \in DOMAIN docs'[r] /\ (docs[r][d] # "out" => docs'[r][d] = docs[r][d])

(* Nothing written keeps the documents.                                     *)
LEMMA PapersUnchanged ==
    ASSUME docs \in [Cases -> Papers], UNCHANGED docs PROVE PapersStand
<1>1. \A r \in Cases : Len(docs[r]) \in Nat
  BY DEF Papers
<1> QED
  BY <1>1 DEF PapersStand

(* Neither does a document added, nor an answer to one without.             *)
LEMMA PaperWritten ==
    ASSUME docs \in [Cases -> Papers], NEW r \in Cases, NEW p \in Papers,
           docs' = [docs EXCEPT ![r] = p], Len(docs[r]) <= Len(p),
           \A d \in DOMAIN docs[r] : docs[r][d] # "out" => p[d] = docs[r][d]
    PROVE  PapersStand
<1>1. \A q \in Cases : Len(docs[q]) \in Nat /\ DOMAIN docs[q] = 1..Len(docs[q])
  BY DEF Papers
<1>2. DOMAIN p = 1..Len(p) /\ Len(p) \in Nat
  BY DEF Papers
<1>3. \A q \in Cases : docs'[q] = IF q = r THEN p ELSE docs[q]
  OBVIOUS
<1>4. docs' \in [Cases -> Papers]
  OBVIOUS
<1> QED
  BY <1>1, <1>2, <1>3, <1>4 DEF PapersStand

(* Every step only adds documents or answers.                               *)
LEMMA NextPapersStand ==
    ASSUME docs \in [Cases -> Papers], VisitsTyped, [Amendments!Next]_Amendments!vars
    PROVE  PapersStand
<1>1. CASE UNCHANGED docs
  BY <1>1, PapersUnchanged
<1>2. ASSUME NEW s \in Desks, Amendments!SendCall(s) PROVE PapersStand
  <2> DEFINE r == sess[s].req
             p == Append(docs[r], "out")
  <2>1. r \in Cases
    BY <1>2 DEF Amendments!SendCall, Amendments!Doing, VisitsTyped, Visited
  <2>2. docs' = [docs EXCEPT ![r] = p]
    BY <1>2 DEF Amendments!SendCall
  <2>3. docs[r] \in Papers
    BY <2>1
  <2> HIDE DEF r
  <2>4. /\ p \in Papers /\ Len(docs[r]) <= Len(p)
        /\ \A d \in DOMAIN docs[r] : p[d] = docs[r][d]
    BY <2>3 DEF Papers
  <2> HIDE DEF p
  <2> QED
    BY <2>1, <2>2, <2>4, PaperWritten
<1>3. ASSUME Amendments!BorrowerAnswers PROVE PapersStand
  <2>0. PICK r \in Cases : \E d \in DOMAIN docs[r] : \E answer \in {"signed", "declined"} :
          docs[r][d] = "out" /\ docs' = [docs EXCEPT ![r][d] = answer]
    BY <1>3 DEF Amendments!BorrowerAnswers
  <2>1. PICK d \in DOMAIN docs[r], answer \in {"signed", "declined"} :
          docs[r][d] = "out" /\ docs' = [docs EXCEPT ![r][d] = answer]
    BY <2>0
  <2> DEFINE p == [docs[r] EXCEPT ![d] = answer]
  <2>2. docs' = [docs EXCEPT ![r] = p] /\ docs[r] \in Papers
    BY <2>1
  <2>3. /\ p \in Papers /\ Len(docs[r]) <= Len(p)
        /\ \A e \in DOMAIN docs[r] : docs[r][e] # "out" => p[e] = docs[r][e]
    BY <2>1, <2>2 DEF Papers
  <2> HIDE DEF p
  <2> QED
    BY <2>2, <2>3, PaperWritten
<1> QED
  BY <1>1, <1>2, <1>3 DEF Amendments!Next, Amendments!vars, Amendments!DeskStep,
     Amendments!HookStep, Amendments!Tomorrow, Amendments!Pay, Amendments!AckOrphan,
     Amendments!StaffSuspends, Amendments!StaffLifts, Amendments!CreateRequest, Amendments!OpenDesk,
     Amendments!OpenSession, Amendments!SendCommit, Amendments!Cancel,
     Amendments!RunMaintenance, Amendments!Crash, Amendments!OpenHook, Amendments!Declined,
     Amendments!SignatureIgnored, Amendments!SignatureTooLate, Amendments!RecordSignature,
     Amendments!Deferring, Amendments!DeferringFails, Amendments!Shifting

(* What keeps each part, whoever moved.                                     *)
LEMMA RowsWritten ==
    ASSUME RequestsTyped, docs \in [Cases -> Papers], PapersStand, NEW W \in SUBSET Cases,
           reqs' \in [Cases -> RequestRows],
           \A r \in Cases \ W : reqs'[r].doc = reqs[r].doc,
           \A r \in W : reqs'[r].doc <= Len(docs[r])
    PROVE  RequestsTyped'
<1>1. \A r \in Cases : /\ Len(docs[r]) \in Nat /\ Len(docs'[r]) \in Nat
                       /\ Len(docs[r]) <= Len(docs'[r]) /\ reqs'[r].doc \in Nat
  BY DEF PapersStand, Papers, RequestRows
<1>2. \A r \in Cases : reqs'[r].doc <= Len(docs[r])
  BY DEF RequestsTyped
<1> QED
  BY <1>1, <1>2 DEF RequestsTyped

(* What is true of a session that stays open.                               *)
LEMMA VisitCarries ==
    ASSUME VisitsTyped, docs \in [Cases -> Papers], PapersStand, NEW s \in Desks \cup Hooks,
           Visited(s)', sess'[s] = sess[s]
    PROVE  /\ sess'[s].op = "send" => sess'[s].doc <= Len(docs'[sess'[s].req])
           /\ sess'[s].op # "maintain" => sess'[s].req \in Cases
           /\ sess'[s].op \in {"send", "cancel", "maintain"} <=> s \in Desks
<1>1. \A r \in Cases : /\ Len(docs[r]) \in Nat /\ Len(docs'[r]) \in Nat
                       /\ Len(docs[r]) <= Len(docs'[r])
  BY DEF PapersStand, Papers
<1>2. Visited(s) /\ sess[s] \in Visits
  BY DEF Visited, VisitsTyped
<1>3. /\ sess[s].op = "send" => sess[s].doc <= Len(docs[sess[s].req])
      /\ sess[s].op # "maintain" => sess[s].req \in Cases
      /\ sess[s].op \in {"send", "cancel", "maintain"} <=> s \in Desks
  BY <1>2 DEF VisitsTyped
<1>4. sess[s].doc \in Nat
  BY <1>2 DEF Visits
<1> QED
  BY <1>1, <1>3, <1>4

(* So sessions keep their types where none opens.                           *)
LEMMA VisitsKept ==
    ASSUME VisitsTyped, docs \in [Cases -> Papers], PapersStand,
           sess' \in [Desks \cup Hooks -> Visits \cup {None}],
           \A s \in Desks \cup Hooks : Visited(s)' => sess'[s] = sess[s]
    PROVE  VisitsTyped'
<1>1. \A s \in Desks \cup Hooks : Visited(s)' =>
        /\ sess'[s].op = "send" => sess'[s].doc <= Len(docs'[sess'[s].req])
        /\ sess'[s].op # "maintain" => sess'[s].req \in Cases
        /\ sess'[s].op \in {"send", "cancel", "maintain"} <=> s \in Desks
  BY VisitCarries
<1> QED
  BY <1>1 DEF VisitsTyped

(* And where one is written that has them.                                  *)
LEMMA VisitWritten ==
    ASSUME VisitsTyped, docs \in [Cases -> Papers], PapersStand,
           sess' \in [Desks \cup Hooks -> Visits \cup {None}], NEW s \in Desks \cup Hooks,
           sess'[s].op = "send" => sess'[s].doc <= Len(docs'[sess'[s].req]),
           sess'[s].op # "maintain" => sess'[s].req \in Cases,
           sess'[s].op \in {"send", "cancel", "maintain"} <=> s \in Desks,
           \A t \in (Desks \cup Hooks) \ {s} : sess'[t] = sess[t]
    PROVE  VisitsTyped'
<1>1. \A t \in Desks \cup Hooks : Visited(t)' =>
        /\ sess'[t].op = "send" => sess'[t].doc <= Len(docs'[sess'[t].req])
        /\ sess'[t].op # "maintain" => sess'[t].req \in Cases
        /\ sess'[t].op \in {"send", "cancel", "maintain"} <=> t \in Desks
  <2> TAKE t \in Desks \cup Hooks
  <2>1. CASE t = s
    BY <2>1
  <2>2. CASE t # s
    BY <2>2, VisitCarries
  <2> QED
    BY <2>1, <2>2
<1> QED
  BY <1>1 DEF VisitsTyped

(* The answers brought stand where no webhook opens.                        *)
LEMMA AnswersKept ==
    ASSUME AnswersBrought, VisitsTyped, docs \in [Cases -> Papers], PapersStand,
           \A s \in Desks \cup Hooks : Answered(s)' => Answered(s) /\ sess'[s] = sess[s]
    PROVE  AnswersBrought'
<1> SUFFICES ASSUME NEW s \in Desks \cup Hooks, Answered(s)'
             PROVE  /\ sess'[s].doc \in DOMAIN docs'[sess'[s].req]
                    /\ docs'[sess'[s].req][sess'[s].doc] = Answer(sess'[s].op)
  BY DEF AnswersBrought
<1>1. Answered(s) /\ sess'[s] = sess[s]
  OBVIOUS
<1>2. sess[s].req \in Cases /\ Answer(sess[s].op) # "out"
  BY <1>1 DEF Answered, Answer, VisitsTyped
<1>3. /\ sess[s].doc \in DOMAIN docs[sess[s].req]
      /\ docs[sess[s].req][sess[s].doc] = Answer(sess[s].op)
  BY <1>1 DEF AnswersBrought
<1> QED
  BY <1>1, <1>2, <1>3 DEF PapersStand

(* Signatures stay on file where only requests with one change the          *)
(* schedule.                                                                *)
LEMMA SignaturesKept ==
    ASSUME SignatureOnFile, PapersStand,
           \A r \in Cases : Amendments!Touched(r)' =>
               Amendments!Touched(r) \/ \E d \in DOMAIN docs[r] : docs[r][d] = "signed"
    PROVE  SignatureOnFile'
<1> SUFFICES ASSUME NEW r \in Cases, Amendments!Touched(r)'
             PROVE  \E d \in DOMAIN docs'[r] : docs'[r][d] = "signed"
  BY DEF SignatureOnFile
<1>1. PICK d \in DOMAIN docs[r] : docs[r][d] = "signed"
  BY DEF SignatureOnFile
<1> QED
  BY <1>1 DEF PapersStand

(* A step that appends and moves nothing touches nothing.                   *)
LEMMA UntouchedStays ==
    ASSUME UNCHANGED <<appended, moved>>
    PROVE  \A r \in Cases : Amendments!Touched(r)' <=> Amendments!Touched(r)
BY DEF Amendments!Touched

(* A step that leaves the schedule's amendments and the sessions alone.     *)
LEMMA QuietKeeps ==
    ASSUME AmendmentsInv, PapersStand, RequestsTyped', ScheduleTyped',
           UNCHANGED <<appended, moved, sess>>
    PROVE  AmendmentsInv'
<1> USE DEF AmendmentsInv
<1>1. ChangesTyped'
  BY DEF ChangesTyped
<1>2. VisitsTyped'
  <2>1. sess' \in [Desks \cup Hooks -> Visits \cup {None}]
    BY DEF VisitsTyped
  <2> QED
    BY <2>1, VisitsKept
<1>3. AnswersBrought'
  <2>1. \A s \in Desks \cup Hooks : Answered(s)' => Answered(s) /\ sess'[s] = sess[s]
    BY DEF Answered, Visited
  <2> QED
    BY <2>1, AnswersKept
<1>4. SignatureOnFile'
  BY UntouchedStays, SignaturesKept
<1>5. docs' \in [Cases -> Papers]
  BY DEF PapersStand
<1> QED
  BY <1>1, <1>2, <1>3, <1>4, <1>5

(* A step that ends a session.                                              *)
LEMMA CloseKeeps ==
    ASSUME AmendmentsInv, PapersStand, RequestsTyped', ScheduleTyped', ChangesTyped',
           NEW s \in Desks \cup Hooks, Amendments!Close(s),
           \A r \in Cases : Amendments!Touched(r)' =>
               Amendments!Touched(r) \/ \E d \in DOMAIN docs[r] : docs[r][d] = "signed"
    PROVE  AmendmentsInv'
<1> USE DEF AmendmentsInv
<1>1. /\ sess' \in [Desks \cup Hooks -> Visits \cup {None}]
      /\ \A t \in Desks \cup Hooks : Visited(t)' => sess'[t] = sess[t]
  BY DEF VisitsTyped, Amendments!Close, Visited
<1>2. VisitsTyped'
  BY <1>1, VisitsKept
<1>3. AnswersBrought'
  <2>1. \A t \in Desks \cup Hooks : Answered(t)' => Answered(t) /\ sess'[t] = sess[t]
    BY <1>1 DEF Answered, Visited
  <2> QED
    BY <2>1, AnswersKept
<1>4. SignatureOnFile'
  BY SignaturesKept
<1>5. docs' \in [Cases -> Papers]
  BY DEF PapersStand
<1> QED
  BY <1>2, <1>3, <1>4, <1>5

(* A session opens on what the database holds.                              *)
LEMMA OpenKeeps ==
    ASSUME Amendments!HardshipAssumption, AmendmentsInv, PapersStand, NEW s \in Desks \cup Hooks,
           NEW op \in {"send", "cancel", "maintain", "signed", "declined"},
           NEW r \in Cases \cup {None}, NEW d \in Nat, Amendments!OpenSession(s, op, r, d),
           op # "maintain" => r \in Cases, op = "send" => d = 0,
           op \in {"send", "cancel", "maintain"} <=> s \in Desks,
           op \in {"signed", "declined"} => d \in DOMAIN docs[r] /\ docs[r][d] = op
    PROVE  AmendmentsInv'
<1> USE DEF AmendmentsInv
<1> DEFINE v == [op |-> op, req |-> r, doc |-> d, reqs |-> reqs, items |-> << >>,
                 at |-> IF op \in {"send", "maintain"} THEN today ELSE 0]
<1>1. v \in Visits
  BY DEF Visits, RequestsTyped, ScheduleTyped, Amendments!HardshipAssumption
<1>2. sess' = [sess EXCEPT ![s] = v] /\ UNCHANGED <<today, items, appended, moved, reqs, docs>>
  BY DEF Amendments!OpenSession, Amendments!bookVars
<1>3. v.op = op /\ v.req = r /\ v.doc = d
  OBVIOUS
<1> HIDE DEF v
<1>4. sess' \in [Desks \cup Hooks -> Visits \cup {None}]
  BY <1>1, <1>2 DEF VisitsTyped
<1>5. \A t \in Desks \cup Hooks : sess'[t] = IF t = s THEN v ELSE sess[t]
  BY <1>2 DEF VisitsTyped
<1>6. \A q \in Cases : Len(docs'[q]) \in Nat
  BY DEF PapersStand, Papers
<1>7. VisitsTyped'
  <2>1. /\ sess'[s].op = "send" => sess'[s].doc <= Len(docs'[sess'[s].req])
        /\ sess'[s].op # "maintain" => sess'[s].req \in Cases
        /\ sess'[s].op \in {"send", "cancel", "maintain"} <=> s \in Desks
    BY <1>3, <1>5, <1>6
  <2>2. \A t \in (Desks \cup Hooks) \ {s} : sess'[t] = sess[t]
    BY <1>5
  <2> QED
    BY <1>4, <2>1, <2>2, VisitWritten
<1>8. AnswersBrought'
  BY <1>2, <1>3, <1>5 DEF AnswersBrought, Answered, Answer, Visited
<1>9. RequestsTyped' /\ ScheduleTyped' /\ ChangesTyped' /\ SignatureOnFile'
  BY <1>2, UntouchedStays DEF RequestsTyped, ScheduleTyped, ChangesTyped, SignatureOnFile
<1>10. docs' \in [Cases -> Papers]
  BY DEF PapersStand
<1> QED
  BY <1>7, <1>8, <1>9, <1>10

(* A request's row is replaced by another one.                              *)
LEMMA RowSaved ==
    ASSUME RequestsTyped, docs \in [Cases -> Papers], UNCHANGED docs, NEW r \in Cases,
           NEW x \in RequestRows, x.doc <= Len(docs[r]), reqs' = [reqs EXCEPT ![r] = x]
    PROVE  RequestsTyped'
BY DEF RequestsTyped

(* A request's status is written.                                           *)
LEMMA StatusSaved ==
    ASSUME RequestsTyped, docs \in [Cases -> Papers], UNCHANGED docs, NEW r \in Cases,
           NEW x, reqs' = [reqs EXCEPT ![r].status = x],
           x \in {"awaiting_signature", "declined", "cancelled", "expired", "active", "completed"}
    PROVE  RequestsTyped'
<1> DEFINE y == [reqs[r] EXCEPT !.status = x]
<1>1. reqs[r] \in RequestRows /\ reqs[r].doc <= Len(docs[r])
  BY DEF RequestsTyped
<1>2. y \in RequestRows /\ y.doc = reqs[r].doc
  BY <1>1 DEF RequestRows
<1>3. reqs' = [reqs EXCEPT ![r] = y]
  BY DEF RequestsTyped
<1> HIDE DEF y
<1> QED
  BY <1>1, <1>2, <1>3, RowSaved

(* A request's signature is recorded.                                       *)
LEMMA Signed ==
    ASSUME RequestsTyped, docs \in [Cases -> Papers], UNCHANGED docs, NEW s,
           NEW r \in Cases, sess[s].req = r, sess[s].at \in Nat, NEW x,
           x \in {"none", "draft", "awaiting_signature", "declined", "cancelled", "expired",
                  "active", "completed"},
           Amendments!Sign(s, x)
    PROVE  /\ RequestsTyped'
           /\ \A q \in Cases \ {r} : reqs'[q] = reqs[q]
           /\ reqs'[r] = [reqs[r] EXCEPT !.status = x, !.signed = sess[s].at]
<1> DEFINE y == [reqs[r] EXCEPT !.status = x, !.signed = sess[s].at]
<1>1. reqs[r] \in RequestRows /\ reqs[r].doc <= Len(docs[r])
  BY DEF RequestsTyped
<1>2. sess[s].at \in Int
  OBVIOUS
<1>3. y \in RequestRows /\ y.doc = reqs[r].doc
  BY <1>1, <1>2 DEF RequestRows
<1>4. reqs' = [reqs EXCEPT ![r] = y]
  BY DEF RequestsTyped, Amendments!Sign
<1> HIDE DEF y
<1>5. RequestsTyped'
  BY <1>1, <1>3, <1>4, RowSaved
<1>6. reqs'[r] = y /\ \A q \in Cases \ {r} : reqs'[q] = reqs[q]
  BY <1>4 DEF RequestsTyped
<1> QED
  BY <1>5, <1>6 DEF y

(* Every step keeps the invariant: the clock, payments and staff on the     *)
(* schedule, the desk on requests, webhooks on both.                        *)
LEMMA AmendmentsStepKeeps ==
    ASSUME Amendments!HardshipAssumption, AmendmentsInv, [Amendments!Next]_Amendments!vars
    PROVE  AmendmentsInv'
<1> USE DEF Amendments!bookVars
<1>p. PapersStand
  BY NextPapersStand DEF AmendmentsInv
<1>t. /\ RequestsTyped /\ ScheduleTyped /\ ChangesTyped /\ VisitsTyped
      /\ docs \in [Cases -> Papers]
  BY DEF AmendmentsInv
<1>r. ASSUME UNCHANGED reqs PROVE RequestsTyped'
  BY <1>p, <1>r, <1>t, RowsWritten DEF RequestsTyped
<1>1. ASSUME Amendments!Tomorrow PROVE AmendmentsInv'
  <2>1. ScheduleTyped'
    <3>1. today' \in 0..MaxTime
      BY <1>1, <1>t DEF Amendments!Tomorrow, ScheduleTyped, Amendments!HardshipAssumption
    <3>2. \A i \in 1..NItems : /\ items[i] \in ItemRows
                               /\ [items[i] EXCEPT !.status = "late"] \in ItemRows
      BY <1>t DEF ScheduleTyped, ItemRows
    <3>3. items' = [i \in 1..NItems |->
                      IF i < today' /\ items[i].status \in {"scheduled", "partial"}
                      THEN [items[i] EXCEPT !.status = "late"] ELSE items[i]]
      BY <1>1 DEF Amendments!Tomorrow, Amendments!Items, Amendments!Shiftable
    <3>4. items' \in [1..NItems -> ItemRows]
      BY <3>2, <3>3
    <3> QED
      BY <3>1, <3>4 DEF ScheduleTyped
  <2> QED
    BY <1>1, <1>p, <1>r, <2>1, QuietKeeps DEF Amendments!Tomorrow
<1>2. ASSUME Amendments!Pay PROVE AmendmentsInv'
  <2>1. ScheduleTyped'
    <3> DEFINE next == Amendments!Min(Amendments!Owed)
    <3>1. Amendments!Owed # {} /\ Amendments!Owed \in SUBSET (1..NItems)
      BY <1>2 DEF Amendments!Pay, Amendments!Owed, Amendments!Items
    <3>2. next \in Amendments!Owed
      <4>1. \E j \in Amendments!Owed : \A m \in Amendments!Owed : j <= m
        BY <3>1, NatHasMin
      <4> QED
        BY <4>1 DEF Amendments!Min
    <3>3. next \in 1..NItems /\ items[next].paid < Total
      BY <3>2 DEF Amendments!Owed, Amendments!Items
    <3>4. items' = [i \in 1..NItems |->
            CASE i < next -> [items[i] EXCEPT !.status = "paid"]
              [] i = next -> [status |-> IF items[i].paid + 1 = Total THEN "paid" ELSE "partial",
                              paid |-> items[i].paid + 1]
              [] i > next -> items[i]]
      BY <1>2 DEF Amendments!Pay, Amendments!Items
    <3> HIDE DEF next
    <3>5. \A i \in 1..NItems : items[i] \in ItemRows /\ [items[i] EXCEPT !.status = "paid"] \in ItemRows
      BY <1>t DEF ScheduleTyped, ItemRows
    <3>6. items[next].paid + 1 \in 0..Total
      <4>1. items[next].paid \in 0..Total
        BY <3>3, <3>5 DEF ItemRows
      <4>2. Total \in Nat
        BY DEF Amendments!HardshipAssumption
      <4> QED
        BY <3>3, <4>1, <4>2
    <3>7. [status |-> IF items[next].paid + 1 = Total THEN "paid" ELSE "partial",
           paid |-> items[next].paid + 1] \in ItemRows
      BY <3>6 DEF ItemRows
    <3> DEFINE new(i) ==
                 CASE i < next -> [items[i] EXCEPT !.status = "paid"]
                   [] i = next -> [status |-> IF items[i].paid + 1 = Total THEN "paid" ELSE "partial",
                                   paid |-> items[i].paid + 1]
                   [] i > next -> items[i]
    <3>8. \A i \in 1..NItems : new(i) \in ItemRows
      <4> TAKE i \in 1..NItems
      <4>1. CASE i < next
        BY <3>3, <3>5, <4>1
      <4>2. CASE i = next
        BY <3>3, <3>7, <4>2
      <4>3. CASE i > next
        <5>1. ~(i < next) /\ i # next
          BY <3>3, <4>3
        <5>2. new(i) = items[i]
          BY <4>3, <5>1
        <5> HIDE DEF new
        <5> QED
          BY <3>5, <5>2
      <4>4. i < next \/ i = next \/ i > next
        BY <3>3
      <4> HIDE DEF new
      <4> QED
        BY <4>1, <4>2, <4>3, <4>4
    <3>9. items' = [i \in 1..NItems |-> new(i)]
      BY <3>4
    <3> HIDE DEF new
    <3>10. items' \in [1..NItems -> ItemRows]
      BY <3>8, <3>9
    <3> QED
      BY <1>2, <1>t, <3>10 DEF ScheduleTyped, Amendments!Pay
  <2> QED
    BY <1>2, <1>p, <1>r, <2>1, QuietKeeps DEF Amendments!Pay
<1>3. ASSUME Amendments!BorrowerAnswers PROVE AmendmentsInv'
  BY <1>3, <1>p, <1>r, <1>t, QuietKeeps DEF Amendments!BorrowerAnswers, ScheduleTyped
<1>4. ASSUME Amendments!AckOrphan PROVE AmendmentsInv'
  BY <1>4, <1>p, <1>r, <1>t, QuietKeeps DEF Amendments!AckOrphan, ScheduleTyped
<1>5. ASSUME NEW i \in Amendments!Items, Amendments!StaffSuspends(i) \/ Amendments!StaffLifts(i)
      PROVE  AmendmentsInv'
  <2>1. PICK st \in {"suspended", "partial", "scheduled"} :
          items' = [items EXCEPT ![i].status = st] /\ UNCHANGED <<today, reqs, appended, moved, docs, sess>>
    BY <1>5 DEF Amendments!StaffSuspends, Amendments!StaffLifts
  <2>2. ScheduleTyped'
    <3> DEFINE x == [items[i] EXCEPT !.status = st]
    <3>1. i \in 1..NItems /\ items[i] \in ItemRows
      BY <1>t DEF ScheduleTyped, Amendments!Items
    <3>2. x \in ItemRows
      BY <3>1 DEF ItemRows
    <3>3. items' = [items EXCEPT ![i] = x]
      BY <1>t, <2>1 DEF ScheduleTyped
    <3> HIDE DEF x
    <3> QED
      BY <1>t, <2>1, <3>2, <3>3 DEF ScheduleTyped
  <2> QED
    BY <1>p, <1>r, <2>1, <2>2, QuietKeeps
<1>6. ASSUME NEW r \in Cases, Amendments!CreateRequest(r) PROVE AmendmentsInv'
  <2>1. PICK kind \in Amendments!Kinds, targets \in SUBSET Amendments!Items :
          reqs' = [reqs EXCEPT ![r] = [Amendments!NoRequest EXCEPT !.status = "draft",
                                          !.kind = kind, !.targets = targets]]
    BY <1>6 DEF Amendments!CreateRequest
  <2> DEFINE x == [Amendments!NoRequest EXCEPT !.status = "draft", !.kind = kind,
                                               !.targets = targets]
  <2>2. x \in RequestRows /\ x.doc = 0
    <3>1. Amendments!NoRequest \in RequestRows /\ Amendments!NoRequest.doc = 0
      BY DEF Amendments!NoRequest, RequestRows
    <3>2. kind \in {"deferment", "due_date_change"} /\ targets \in SUBSET (1..NItems)
      BY DEF Amendments!Kinds, Amendments!Items
    <3> QED
      BY <3>1, <3>2 DEF RequestRows
  <2> HIDE DEF x
  <2>3. reqs' = [reqs EXCEPT ![r] = x]
    BY <2>1 DEF x
  <2>4. Len(docs[r]) \in Nat
    BY <1>t DEF Papers
  <2>5. UNCHANGED <<today, items, appended, moved, docs, sess>>
    BY <1>6 DEF Amendments!CreateRequest
  <2>6. RequestsTyped'
    <3>1. RequestsTyped /\ docs \in [Cases -> Papers]
      BY <1>t
    <3>2. x.doc <= Len(docs[r]) /\ UNCHANGED docs
      BY <2>2, <2>4, <2>5
    <3> QED
      BY <2>2, <2>3, <3>1, <3>2, RowSaved
  <2> QED
    BY <1>p, <1>t, <2>5, <2>6, QuietKeeps DEF ScheduleTyped
<1>7. ASSUME NEW s \in Desks, Amendments!OpenDesk(s) PROVE AmendmentsInv'
  <2>1. PICK op \in {"send", "cancel", "maintain"}, r \in Cases \cup {None} :
          Amendments!OpenSession(s, op, r, 0) /\ (op # "maintain" => r \in Cases)
    BY <1>7 DEF Amendments!OpenDesk
  <2> QED
    BY <1>p, <2>1, OpenKeeps
<1>8. ASSUME NEW s \in Desks, Amendments!SendCall(s) PROVE AmendmentsInv'
  <2> DEFINE r == sess[s].req
             v == [sess[s] EXCEPT !.doc = Len(docs[r]) + 1]
  <2>1. /\ sess[s] \in Visits /\ sess[s].op = "send" /\ r \in Cases
        /\ docs' = [docs EXCEPT ![r] = Append(docs[r], "out")]
        /\ UNCHANGED <<today, items, reqs, appended, moved>>
    BY <1>8, <1>t DEF Amendments!SendCall, Amendments!Doing, VisitsTyped, Visited
  <2>2. sess' = [sess EXCEPT ![s] = v]
    BY <1>8, <1>t DEF Amendments!SendCall, VisitsTyped
  <2>3. docs[r] \in Papers /\ docs'[r] = Append(docs[r], "out")
    BY <1>t, <2>1
  <2>4. Len(docs[r]) + 1 \in Nat /\ Len(docs'[r]) = Len(docs[r]) + 1
    BY <2>3 DEF Papers
  <2>5. v \in Visits /\ v.op = "send" /\ v.req = r /\ v.doc = Len(docs'[r])
    BY <2>1, <2>4 DEF Visits
  <2> HIDE DEF v
  <2>6. sess' \in [Desks \cup Hooks -> Visits \cup {None}]
    BY <1>t, <2>2, <2>5 DEF VisitsTyped
  <2>7. \A t \in Desks \cup Hooks : sess'[t] = IF t = s THEN v ELSE sess[t]
    BY <1>t, <2>2 DEF VisitsTyped
  <2>8. VisitsTyped'
    <3>1. /\ sess'[s].op = "send" => sess'[s].doc <= Len(docs'[sess'[s].req])
          /\ sess'[s].op # "maintain" => sess'[s].req \in Cases
          /\ sess'[s].op \in {"send", "cancel", "maintain"} <=> s \in Desks
      BY <2>1, <2>4, <2>5, <2>7
    <3>2. \A t \in (Desks \cup Hooks) \ {s} : sess'[t] = sess[t]
      BY <2>7
    <3> QED
      BY <1>p, <1>t, <2>6, <3>1, <3>2, VisitWritten
  <2>9. AnswersBrought'
    <3>1. \A t \in Desks \cup Hooks : Answered(t)' => Answered(t) /\ sess'[t] = sess[t]
      BY <2>5, <2>7 DEF Answered, Visited
    <3> QED
      BY <1>p, <1>t, <3>1, AnswersKept DEF AmendmentsInv
  <2>10. SignatureOnFile'
    BY <1>p, <2>1, UntouchedStays, SignaturesKept DEF AmendmentsInv
  <2>11. RequestsTyped' /\ ScheduleTyped' /\ ChangesTyped' /\ docs' \in [Cases -> Papers]
    BY <1>p, <1>r, <1>t, <2>1 DEF ScheduleTyped, ChangesTyped, PapersStand
  <2> QED
    BY <2>8, <2>9, <2>10, <2>11 DEF AmendmentsInv
<1>9. ASSUME NEW s \in Desks, Amendments!SendCommit(s) PROVE AmendmentsInv'
  <2> DEFINE r == sess[s].req
             x == [reqs[r] EXCEPT !.status = "awaiting_signature", !.doc = sess[s].doc,
                                  !.expires = sess[s].at + Window, !.resent = (reqs[r].doc # 0)]
  <2>1. /\ sess[s] \in Visits /\ r \in Cases /\ sess[s].doc <= Len(docs[r])
        /\ UNCHANGED <<today, items, appended, moved, docs>> /\ Amendments!Close(s)
    BY <1>9, <1>t DEF Amendments!SendCommit, Amendments!Doing, VisitsTyped, Visited
  <2>2. reqs' = [reqs EXCEPT ![r] = x]
    BY <1>9, <1>t, <2>1 DEF Amendments!SendCommit, RequestsTyped
  <2>3. reqs[r] \in RequestRows /\ sess[s].doc \in Nat /\ sess[s].at + Window \in Nat
    BY <1>t, <2>1 DEF RequestsTyped, Visits, Amendments!HardshipAssumption
  <2>4. x \in RequestRows /\ x.doc = sess[s].doc
    BY <2>3 DEF RequestRows
  <2> HIDE DEF x, r
  <2>5. RequestsTyped'
    BY <1>t, <2>1, <2>2, <2>4, RowSaved
  <2> QED
    BY <1>p, <1>t, <2>1, <2>5, CloseKeeps, UntouchedStays DEF ScheduleTyped, ChangesTyped
<1>10. ASSUME NEW s \in Desks, Amendments!Cancel(s) PROVE AmendmentsInv'
  <2>1. /\ sess[s].req \in Cases
        /\ UNCHANGED <<today, items, appended, moved, docs>> /\ Amendments!Close(s)
    BY <1>10, <1>t DEF Amendments!Cancel, Amendments!Doing, VisitsTyped, Visited
  <2>2. RequestsTyped'
    BY <1>10, <1>t, <2>1, StatusSaved DEF Amendments!Cancel
  <2> QED
    BY <1>p, <1>t, <2>1, <2>2, CloseKeeps, UntouchedStays DEF ScheduleTyped, ChangesTyped
<1>11. ASSUME NEW s \in Desks, Amendments!RunMaintenance(s) PROVE AmendmentsInv'
  <2>1. UNCHANGED <<today, items, appended, moved, docs>> /\ Amendments!Close(s)
    BY <1>11 DEF Amendments!RunMaintenance
  <2>2. \A r \in Cases : /\ Amendments!Maintained(reqs[r], sess[s].reqs[r], sess[s].at) \in RequestRows
                         /\ Amendments!Maintained(reqs[r], sess[s].reqs[r], sess[s].at).doc = reqs[r].doc
    <3> SUFFICES ASSUME NEW r \in Cases
                 PROVE  /\ Amendments!Maintained(reqs[r], sess[s].reqs[r], sess[s].at) \in RequestRows
                        /\ Amendments!Maintained(reqs[r], sess[s].reqs[r], sess[s].at).doc = reqs[r].doc
      OBVIOUS
    <3>1. reqs[r] \in RequestRows
      BY <1>t DEF RequestsTyped
    <3>2. \A x \in {"expired", "completed"} :
            [reqs[r] EXCEPT !.status = x] \in RequestRows /\ [reqs[r] EXCEPT !.status = x].doc = reqs[r].doc
      BY <3>1 DEF RequestRows
    <3> QED
      BY <3>1, <3>2 DEF Amendments!Maintained
  <2>3. RequestsTyped'
    BY <1>11, <1>t, <2>1, <2>2 DEF Amendments!RunMaintenance, RequestsTyped
  <2> QED
    BY <1>p, <1>t, <2>1, <2>3, CloseKeeps, UntouchedStays DEF ScheduleTyped, ChangesTyped
<1>12. ASSUME NEW s \in Desks \cup Hooks, Amendments!Crash(s) PROVE AmendmentsInv'
  BY <1>12, <1>p, <1>r, <1>t, CloseKeeps, UntouchedStays
     DEF Amendments!Crash, ScheduleTyped, ChangesTyped
<1>13. ASSUME NEW s \in Hooks, Amendments!OpenHook(s) PROVE AmendmentsInv'
  <2>0. PICK r \in Cases : \E d \in DOMAIN docs[r] :
          docs[r][d] \in {"signed", "declined"} /\ Amendments!OpenSession(s, docs[r][d], r, d)
    BY <1>13 DEF Amendments!OpenHook, Amendments!Deliverable
  <2>1. PICK d \in DOMAIN docs[r] :
          docs[r][d] \in {"signed", "declined"} /\ Amendments!OpenSession(s, docs[r][d], r, d)
    BY <2>0
  <2>2. d \in Nat
    BY <1>t DEF Papers
  <2>3. s \notin Desks
    BY DEF Amendments!HardshipAssumption
  <2> QED
    BY <1>p, <2>1, <2>2, <2>3, OpenKeeps
<1>14. ASSUME NEW s \in Hooks, Amendments!Declined(s) PROVE AmendmentsInv'
  <2>1. /\ sess[s].req \in Cases
        /\ UNCHANGED <<today, items, appended, moved, docs>> /\ Amendments!Close(s)
    BY <1>14, <1>t DEF Amendments!Declined, Amendments!Doing, VisitsTyped, Visited
  <2>2. RequestsTyped'
    BY <1>14, <1>r, <1>t, <2>1, StatusSaved DEF Amendments!Declined
  <2> QED
    BY <1>p, <1>t, <2>1, <2>2, CloseKeeps, UntouchedStays DEF ScheduleTyped, ChangesTyped
<1>15. ASSUME NEW s \in Hooks, Amendments!SignatureIgnored(s) PROVE AmendmentsInv'
  BY <1>15, <1>p, <1>r, <1>t, CloseKeeps, UntouchedStays
     DEF Amendments!SignatureIgnored, ScheduleTyped, ChangesTyped
<1>16. ASSUME NEW s \in Hooks, Amendments!SignatureTooLate(s) PROVE AmendmentsInv'
  <2>1. /\ sess[s].req \in Cases
        /\ UNCHANGED <<today, items, appended, moved, docs>> /\ Amendments!Close(s)
    BY <1>16, <1>t DEF Amendments!SignatureTooLate, Amendments!Doing, VisitsTyped, Visited
  <2>2. RequestsTyped'
    BY <1>16, <1>t, <2>1, StatusSaved DEF Amendments!SignatureTooLate
  <2> QED
    BY <1>p, <1>t, <2>1, <2>2, CloseKeeps, UntouchedStays DEF ScheduleTyped, ChangesTyped
<1>17. ASSUME NEW s \in Hooks, Amendments!Deferring(s) PROVE AmendmentsInv'
  <2> DEFINE r == sess[s].req
             T == sess[s].reqs[r].targets
  <2>1. /\ r \in Cases /\ Answered(s) /\ sess[s].op = "applying" /\ sess[s] \in Visits
        /\ UNCHANGED <<today, moved, docs>> /\ Amendments!Close(s)
        /\ Amendments!Sign(s, "active") /\ sess[s].req = r
        /\ items' = Amendments!Suspend(T)
        /\ appended' = [appended EXCEPT ![r] =
                          [i \in 1..NItems |-> IF i \in T THEN @[i] + 1 ELSE @[i]]]
    BY <1>17, <1>t DEF Amendments!Deferring, Amendments!Applying, Amendments!Doing,
       Amendments!Seen, Amendments!Items, VisitsTyped, Visited, Answered
  <2>2. \E d \in DOMAIN docs[r] : docs[r][d] = "signed"
    BY <2>1 DEF AmendmentsInv, AnswersBrought, Answer
  <2> HIDE DEF r, T
  <2>3. RequestsTyped'
    BY <1>t, <2>1, Signed DEF Visits
  <2>4. ScheduleTyped'
    <3>1. \A i \in 1..NItems : /\ items[i] \in ItemRows
                               /\ [items[i] EXCEPT !.status = "suspended"] \in ItemRows
      BY <1>t DEF ScheduleTyped, ItemRows
    <3>2. items' = [i \in 1..NItems |->
             IF i \in T THEN [items[i] EXCEPT !.status = "suspended"] ELSE items[i]]
      BY <2>1 DEF Amendments!Suspend, Amendments!Items
    <3>3. items' \in [1..NItems -> ItemRows]
      BY <3>1, <3>2
    <3> QED
      BY <1>t, <2>1, <3>3 DEF ScheduleTyped
  <2>5. ChangesTyped'
    <3>1. [i \in 1..NItems |-> IF i \in T THEN appended[r][i] + 1 ELSE appended[r][i]]
            \in [1..NItems -> Nat]
      <4>1. \A i \in 1..NItems : appended[r][i] \in Nat
        BY <1>t, <2>1 DEF ChangesTyped
      <4> QED
        BY <4>1
    <3>2. appended' = [appended EXCEPT ![r] =
             [i \in 1..NItems |-> IF i \in T THEN appended[r][i] + 1 ELSE appended[r][i]]]
      BY <1>t, <2>1 DEF ChangesTyped
    <3> QED
      BY <1>t, <2>1, <3>1, <3>2 DEF ChangesTyped
  <2>6. \A q \in Cases : Amendments!Touched(q)' =>
          Amendments!Touched(q) \/ \E d \in DOMAIN docs[q] : docs[q][d] = "signed"
    <3>1. \A q \in Cases \ {r} : appended'[q] = appended[q]
      BY <1>t, <2>1 DEF ChangesTyped
    <3> QED
      BY <2>1, <2>2, <3>1 DEF Amendments!Touched
  <2> QED
    BY <1>p, <2>1, <2>3, <2>4, <2>5, <2>6, CloseKeeps
<1>18. ASSUME NEW s \in Hooks, Amendments!DeferringFails(s) PROVE AmendmentsInv'
  BY <1>18, <1>p, <1>r, <1>t, CloseKeeps, UntouchedStays
     DEF Amendments!DeferringFails, ScheduleTyped, ChangesTyped
<1>19. ASSUME NEW s \in Hooks, Amendments!Shifting(s) PROVE AmendmentsInv'
  <2> DEFINE r == sess[s].req
  <2>1. /\ r \in Cases /\ Answered(s) /\ sess[s].op = "applying" /\ sess[s] \in Visits
        /\ UNCHANGED <<today, items, appended, docs>> /\ Amendments!Close(s) /\ sess[s].req = r
        /\ moved' = moved \cup ({r} \X Amendments!Shifted(s))
    BY <1>19, <1>t DEF Amendments!Shifting, Amendments!Applying, Amendments!Doing,
       VisitsTyped, Visited, Answered
  <2>2. PICK x \in {"completed", reqs[r].status} : Amendments!Sign(s, x)
    BY <1>19 DEF Amendments!Shifting
  <2>3. \E d \in DOMAIN docs[r] : docs[r][d] = "signed"
    BY <2>1 DEF AmendmentsInv, AnswersBrought, Answer
  <2>4. Amendments!Shifted(s) \in SUBSET (1..NItems)
    BY <2>1 DEF Amendments!Shifted, Amendments!Seen, Visits, RequestRows
  <2> HIDE DEF r
  <2>5. RequestsTyped'
    <3>1. x \in {"none", "draft", "awaiting_signature", "declined", "cancelled", "expired",
                 "active", "completed"}
      BY <1>t, <2>1 DEF RequestsTyped, RequestRows
    <3> QED
      BY <1>t, <2>1, <2>2, <3>1, Signed DEF Visits
  <2>6. ScheduleTyped' /\ ChangesTyped'
    BY <1>t, <2>1, <2>4 DEF ScheduleTyped, ChangesTyped
  <2>7. \A q \in Cases : Amendments!Touched(q)' =>
          Amendments!Touched(q) \/ \E d \in DOMAIN docs[q] : docs[q][d] = "signed"
    BY <2>1, <2>3 DEF Amendments!Touched
  <2> QED
    BY <1>p, <2>1, <2>5, <2>6, <2>7, CloseKeeps
<1>20. ASSUME NEW s \in Hooks, Amendments!RecordSignature(s) PROVE AmendmentsInv'
  <2> DEFINE v == [sess[s] EXCEPT !.op = "applying", !.at = today, !.items = items]
  <2>1. /\ sess[s] \in Visits /\ Answered(s) /\ sess[s].op = "signed"
        /\ UNCHANGED <<today, items, reqs, appended, moved, docs>>
    BY <1>20, <1>t DEF Amendments!RecordSignature, Amendments!Doing, VisitsTyped, Visited, Answered
  <2>2. sess' = [sess EXCEPT ![s] = v]
    BY <1>20, <1>t DEF Amendments!RecordSignature, VisitsTyped
  <2>3. today \in Nat /\ items \in [1..NItems -> ItemRows]
    BY <1>t DEF ScheduleTyped, Amendments!HardshipAssumption
  <2>4. v \in Visits /\ v.op = "applying" /\ v.req = sess[s].req /\ v.doc = sess[s].doc
    BY <2>1, <2>3 DEF Visits
  <2> HIDE DEF v
  <2>5. sess' \in [Desks \cup Hooks -> Visits \cup {None}]
    BY <1>t, <2>2, <2>4 DEF VisitsTyped
  <2>6. \A t \in Desks \cup Hooks : sess'[t] = IF t = s THEN v ELSE sess[t]
    BY <1>t, <2>2 DEF VisitsTyped
  <2>7. sess[s].req \in Cases /\ s \notin Desks
    BY <1>t, <2>1 DEF VisitsTyped, Answered, Amendments!HardshipAssumption
  <2>8. VisitsTyped'
    BY <1>p, <1>t, <2>4, <2>5, <2>6, <2>7, VisitWritten
  <2>9. AnswersBrought'
    BY <2>1, <2>4, <2>6 DEF AmendmentsInv, AnswersBrought, Answered, Answer, Visited
  <2>10. SignatureOnFile'
    BY <1>p, <2>1, UntouchedStays, SignaturesKept DEF AmendmentsInv
  <2>11. RequestsTyped' /\ ScheduleTyped' /\ ChangesTyped' /\ docs' \in [Cases -> Papers]
    BY <1>p, <1>r, <1>t, <2>1 DEF ScheduleTyped, ChangesTyped, PapersStand
  <2> QED
    BY <2>8, <2>9, <2>10, <2>11 DEF AmendmentsInv
<1>21. CASE UNCHANGED Amendments!vars
  BY <1>21, <1>p, <1>r, <1>t, QuietKeeps DEF Amendments!vars, ScheduleTyped
<1> QED
  BY <1>1, <1>2, <1>3, <1>4, <1>5, <1>6, <1>7, <1>8, <1>9, <1>10, <1>11, <1>12, <1>13, <1>14,
     <1>15, <1>16, <1>17, <1>18, <1>19, <1>20, <1>21
     DEF Amendments!Next, Amendments!DeskStep, Amendments!HookStep

(* What did not touch the schedule appended nothing to it.                  *)
LEMMA NothingAppended ==
    ASSUME ChangesTyped, NEW r \in Cases, ~Amendments!Touched(r)
    PROVE  \A i \in 1..NItems : appended[r][i] = 0
<1>1. \A i \in 1..NItems : appended[r][i] \in Nat
  BY DEF ChangesTyped
<1>2. \A i \in 1..NItems : ~(appended[r][i] > 0)
  BY DEF Amendments!Touched, Amendments!Items
<1> QED
  BY <1>1, <1>2

(* What a session may rely on of a request it has read.                     *)
RowStays(r) ==
    /\ reqs'[r].doc = reqs[r].doc /\ reqs'[r].targets = reqs[r].targets
    /\ reqs'[r].expires = reqs[r].expires /\ reqs'[r].resent = reqs[r].resent

(* Or the request is sent again.                                            *)
SentAgain(r) == reqs'[r].resent /\ reqs'[r].doc # 0

(* A step that touches nothing and leaves the requests that did, or sends   *)
(* them again, keeps what is known of them.                                 *)
LEMMA ChangesStay ==
    ASSUME ChangesTyped, TouchedOnce, Amendments!DeferredOnceOrNotAtAll,
           UNCHANGED <<appended, moved>>, acked \subseteq acked',
           \A r \in Cases : Amendments!Touched(r) =>
               (RowStays(r) /\ reqs'[r].signed = reqs[r].signed) \/ SentAgain(r)
    PROVE  TouchedOnce' /\ Amendments!DeferredOnceOrNotAtAll'
<1>1. \A r \in Cases : Amendments!Touched(r)' <=> Amendments!Touched(r)
  BY UntouchedStays
<1>2. ASSUME NEW r \in Cases, Amendments!Touched(r)'
      PROVE  /\ reqs'[r].doc # 0
             /\ \/ reqs'[r].resent
                \/ <<r, reqs'[r].doc>> \in acked' /\ reqs'[r].signed \in 0..reqs'[r].expires
  <2>1. Amendments!Touched(r)
    BY <1>1, <1>2
  <2>2. /\ reqs[r].doc # 0
        /\ \/ reqs[r].resent
           \/ <<r, reqs[r].doc>> \in acked /\ reqs[r].signed \in 0..reqs[r].expires
    BY <2>1 DEF TouchedOnce
  <2> QED
    BY <2>1, <2>2 DEF RowStays, SentAgain
<1>3. ASSUME NEW r \in Cases
      PROVE  \/ reqs'[r].resent
             \/ \A i \in 1..NItems : appended'[r][i] = 0
             \/ \A i \in 1..NItems : appended'[r][i] = IF i \in reqs'[r].targets THEN 1 ELSE 0
  <2>1. CASE Amendments!Touched(r)
    BY <2>1 DEF RowStays, SentAgain, Amendments!DeferredOnceOrNotAtAll, Amendments!Items
  <2>2. CASE ~Amendments!Touched(r)
    BY <2>2, NothingAppended
  <2> QED
    BY <2>1, <2>2
<1>4. TouchedOnce'
  BY <1>2 DEF TouchedOnce
<1> QED
  BY <1>3, <1>4 DEF Amendments!DeferredOnceOrNotAtAll, Amendments!Items

(* What webhooks read still stands where their requests stay or are sent    *)
(* again, and no other one acknowledged their event.                        *)
LEMMA ReadsKept ==
    ASSUME ReadsStand,
           \A s \in Desks \cup Hooks : Answered(s)' =>
               /\ Answered(s) /\ sess'[s] = sess[s]
               /\ <<sess[s].req, sess[s].doc>> \notin acked'
               /\ RowStays(sess[s].req) \/ SentAgain(sess[s].req)
    PROVE  ReadsStand'
<1> SUFFICES ASSUME NEW s \in Desks \cup Hooks, Answered(s)'
             PROVE  /\ reqs'[sess'[s].req].doc # 0
                    /\ <<sess'[s].req, sess'[s].doc>> \notin acked'
                    /\ \A h \in Desks \cup Hooks :
                         Answered(h)' /\ sess'[h].req = sess'[s].req
                                      /\ sess'[h].doc = sess'[s].doc => h = s
                    /\ InTime(s)' /\ (reqs'[sess'[s].req].resent \/ ReadHolds(s)')
  BY DEF ReadsStand
<1>1. /\ Answered(s) /\ sess'[s] = sess[s]
      /\ <<sess[s].req, sess[s].doc>> \notin acked'
      /\ RowStays(sess[s].req) \/ SentAgain(sess[s].req)
  OBVIOUS
<1>2. \A h \in Desks \cup Hooks :
        Answered(h)' /\ sess'[h].req = sess'[s].req /\ sess'[h].doc = sess'[s].doc => h = s
  BY <1>1 DEF ReadsStand
<1>3. /\ reqs[sess[s].req].doc # 0 /\ InTime(s)
      /\ reqs[sess[s].req].resent \/ ReadHolds(s)
  BY <1>1 DEF ReadsStand
<1>4. InTime(s)'
  BY <1>1, <1>3 DEF InTime
<1>5. reqs'[sess[s].req].doc # 0
  BY <1>1, <1>3 DEF RowStays, SentAgain
<1>6. reqs'[sess[s].req].resent \/ ReadHolds(s)'
  BY <1>1, <1>3 DEF RowStays, SentAgain, ReadHolds
<1> QED
  BY <1>1, <1>2, <1>4, <1>5, <1>6

(* A step that leaves what sessions read of the requests alone.             *)
LEMMA RowsStayKeeps ==
    ASSUME AmendmentsInv, DesksInv, UNCHANGED <<appended, moved>>, acked \subseteq acked',
           \A r \in Cases : RowStays(r) /\ reqs'[r].signed = reqs[r].signed,
           \A r \in Cases : reqs'[r].status \in {"none", "draft"} =>
               reqs[r].status \in {"none", "draft"},
           \A s \in Desks \cup Hooks : Answered(s)' =>
               /\ Answered(s) /\ sess'[s] = sess[s]
               /\ <<sess[s].req, sess[s].doc>> \notin acked'
    PROVE  DesksInv'
<1> USE DEF DesksInv
<1>1. TouchedOnce' /\ Amendments!DeferredOnceOrNotAtAll'
  BY ChangesStay DEF AmendmentsInv
<1>2. \A s \in Desks \cup Hooks : Answered(s) => sess[s].req \in Cases
  BY DEF Answered, AmendmentsInv, VisitsTyped
<1>3. ReadsStand'
  BY <1>2, ReadsKept
<1>4. SentOnce'
  BY DEF SentOnce, RowStays
<1> QED
  BY <1>1, <1>3, <1>4

(* The request of an answered document was sent, and unless it was sent     *)
(* again it has not changed the schedule yet.                               *)
LEMMA AnsweredWasSent ==
    ASSUME AmendmentsInv, DesksInv, NEW s \in Desks \cup Hooks, Answered(s)
    PROVE  /\ sess[s].req \in Cases /\ reqs[sess[s].req].doc # 0
           /\ reqs[sess[s].req].status \notin {"none", "draft"}
           /\ ~reqs[sess[s].req].resent => ReadHolds(s) /\ ~Amendments!Touched(sess[s].req)
<1>1. sess[s].req \in Cases
  BY DEF Answered, AmendmentsInv, VisitsTyped
<1>2. /\ reqs[sess[s].req].doc # 0 /\ <<sess[s].req, sess[s].doc>> \notin acked
      /\ reqs[sess[s].req].resent \/ ReadHolds(s)
  BY DEF DesksInv, ReadsStand
<1>3. reqs[sess[s].req].status \notin {"none", "draft"}
  BY <1>1, <1>2 DEF DesksInv, SentOnce
<1> QED
  BY <1>1, <1>2, <1>3 DEF DesksInv, TouchedOnce, ReadHolds

(* A session closes, and if it is a webhook it may keep the nonce of its    *)
(* event.                                                                   *)
LEMMA HookCloses ==
    ASSUME AmendmentsInv, DesksInv, NEW s \in Desks \cup Hooks, Amendments!Close(s),
           \/ acked' = acked
           \/ Answered(s) /\ acked' = acked \cup {<<sess[s].req, sess[s].doc>>}
    PROVE  \A t \in Desks \cup Hooks : Answered(t)' =>
               /\ Answered(t) /\ sess'[t] = sess[t]
               /\ <<sess[t].req, sess[t].doc>> \notin acked'
<1>1. \A t \in Desks \cup Hooks : Visited(t)' => t # s /\ sess'[t] = sess[t]
  BY DEF Amendments!Close, Visited, AmendmentsInv, VisitsTyped
<1>2. \A t \in Desks \cup Hooks : Answered(t)' => t # s /\ Answered(t) /\ sess'[t] = sess[t]
  BY <1>1 DEF Answered, Visited
<1>3. ASSUME NEW t \in Desks \cup Hooks, Answered(t), t # s
      PROVE  <<sess[t].req, sess[t].doc>> \notin acked'
  BY <1>3 DEF DesksInv, ReadsStand
<1> QED
  BY <1>1, <1>2, <1>3

(* A session that changes no more than statuses, and none to a draft.       *)
LEMMA StatusKeeps ==
    ASSUME AmendmentsInv, DesksInv, NEW s \in Desks \cup Hooks, Amendments!Close(s),
           UNCHANGED <<appended, moved>>,
           \/ acked' = acked
           \/ Answered(s) /\ acked' = acked \cup {<<sess[s].req, sess[s].doc>>},
           \A r \in Cases :
               \/ reqs'[r] = reqs[r]
               \/ \E x \in {"cancelled", "declined", "expired", "completed"} :
                    reqs'[r] = [reqs[r] EXCEPT !.status = x]
    PROVE  DesksInv'
<1>1. \A r \in Cases : reqs[r] \in RequestRows
  BY DEF AmendmentsInv, RequestsTyped
<1>2. ASSUME NEW r \in Cases
      PROVE  /\ RowStays(r) /\ reqs'[r].signed = reqs[r].signed
             /\ reqs'[r].status \in {"none", "draft"} => reqs[r].status \in {"none", "draft"}
  <2>1. CASE reqs'[r] = reqs[r]
    BY <2>1 DEF RowStays
  <2>2. ASSUME NEW x \in {"cancelled", "declined", "expired", "completed"},
               reqs'[r] = [reqs[r] EXCEPT !.status = x]
        PROVE  /\ RowStays(r) /\ reqs'[r].signed = reqs[r].signed
               /\ reqs'[r].status \notin {"none", "draft"}
    BY <1>1, <2>2 DEF RowStays, RequestRows
  <2> QED
    BY <2>1, <2>2
<1>3. \A t \in Desks \cup Hooks : Answered(t)' =>
        /\ Answered(t) /\ sess'[t] = sess[t]
        /\ <<sess[t].req, sess[t].doc>> \notin acked'
  BY HookCloses
<1>4. acked \subseteq acked'
  OBVIOUS
<1> QED
  BY <1>2, <1>3, <1>4, RowsStayKeeps

(* A session that leaves the requests but for the status of its own.        *)
LEMMA OwnStatusKeeps ==
    ASSUME AmendmentsInv, DesksInv, NEW s \in Desks \cup Hooks, Amendments!Close(s),
           UNCHANGED <<appended, moved>>,
           \/ acked' = acked
           \/ Answered(s) /\ acked' = acked \cup {<<sess[s].req, sess[s].doc>>},
           NEW x \in {"cancelled", "declined", "expired"},
           UNCHANGED reqs \/ reqs' = [reqs EXCEPT ![sess[s].req].status = x]
    PROVE  DesksInv'
<1>1. \A r \in Cases : reqs'[r] = reqs[r] \/ reqs'[r] = [reqs[r] EXCEPT !.status = x]
  BY DEF AmendmentsInv, RequestsTyped
<1> QED
  BY <1>1, StatusKeeps

(* A webhook that applies a signature recorded inside the window.           *)
LEMMA SignKeeps ==
    ASSUME Amendments!HardshipAssumption, AmendmentsInv, DesksInv, NEW s \in Desks \cup Hooks,
           Answered(s), sess[s].op = "applying", Amendments!Close(s),
           acked' = acked \cup {<<sess[s].req, sess[s].doc>>},
           NEW x \in {"awaiting_signature", "declined", "cancelled", "expired", "active",
                      "completed"},
           Amendments!Sign(s, x), UNCHANGED docs,
           \A q \in Cases \ {sess[s].req} : Amendments!Touched(q)' <=> Amendments!Touched(q),
           \A q \in Cases \ {sess[s].req} : appended'[q] = appended[q],
           \/ reqs[sess[s].req].resent
           \/ \A i \in 1..NItems : appended'[sess[s].req][i] = 0
           \/ \A i \in 1..NItems : appended'[sess[s].req][i] =
                  IF i \in sess[s].reqs[sess[s].req].targets THEN 1 ELSE 0
    PROVE  DesksInv'
<1> DEFINE r == sess[s].req
           seen == sess[s].reqs[sess[s].req]
<1>1. r \in Cases /\ reqs[r].doc # 0 /\ reqs[r].status \notin {"none", "draft"}
  BY AnsweredWasSent
<1>2. /\ reqs[r] \in RequestRows /\ RequestsTyped /\ docs \in [Cases -> Papers]
      /\ sess[s] \in Visits /\ sess[s].at \in Nat /\ seen \in RequestRows
  <2>1. sess[s] \in Visits
    BY DEF AmendmentsInv, VisitsTyped, Answered, Visited
  <2> QED
    BY <1>1, <2>1 DEF AmendmentsInv, RequestsTyped, Visits
<1>3. /\ \A q \in Cases \ {r} : reqs'[q] = reqs[q]
      /\ reqs'[r] = [reqs[r] EXCEPT !.status = x, !.signed = sess[s].at]
  <2> DEFINE y == [reqs[r] EXCEPT !.status = x, !.signed = sess[s].at]
  <2>1. reqs' = [reqs EXCEPT ![r] = y] /\ reqs \in [Cases -> RequestRows]
    BY <1>1, <1>2 DEF Amendments!Sign, RequestsTyped
  <2> HIDE DEF y
  <2>2. reqs'[r] = y /\ \A q \in Cases \ {r} : reqs'[q] = reqs[q]
    BY <1>1, <2>1
  <2> QED
    BY <2>2 DEF y
<1>4. RowStays(r) /\ reqs'[r].signed = sess[s].at /\ reqs'[r].status = x
  BY <1>2, <1>3 DEF RowStays, RequestRows
<1>5. \A q \in Cases : RowStays(q)
  BY <1>3, <1>4 DEF RowStays
<1>6. ~reqs[r].resent => /\ sess[s].doc = reqs[r].doc /\ seen.targets = reqs[r].targets
                         /\ seen.expires = reqs[r].expires
  BY DEF DesksInv, ReadsStand, ReadHolds
<1>7. sess[s].at <= seen.expires
  BY DEF DesksInv, ReadsStand, InTime
<1>8. \A t \in Desks \cup Hooks : Answered(t)' =>
        /\ Answered(t) /\ sess'[t] = sess[t]
        /\ <<sess[t].req, sess[t].doc>> \notin acked'
  BY HookCloses
<1>9. ReadsStand'
  <2>1. \A t \in Desks \cup Hooks : Answered(t) => sess[t].req \in Cases
    BY DEF Answered, AmendmentsInv, VisitsTyped
  <2> QED
    BY <1>5, <1>8, <2>1, ReadsKept DEF DesksInv
<1>10. SentOnce'
  BY <1>3, <1>4 DEF DesksInv, SentOnce
<1>11. TouchedOnce'
  <2>1. ASSUME NEW q \in Cases, Amendments!Touched(q)'
        PROVE  /\ reqs'[q].doc # 0
               /\ \/ reqs'[q].resent
                  \/ <<q, reqs'[q].doc>> \in acked' /\ reqs'[q].signed \in 0..reqs'[q].expires
    <3>1. CASE q = r /\ reqs[r].resent
      BY <1>1, <1>4, <3>1 DEF RowStays
    <3>2. CASE q = r /\ ~reqs[r].resent
      <4>1. /\ reqs'[r].doc = sess[s].doc /\ reqs'[r].expires = seen.expires
            /\ reqs'[r].doc # 0
        BY <1>1, <1>4, <1>6, <3>2 DEF RowStays
      <4>2. sess[s].at \in 0..seen.expires
        BY <1>2, <1>7 DEF RequestRows
      <4>3. <<r, sess[s].doc>> \in acked'
        OBVIOUS
      <4> HIDE DEF r, seen
      <4> QED
        BY <1>4, <3>2, <4>1, <4>2, <4>3
    <3>3. CASE q # r
      BY <1>3, <2>1, <3>3 DEF DesksInv, TouchedOnce
    <3> QED
      BY <3>1, <3>2, <3>3
  <2> QED
    BY <2>1 DEF TouchedOnce
<1>12. Amendments!DeferredOnceOrNotAtAll'
  <2>1. reqs'[r].resent \/ reqs'[r].targets = seen.targets
    BY <1>4, <1>6 DEF RowStays
  <2>2. reqs'[r].resent = reqs[r].resent
    BY <1>4 DEF RowStays
  <2>3. \A q \in Cases \ {r} : reqs'[q] = reqs[q] /\ appended'[q] = appended[q]
    BY <1>3
  <2> QED
    BY <2>1, <2>2, <2>3 DEF DesksInv, Amendments!DeferredOnceOrNotAtAll, Amendments!Items
<1> QED
  BY <1>9, <1>10, <1>11, <1>12 DEF DesksInv

(* And every step keeps the second invariant too, whoever else is at work.  *)
LEMMA DesksStepKeep ==
    ASSUME Amendments!HardshipAssumption, AmendmentsInv, DesksInv,
           [Amendments!Next]_Amendments!vars
    PROVE  DesksInv'
<1> USE DEF Amendments!bookVars
<1>r. \A t \in Desks \cup Hooks : Answered(t) => <<sess[t].req, sess[t].doc>> \notin acked
  BY DEF DesksInv, ReadsStand
<1>h. \A t \in Desks \cup Hooks : Answered(t) => t \in Hooks
  BY DEF Answered, AmendmentsInv, VisitsTyped
<1>1. ASSUME UNCHANGED <<reqs, appended, moved, acked, sess>> PROVE DesksInv'
  BY <1>1, <1>r, RowsStayKeeps DEF RowStays, Answered, Visited
<1>2. ASSUME Amendments!AckOrphan PROVE DesksInv'
  <2>0. PICK r \in Cases : \E d \in DOMAIN docs[r] :
          Amendments!Deliverable(r, d) /\ acked' = acked \cup {<<r, d>>}
    BY <1>2 DEF Amendments!AckOrphan
  <2>1. PICK d \in DOMAIN docs[r] :
          Amendments!Deliverable(r, d) /\ acked' = acked \cup {<<r, d>>}
    BY <2>0
  <2>2. \A t \in Desks \cup Hooks : Answered(t) => ~(sess[t].req = r /\ sess[t].doc = d)
    BY <1>h, <2>1 DEF Amendments!Deliverable, Answered, Visited
  <2>3. UNCHANGED <<reqs, appended, moved, sess>>
    BY <1>2 DEF Amendments!AckOrphan
  <2>4. \A t \in Desks \cup Hooks : Answered(t) => <<sess[t].req, sess[t].doc>> \notin acked'
    BY <1>r, <2>1, <2>2
  <2> QED
    BY <2>1, <2>3, <2>4, RowsStayKeeps DEF RowStays, Answered, Visited
<1>3. ASSUME NEW r \in Cases, Amendments!CreateRequest(r) PROVE DesksInv'
  <2>1. PICK kind \in Amendments!Kinds, targets \in SUBSET Amendments!Items :
          reqs' = [reqs EXCEPT ![r] = [Amendments!NoRequest EXCEPT !.status = "draft",
                                          !.kind = kind, !.targets = targets]]
    BY <1>3 DEF Amendments!CreateRequest
  <2>2. /\ reqs[r].status = "none" /\ UNCHANGED <<appended, moved, acked, sess>>
    BY <1>3 DEF Amendments!CreateRequest
  <2> DEFINE x == [Amendments!NoRequest EXCEPT !.status = "draft", !.kind = kind,
                                               !.targets = targets]
  <2>3. x.doc = 0
    BY DEF Amendments!NoRequest
  <2> HIDE DEF x
  <2>4. reqs'[r] = x /\ \A q \in Cases \ {r} : reqs'[q] = reqs[q]
    BY <2>1 DEF x, AmendmentsInv, RequestsTyped
  <2>5. reqs[r].doc = 0
    BY <2>2 DEF DesksInv, SentOnce
  <2>6. ~Amendments!Touched(r)
    BY <2>5 DEF DesksInv, TouchedOnce
  <2>7. \A q \in Cases : Amendments!Touched(q) => RowStays(q) /\ reqs'[q].signed = reqs[q].signed
    BY <2>4, <2>6 DEF RowStays
  <2>8. TouchedOnce' /\ Amendments!DeferredOnceOrNotAtAll'
    BY <2>2, <2>7, ChangesStay DEF AmendmentsInv, DesksInv
  <2>9. ReadsStand'
    <3>1. \A t \in Desks \cup Hooks : Answered(t) => sess[t].req \in Cases \ {r}
      BY <2>5, AnsweredWasSent
    <3>2. \A t \in Desks \cup Hooks : Answered(t)' <=> Answered(t)
      BY <2>2 DEF Answered, Visited
    <3>3. \A t \in Desks \cup Hooks : Answered(t) => RowStays(sess[t].req)
      BY <2>4, <3>1 DEF RowStays
    <3> QED
      BY <1>r, <2>2, <3>2, <3>3, ReadsKept DEF DesksInv
  <2>10. SentOnce'
    BY <2>3, <2>4 DEF DesksInv, SentOnce
  <2> QED
    BY <2>8, <2>9, <2>10 DEF DesksInv
<1>4. ASSUME NEW s \in Desks, Amendments!OpenDesk(s) PROVE DesksInv'
  <2>1. PICK op \in {"send", "cancel", "maintain"}, r \in Cases \cup {None} :
          Amendments!OpenSession(s, op, r, 0)
    BY <1>4 DEF Amendments!OpenDesk
  <2> DEFINE v == [op |-> op, req |-> r, doc |-> 0, reqs |-> reqs, items |-> << >>,
                   at |-> IF op \in {"send", "maintain"} THEN today ELSE 0]
  <2>2. sess' = [sess EXCEPT ![s] = v] /\ UNCHANGED <<reqs, appended, moved, acked>>
    BY <2>1 DEF Amendments!OpenSession
  <2>3. v.op = op
    OBVIOUS
  <2> HIDE DEF v
  <2>4. \A t \in Desks \cup Hooks : sess'[t] = IF t = s THEN v ELSE sess[t]
    BY <2>2 DEF AmendmentsInv, VisitsTyped
  <2>5. \A t \in Desks \cup Hooks : Answered(t)' => Answered(t) /\ sess'[t] = sess[t]
    BY <2>3, <2>4 DEF Answered, Visited
  <2> QED
    BY <1>r, <2>2, <2>5, RowsStayKeeps DEF RowStays
<1>5. ASSUME NEW s \in Desks, Amendments!SendCall(s) PROVE DesksInv'
  <2> DEFINE v == [sess[s] EXCEPT !.doc = Len(docs[sess[s].req]) + 1]
  <2>1. /\ sess[s] \in Visits /\ sess[s].op = "send" /\ sess[s] # None
        /\ UNCHANGED <<reqs, appended, moved, acked>>
    BY <1>5 DEF Amendments!SendCall, Amendments!Doing, AmendmentsInv, VisitsTyped, Visited
  <2>2. sess' = [sess EXCEPT ![s] = v]
    BY <1>5 DEF Amendments!SendCall, AmendmentsInv, VisitsTyped
  <2>3. v.op = "send"
    BY <2>1 DEF Visits
  <2> HIDE DEF v
  <2>4. \A t \in Desks \cup Hooks : sess'[t] = IF t = s THEN v ELSE sess[t]
    BY <2>2 DEF AmendmentsInv, VisitsTyped
  <2>5. \A t \in Desks \cup Hooks : Answered(t)' => Answered(t) /\ sess'[t] = sess[t]
    BY <2>3, <2>4 DEF Answered, Visited
  <2> QED
    BY <1>r, <2>1, <2>5, RowsStayKeeps DEF RowStays
<1>6. ASSUME NEW s \in Desks, Amendments!SendCommit(s) PROVE DesksInv'
  <2> DEFINE r == sess[s].req
             x == [reqs[r] EXCEPT !.status = "awaiting_signature", !.doc = sess[s].doc,
                                  !.expires = sess[s].at + Window, !.resent = (reqs[r].doc # 0)]
  <2>1. /\ r \in Cases /\ reqs[r] \in RequestRows /\ sess[s].doc # 0
        /\ UNCHANGED <<appended, moved, acked>> /\ Amendments!Close(s)
    BY <1>6 DEF Amendments!SendCommit, Amendments!Doing, AmendmentsInv, RequestsTyped,
       VisitsTyped, Visited
  <2>2. reqs' = [reqs EXCEPT ![r] = x]
    BY <1>6, <2>1 DEF Amendments!SendCommit, AmendmentsInv, RequestsTyped
  <2>3. x.status = "awaiting_signature" /\ x.doc # 0 /\ x.resent = (reqs[r].doc # 0)
    BY <2>1 DEF RequestRows
  <2> HIDE DEF x, r
  <2>4. reqs'[r] = x /\ \A q \in Cases \ {r} : reqs'[q] = reqs[q]
    BY <2>1, <2>2 DEF AmendmentsInv, RequestsTyped
  <2>5. reqs[r].doc # 0 => SentAgain(r)
    BY <2>3, <2>4 DEF SentAgain
  <2>6. \A q \in Cases \ {r} : RowStays(q) /\ reqs'[q].signed = reqs[q].signed
    BY <2>4 DEF RowStays
  <2>7. TouchedOnce' /\ Amendments!DeferredOnceOrNotAtAll'
    <3>1. \A q \in Cases : Amendments!Touched(q) => reqs[q].doc # 0
      BY DEF DesksInv, TouchedOnce
    <3>2. ChangesTyped /\ TouchedOnce /\ Amendments!DeferredOnceOrNotAtAll
      BY DEF AmendmentsInv, DesksInv
    <3>3. UNCHANGED <<appended, moved>> /\ acked \subseteq acked'
      BY <2>1
    <3> QED
      BY <2>5, <2>6, <3>1, <3>2, <3>3, ChangesStay
  <2>8. \A t \in Desks \cup Hooks : Answered(t)' =>
          /\ Answered(t) /\ sess'[t] = sess[t]
          /\ <<sess[t].req, sess[t].doc>> \notin acked'
    BY <2>1, HookCloses
  <2>9. ReadsStand'
    <3>1. \A t \in Desks \cup Hooks : Answered(t) =>
            sess[t].req \in Cases /\ reqs[sess[t].req].doc # 0
      BY AnsweredWasSent
    <3>2. \A t \in Desks \cup Hooks : Answered(t) =>
            RowStays(sess[t].req) \/ SentAgain(sess[t].req)
      BY <2>5, <2>6, <3>1
    <3> QED
      BY <2>8, <3>2, ReadsKept DEF DesksInv
  <2>10. SentOnce'
    BY <2>3, <2>4 DEF DesksInv, SentOnce
  <2> QED
    BY <2>7, <2>9, <2>10 DEF DesksInv
<1>7. ASSUME NEW s \in Desks, Amendments!Cancel(s) PROVE DesksInv'
  <2>1. /\ Amendments!Close(s) /\ UNCHANGED <<appended, moved, acked>>
        /\ reqs' = [reqs EXCEPT ![sess[s].req].status = "cancelled"]
    BY <1>7 DEF Amendments!Cancel
  <2> QED
    BY <2>1, OwnStatusKeeps
<1>8. ASSUME NEW s \in Desks, Amendments!RunMaintenance(s) PROVE DesksInv'
  <2>1. /\ Amendments!Close(s) /\ UNCHANGED <<appended, moved, acked>>
        /\ \A r \in Cases :
             reqs'[r] = Amendments!Maintained(reqs[r], sess[s].reqs[r], sess[s].at)
    BY <1>8 DEF Amendments!RunMaintenance
  <2>2. \A r \in Cases :
          \/ reqs'[r] = reqs[r]
          \/ \E x \in {"expired", "completed"} : reqs'[r] = [reqs[r] EXCEPT !.status = x]
    BY <2>1 DEF Amendments!Maintained
  <2> QED
    BY <2>1, <2>2, StatusKeeps
<1>9. ASSUME NEW s \in Desks \cup Hooks, Amendments!Crash(s) PROVE DesksInv'
  <2>1. /\ \A t \in Desks \cup Hooks : Visited(t)' => Visited(t) /\ sess'[t] = sess[t]
        /\ UNCHANGED <<reqs, appended, moved, acked>>
    BY <1>9 DEF Amendments!Crash, Amendments!Close, Visited, AmendmentsInv, VisitsTyped
  <2>2. \A t \in Desks \cup Hooks : Answered(t)' => Answered(t) /\ sess'[t] = sess[t]
    BY <2>1 DEF Answered
  <2> QED
    BY <1>r, <2>1, <2>2, RowsStayKeeps DEF RowStays
<1>10. ASSUME NEW s \in Hooks, Amendments!OpenHook(s) PROVE DesksInv'
  <2>0. PICK r \in Cases : \E d \in DOMAIN docs[r] :
          /\ Amendments!Deliverable(r, d) /\ reqs[r].doc = d
          /\ Amendments!OpenSession(s, docs[r][d], r, d)
    BY <1>10 DEF Amendments!OpenHook
  <2>1. PICK d \in DOMAIN docs[r] :
          /\ Amendments!Deliverable(r, d) /\ reqs[r].doc = d
          /\ Amendments!OpenSession(s, docs[r][d], r, d)
    BY <2>0
  <2> DEFINE op == docs[r][d]
             v == [op |-> op, req |-> r, doc |-> d, reqs |-> reqs, items |-> << >>,
                   at |-> IF op \in {"send", "maintain"} THEN today ELSE 0]
  <2>2. sess' = [sess EXCEPT ![s] = v] /\ UNCHANGED <<reqs, appended, moved, acked>>
    BY <2>1 DEF Amendments!OpenSession
  <2>3. v.op \in {"signed", "declined"} /\ v.req = r /\ v.doc = d /\ v.reqs = reqs
    BY <2>1 DEF Amendments!Deliverable
  <2> HIDE DEF v
  <2>4. \A t \in Desks \cup Hooks : sess'[t] = IF t = s THEN v ELSE sess[t]
    BY <2>2 DEF AmendmentsInv, VisitsTyped
  <2>5. d # 0
    <3>1. docs[r] \in Papers
      BY DEF AmendmentsInv
    <3> QED
      BY <3>1 DEF Papers
  <2>6. /\ <<r, d>> \notin acked
        /\ \A t \in Desks \cup Hooks : Answered(t) => ~(sess[t].req = r /\ sess[t].doc = d)
    BY <1>h, <2>1 DEF Amendments!Deliverable, Answered, Visited
  <2>7. ReadsStand'
    <3> SUFFICES ASSUME NEW t \in Desks \cup Hooks, Answered(t)'
                 PROVE  /\ reqs[sess'[t].req].doc # 0
                        /\ <<sess'[t].req, sess'[t].doc>> \notin acked
                        /\ \A h \in Desks \cup Hooks :
                             Answered(h)' /\ sess'[h].req = sess'[t].req
                                          /\ sess'[h].doc = sess'[t].doc => h = t
                        /\ InTime(t)' /\ (reqs[sess'[t].req].resent \/ ReadHolds(t)')
      BY <2>2 DEF ReadsStand
    <3>1. \A h \in Desks \cup Hooks : Answered(h)' /\ h # s => Answered(h) /\ sess'[h] = sess[h]
      BY <2>4 DEF Answered, Visited
    <3>2. CASE t = s
      <4>1. sess'[t].op # "applying" /\ sess'[t].req = r /\ sess'[t].doc = d /\ sess'[t].reqs = reqs
        BY <2>3, <2>4, <3>2
      <4>2. InTime(t)' /\ ReadHolds(t)'
        BY <2>1, <2>2, <4>1 DEF InTime, ReadHolds
      <4>3. \A h \in Desks \cup Hooks :
              Answered(h)' /\ sess'[h].req = sess'[t].req /\ sess'[h].doc = sess'[t].doc => h = t
        BY <2>6, <3>1, <3>2, <4>1
      <4> QED
        BY <2>1, <2>5, <2>6, <4>1, <4>2, <4>3
    <3>3. CASE t # s
      <4>1. Answered(t) /\ sess'[t] = sess[t]
        BY <3>1, <3>3
      <4>2. /\ reqs[sess[t].req].doc # 0
            /\ <<sess[t].req, sess[t].doc>> \notin acked
            /\ \A h \in Desks \cup Hooks :
                 Answered(h) /\ sess[h].req = sess[t].req /\ sess[h].doc = sess[t].doc => h = t
            /\ InTime(t) /\ (reqs[sess[t].req].resent \/ ReadHolds(t))
        BY <4>1 DEF DesksInv, ReadsStand
      <4>3. sess'[s].req = r /\ sess'[s].doc = d /\ ~(sess[t].req = r /\ sess[t].doc = d)
        BY <2>3, <2>4, <2>6, <4>1
      <4>4. \A h \in Desks \cup Hooks :
              Answered(h)' /\ sess'[h].req = sess[t].req /\ sess'[h].doc = sess[t].doc => h = t
        BY <3>1, <4>2, <4>3
      <4>5. InTime(t)' /\ (ReadHolds(t)' <=> ReadHolds(t))
        BY <2>2, <4>1, <4>2 DEF InTime, ReadHolds
      <4> QED
        BY <4>1, <4>2, <4>4, <4>5
    <3> QED
      BY <3>2, <3>3
  <2>8. TouchedOnce' /\ Amendments!DeferredOnceOrNotAtAll'
    BY <2>2, ChangesStay DEF DesksInv, AmendmentsInv, RowStays
  <2>9. SentOnce'
    BY <2>2 DEF DesksInv, SentOnce
  <2> QED
    BY <2>7, <2>8, <2>9 DEF DesksInv
<1>11. ASSUME NEW s \in Hooks, Amendments!Declined(s) PROVE DesksInv'
  <2>1. /\ Answered(s) /\ Amendments!Close(s) /\ UNCHANGED <<appended, moved>>
        /\ acked' = acked \cup {<<sess[s].req, sess[s].doc>>}
        /\ UNCHANGED reqs \/ reqs' = [reqs EXCEPT ![sess[s].req].status = "declined"]
    BY <1>11 DEF Amendments!Declined, Amendments!Doing, Amendments!KeepNonce, Answered, Visited
  <2> QED
    BY <2>1, OwnStatusKeeps
<1>12. ASSUME NEW s \in Hooks, Amendments!SignatureIgnored(s) PROVE DesksInv'
  <2>1. /\ Answered(s) /\ Amendments!Close(s) /\ UNCHANGED <<appended, moved, reqs>>
        /\ acked' = acked \cup {<<sess[s].req, sess[s].doc>>}
    BY <1>12 DEF Amendments!SignatureIgnored, Amendments!Doing, Amendments!KeepNonce, Answered,
       Visited
  <2> QED
    BY <2>1, OwnStatusKeeps
<1>13. ASSUME NEW s \in Hooks, Amendments!SignatureTooLate(s) PROVE DesksInv'
  <2>1. /\ Answered(s) /\ Amendments!Close(s) /\ UNCHANGED <<appended, moved>>
        /\ acked' = acked \cup {<<sess[s].req, sess[s].doc>>}
        /\ reqs' = [reqs EXCEPT ![sess[s].req].status = "expired"]
    BY <1>13 DEF Amendments!SignatureTooLate, Amendments!Doing, Amendments!KeepNonce, Answered,
       Visited
  <2> QED
    BY <2>1, OwnStatusKeeps
<1>14. ASSUME NEW s \in Hooks, Amendments!DeferringFails(s) PROVE DesksInv'
  <2>1. Amendments!Close(s) /\ UNCHANGED <<appended, moved, reqs, acked>>
    BY <1>14 DEF Amendments!DeferringFails
  <2> QED
    BY <2>1, OwnStatusKeeps
<1>15. ASSUME NEW s \in Hooks, Amendments!Deferring(s) PROVE DesksInv'
  <2> DEFINE r == sess[s].req
             T == sess[s].reqs[r].targets
  <2>1. /\ Answered(s) /\ sess[s].op = "applying" /\ Amendments!Close(s)
        /\ UNCHANGED <<moved, docs>> /\ Amendments!Sign(s, "active")
        /\ acked' = acked \cup {<<r, sess[s].doc>>}
        /\ appended' = [appended EXCEPT ![r] =
                          [i \in 1..NItems |-> IF i \in T THEN @[i] + 1 ELSE @[i]]]
    BY <1>15 DEF Amendments!Deferring, Amendments!Applying, Amendments!Doing,
       Amendments!KeepNonce, Amendments!Seen, Amendments!Items, Visited, Answered
  <2>2. r \in Cases /\ (reqs[r].resent \/ ~Amendments!Touched(r))
    BY <2>1, AnsweredWasSent
  <2>3. \A q \in Cases \ {r} : appended'[q] = appended[q]
    BY <2>1 DEF AmendmentsInv, ChangesTyped
  <2>4. \/ reqs[r].resent
        \/ \A i \in 1..NItems : appended'[r][i] = IF i \in T THEN 1 ELSE 0
    <3>1. ~Amendments!Touched(r) => \A i \in 1..NItems : appended[r][i] = 0
      BY <2>2, NothingAppended DEF AmendmentsInv
    <3>2. \A i \in 1..NItems :
            appended'[r][i] = IF i \in T THEN appended[r][i] + 1 ELSE appended[r][i]
      BY <2>1, <2>2 DEF AmendmentsInv, ChangesTyped
    <3> QED
      BY <2>2, <3>1, <3>2
  <2>5. \A q \in Cases \ {r} : Amendments!Touched(q)' <=> Amendments!Touched(q)
    BY <2>1, <2>3 DEF Amendments!Touched
  <2> QED
    BY <2>1, <2>3, <2>4, <2>5, SignKeeps
<1>16. ASSUME NEW s \in Hooks, Amendments!Shifting(s) PROVE DesksInv'
  <2> DEFINE r == sess[s].req
  <2>1. /\ Answered(s) /\ sess[s].op = "applying" /\ Amendments!Close(s)
        /\ UNCHANGED <<appended, docs>>
        /\ acked' = acked \cup {<<r, sess[s].doc>>}
        /\ moved' = moved \cup ({r} \X Amendments!Shifted(s))
    BY <1>16 DEF Amendments!Shifting, Amendments!Applying, Amendments!Doing,
       Amendments!KeepNonce, Visited, Answered
  <2>2. /\ r \in Cases /\ reqs[r].status \notin {"none", "draft"}
        /\ reqs[r].resent \/ ~Amendments!Touched(r)
    BY <2>1, AnsweredWasSent
  <2>3. PICK x \in {"completed", reqs[r].status} : Amendments!Sign(s, x)
    BY <1>16 DEF Amendments!Shifting
  <2>4. x \in {"awaiting_signature", "declined", "cancelled", "expired", "active", "completed"}
    BY <2>2 DEF AmendmentsInv, RequestsTyped, RequestRows
  <2>5. reqs[r].resent \/ \A i \in 1..NItems : appended'[r][i] = 0
    BY <2>1, <2>2, NothingAppended DEF AmendmentsInv
  <2>6. \A q \in Cases \ {r} : Amendments!Touched(q)' <=> Amendments!Touched(q)
    BY <2>1 DEF Amendments!Touched
  <2> QED
    BY <2>1, <2>3, <2>4, <2>5, <2>6, SignKeeps
<1>17. CASE UNCHANGED Amendments!vars
  BY <1>1, <1>17 DEF Amendments!vars
<1>18. CASE \/ Amendments!Tomorrow \/ Amendments!Pay \/ Amendments!BorrowerAnswers
            \/ \E i \in Amendments!Items : Amendments!StaffSuspends(i) \/ Amendments!StaffLifts(i)
  BY <1>1, <1>18 DEF Amendments!Tomorrow, Amendments!Pay, Amendments!BorrowerAnswers,
     Amendments!StaffSuspends, Amendments!StaffLifts
<1>19. ASSUME NEW s \in Hooks, Amendments!RecordSignature(s) PROVE DesksInv'
  <2> DEFINE v == [sess[s] EXCEPT !.op = "applying", !.at = today, !.items = items]
  <2>1. /\ sess[s] \in Visits /\ Answered(s) /\ UNCHANGED <<reqs, appended, moved, acked>>
        /\ ~(today > sess[s].reqs[sess[s].req].expires)
    BY <1>19 DEF Amendments!RecordSignature, Amendments!Doing, Amendments!WindowOver,
       Amendments!Seen, AmendmentsInv, VisitsTyped, Visited, Answered
  <2>2. sess' = [sess EXCEPT ![s] = v]
    BY <1>19, <2>1 DEF Amendments!RecordSignature, AmendmentsInv, VisitsTyped
  <2>3. /\ v.op = "applying" /\ v.req = sess[s].req /\ v.doc = sess[s].doc
        /\ v.reqs = sess[s].reqs /\ v.at = today
    BY <2>1 DEF Visits
  <2> HIDE DEF v
  <2>4. \A t \in Desks \cup Hooks : sess'[t] = IF t = s THEN v ELSE sess[t]
    BY <2>2 DEF AmendmentsInv, VisitsTyped
  <2>5. today <= sess[s].reqs[sess[s].req].expires
    <3>1. sess[s].req \in Cases
      BY <2>1, AnsweredWasSent
    <3>2. sess[s].reqs[sess[s].req].expires \in Nat
      BY <2>1, <3>1 DEF Visits, RequestRows
    <3>3. today \in Nat
      BY DEF AmendmentsInv, ScheduleTyped, Amendments!HardshipAssumption
    <3> QED
      BY <2>1, <3>2, <3>3
  <2>6. \A t \in Desks \cup Hooks : Answered(t)' =>
          /\ Answered(t) /\ sess'[t].req = sess[t].req /\ sess'[t].doc = sess[t].doc
          /\ sess'[t].reqs = sess[t].reqs /\ (t # s => sess'[t] = sess[t])
    BY <2>1, <2>3, <2>4 DEF Answered, Visited
  <2>7. ReadsStand'
    <3> SUFFICES ASSUME NEW t \in Desks \cup Hooks, Answered(t)'
                 PROVE  /\ reqs[sess'[t].req].doc # 0
                        /\ <<sess'[t].req, sess'[t].doc>> \notin acked
                        /\ \A h \in Desks \cup Hooks :
                             Answered(h)' /\ sess'[h].req = sess'[t].req
                                          /\ sess'[h].doc = sess'[t].doc => h = t
                        /\ InTime(t)' /\ (reqs[sess'[t].req].resent \/ ReadHolds(t)')
      BY <2>1 DEF ReadsStand
    <3>1. /\ reqs[sess[t].req].doc # 0
          /\ <<sess[t].req, sess[t].doc>> \notin acked
          /\ \A h \in Desks \cup Hooks :
               Answered(h) /\ sess[h].req = sess[t].req /\ sess[h].doc = sess[t].doc => h = t
          /\ InTime(t) /\ (reqs[sess[t].req].resent \/ ReadHolds(t))
      BY <2>6 DEF DesksInv, ReadsStand
    <3>2. InTime(t)'
      BY <2>3, <2>4, <2>5, <2>6, <3>1 DEF InTime
    <3>3. ReadHolds(t)' <=> ReadHolds(t)
      BY <2>1, <2>6 DEF ReadHolds
    <3> QED
      BY <2>6, <3>1, <3>2, <3>3
  <2>8. TouchedOnce' /\ Amendments!DeferredOnceOrNotAtAll'
    BY <2>1, ChangesStay DEF DesksInv, AmendmentsInv, RowStays
  <2>9. SentOnce'
    BY <2>1 DEF DesksInv, SentOnce
  <2> QED
    BY <2>7, <2>8, <2>9 DEF DesksInv
<1> QED
  BY <1>2, <1>3, <1>4, <1>5, <1>6, <1>7, <1>8, <1>9, <1>10, <1>11, <1>12, <1>13, <1>14, <1>15,
     <1>16, <1>17, <1>18, <1>19 DEF Amendments!Next, Amendments!DeskStep, Amendments!HookStep

---------------------------------------------------------------------------
(* Lanes: the same of the back office as a whole *)

(* What can be open.                                                        *)
Lanes == {"terms", "payouts", "amendments", "leads", "decisions", "acceptances", "signatures"}

(* What each component knows, whichever lane is open.                       *)
BackOfficeInv ==
    /\ lane \in Lanes
    /\ TermsInv /\ PayoutsInv /\ AmendmentsInv /\ LeadsInv /\ DecisionsInv /\ LaneDeals

(* A lane's steps are its component's and leave the other components alone. *)
LEMMA LanesFollowComponents ==
    ASSUME [LaneNext]_allVars
    PROVE  /\ [Next]_vars /\ [Payouts!Next]_Payouts!vars /\ [Amendments!Next]_Amendments!vars
           /\ [Leads!Next]_Leads!vars /\ [Decisions!Next]_Decisions!vars
           /\ lane' = lane
           /\ lane = "acceptances" => [Acceptances!Next]_Acceptances!vars
           /\ lane = "signatures" => [Signatures!Next]_Signatures!vars
<1>0. /\ Next \/ UNCHANGED termVars
      /\ Payouts!Next \/ UNCHANGED payoutVars
      /\ Amendments!Next \/ UNCHANGED amendmentVars
      /\ Leads!Next \/ UNCHANGED leadVars
      /\ Decisions!Next \/ UNCHANGED decisionVars
      /\ lane' = lane
      /\ lane = "acceptances" => Acceptances!Next \/ UNCHANGED dealVars
      /\ lane = "signatures" => Signatures!Next \/ UNCHANGED dealVars
  <2> USE DEF allVars
  <2>1. CASE EditStep \/ TermStep
    BY <2>1 DEF EditStep, TermStep, Next
  <2>2. CASE PayoutStep
    BY <2>2 DEF PayoutStep
  <2>3. CASE AmendmentStep
    BY <2>3 DEF AmendmentStep
  <2>4. CASE LeadStep
    BY <2>4 DEF LeadStep
  <2>5. CASE DecisionStep
    BY <2>5 DEF DecisionStep
  <2>6. CASE AcceptanceStep
    BY <2>6 DEF AcceptanceStep
  <2>7. CASE SignatureStep
    BY <2>7 DEF SignatureStep
  <2>8. CASE UNCHANGED allVars
    BY <2>8
  <2> QED
    BY <2>1, <2>2, <2>3, <2>4, <2>5, <2>6, <2>7, <2>8 DEF LaneNext
<1>1. [Next]_vars
  BY <1>0 DEF termVars
<1>2. [Payouts!Next]_Payouts!vars
  BY <1>0 DEF payoutVars, Payouts!vars, Payouts!ledgerVars, Payouts!procVars
<1>3. [Amendments!Next]_Amendments!vars
  BY <1>0 DEF amendmentVars, Amendments!vars, Amendments!bookVars
<1>4. [Leads!Next]_Leads!vars
  BY <1>0 DEF leadVars, Leads!vars, Leads!rows
<1>5. [Decisions!Next]_Decisions!vars
  BY <1>0 DEF decisionVars, Decisions!vars
<1>6. lane = "acceptances" => [Acceptances!Next]_Acceptances!vars
  BY <1>0 DEF dealVars, Acceptances!vars
<1>7. lane = "signatures" => [Signatures!Next]_Signatures!vars
  BY <1>0 DEF dealVars, Signatures!vars
<1> QED
  BY <1>0, <1>1, <1>2, <1>3, <1>4, <1>5, <1>6, <1>7

(* Every component starts in its initial state.                             *)
LEMMA BackOfficeInitHolds == ASSUME LaneInit PROVE BackOfficeInv
<1>0. lane \in Lanes
  BY DEF LaneInit, Lanes
<1>1. TermsInv /\ PayoutsInv /\ AmendmentsInv /\ LeadsInv /\ DecisionsInv
  BY ConstantsFit, TermsInitHolds, PayoutsInitHolds, AmendmentsInitHolds, LeadsInitHolds,
     DecisionsInitHolds DEF LaneInit
<1>2. LaneDeals
  BY ConstantsFit, AcceptancesAgree, SignaturesAgree, Accepting!DealsInitHolds,
     Signing!DealsInitHolds
     DEF LaneInit, DealsInit, LaneDeals
<1> QED
  BY <1>0, <1>1, <1>2 DEF BackOfficeInv

(* And every step keeps what each of them knows.                            *)
LEMMA BackOfficeStepKeeps ==
    ASSUME BackOfficeInv, [LaneNext]_allVars
    PROVE  BackOfficeInv'
<1> USE LanesFollowComponents DEF BackOfficeInv
<1>0. lane' \in Lanes
  OBVIOUS
<1>1. TermsInv'
  BY ConstantsFit, TermsStepKeeps
<1>2. PayoutsInv'
  BY ConstantsFit, PayoutsStepKeeps
<1>3. AmendmentsInv'
  BY ConstantsFit, AmendmentsStepKeeps
<1>4. LeadsInv'
  BY ConstantsFit, LeadsStepKeeps
<1>5. DecisionsInv'
  BY ConstantsFit, DecisionsStepKeeps
<1>6. LaneDeals'
  <2>1. lane = "acceptances" => Accepting!OffersAssumption /\ [Accepting!Next]_Accepting!vars
    BY ConstantsFit, AcceptancesAgree, AcceptanceStepsAgree DEF Accepting!vars, Acceptances!vars
  <2>2. lane = "signatures" => Signing!OffersAssumption /\ [Signing!Next]_Signing!vars
    BY ConstantsFit, SignaturesAgree, SignatureStepsAgree DEF Signing!vars, Signatures!vars
  <2> QED
    BY <2>1, <2>2, Accepting!DealsStepKeeps, Signing!DealsStepKeeps DEF LaneDeals
<1> QED
  BY <1>0, <1>1, <1>2, <1>3, <1>4, <1>5, <1>6

(* So it stands in every state of the back office.                          *)
LEMMA BackOfficeKept == LaneSpec => []BackOfficeInv
<1>1. LaneInit => BackOfficeInv
  BY BackOfficeInitHolds
<1>2. BackOfficeInv /\ [LaneNext]_allVars => BackOfficeInv'
  BY BackOfficeStepKeeps
<1> HIDE DEF BackOfficeInv
<1> QED
  BY <1>1, <1>2, PTL DEF LaneSpec

(* The type invariants of the six components, for any number of vendors'    *)
(* payouts, requests, listings, clinics, workers, offers and products.      *)
THEOREM TypesHold == LaneSpec => []AllTypesOK
<1>1. BackOfficeInv => AllTypesOK
  <2> USE DEF BackOfficeInv
  <2>1. TermsInv => TypeOK
    BY DEF TermsInv, TermsTyped
  <2>2. PayoutsInv => Payouts!TypeOK
    BY DEF PayoutsInv, PayoutsTyped
  <2>3. AmendmentsInv => Amendments!TypeOK
    BY AmendmentsTyped
  <2>4. LeadsInv => Leads!TypeOK
    BY DEF LeadsInv, LeadsTyped, Leads!TypeOK
  <2>5. DecisionsInv => Decisions!TypeOK
    BY DEF DecisionsInv, DecisionsTyped
  <2>6. Accepting!DealsInv => Acceptances!TypeOK
    BY AcceptanceTypesAgree DEF Accepting!DealsInv, Accepting!DealsTyped
  <2>7. Signing!DealsInv => Signatures!TypeOK
    BY SignatureTypesAgree DEF Signing!DealsInv, Signing!DealsTyped
  <2> QED
    BY <2>1, <2>2, <2>3, <2>4, <2>5, <2>6, <2>7 DEF AllTypesOK, LaneDeals, Lanes
<1> HIDE DEF BackOfficeInv, AllTypesOK
<1> QED
  BY <1>1, BackOfficeKept, PTL

(* While the decision carries the accepted offer, the agreement's preview   *)
(* shows that offer and the loan is booked at it, for every product, edit   *)
(* and staff decision (accept_offer, merge_into_decision, activate_loan).   *)
THEOREM AcceptedDealsAreBooked == LaneSpec => []AcceptedDealIsBooked
<1>1. BackOfficeInv => AcceptedDealIsBooked
  BY AcceptedDealStandsBooked DEF BackOfficeInv
<1> HIDE DEF BackOfficeInv, AcceptedDealIsBooked
<1> QED
  BY <1>1, BackOfficeKept, PTL

(* One offer is accepted, and a loan booked at activation carries an        *)
(* agreement the borrower signed unless a second sender wrote over it, for  *)
(* any number of offers and requests (accept_offer locks all offers of the  *)
(* application; on_agreement_signed, activate_loan).                        *)
THEOREM DealsStaySound == LaneSpec => []DealsAreSound
<1>1. BackOfficeInv => DealsAreSound
  BY Accepting!DealsSound, Signing!DealsSound, AcceptancesAgree, SignaturesAgree
     DEF BackOfficeInv, LaneDeals, DealsAreSound
<1> HIDE DEF BackOfficeInv, DealsAreSound
<1> QED
  BY <1>1, BackOfficeKept, PTL

(* A payout the rail took or paid counts against the vendor's wallet, whose *)
(* draws stay within the vendor's share of what ever cleared unless a claim *)
(* followed an outdated wallet, for any share, fee, months and number of    *)
(* requests (compute_available, execute_disbursement).                      *)
THEOREM VendorsAreOwed == LaneSpec => []VendorIsOwed
<1>1. BackOfficeInv => VendorIsOwed
  BY DEF BackOfficeInv, PayoutsInv, VendorIsOwed
<1> HIDE DEF BackOfficeInv, VendorIsOwed
<1> QED
  BY <1>1, BackOfficeKept, PTL

(* What is told twice counts once: a clinic that a listing did not choose   *)
(* is never charged for its patient (select_clinic locks the listing and    *)
(* reads it again), and a vendor event is logged at most once and only      *)
(* after it was received (processed_webhooks, handle_verification_result).  *)
THEOREM ToldTwiceCountsOnce == LaneSpec => []CountedOnce
<1>1. BackOfficeInv => CountedOnce
  BY DEF BackOfficeInv, LeadsInv, DecisionsInv, CountedOnce
<1> HIDE DEF BackOfficeInv, CountedOnce
<1> QED
  BY <1>1, BackOfficeKept, PTL

(* The result that completes the required set decides the application, for  *)
(* any number of verification types, workers and staff moves                *)
(* (handle_verification_result, _ready_to_decide, _decide).                 *)
THEOREM LastResultsDecide == LaneSpec => LastResultDecides
<1>1. BackOfficeInv /\ [LaneNext]_allVars =>
        [~Decisions!AllDone /\ Decisions!AllDone' => file' \notin Decisions!PreDecision]_Decisions!vars
  BY ConstantsFit, LanesFollowComponents, LastCommitDecides DEF BackOfficeInv
<1> HIDE DEF BackOfficeInv
<1> QED
  BY <1>1, BackOfficeKept, PTL DEF LaneSpec, LastResultDecides, Decisions!LastResultDecides

(* A request changes the schedule only after the borrower has signed one of *)
(* its documents, whoever sends, cancels or expires it meanwhile, for any   *)
(* number of desks, webhooks, requests and installments (mark_signed).      *)
THEOREM NothingWithoutSignature == LaneSpec => []SignatureOnFile
<1>1. BackOfficeInv => SignatureOnFile
  BY DEF BackOfficeInv, AmendmentsInv
<1> HIDE DEF BackOfficeInv, SignatureOnFile
<1> QED
  BY <1>1, BackOfficeKept, PTL

(* And the signature is recorded inside the window that was sent, and a     *)
(* deferment is appended once or not at all, however many staff, jobs and   *)
(* webhooks work on the request at once and however often an event is       *)
(* delivered (mark_signed, _apply, _check_nonce).  Only a request of which  *)
(* one send was written over another is excepted: its two documents are two *)
(* events, and the window kept may be the other document's.                 *)
THEOREM AmendmentsAreSignedOnce == LaneSpec => []AmendmentsAreSigned
<1>1. LaneInit => DesksInv
  BY ConstantsFit, AmendmentsInitHolds DEF LaneInit
<1>2. BackOfficeInv /\ DesksInv /\ [LaneNext]_allVars => DesksInv'
  BY ConstantsFit, LanesFollowComponents, DesksStepKeep DEF BackOfficeInv
<1>3. BackOfficeInv /\ DesksInv => AmendmentsAreSigned
  BY DEF BackOfficeInv, AmendmentsInv, SignatureOnFile, DesksInv, TouchedOnce,
     AmendmentsAreSigned, Amendments!SignedBeforeChange
<1> HIDE DEF BackOfficeInv, DesksInv, AmendmentsAreSigned
<1> QED
  BY <1>1, <1>2, <1>3, BackOfficeKept, PTL DEF LaneSpec
=============================================================================
