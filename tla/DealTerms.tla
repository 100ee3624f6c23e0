------------------------------ MODULE DealTerms ------------------------------
(***************************************************************************)
(* The terms of one application on their way from the form to the loan:    *)
(* chosen within the product's limits, offered, accepted, merged into the  *)
(* decision, signed, and resolved again when the loan is booked, while     *)
(* administrators edit the product and staff decide anew.                  *)
(***************************************************************************)
EXTENDS LoanTerms

CONSTANTS
    Products, \* pricing configurations an administrator may enter
    Amounts, Terms, Rates,
    None

(* A product's defaults are among the terms and the rates of files.        *)
ProductsAssumption == \A p \in Products : p.term \in Terms /\ p.rate \in Rates

VARIABLES
    booksAt,    \* "acceptance", or "activation" under ACTIVATION_BOOKS_LOAN
    product,    \* the credit product's configuration
    request,    \* the application's own terms, and the product it was filed under
    deal,       \* the borrower's one offer: its terms, its status and whether a loan
                \* was there when it was accepted; or None
    decision,   \* the terms the decision record carries, or None
    stage,      \* the application's status
    agreement,  \* "not_sent" or "signed"
    booked      \* the loan's terms, or None

vars == <<booksAt, product, request, deal, decision, stage, agreement, booked>>

AllTerms == [amount : Amounts, term : Terms, rate : Rates, freq : DOMAIN PerYear]
Bookable == {"approved", "agreement_signature"}

---------------------------------------------------------------------------
(* Mutant of MeetsCap: the gate tests the product's usual rate only.       *)
MeetsCapAtUsualRate(p) ==
    \A f \in p.freqs, a \in {p.minAmount, p.maxAmount}, t \in {p.minTerm, p.maxTerm} :
        ~ExceedsCap(p, [amount |-> a, term |-> t, rate |-> p.rate, freq |-> f])
(* The gate of a product's configuration.                                  *)
MeetsCap(p) ==
    \A f \in p.freqs, a \in {p.minAmount, p.maxAmount}, t \in {p.minTerm, p.maxTerm},
       r \in {p.rate, p.minRate, p.maxRate} :
        ~ExceedsCap(p, [amount |-> a, term |-> t, rate |-> r, freq |-> f])

Admissible == {p \in Products : MeetsCap(p)}

(* What the origination form accepts.                                      *)
ValidSelection(p, t) == WithinBounds(p, t) /\ t.freq \in p.freqs
(* Offers are tested at the monthly frequency, whatever the deal's is.     *)
ValidOffer(p, t) == WithinBounds(p, t) /\ ~ExceedsCap(p, [t EXCEPT !.freq = "monthly"])

(* The requested amount and frequency, at the product's rate and default   *)
(* term as they are now; and what create_loan_from_application books: the  *)
(* decision's terms, or else those.                                        *)
ProductTerms == [request.terms EXCEPT !.term = product.term, !.rate = product.rate]
BookingTerms == IF decision # None THEN decision ELSE ProductTerms

(* What the agreement preview shows: the accepted offer's terms, or else   *)
(* the decision's, or else the application's.                              *)
PreviewTerms ==
    IF deal # None /\ deal.status = "accepted" THEN deal.terms
    ELSE IF decision # None THEN decision
    ELSE request.terms

---------------------------------------------------------------------------
Init ==
    /\ booksAt \in {"acceptance", "activation"}
    /\ product \in Admissible
    /\ request = None /\ deal = None /\ decision = None /\ booked = None
    /\ stage = "none" /\ agreement = "not_sent"

(* Creating or patching the product.                                       *)
EditProduct(p) ==
    /\ p # product
    /\ product' = p
    /\ UNCHANGED <<booksAt, request, deal, decision, stage, agreement, booked>>

CreateApplication(t) ==
    /\ stage = "none"
    /\ ValidSelection(product, t)
    /\ request' = [terms |-> t, under |-> product]
    /\ stage' = "under_review"
    /\ UNCHANGED <<booksAt, product, deal, decision, agreement, booked>>

(* An underwriter approves by an offer, at the application's frequency.    *)
CreateOffer(t) ==
    /\ deal = None /\ booked = None
    /\ stage \in {"under_review", "approved"}
    /\ t.freq = request.terms.freq
    /\ ValidOffer(product, t)
    /\ deal' = [terms |-> t, status |-> "offered", onLoan |-> FALSE]
    /\ decision' = None
    /\ stage' = "approved"
    /\ UNCHANGED <<booksAt, product, request, agreement, booked>>

(* The booking chokepoint: it refuses a rate at the cap.                   *)
Book(t) == ~ExceedsCap(product, t) /\ booked' = t

(* The loan's terms after a booking, which leaves an existing loan alone.  *)
BookOnce(t) == IF booked = None THEN Book(t) ELSE booked' = booked

(* The borrower accepts; with the flag off that books the loan.            *)
AcceptOffer ==
    /\ deal # None /\ deal.status = "offered"
    /\ deal' = [deal EXCEPT !.status = "accepted", !.onLoan = booked # None]
    /\ decision' = deal.terms
    /\ IF booksAt = "activation"
       THEN stage' = "agreement_signature" /\ booked' = booked
       ELSE stage' = "approved" /\ BookOnce(deal.terms)
    /\ UNCHANGED <<booksAt, product, request, agreement>>

(* A staff approval, or a later one that overrides it, replaces the        *)
(* decision record by one without terms; with the flag off it books.       *)
Decide ==
    /\ stage # "none"
    /\ decision' = None /\ stage' = "approved"
    /\ IF booksAt = "activation" THEN booked' = booked ELSE BookOnce(ProductTerms)
    /\ UNCHANGED <<booksAt, product, request, deal, agreement>>

(* The agreement goes out once the offer is accepted; the borrower signs.  *)
SignAgreement ==
    /\ booksAt = "activation"
    /\ deal # None /\ deal.status = "accepted" /\ agreement = "not_sent"
    /\ agreement' = "signed"
    /\ UNCHANGED <<booksAt, product, request, deal, decision, stage, booked>>

Activate ==
    /\ booksAt = "activation"
    /\ agreement = "signed" /\ booked = None
    /\ stage \in Bookable
    /\ Book(BookingTerms)
    /\ stage' = "active"
    /\ UNCHANGED <<booksAt, product, request, deal, decision, agreement>>

FileMoves ==
    \/ \E t \in AllTerms : CreateApplication(t) \/ CreateOffer(t)
    \/ AcceptOffer \/ Decide \/ SignAgreement \/ Activate

Next == FileMoves \/ (\E p \in Admissible : EditProduct(p))

Spec == Init /\ [][Next]_vars

---------------------------------------------------------------------------
(* Properties *)

TypeOK ==
    /\ booksAt \in {"acceptance", "activation"}
    /\ product \in Products
    /\ request = None \/ (request.terms \in AllTerms /\ request.under \in Products)
    /\ deal = None \/ (deal.terms \in AllTerms /\ deal.status \in {"offered", "accepted"})
    /\ decision = None \/ decision \in AllTerms
    /\ stage \in {"none", "under_review", "active"} \cup Bookable
    /\ agreement \in {"not_sent", "signed"}
    /\ booked = None \/ booked \in AllTerms

(* The quote and the booking engine amortize the same terms independently: *)
(* for every loan that is booked, no row is negative, the principal of the *)
(* rows is the amount lent to the cent, and what the rows collect is what  *)
(* the quote's walk disclosed.                                             *)
ScheduleTiesOut ==
    booked # None =>
        LET rows == Schedule(booked)  walk == QuoteWalk(booked) IN
        /\ \A k \in DOMAIN rows : rows[k].principal >= 0 /\ rows[k].interest >= 0
        /\ MapThenSumSet(LAMBDA k : rows[k].principal, DOMAIN rows) = booked.amount
        /\ MapThenSumSet(LAMBDA k : rows[k].interest, DOMAIN rows) = walk.interest
        /\ walk.left = 0 /\ walk.paid = booked.amount + walk.interest

(* While the decision still carries the accepted deal, what is booked and  *)
(* what the preview shows are that deal, however the product was edited,   *)
(* unless a staff approval had booked the loan before the acceptance.      *)
AcceptedDealIsBooked ==
    deal # None /\ deal.status = "accepted" /\ decision # None /\ ~deal.onLoan =>
        /\ PreviewTerms = BookingTerms
        /\ booked # None => booked = deal.terms

(* A file that stands on the product it was filed under is not refused at  *)
(* the end: the gate's test of the windows' corners reaches the booking's  *)
(* test of the file, through every origin of the terms.  Two cases are     *)
(* left out: terms inside the window, which the gate does not test, unless *)
(* they were offered and are monthly; and terms none of the checks saw.    *)
CornerTerm == BookingTerms.term \in {product.minTerm, product.maxTerm}
OfferedMonthly == decision # None /\ decision.freq = "monthly"
ApprovedFileIsBookable ==
    /\ stage \in Bookable /\ booked = None
    /\ request.under = product
    /\ CornerTerm \/ OfferedMonthly
    => ~ExceedsCap(product, BookingTerms)
=============================================================================
