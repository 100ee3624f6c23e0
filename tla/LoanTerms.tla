------------------------------ MODULE LoanTerms ------------------------------
(***************************************************************************)
(* What a loan's terms come to: instalments, schedule, fees, regulatory    *)
(* APR (schemas/pricing_config.py, services/loan_quote.py,                 *)
(* loan_servicing.generate_amortization_schedule at 30/360).               *)
(*                                                                         *)
(* Terms are a record of amount, rate, term and frequency.  A product      *)
(* has an amount window, a term window with a default, a rate band with a  *)
(* default, the frequencies it offers and its fees.  The code's floats are *)
(* exact fractions here, rounded like Python's round, half to even.        *)
(***************************************************************************)
EXTENDS Integers, FiniteSetsExt

CONSTANTS
    PerYear,    \* frequency -> payments in a year; those of "monthly" are its months
    RateUnit,   \* the annual rate that stands for 100 %
    CapBps      \* CRIMINAL_RATE_CAP_BPS

TermsAssumption ==
    /\ "monthly" \in DOMAIN PerYear /\ PerYear \in [DOMAIN PerYear -> Nat \ {0}]
    /\ RateUnit \in Nat \ {0} /\ CapBps \in Nat

Bps == 10000

RoundHalfEven(numerator, denominator) ==
    LET q     == numerator \div denominator
        twice == 2 * (numerator % denominator)
    IN  IF twice > denominator \/ (twice = denominator /\ q % 2 = 1) THEN q + 1 ELSE q

PaymentsInTerm(term, f) ==
    LET scaled == RoundHalfEven(term * PerYear[f], PerYear["monthly"])
    IN  CASE f = "monthly"      -> term
          [] f = "semi_monthly" -> 2 * term
          [] OTHER              -> IF scaled < 1 THEN 1 ELSE scaled

(* One period's interest, and the regular instalment of the annuity.       *)
Whole(f) == RateUnit * PerYear[f]
Interest(balance, rate, f) == RoundHalfEven(balance * rate, Whole(f))
Regular(amount, rate, f, n) ==
    LET up == (Whole(f) + rate)^n
    IN  IF rate = 0 THEN amount \div n
        ELSE RoundHalfEven(amount * rate * up, Whole(f) * (up - Whole(f)^n))

(* The rows that are booked: the last one takes whatever is left.          *)
Schedule(t) ==
    LET n       == PaymentsInTerm(t.term, t.freq)
        regular == Regular(t.amount, t.rate, t.freq, n)
        row[k \in 0 .. n] ==
            IF k = 0 THEN [principal |-> 0, interest |-> 0, left |-> t.amount]
            ELSE LET left == row[k - 1].left
                     due  == Interest(left, t.rate, t.freq)
                     part == IF k = n \/ regular - due > left THEN left ELSE regular - due
                 IN  [principal |-> part, interest |-> due, left |-> left - part]
    IN  [k \in 1 .. n |-> row[k]]

(* The quote's own walk over the periods, which stops when nothing is      *)
(* left: what was paid, its interest, and the sum of opening balances.     *)
QuoteWalk(t) ==
    LET n       == PaymentsInTerm(t.term, t.freq)
        regular == Regular(t.amount, t.rate, t.freq, n)
        walk[k \in 0 .. n] ==
            IF k = 0 THEN [left |-> t.amount, interest |-> 0, paid |-> 0, opening |-> 0]
            ELSE LET w    == walk[k - 1]
                     due  == Interest(w.left, t.rate, t.freq)
                     part == IF k = n \/ regular - due >= w.left THEN w.left ELSE regular - due
                 IN  IF w.left = 0 THEN w
                     ELSE [left    |-> w.left - part,   interest |-> w.interest + due,
                           paid    |-> w.paid + part + due, opening |-> w.opening + w.left]
    IN  walk[n]

(* Fees that are certain, over the term; contingent ones do not count.     *)
FeeValue(fee, amount) ==
    IF fee.calc = "rate_bps" THEN RoundHalfEven(amount * fee.amount, Bps) ELSE fee.amount
FeesOver(product, t) ==
    LET Charged(fee) == CASE fee.timing = "per_payment" -> PaymentsInTerm(t.term, t.freq)
                          [] fee.timing = "at_origination" -> 1
                          [] OTHER -> 0
        Cost(fee) == FeeValue(fee, t.amount) * Charged(fee)
    IN  MapThenSumSet(Cost, product.fees)

AprBps(t, fees) ==
    LET walk == QuoteWalk(t)
    IN  IF fees = 0 THEN (t.rate * Bps) \div RateUnit
        ELSE RoundHalfEven((walk.interest + fees) * PerYear[t.freq] * Bps, walk.opening)

ExceedsCap(product, t) == AprBps(t, FeesOver(product, t)) >= CapBps

(* A file's or an offer's terms lie within the product's windows.          *)
WithinBounds(product, t) ==
    /\ product.minAmount <= t.amount /\ t.amount <= product.maxAmount
    /\ product.minTerm <= t.term /\ t.term <= product.maxTerm
    /\ product.minRate <= t.rate /\ t.rate <= product.maxRate
=============================================================================
