--------------------------- MODULE InterestEngine ---------------------------
(***************************************************************************)
(* The pure money core of the servicing stack: services/interest_engine.py *)
(* Balances are records of four buckets; a ledger event moves them; the    *)
(* four repayment modes split one payment over them.  Amounts are integer  *)
(* cents and dates are day numbers.                                        *)
(***************************************************************************)
EXTENDS Integers, Sequences

CONSTANTS
    RateNum,       \* annual_rate_bps
    RateDen,       \* 10_000 * day_count_denominator
    Priority       \* the repayment order in force: bucket -> position 1..3

(* A bucket a regular payment can reach.  "fees" stands for the two         *)
(* scheduled-fee categories, which drain one bucket: only the earlier of    *)
(* their two positions matters.  "nsf" is unreachable and has no position.  *)
Buckets == {"interest", "principal", "fees"}

Modes == {"regular", "add_on", "special", "payoff"}

ASSUME RateAssumption     == RateNum \in Nat /\ RateDen \in Nat \ {0}
ASSUME PriorityAssumption ==
    /\ Priority \in [Buckets -> 1 .. 3]
    /\ \A a, b \in Buckets : a # b => Priority[a] # Priority[b]

Lesser(a, b)  == IF a < b THEN a ELSE b
Positive(a)   == IF a > 0 THEN a ELSE 0          \* Python's max(0, a)

---------------------------------------------------------------------------

Balances == [principal : Nat, interest : Nat, fees : Nat, addOn : Nat]

(* Fault: a payoff that forgets the add-on fees.                            *)
PayoffLessAddOn(b) == b.principal + b.interest + b.fees
Payoff(b) == b.principal + b.interest + b.fees + b.addOn

(* Simple interest for a span, rounded half to even once for the span.      *)
AccrueInterest(principal, days) ==
    LET n    == principal * RateNum * days
        q    == n \div RateDen
        twice == 2 * (n % RateDen)
        up   == twice > RateDen \/ (twice = RateDen /\ q % 2 = 1)
    IN  IF days <= 0 \/ principal <= 0 THEN 0
        ELSE IF up THEN q + 1 ELSE q

---------------------------------------------------------------------------
(* Ledger events.  "paid" and "charged" hold one amount per bucket; only    *)
(* the fee buckets are ever charged outside a reversal.                     *)

NoMoney == [principal |-> 0, interest |-> 0, fees |-> 0, addOn |-> 0]

(* Fault: no clamp at zero.                                                 *)
ApplyEventUnclamped(b, paid, charged) ==
    [principal |-> b.principal - paid.principal,
     interest  |-> b.interest - paid.interest,
     fees      |-> b.fees + charged.fees - paid.fees,
     addOn     |-> b.addOn + charged.addOn - paid.addOn]

(* Apply one event to the balances: interest first, an excess of interest   *)
(* paid falls through to principal, and every bucket is clamped at zero.    *)
ApplyEvent(b, paid, charged) ==
    LET excess == Positive(paid.interest - b.interest)
    IN  [principal |-> Positive(b.principal - paid.principal - excess),
         interest  |-> Positive(b.interest - paid.interest),
         fees      |-> Positive(b.fees + charged.fees - paid.fees),
         addOn     |-> Positive(b.addOn + charged.addOn - paid.addOn)]

(* The ledger walk: from the advance at day "start", accrue up to each      *)
(* event dated no later than asOf, apply it, then accrue the last span.     *)
(* events is a sequence of [eff, paid, charged] in replay order.            *)
ComputeBalances(advance, start, events, asOf) ==
    LET AccrueTo(w, day) ==
            IF day > w.cursor
            THEN [cursor |-> day,
                  b |-> [w.b EXCEPT !.interest =
                            @ + AccrueInterest(w.b.principal, day - w.cursor)]]
            ELSE w
        walk[k \in 0 .. Len(events)] ==
            IF k = 0
            THEN [cursor |-> start, b |-> [NoMoney EXCEPT !.principal = advance]]
            ELSE LET e == events[k]
                     w == AccrueTo(walk[k - 1], e.eff)
                 IN  IF e.eff > asOf
                     THEN walk[k - 1]
                     ELSE [w EXCEPT !.b = ApplyEvent(@, e.paid, e.charged)]
    IN  AccrueTo(walk[Len(events)], asOf).b

---------------------------------------------------------------------------
(* The allocators.  An allocation names how much of the amount goes to each *)
(* bucket.  Accepts is the mode's amount rule: the code raises ValueError,  *)
(* before any state is touched, when it fails.                              *)

(* Fault: no cap on a special payment.                                      *)
AcceptsUncapped(mode, amount, b) ==
    /\ amount > 0
    /\ mode = "add_on" => amount <= b.addOn
    /\ mode = "payoff" => amount = Payoff(b)
Accepts(mode, amount, b) ==
    /\ amount > 0
    /\ mode = "add_on"  => amount <= b.addOn
    /\ mode = "special" => amount <= b.principal
    /\ mode = "payoff"  => amount = Payoff(b)

(* What the waterfall has offered to the buckets placed before c, and what  *)
(* is then left for c.                                                      *)
OwedBefore(c, b) ==
    LET before(d) == IF Priority[d] < Priority[c] THEN b[d] ELSE 0
    IN  before("interest") + before("principal") + before("fees")

Share(c, amount, b) == Lesser(b[c], Positive(amount - OwedBefore(c, b)))

(* Cash no reachable bucket could take; it stays on the row as principal.   *)
Overpayment(mode, amount, b) ==
    IF mode = "regular"
    THEN Positive(amount - (b.interest + b.principal + b.fees))
    ELSE 0

AllocateRegular(amount, b) ==
    [principal |-> Share("principal", amount, b) + Overpayment("regular", amount, b),
     interest  |-> Share("interest", amount, b),
     fees      |-> Share("fees", amount, b),
     addOn     |-> 0]

Allocate(mode, amount, b) ==
    CASE mode = "regular" -> AllocateRegular(amount, b)
      [] mode = "add_on"  -> [NoMoney EXCEPT !.addOn = amount]
      [] mode = "special" -> [NoMoney EXCEPT !.principal = amount]
      [] mode = "payoff"  -> b
=============================================================================
