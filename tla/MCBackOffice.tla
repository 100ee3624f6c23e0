---------------------------- MODULE MCBackOffice ----------------------------
(* Values for the back office.  Where a lane has two actors that overlap,  *)
(* requests, desks, sessions or workers, they are p1 and p2.               *)
EXTENDS BackOffice, TLC
CONSTANTS p1, p2, r1, hook, l1, c1, c2, o1, o2

(* Two payments in a unit of time, so that a few cents and at most six     *)
(* payments tell every rounding apart; a lump fee of a tenth reaches the   *)
(* cap and five cents of 90 do not.                                        *)
PaymentsPerYear == "monthly" :> 2 @@ "semi_monthly" :> 4 @@ "bi_weekly" :> 5
Fee(timing, calc, cost) == [timing |-> timing, calc |-> calc, amount |-> cost]
Offering(freqs, fees, term) ==
    [minAmount |-> 90, maxAmount |-> 180, minTerm |-> 1, maxTerm |-> 3, term |-> term,
     minRate |-> 0, maxRate |-> 2, rate |-> 1, freqs |-> freqs, fees |-> fees]
Catalogue ==
    {Offering({"monthly", "semi_monthly"},
              {Fee("per_payment", "fixed_cents", 2), Fee("on_event", "fixed_cents", 45)}, 2),
     Offering(DOMAIN PaymentsPerYear, {Fee("at_origination", "rate_bps", 1000)}, 2),
     Offering({"monthly"}, {Fee("at_origination", "fixed_cents", 5)}, 3),
     Offering(DOMAIN PaymentsPerYear, {}, 1)}

Processes == Permutations({p1, p2})
=============================================================================
