--------------------------- MODULE ServicingStatus ---------------------------
(***************************************************************************)
(* What the servicing screens and the live days past due say of the loan   *)
(* of LoanServicing: services/servicing_status.py compares the cash of the *)
(* ledger with the contractual installments, without looking at what       *)
(* record_payment wrote into the plan.                                     *)
(***************************************************************************)
EXTENDS LoanServicing

CONSTANTS
    MoveShares,     \* amount_to_move_pct of the products, in basis points
    PeriodDays      \* days of one period, for dates past the plan

ASSUME StatusAssumption ==
    /\ MoveShares \subseteq 1 .. 10000
    /\ PeriodDays \in Nat \ {0}

NItems   == Cardinality(Items)
NoDays   == -1      \* days_past_due of None

(* Mutant of RoundHalfAway: the interest engine's tie rule.                *)
RoundTiesEven(numerator, denominator) ==
    LET q     == numerator \div denominator
        twice == 2 * (numerator % denominator)
    IN  IF twice > denominator \/ (twice = denominator /\ q % 2 = 1) THEN q + 1 ELSE q
RoundHalfAway(numerator, denominator) ==
    IF numerator >= 0 THEN (numerator + denominator \div 2) \div denominator
    ELSE -((-numerator + denominator \div 2) \div denominator)

(* build_servicing_status measures every installment by the first one.     *)
Installment == Total[1]

PaidToDateVirtual(asOf) ==
    SumOver([k \in DOMAIN ledger |->
                IF ledger[k].type = "payment" /\ ledger[k].eff <= asOf
                THEN ledger[k].amount ELSE 0])

(* How many installments the account has earned through; a share `bps` of  *)
(* an installment earns it.                                                *)
InstallmentsMoved(paid, bps) ==
    LET threshold == Installment * bps
        scaled    == paid * 10000
    IN  IF scaled < threshold THEN 0
        ELSE (scaled - threshold) \div (Installment * 10000) + 1

(* The plan's date, or one projected beyond the plan.                      *)
AdvanceDueDate(n) == IF n < NItems THEN Due[n + 1] ELSE Due[1] + n * PeriodDays
AccountDueAsOf(asOf, bps) == AdvanceDueDate(InstallmentsMoved(PaidToDateVirtual(asOf), bps))

AmountToMove(moved, paid, bps) ==
    LET scaled == (moved + 1) * Installment * 10000 - Installment * (10000 - bps)
    IN  Positive(RoundHalfAway(scaled, 10000) - paid)

DaysPastDue(asOf, bps) ==
    IF LoanBalances(ledger, asOf).principal <= 0 THEN NoDays
    ELSE Positive(asOf - AccountDueAsOf(asOf, bps))

---------------------------------------------------------------------------
(* Properties *)

OnlyRegularCash == \A k \in DOMAIN ledger : ledger[k].mode \in {"regular", "none"}
HoldsShare(i, bps) == schedule[i].paid * 10000 >= Total[i] * bps
(* The threshold in cents is whole, or rounds up.                          *)
RoundsUp(bps) == Installment * bps % 10000 \notin 1 .. 4999

(* The servicing status and the plan are two computations of how far the   *)
(* borrower has come, one from the ledger's cash and one from what         *)
(* record_payment filled.  While all cash is regular and nothing is waived *)
(* they agree, whatever was suspended, backdated or aged: as many          *)
(* installments are earned as hold their share; the account is past due    *)
(* exactly when one that is due holds less; a loan flagged delinquent is   *)
(* past due at the full share; and the amount to move is the least cash    *)
(* that earns exactly one more.                                            *)
StatusFollowsPlan ==
    OnlyRegularCash /\ NothingWaived => \A bps \in MoveShares :
        LET paid  == PaidToDateVirtual(day)
            moved == InstallmentsMoved(paid, bps)
            dpd   == DaysPastDue(day, bps)
            more  == AmountToMove(moved, paid, bps)
        IN  /\ Lesser(moved, NItems) = Cardinality({i \in Items : HoldsShare(i, bps)})
            /\ dpd # NoDays /\ moved < NItems =>
                 /\ dpd > 0 <=> \E i \in Items : Due[i] < day /\ ~HoldsShare(i, bps)
                 /\ status = "delinquent" /\ bps = 10000 => dpd > 0
            /\ RoundsUp(bps) =>
                 /\ InstallmentsMoved(paid + more, bps) = moved + 1
                 /\ more > 0 /\ InstallmentsMoved(paid + more - 1, bps) = moved
=============================================================================
