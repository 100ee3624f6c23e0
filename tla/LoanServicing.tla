---------------------------- MODULE LoanServicing ----------------------------
(***************************************************************************)
(* One disbursed loan and its two books: the immutable money ledger that   *)
(* services/loan_ledger.py replays, and the as-agreed schedule that        *)
(* services/loan_servicing.py fills.  Staff post payments (in any          *)
(* repayment mode, possibly backdated), fees are charged, installments are *)
(* suspended and released, the loan can be charged off, and the nightly    *)
(* delinquency job runs in its own unlocked transaction.                   *)
(***************************************************************************)
EXTENDS InterestEngine, FiniteSets, Functions

CONSTANTS
    Advance,        \* principal_cents at disbursement (day 0)
    Items,          \* installment numbers, 1 .. n
    Total, Due,     \* installment -> total_cents, due_date
    Amounts,        \* amounts a client may post
    FeeAmounts,     \* amounts of an add-on fee
    DaysBack,       \* how far an effective_date may lie in the past
    AgingOverlaps,  \* may the nightly job's transaction overlap other writers?
    MaxDay, MaxRows \* bounds of the model: days, ledger rows

ASSUME LoanAssumption ==
    /\ Advance \in Nat \ {0}
    /\ IsFiniteSet(Items) /\ Items = 1 .. Cardinality(Items)
    /\ Total \in [Items -> Nat \ {0}]
    /\ Due \in [Items -> Nat]
    /\ Amounts \subseteq Nat /\ FeeAmounts \subseteq Nat
    /\ DaysBack \subseteq 0 .. 30 /\ 0 \in DaysBack
    /\ MaxDay \in Nat
    /\ AgingOverlaps \in BOOLEAN

VARIABLES
    day,              \* today
    ledger,           \* platform_loan_transactions, in seq order
    principalBalance, \* loan.principal_balance_cents
    schedule,         \* installment -> [paid, status]
    status,           \* loan.status
    posting,          \* a staff request past its servicing gate, or NoPosting
    aging,            \* the nightly job's transaction: what it has read
    parked            \* installments staff suspended and have not released

vars == <<day, ledger, principalBalance, schedule, status, posting, aging, parked>>
book == <<ledger, principalBalance>>

ItemStatuses == {"scheduled", "partial", "late", "paid", "waived", "suspended"}
LoanStatuses == {"active", "delinquent", "paid_off", "charged_off"}
Serviceable  == {"active", "delinquent"}

(* Fault: treat a suspended installment as settled.                         *)
SettledOrSuspended == {"paid", "waived", "suspended"}
Settled      == {"paid", "waived"}
Ageable      == {"scheduled", "partial"}
Suspendable  == {"scheduled", "partial", "late"}

NoPosting == [mode |-> "none", amount |-> 0, eff |-> 0]
AgingIdle == [phase |-> "idle", items |-> {}, mark |-> FALSE]

---------------------------------------------------------------------------
(* The ledger replay: rows in (effective_date, seq) order, payment rows     *)
(* reduce the buckets, fee rows charge the add-on bucket.                   *)

EventOf(row) ==
    [eff     |-> row.eff,
     paid    |-> IF row.type = "payment" THEN row.split ELSE NoMoney,
     charged |-> IF row.type = "fee" THEN row.split ELSE NoMoney]

SortedTransactions(rows) ==
    LET before(j, k) == rows[j].eff < rows[k].eff \/ (rows[j].eff = rows[k].eff /\ j < k)
        place(k) == 1 + Cardinality({j \in DOMAIN rows : before(j, k)})
    IN  [p \in DOMAIN rows |-> rows[CHOOSE k \in DOMAIN rows : place(k) = p]]

LoanBalances(rows, asOf) ==
    ComputeBalances(Advance, 0,
                    [k \in DOMAIN rows |-> EventOf(SortedTransactions(rows)[k])],
                    asOf)

PayoffAsOf(rows, asOf) == Payoff(LoanBalances(rows, asOf))

---------------------------------------------------------------------------
(* The schedule.  A regular payment fills the oldest unsettled installment  *)
(* first; left[i] is what remains of it after installment i.                *)

(* Fault: forget what an installment has already received.                  *)
OutstandingInFull(i) == Total[i]
Outstanding(i) == Positive(Total[i] - schedule[i].paid)

FillPlan(amount) ==
    LET left[i \in 0 .. Cardinality(Items)] ==
            IF i = 0 THEN amount
            ELSE IF schedule[i].status \in Settled THEN left[i - 1]
            ELSE left[i - 1] - Lesser(left[i - 1], Outstanding(i))
        paid(i) == schedule[i].paid + left[i - 1] - left[i]
    IN  [i \in Items |->
            IF left[i - 1] = 0 \/ schedule[i].status \in Settled
            THEN schedule[i]
            ELSE [paid |-> paid(i),
                  status |-> IF paid(i) >= Total[i] THEN "paid" ELSE "partial"]]

WaiveOpen(sch) ==
    [i \in Items |-> IF sch[i].status \in Settled THEN sch[i]
                     ELSE [sch[i] EXCEPT !.status = "waived"]]

(* The closing and curing rules at the end of record_payment.               *)
AllSettled(sch) == \A i \in Items : sch[i].status \in Settled

(* Fault: an installment already flagged late no longer counts as overdue.  *)
HasAgeableOverdue(sch) == \E i \in Items : Due[i] < day /\ sch[i].status \in Ageable
HasOverdueUnpaid(sch) ==
    \E i \in Items : Due[i] < day /\ sch[i].status \notin Settled \cup {"suspended"}

StatusAfterPayment(debtCleared, sch) ==
    IF debtCleared \/ AllSettled(sch) THEN "paid_off"
    ELSE IF status = "delinquent" /\ ~HasOverdueUnpaid(sch) THEN "active"
    ELSE status

(* record_payment: one transaction under the loan's row lock.               *)
RecordPayment(mode, amount, eff) ==
    LET before == LoanBalances(ledger, eff)
        split  == Allocate(mode, amount, before)
        rows   == Append(ledger, [type |-> "payment", mode |-> mode, eff |-> eff,
                                  amount |-> amount, split |-> split])
        filled == IF mode = "regular" THEN FillPlan(amount) ELSE schedule
        debtCleared == PayoffAsOf(rows, eff) = 0
    IN  /\ Accepts(mode, amount, before)
        /\ ledger' = rows
        /\ principalBalance' = Positive(principalBalance - split.principal)
        /\ schedule' = IF debtCleared THEN WaiveOpen(filled) ELSE filled
        /\ status' = StatusAfterPayment(debtCleared, filled)

---------------------------------------------------------------------------
(* Actions *)

Init ==
    /\ day = 0
    /\ ledger = <<>>
    /\ principalBalance = Advance
    /\ schedule = [i \in Items |-> [paid |-> 0, status |-> "scheduled"]]
    /\ status = "active"
    /\ posting = NoPosting
    /\ aging = AgingIdle
    /\ parked = {}

(* Other transactions may run while the nightly job is between its reads    *)
(* and its commit only when AgingOverlaps.                                  *)
Quiet == AgingOverlaps \/ aging.phase = "idle"

(* The endpoint's servicing gate reads the loan without a lock.  A payoff   *)
(* request carries the amount that was quoted for its effective date.       *)
GatePosting ==
    /\ Quiet
    /\ posting = NoPosting
    /\ status \in Serviceable
    /\ Len(ledger) < MaxRows
    /\ \E mode \in Modes, back \in DaysBack :
         /\ back <= day
         /\ \E amount \in IF mode = "payoff"
                          THEN {PayoffAsOf(ledger, day - back)} ELSE Amounts :
              posting' = [mode |-> mode, amount |-> amount, eff |-> day - back]
    /\ UNCHANGED <<day, book, schedule, status, aging, parked>>

PostPayment ==
    /\ Quiet
    /\ posting # NoPosting
    /\ Len(ledger) < MaxRows
    /\ RecordPayment(posting.mode, posting.amount, posting.eff)
    /\ posting' = NoPosting
    /\ UNCHANGED <<day, aging, parked>>

(* A mode-rule violation is a 422; nothing was written.                     *)
RejectPosting ==
    /\ Quiet
    /\ posting # NoPosting
    /\ ~Accepts(posting.mode, posting.amount, LoanBalances(ledger, posting.eff))
    /\ posting' = NoPosting
    /\ UNCHANGED <<day, book, schedule, status, aging, parked>>

(* An NSF or maintenance fee: a ledger row dated today, whatever the loan's *)
(* status.                                                                  *)
ChargeFee ==
    /\ Quiet
    /\ Len(ledger) < MaxRows
    /\ \E fee \in FeeAmounts :
         ledger' = Append(ledger, [type |-> "fee", mode |-> "none", eff |-> day,
                                   amount |-> fee,
                                   split |-> [NoMoney EXCEPT !.addOn = fee]])
    /\ UNCHANGED <<day, principalBalance, schedule, status, posting, aging, parked>>

SuspendInstallment(i) ==
    /\ Quiet
    /\ schedule[i].status \in Suspendable
    /\ schedule' = [schedule EXCEPT ![i].status = "suspended"]
    /\ parked' = parked \cup {i}
    /\ UNCHANGED <<day, book, status, posting, aging>>

UnsuspendInstallment(i) ==
    /\ Quiet
    /\ schedule[i].status = "suspended"
    /\ schedule' = [schedule EXCEPT ![i].status =
                      IF schedule[i].paid > 0 THEN "partial" ELSE "scheduled"]
    /\ parked' = parked \ {i}
    /\ UNCHANGED <<day, book, status, posting, aging>>

ChargeOff ==
    /\ Quiet
    /\ status \in Serviceable
    /\ status' = "charged_off"
    /\ UNCHANGED <<day, book, schedule, posting, aging, parked>>

---------------------------------------------------------------------------
(* run_delinquency_aging: two reads, then one commit that writes back what  *)
(* was decided from them, without a lock.                                   *)

AgingReadItems ==
    /\ aging.phase = "idle"
    /\ aging' = [phase |-> "items", mark |-> FALSE,
                 items |-> {i \in Items : Due[i] < day /\ schedule[i].status \in Ageable}]
    /\ UNCHANGED <<day, book, schedule, status, posting, parked>>

AgingReadLoan ==
    /\ aging.phase = "items"
    /\ aging' = [aging EXCEPT !.phase = "loan", !.mark =
                   /\ status = "active"
                   /\ aging.items # {} \/ \E i \in Items : schedule[i].status = "late"]
    /\ UNCHANGED <<day, book, schedule, status, posting, parked>>

AgingCommit ==
    /\ aging.phase = "loan"
    /\ schedule' = [i \in Items |-> IF i \in aging.items
                                    THEN [schedule[i] EXCEPT !.status = "late"]
                                    ELSE schedule[i]]
    /\ status' = IF aging.mark THEN "delinquent" ELSE status
    /\ aging' = AgingIdle
    /\ UNCHANGED <<day, book, posting, parked>>

(* Midnight: no request or job of the day before is still open.             *)
NextDay ==
    /\ day < MaxDay
    /\ posting = NoPosting
    /\ aging.phase = "idle"
    /\ day' = day + 1
    /\ UNCHANGED <<book, schedule, status, posting, aging, parked>>

Next ==
    \/ GatePosting
    \/ PostPayment
    \/ RejectPosting
    \/ ChargeFee
    \/ \E i \in Items : SuspendInstallment(i) \/ UnsuspendInstallment(i)
    \/ ChargeOff
    \/ AgingReadItems
    \/ AgingReadLoan
    \/ AgingCommit
    \/ NextDay

Spec == Init /\ [][Next]_vars

---------------------------------------------------------------------------
(* Properties *)

(* Every variable stays in its range; in particular no installment ever     *)
(* absorbs more than its total (record_payment's min(remaining, ...)).      *)
TypeOK ==
    /\ day \in 0 .. MaxDay
    /\ \A k \in DOMAIN ledger :
         /\ ledger[k].type \in {"payment", "fee"}
         /\ ledger[k].split \in Balances
         /\ ledger[k].eff \in 0 .. day
    /\ principalBalance \in 0 .. Advance
    /\ \A i \in Items : /\ schedule[i].paid \in 0 .. Total[i]
                         /\ schedule[i].status \in ItemStatuses
    /\ status \in LoanStatuses
    /\ posting.mode \in Modes \cup {"none"}
    /\ aging.phase \in {"idle", "items", "loan"} /\ aging.items \subseteq Items
    /\ parked \subseteq Items

InDateOrder(rows) == \A j, k \in DOMAIN rows : j < k => rows[j].eff <= rows[k].eff

(* Money conservation across the replay: a payment dated today lowers       *)
(* today's payoff by its amount less the overpayment, whatever rows         *)
(* (backdated ones included) the ledger already holds.                      *)
PaymentMovesPayoff ==
    [][ LET row == ledger'[Len(ledger')] IN
        /\ Len(ledger') > Len(ledger)
        /\ row.type = "payment"
        /\ row.eff = day
        => PayoffAsOf(ledger', day) =
             PayoffAsOf(ledger, day)
               - (row.amount - Overpayment(row.mode, row.amount, LoanBalances(ledger, day)))
      ]_vars

(* The stored principal and the ledger's replay are two books of the same   *)
(* debt: they agree on every day as long as no row was backdated.           *)
StoredPrincipalMatchesLedger ==
    InDateOrder(ledger) => principalBalance = LoanBalances(ledger, day).principal

WaivesInstallment ==
    \E i \in Items : schedule'[i].status = "waived" /\ schedule[i].status # "waived"

(* When closing a loan writes its open installments off the plan, nothing   *)
(* is owed in any bucket ("settled in full"), as long as no row was         *)
(* backdated.                                                               *)
SettledWhenWaived ==
    [][WaivesInstallment /\ InDateOrder(ledger') => LoanBalances(ledger', day) = NoMoney]_vars

(* What a payment does to the debt, at every step: the two above.           *)
PaymentSettlesDebt == PaymentMovesPayoff /\ SettledWhenWaived

(* The same as the comment in record_payment claims it, of every ledger.    *)
ClosedOwesNothing ==
    [][WaivesInstallment => LoanBalances(ledger', day) = NoMoney]_vars

RegularCash ==
    LET cash[k \in 0 .. Len(ledger)] ==
            IF k = 0 THEN 0
            ELSE cash[k - 1] + (IF ledger[k].mode = "regular" THEN ledger[k].amount ELSE 0)
    IN  cash[Len(ledger)]
SumOver(f) == FoldFunction(+, 0, f)
NothingWaived == \A i \in Items : schedule[i].status # "waived"

(* The plan accounts for every cent of regular cash until it is full, over  *)
(* any history of suspensions, agings and payments in other modes.          *)
PlanAbsorbsRegularCash ==
    NothingWaived => SumOver([i \in Items |-> schedule[i].paid]) = Lesser(RegularCash, SumOver(Total))

(* Oldest first: an installment holds cash only when every earlier one is   *)
(* full, also when earlier ones were suspended in between.                  *)
OldestFirst ==
    NothingWaived => \A i, j \in Items : i < j /\ schedule[j].paid > 0
                                            => schedule[i].paid = Total[i]

(* Where regular cash goes: the two above.                                  *)
PlanTakesCash == PlanAbsorbsRegularCash /\ OldestFirst

(* The loan's status and its installments' agree: between two passes of the *)
(* nightly job an active loan never carries a late installment with money   *)
(* owing, through any order of payments, suspensions, releases and waivers. *)
ActiveLoanHasNoLateDebt ==
    aging.phase = "idle" =>
        \A i \in Items : status = "active" /\ schedule[i].status = "late"
                          => schedule[i].paid = Total[i]

(* "We never override a terminal status" (run_delinquency_aging): a loan    *)
(* that was closed is never found delinquent.                               *)
ClosedNeverDelinquent ==
    [][(status \in {"paid_off", "charged_off"}) => status' # "delinquent"]_vars

(* "suspended items are NEVER flipped" (run_delinquency_aging): as long as  *)
(* staff have not released it, a parked installment is never late.          *)
ParkedNeverLate == \A i \in parked : schedule[i].status # "late"
=============================================================================
