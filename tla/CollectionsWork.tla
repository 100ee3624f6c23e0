-------------------------- MODULE CollectionsWork --------------------------
(***************************************************************************)
(* The collectors' desk (services/collections_worksurface.py and its       *)
(* endpoints): promises to pay, which are judged when somebody lists them, *)
(* and the monthly maintenance fee of an insolvent loan, charged for one   *)
(* loan or in a pass over all of them.  Requests read without locks; what  *)
(* they write lands at their commit, and the unique indexes on (loan,      *)
(* month) and (loan, seq) fail the later of two conflicting ones.          *)
(***************************************************************************)
EXTENDS Naturals, Sequences, FiniteSets, FiniteSetsExt
CONSTANTS
    Loans, Debtor,        \* the loans, and the one whose promises are followed
    Portfolio,            \* loans that may become insolvent
    Sessions,
    MonthDays,            \* days in a month
    Promised, Paid,       \* the cents of promises and of payments
    Horizon, MaxPromises, MaxPayments,   \* bounds: days, promises, payments
    None

WorkAssumption ==
    /\ Debtor \in Loans /\ Portfolio \subseteq Loans /\ MonthDays \in Nat \ {0}
    /\ Promised \subseteq Nat \ {0} /\ Paid \subseteq Nat \ {0} /\ Horizon \in Nat

VARIABLES
    today,
    insolvent,   \* loans in the insolvency portfolio
    ledger,      \* loan -> its rows in seq order
    markers,     \* platform_insolvency_maintenance_fees: loan and month
    promises,    \* platform_promises_to_pay of the debtor, in order
    doubled,     \* whether a promise was added while another was being added
    work         \* session -> what it holds

vars == <<today, insolvent, ledger, markers, promises, doubled, work>>

Idle  == [op |-> "idle"]
Days  == 0..Horizon
Give(s) == work' = [work EXCEPT ![s] = Idle]

(* Mutant of MonthOf: the fee is booked for the month to come.             *)
MonthToCome(day) == day \div MonthDays + 1

(* month_start, as the number of the month.                                *)
MonthOf(day) == day \div MonthDays

Init ==
    /\ today = 0
    /\ insolvent \in SUBSET Portfolio
    /\ ledger = [l \in Loans |-> << >>]
    /\ markers = {}
    /\ promises = << >>
    /\ doubled = FALSE
    /\ work = [s \in Sessions |-> Idle]

----------------------------------------------------------------------------
(* Requests end within their day.                                          *)
Tick ==
    /\ today < Horizon /\ \A s \in Sessions : work[s] = Idle
    /\ today' = today + 1
    /\ UNCHANGED <<insolvent, ledger, markers, promises, doubled, work>>

(* set_insolvency.                                                         *)
SetInsolvency(l) ==
    /\ insolvent' = IF l \in insolvent THEN insolvent \ {l} ELSE insolvent \cup {l}
    /\ UNCHANGED <<today, ledger, markers, promises, doubled, work>>

(* record_payment, under the loan's lock; it may be dated back.            *)
Payments(l) == SelectSeq(ledger[l], LAMBDA row : row.kind = "payment")

Pay(l) ==
    /\ Len(Payments(l)) < MaxPayments
    /\ \E cents \in Paid, day \in {today} \cup {d \in Days : d + 1 = today} :
           ledger' = [ledger EXCEPT ![l] =
                         Append(@, [kind |-> "payment", cents |-> cents, day |-> day])]
    /\ UNCHANGED <<today, insolvent, markers, promises, doubled, work>>

----------------------------------------------------------------------------
(* apply_maintenance_fee for one loan, run_monthly_maintenance_fees for    *)
(* the portfolio: the loans still to be charged and their next seq.        *)
FeeOpen(s, chosen, month) ==
    work' = [work EXCEPT ![s] = [op |-> "fee", month |-> month,
                loans |-> {l \in chosen : <<l, month>> \notin markers},
                next  |-> [l \in Loans |-> Len(ledger[l]) + 1]]]

ReadFee(s) ==
    /\ work[s] = Idle /\ insolvent # {}
    /\ \E day \in Days, chosen \in {insolvent} \cup {{l} : l \in insolvent} :
        /\ \E l \in chosen : <<l, MonthOf(day)>> \notin markers
        /\ FeeOpen(s, chosen, MonthOf(day))
    /\ UNCHANGED <<today, insolvent, ledger, markers, promises, doubled>>

(* Mutant of Refused: the marker's index is missing, the seq is taken      *)
(* when the row is inserted.                                               *)
NeverRefused(s, l) == FALSE

(* The unique indexes: one marker per (loan, month), one row per seq.      *)
Refused(s, l) ==
    \/ <<l, work[s].month>> \in markers
    \/ Len(ledger[l]) >= work[s].next[l]

(* One refused insert fails the request, for every loan of a pass.         *)
ChargeFees(s) ==
    /\ work[s].op = "fee"
    /\ LET due == work[s].loans IN
       IF \E l \in due : Refused(s, l) THEN UNCHANGED <<ledger, markers>>
       ELSE /\ markers' = markers \cup {<<l, work[s].month>> : l \in due}
            /\ ledger' = [l \in Loans |-> IF l \notin due THEN ledger[l]
                             ELSE Append(ledger[l], [kind |-> "fee", month |-> work[s].month])]
    /\ Give(s)
    /\ UNCHANGED <<today, insolvent, promises, doubled>>

----------------------------------------------------------------------------
(* evaluate_promise: the cash received from its day to its due day.        *)
Covered(p, rows) ==
    MapThenSumSet(LAMBDA k : rows[k].cents,
                  {k \in 1..Len(rows) : rows[k].kind = "payment" /\ rows[k].day \in p.made..p.due})

(* Mutant of IsPast: the due day itself is late.                           *)
IsDue(p) == p.due <= today

IsPast(p) == p.due < today

Verdict(p, rows) ==
    IF Covered(p, rows) >= p.cents THEN "kept" ELSE IF IsPast(p) THEN "broken" ELSE "open"

(* Mutant of NoneOpen: only a promise not yet past counts.                 *)
NoneDue == \A k \in 1..Len(promises) : promises[k].status = "open" => IsPast(promises[k])

(* create_promise: one open promise on a loan.                             *)
NoneOpen == \A k \in 1..Len(promises) : promises[k].status # "open"

ReadPromise(s) ==
    /\ work[s] = Idle /\ Len(promises) < MaxPromises /\ NoneOpen
    /\ \E cents \in Promised, due \in today..Horizon :
           work' = [work EXCEPT ![s] = [op |-> "promise", cents |-> cents, due |-> due]]
    /\ UNCHANGED <<today, insolvent, ledger, markers, promises, doubled>>

AddPromise(s) ==
    /\ work[s].op = "promise"
    /\ promises' = Append(promises, [cents |-> work[s].cents, due |-> work[s].due,
                              made |-> today, status |-> "open", seen |-> 0])
    /\ doubled' = (doubled \/ \E t \in Sessions \ {s} : work[t].op = "promise")
    /\ Give(s)
    /\ UNCHANGED <<today, insolvent, ledger, markers>>

(* list_promises and refresh_promise_statuses: open ones are judged by the *)
(* payments the request read; cancel_promise takes an open one.            *)
Judged(rows) ==
    [k \in {j \in 1..Len(promises) : promises[j].status = "open"
                                     /\ Verdict(promises[j], rows) # "open"} |->
        [promises[k] EXCEPT !.status = Verdict(promises[k], rows), !.seen = Len(rows)]]

ReadPromises(s) ==
    /\ work[s] = Idle
    /\ \/ /\ DOMAIN Judged(ledger[Debtor]) # {}
          /\ work' = [work EXCEPT ![s] = [op |-> "judge", rows |-> Judged(ledger[Debtor])]]
       \/ \E k \in 1..Len(promises) :
            /\ promises[k].status = "open"
            /\ work' = [work EXCEPT ![s] = [op |-> "judge", rows |->
                           [j \in {k} |-> [promises[k] EXCEPT !.status = "cancelled"]]]]
    /\ UNCHANGED <<today, insolvent, ledger, markers, promises, doubled>>

WritePromises(s) ==
    /\ work[s].op = "judge"
    /\ promises' = [k \in 1..Len(promises) |->
                       IF k \in DOMAIN work[s].rows THEN work[s].rows[k] ELSE promises[k]]
    /\ Give(s)
    /\ UNCHANGED <<today, insolvent, ledger, markers, doubled>>

Next ==
    \/ Tick
    \/ \E l \in Portfolio : SetInsolvency(l)
    \/ \E l \in Loans : Pay(l)
    \/ \E s \in Sessions :
        \/ ReadFee(s) \/ ChargeFees(s)
        \/ ReadPromise(s) \/ AddPromise(s) \/ ReadPromises(s) \/ WritePromises(s)

Spec == Init /\ [][Next]_vars

----------------------------------------------------------------------------
TypeOK ==
    /\ today \in Days /\ insolvent \subseteq Loans /\ doubled \in BOOLEAN
    /\ markers \subseteq Loans \X Days
    /\ \A l \in Loans : \A k \in 1..Len(ledger[l]) : ledger[l][k].kind \in {"payment", "fee"}
    /\ \A k \in 1..Len(promises) :
        promises[k].status \in {"open", "kept", "broken", "cancelled"}

(* An insolvent borrower is charged once a month: whatever single charges, *)
(* passes, payments and clearings interleave, the fees in a loan's ledger  *)
(* are its markers, one row for each, and of a calendar month there is one *)
(* (apply_maintenance_fee).                                                *)
FeeOncePerMonth ==
    \A l \in Loans :
        LET fees == {k \in 1..Len(ledger[l]) : ledger[l][k].kind = "fee"}
        IN  /\ {<<l, ledger[l][k].month>> : k \in fees} = {m \in markers : m[1] = l}
            /\ \A j, k \in fees : ledger[l][j].month = ledger[l][k].month => j = k

(* A promise is judged by the borrower's cash: a kept one is covered by    *)
(* receipts of its window, a broken one was not by the receipts on the     *)
(* books when it was judged, and never before its day has passed; one      *)
(* promise is open at a time unless two were added at once                 *)
(* (refresh_promise_statuses, create_promise).                             *)
PromisesAreJudgedByCash ==
    /\ \A k \in 1..Len(promises) : LET p == promises[k] IN
        /\ p.status = "kept" => Covered(p, ledger[Debtor]) >= p.cents
        /\ p.status = "broken" =>
               /\ p.due < today
               /\ Covered(p, SubSeq(ledger[Debtor], 1, p.seen)) < p.cents
    /\ ~doubled => Cardinality({k \in 1..Len(promises) : promises[k].status = "open"}) <= 1
=============================================================================
