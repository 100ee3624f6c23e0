------------------------ MODULE DelinquencyBuckets ------------------------
(***************************************************************************)
(* The month-end buckets of one loan (services/delinquency_buckets.py) and *)
(* what moves under them: payments that fill the plan, installments staff  *)
(* suspend (schedule_surgery.py), an insolvency staff mark and clear.  The *)
(* snapshot job and the staff requests read without locks and write at     *)
(* their commit; an attribute left as it was read is not written.          *)
(***************************************************************************)
EXTENDS Naturals, Sequences, FiniteSets, SequencesExt
CONSTANTS
    Due, MonthEnds,   \* the due day of each installment, the last day of each month
    Total,            \* the cents of each installment
    Cuts,             \* the days past due at which the ladder's rungs begin
    Amounts, Modes, Statuses,   \* payments, repayment modes, kinds of insolvency
    Jobs, Desks,      \* runs of the snapshot job, sessions of staff
    Horizon, MaxPayments, MaxSessions,   \* bounds: days, payments, sessions begun
    None

Items  == 1..Len(Due)
Months == 1..Len(MonthEnds)
Days   == 0..Horizon

BucketsAssumption ==
    /\ Due \in Seq(Nat) /\ Cuts \in Seq(Nat \ {0}) /\ Len(Cuts) <= 5
    /\ Total \in Nat /\ Amounts \subseteq Nat /\ Horizon \in Nat
    /\ Jobs \cap Desks = {}
    /\ MonthEnds \in Seq(Nat \ {0})
    /\ \A m, n \in Months : m < n => MonthEnds[m] < MonthEnds[n]

VARIABLES
    today,
    items,       \* installment -> cents paid and status
    payments,    \* platform_loan_payments in order of their rows
    insolvency,  \* the loan's insolvency_status
    bucket,      \* the loan's current_bucket
    snapshots,   \* month -> the bucket of its snapshot row
    revised,     \* months whose facts changed after a run had read them
    misses,      \* commits whose reading of the loan was overtaken, to 2
    begun,       \* sessions so far
    work         \* session -> what it holds

vars == <<today, items, payments, insolvency, bucket, snapshots, revised, misses, begun, work>>

Idle      == [op |-> "idle"]
Sessions  == Jobs \cup Desks
Insolvent == "insolvency"
Ladder    == <<"current", "current_month_late", "pot_30", "pot_60", "pot_90", "default">>
Rungs     == {Ladder[k] : k \in 1..(Len(Cuts) + 1)}
Give(s)   == work' = [work EXCEPT ![s] = Idle]

Init ==
    /\ today = 0
    /\ items = [i \in Items |-> [paid |-> 0, status |-> "open"]]
    /\ payments = << >>
    /\ insolvency = None
    /\ bucket = "current"
    /\ snapshots = [m \in Months |-> None]
    /\ revised = {} /\ misses = 0 /\ begun = 0
    /\ work = [s \in Sessions |-> Idle]

----------------------------------------------------------------------------
Minimum(a, b) == IF a < b THEN a ELSE b

(* record_payment's filling of the plan, oldest installment first.         *)
Fill(rows, cents, skip) ==
    FoldLeft(LAMBDA acc, i :
                LET room == IF rows[i].status \in skip \/ acc.left = 0 THEN 0
                            ELSE Total - acc.paid[i]
                    part == Minimum(room, acc.left)
                IN  [left |-> acc.left - part, paid |-> [acc.paid EXCEPT ![i] = @ + part]],
             [left |-> cents, paid |-> [i \in Items |-> rows[i].paid]],
             [i \in Items |-> i]).paid

(* installment_states_as_of: every receipt up to the day, filled again     *)
(* over the rows that are owed.                                            *)
Received(day) ==
    FoldLeft(LAMBDA sum, p : IF p.day <= day THEN sum + p.cents ELSE sum, 0, payments)

NotOwed == {"suspended"}

(* Mutant of Replayed: receipts fill the plan to the day before.           *)
ReplayedBefore(day) ==
    Fill([i \in Items |-> [items[i] EXCEPT !.paid = 0]], Received(day - 1), NotOwed)

Replayed(day) ==
    Fill([i \in Items |-> [items[i] EXCEPT !.paid = 0]], Received(day), NotOwed)

(* bucket_for: the oldest installment strictly past due places the loan,   *)
(* an insolvency overrides it.                                             *)
PastDue(paid, day) ==
    {i \in Items : items[i].status \notin NotOwed /\ paid[i] < Total /\ Due[i] < day}

DaysPastDue(paid, day) ==
    IF PastDue(paid, day) = {} THEN 0
    ELSE day - Due[CHOOSE i \in PastDue(paid, day) : \A j \in PastDue(paid, day) : Due[i] <= Due[j]]

Rung(dpd) == Ladder[1 + Cardinality({k \in 1..Len(Cuts) : Cuts[k] <= dpd})]

BucketFor(status, paid, day) ==
    IF status # None THEN Insolvent ELSE Rung(DaysPastDue(paid, day))

Live == [i \in Items |-> items[i].paid]

(* effective_bucket: what collections sees between two snapshots.          *)
EffectiveBucket ==
    IF insolvency # None THEN Insolvent
    ELSE IF PastDue(Live, today) = {} THEN "current" ELSE bucket

----------------------------------------------------------------------------
(* A day passes; a run of the job ends within its day.                     *)
Tick ==
    /\ today < Horizon
    /\ \A j \in Jobs : work[j] = Idle
    /\ today' = today + 1
    /\ UNCHANGED <<items, payments, insolvency, bucket, snapshots, revised, misses, begun, work>>

(* Months a run has read that end on the day or later.                     *)
ReadSince(day) ==
    {m \in Months : /\ day <= MonthEnds[m]
                    /\ \/ snapshots[m] # None
                       \/ \E j \in Jobs : work[j] # Idle /\ work[j].month = m}

(* A suspended installment is owed again.                                  *)
Lifted == \E i \in Items : items[i].status = "suspended" /\ items'[i].status # "suspended"

Servicing == \E i \in Items : items[i].status # "paid"

(* record_payment: only a regular payment moves the plan, and it lifts the *)
(* suspension of what it fills; it may be dated back.                      *)
Pay ==
    /\ Servicing /\ Len(payments) < MaxPayments
    /\ \E cents \in Amounts, mode \in Modes, day \in {today} \cup {d \in Days : d + 1 = today} :
        /\ payments' = Append(payments, [cents |-> cents, day |-> day, mode |-> mode])
        /\ items' = IF mode # "regular" THEN items
                    ELSE LET paid == Fill(items, cents, {"paid"})
                         IN  [i \in Items |->
                                [paid |-> paid[i],
                                 status |-> IF paid[i] = Total THEN "paid"
                                            ELSE IF paid[i] # items[i].paid THEN "open"
                                            ELSE items[i].status]]
        /\ revised' = revised \cup ReadSince(IF Lifted THEN 0 ELSE day)
    /\ UNCHANGED <<today, insolvency, bucket, snapshots, misses, begun, work>>

(* Mutant of IsLatest: any month that ended.                               *)
Ended(m) == MonthEnds[m] <= today

----------------------------------------------------------------------------
(* default_snapshot_month: the month that ends today, else the last one    *)
(* that ended.                                                             *)
IsLatest(m) ==
    /\ MonthEnds[m] <= today
    /\ \A n \in Months : n > m => today < MonthEnds[n]

(* run_bucket_snapshot: the loans, then each one's plan and receipts, then *)
(* one commit for all.                                                     *)
JobStart(j, m) ==
    /\ work[j] = Idle /\ begun < MaxSessions /\ Servicing
    /\ MonthEnds[m] <= today
    /\ work' = [work EXCEPT ![j] = [op |-> "started", month |-> m, latest |-> IsLatest(m),
                                    insolvency |-> insolvency, bucket |-> bucket]]
    /\ begun' = begun + 1
    /\ UNCHANGED <<today, items, payments, insolvency, bucket, snapshots, revised, misses>>

JobRate(j) ==
    /\ work[j].op = "started"
    /\ LET m    == work[j].month
           rate == BucketFor(work[j].insolvency, Replayed(MonthEnds[m]), MonthEnds[m])
       IN  work' = [work EXCEPT ![j] = [op |-> "rated", month |-> m, latest |-> work[j].latest,
                        insolvency |-> work[j].insolvency, bucket |-> work[j].bucket,
                        rate |-> rate, row |-> snapshots[m]]]
    /\ UNCHANGED <<today, items, payments, insolvency, bucket, snapshots, revised, misses, begun>>

Save(read, value, stored) == IF value = read THEN stored ELSE value

Overtaken(s) ==
    misses' = IF <<work[s].insolvency, work[s].bucket>> # <<insolvency, bucket>>
              THEN Minimum(2, misses + 1) ELSE misses

(* A row another run inserted meanwhile fails the whole pass.              *)
JobCommit(j) ==
    /\ work[j].op = "rated"
    /\ LET w == work[j] IN
       IF w.row = None /\ snapshots[w.month] # None
       THEN UNCHANGED <<bucket, snapshots, misses>>
       ELSE /\ snapshots' = [snapshots EXCEPT ![w.month] = Save(w.row, w.rate, @)]
            /\ bucket' = IF w.latest THEN Save(w.bucket, w.rate, bucket) ELSE bucket
            /\ Overtaken(j)
    /\ Give(j)
    /\ UNCHANGED <<today, items, payments, insolvency, revised, begun>>

----------------------------------------------------------------------------
(* set_insolvency marks the loan, or clears it and rates the live plan.    *)
DeskOpen(d, op, arg) ==
    work' = [work EXCEPT ![d] = [op |-> op, arg |-> arg, insolvency |-> insolvency,
                bucket |-> bucket, rate |-> BucketFor(None, Live, today)]]

ReadLoan(d) ==
    /\ work[d] = Idle /\ begun < MaxSessions
    /\ \E status \in Statuses \cup {None} : DeskOpen(d, "insolvency", status)
    /\ begun' = begun + 1
    /\ UNCHANGED <<today, items, payments, insolvency, bucket, snapshots, revised, misses>>

(* Mutant of NewBucket: clearing leaves the bucket to the next snapshot.   *)
OldBucket(w) == IF w.arg = None THEN w.bucket ELSE Insolvent

NewBucket(w) == IF w.arg = None THEN w.rate ELSE Insolvent

SetInsolvency(d) ==
    /\ work[d].op = "insolvency"
    /\ insolvency' = Save(work[d].insolvency, work[d].arg, insolvency)
    /\ bucket' = Save(work[d].bucket, NewBucket(work[d]), bucket)
    /\ revised' = IF insolvency' = insolvency THEN revised ELSE revised \cup ReadSince(0)
    /\ Overtaken(d)
    /\ Give(d)
    /\ UNCHANGED <<today, items, payments, snapshots, begun>>

(* suspend_installment and unsuspend_installment.                          *)
ReadItem(d) ==
    /\ work[d] = Idle /\ begun < MaxSessions
    /\ \E i \in Items :
        \/ items[i].status = "open" /\ DeskOpen(d, "suspend", i)
        \/ items[i].status = "suspended" /\ DeskOpen(d, "unsuspend", i)
    /\ begun' = begun + 1
    /\ UNCHANGED <<today, items, payments, insolvency, bucket, snapshots, revised, misses>>

SetItem(d) ==
    /\ work[d].op \in {"suspend", "unsuspend"}
    /\ items' = [items EXCEPT ![work[d].arg].status =
                    IF work[d].op = "suspend" THEN "suspended" ELSE "open"]
    /\ revised' = revised \cup ReadSince(0)
    /\ Give(d)
    /\ UNCHANGED <<today, payments, insolvency, bucket, snapshots, misses, begun>>

Next ==
    \/ Tick \/ Pay
    \/ \E j \in Jobs : (\E m \in Months : JobStart(j, m)) \/ JobRate(j) \/ JobCommit(j)
    \/ \E d \in Desks : ReadLoan(d) \/ SetInsolvency(d) \/ ReadItem(d) \/ SetItem(d)

Spec == Init /\ [][Next]_vars

----------------------------------------------------------------------------
TypeOK ==
    /\ today \in Days
    /\ items \in [Items -> [paid : 0..Total, status : {"open", "paid", "suspended"}]]
    /\ insolvency \in Statuses \cup {None}
    /\ bucket \in Rungs \cup {Insolvent} /\ EffectiveBucket \in Rungs \cup {Insolvent}
    /\ snapshots \in [Months -> Rungs \cup {Insolvent, None}]
    /\ revised \subseteq Months /\ misses \in 0..2

(* The job sees the plan staff see: as long as every payment is a regular  *)
(* one and no suspended installment carries cash, replaying the receipts   *)
(* gives each installment the cents record_payment gave it, however        *)
(* payments, suspensions and back-dating are mixed                         *)
(* (installment_states_as_of).                                             *)
ReplayIsThePlan ==
    /\ \A k \in 1..Len(payments) : payments[k].mode = "regular"
    /\ \A i \in Items : items[i].status = "suspended" => items[i].paid = 0
    => Replayed(today) = Live

(* A step that rewrites a month's rating only where its facts moved, and   *)
(* moves the loan's bucket only for the newest month.                      *)
MonthsStand ==
    /\ \A m \in Months :
         snapshots[m] # None /\ m \notin revised => snapshots'[m] = snapshots[m]
    /\ \A j \in Jobs :
         work[j].op = "rated" /\ work'[j] = Idle /\ bucket' # bucket =>
             \A n \in Months : n > work[j].month => snapshots[n] = None

(* A month's rating is history: run again it comes out the same, unless a  *)
(* payment dated in the month, an insolvency or a suspension (or a payment *)
(* that lifts one) came after it was first read; and a run of an old month *)
(* never moves the bucket of the loan (run_bucket_snapshot).               *)
PastMonthStands == [][MonthsStand]_vars

(* A loan whose insolvency was cleared is not left in the insolvency       *)
(* portfolio: one overlap of a snapshot with a marking or a clearing does  *)
(* not do it, it takes two (set_insolvency, run_bucket_snapshot).          *)
ClearedLoanReenters ==
    insolvency = None /\ bucket = Insolvent => misses = 2
=============================================================================
