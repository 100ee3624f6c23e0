------------------------ MODULE VendorDisbursements ------------------------
(***************************************************************************)
(* The payouts of one vendor (services/vendor_disbursements.py).  The      *)
(* wallet is not stored: it is computed from the money ledger and from the *)
(* payout rows, without a lock, and the request that read it then claims a *)
(* row, calls the rail, and records the answer, each step in a commit of   *)
(* its own.  A request can crash between any two of them.                  *)
(*                                                                         *)
(* The two hooks for the rail's later answers are there but no webhook     *)
(* calls them yet: HooksWired says whether the run has them called.        *)
(***************************************************************************)
EXTENDS Naturals, Integers, Sequences, FiniteSets, FiniteSetsExt
CONSTANTS
    Procs,        \* requests and sweeps that can be under way together
    Months,       \* the months the run lives through, 1..n
    ShareBps,     \* VENDOR_DISBURSEMENT_SHARE_BPS
    ExtraFee,     \* VENDOR_DISBURSEMENT_EXTRA_FEE_CENTS
    HooksWired,   \* the hooks are called
    Deposits,     \* amounts a day's payments add to the ledger
    None,
    MaxCollected, \* bound on what the ledger holds
    MaxRows,      \* bound on payout rows
    MaxFaults     \* bound on crashes, timeouts and imported reversals

BPS_DENOMINATOR == 10000
ShareAssumption ==
    /\ ShareBps \in Nat /\ ExtraFee \in Nat /\ Months \subseteq Nat \ {0}
    /\ Deposits \subseteq Nat /\ MaxCollected \in Nat /\ MaxRows \in Nat

VARIABLES
    month,     \* current month
    held,      \* net collections inside the holdback
    cleared,   \* net collections with effective_date <= holdback_cutoff
    peak,      \* the largest entitlement there ever was
    rows,      \* payout id -> its row
    rail,      \* payout id -> what the rail did with it
    pc,        \* process -> its next step
    plan,      \* process -> the payout it is making, or None
    reply,     \* process -> the rail's answer to its push, or None
    raced,     \* a claim followed a wallet that another claim had outdated
    vfaults

ledgerVars == <<month, held, cleared, peak>>
procVars   == <<pc, plan, reply>>
vars       == <<ledgerVars, rows, rail, procVars, raced, vfaults>>

Larger(a, b) == IF a > b THEN a ELSE b
Ids == DOMAIN rows
Statuses == {"pending", "processing", "completed", "failed"}
Counted  == {"pending", "processing", "completed"}  \* in flight or settled
Answers  == {"accepted", "completed", "failed", "permanent", "transient"}

Init ==
    /\ month = 1 /\ held = 0 /\ cleared = 0 /\ peak = 0
    /\ rows = << >> /\ rail = << >>
    /\ pc = [p \in Procs |-> "idle"]
    /\ plan = [p \in Procs |-> None]
    /\ reply = [p \in Procs |-> None]
    /\ raced = FALSE /\ vfaults = 0

----------------------------------------------------------------------------
(* The wallet.                                                             *)
vendor_share_cents(collected) ==
    IF collected <= 0 THEN 0 ELSE (collected * ShareBps) \div BPS_DENOMINATOR

(* amount + fee of the vendor's payouts in these statuses.                 *)
disbursed(statuses) ==
    MapThenSumSet(LAMBDA i : rows[i].amount + rows[i].fee,
                  {i \in Ids : rows[i].status \in statuses})

(* Mutant of compute_available: what is in flight still counts as available. *)
AvailableIgnoresInFlight == Larger(0, vendor_share_cents(cleared) - disbursed({"completed"}))

compute_available ==
    Larger(0, vendor_share_cents(cleared) - disbursed({"completed"})
                                       - disbursed({"pending", "processing"}))

(* plan_extra_payout: the whole balance less the fee; 0 when refused.      *)
plan_extra_payout == Larger(0, compute_available - ExtraFee)

----------------------------------------------------------------------------
(* The ledger moves on: payments, the holdback, and a reversal that the    *)
(* portfolio import books against money that had cleared.                  *)
Collect ==
    \E d \in Deposits :
        /\ held + cleared + d <= MaxCollected
        /\ held' = held + d
        /\ UNCHANGED <<month, cleared, peak, rows, rail, procVars, raced, vfaults>>

(* Mutant of HoldbackPasses: what cleared still counts as held back.       *)
HoldbackKeeps ==
    /\ held > 0
    /\ cleared' = cleared + held
    /\ peak' = Larger(peak, vendor_share_cents(cleared'))
    /\ UNCHANGED <<month, held, rows, rail, procVars, raced, vfaults>>

HoldbackPasses ==
    /\ held > 0
    /\ held' = 0 /\ cleared' = cleared + held
    /\ peak' = Larger(peak, vendor_share_cents(cleared'))
    /\ UNCHANGED <<month, rows, rail, procVars, raced, vfaults>>

Reverse ==
    /\ cleared > 0 /\ vfaults < MaxFaults
    /\ cleared' = cleared - 1
    /\ vfaults' = vfaults + 1
    /\ UNCHANGED <<month, held, peak, rows, rail, procVars, raced>>

NextMonth ==
    /\ month + 1 \in Months
    /\ month' = month + 1
    /\ UNCHANGED <<held, cleared, peak, rows, rail, procVars, raced, vfaults>>

----------------------------------------------------------------------------
(* request_extra_payout and run_monthly_auto_disbursement up to the call   *)
(* of execute_disbursement.  The row's id is random for an extra payout    *)
(* and the vendor and month for the sweep.                                 *)
Planned(kind) ==
    IF kind = "extra" THEN [kind |-> kind, month |-> 0, amount |-> plan_extra_payout,
                            fee |-> ExtraFee, seen |-> Len(rows)]
    ELSE [kind |-> kind, month |-> month, amount |-> compute_available, fee |-> 0,
          seen |-> Len(rows)]

ReadWallet(p, kind) ==
    /\ pc[p] = "idle" /\ Len(rows) < MaxRows
    /\ Planned(kind).amount > 0
    /\ plan' = [plan EXCEPT ![p] = Planned(kind)]
    /\ pc' = [pc EXCEPT ![p] = "claim"]
    /\ UNCHANGED <<ledgerVars, rows, rail, reply, raced, vfaults>>

Return(p) ==
    /\ pc' = [pc EXCEPT ![p] = "idle"]
    /\ plan' = [plan EXCEPT ![p] = None]
    /\ reply' = [reply EXCEPT ![p] = None]

(* The unique client_transaction_id: one sweep's row per month.            *)
AlreadyClaimed(p) ==
    plan[p].kind = "auto" /\ \E i \in Ids : rows[i].kind = "auto" /\ rows[i].month = plan[p].month

ClaimDuplicate(p) ==
    /\ pc[p] = "claim" /\ AlreadyClaimed(p)
    /\ Return(p)
    /\ UNCHANGED <<ledgerVars, rows, rail, raced, vfaults>>

Claim(p) ==
    /\ pc[p] = "claim" /\ ~AlreadyClaimed(p) /\ Len(rows) < MaxRows
    /\ rows' = Append(rows, [kind |-> plan[p].kind, month |-> plan[p].month,
                             status |-> "pending", amount |-> plan[p].amount,
                             fee |-> plan[p].fee, ref |-> FALSE])
    /\ rail' = Append(rail, "unasked")
    /\ raced' = (raced \/ plan[p].seen # Len(rows))
    /\ plan' = [plan EXCEPT ![p].seen = Len(rows) + 1]   \* now: the row it holds
    /\ pc' = [pc EXCEPT ![p] = "push"]
    /\ UNCHANGED <<ledgerVars, reply, vfaults>>

Row(p) == plan[p].seen

(* create_disbursement.  After a timeout the rail may or may not have it.  *)
RailOutcome(answer) ==
    CASE answer = "accepted"  -> {"taken"}
      [] answer = "completed" -> {"paid"}
      [] answer \in {"failed", "permanent"} -> {"refused"}
      [] answer = "transient" -> {"taken", "unasked"}

Push(p) ==
    /\ pc[p] = "push"
    /\ \E answer \in Answers : \E outcome \in RailOutcome(answer) :
        /\ answer = "transient" => vfaults < MaxFaults
        /\ vfaults' = IF answer = "transient" THEN vfaults + 1 ELSE vfaults
        /\ rail' = [rail EXCEPT ![Row(p)] = outcome]
        /\ reply' = [reply EXCEPT ![p] = answer]
    /\ pc' = [pc EXCEPT ![p] = "record"]
    /\ UNCHANGED <<ledgerVars, rows, plan, raced>>

(* Mutant of RecordTransient: a timeout is taken for a refusal.            *)
TransientIsFailure(p) ==
    /\ pc[p] = "record" /\ reply[p] = "transient"
    /\ rows' = [rows EXCEPT ![Row(p)].status = "failed"]
    /\ Return(p)
    /\ UNCHANGED <<ledgerVars, rail, raced, vfaults>>

(* A transient error leaves the row pending and without a reference.       *)
RecordTransient(p) ==
    /\ pc[p] = "record" /\ reply[p] = "transient"
    /\ Return(p)
    /\ UNCHANGED <<ledgerVars, rows, rail, raced, vfaults>>

RecordPermanent(p) ==
    /\ pc[p] = "record" /\ reply[p] = "permanent"
    /\ rows' = [rows EXCEPT ![Row(p)].status = "failed"]
    /\ Return(p)
    /\ UNCHANGED <<ledgerVars, rail, raced, vfaults>>

RecordAccepted(p) ==
    /\ pc[p] = "record" /\ reply[p] \in {"accepted", "completed", "failed"}
    /\ rows' = [rows EXCEPT ![Row(p)].status = "processing", ![Row(p)].ref = TRUE]
    /\ pc' = [pc EXCEPT ![p] = "ack"]
    /\ UNCHANGED <<ledgerVars, rail, plan, reply, raced, vfaults>>

(* _settle and _fail: a completed payout is never taken back.              *)
Settled(i) == [rows EXCEPT ![i].status = "completed"]
Failed(i)  == IF rows[i].status = "completed" THEN rows ELSE [rows EXCEPT ![i].status = "failed"]

Acknowledge(p) ==
    /\ pc[p] = "ack"
    /\ rows' = CASE reply[p] = "completed" -> Settled(Row(p))
                 [] reply[p] = "failed"    -> Failed(Row(p))
                 [] OTHER                  -> rows
    /\ Return(p)
    /\ UNCHANGED <<ledgerVars, rail, raced, vfaults>>

Crash(p) ==
    /\ pc[p] \in {"claim", "push", "record", "ack"} /\ vfaults < MaxFaults
    /\ vfaults' = vfaults + 1
    /\ Return(p)
    /\ UNCHANGED <<ledgerVars, rows, rail, raced>>

----------------------------------------------------------------------------
(* The rail decides what it took.                                          *)
RailDecides(i) ==
    /\ rail[i] = "taken"
    /\ \E outcome \in {"paid", "refused"} : rail' = [rail EXCEPT ![i] = outcome]
    /\ UNCHANGED <<ledgerVars, rows, procVars, raced, vfaults>>

(* on_disbursement_settled and on_disbursement_failed, as often as the     *)
(* rail repeats itself; a row without a reference is not found.            *)
Hook(i) ==
    /\ HooksWired /\ rows[i].ref /\ rail[i] \in {"paid", "refused"}
    /\ rows' = IF rail[i] = "paid" THEN Settled(i) ELSE Failed(i)
    /\ UNCHANGED <<ledgerVars, rail, procVars, raced, vfaults>>

----------------------------------------------------------------------------
Step(p) ==
    \/ ReadWallet(p, "extra") \/ ReadWallet(p, "auto")
    \/ ClaimDuplicate(p) \/ Claim(p) \/ Push(p)
    \/ RecordTransient(p) \/ RecordPermanent(p) \/ RecordAccepted(p) \/ Acknowledge(p)
    \/ Crash(p)

Next ==
    \/ Collect \/ HoldbackPasses \/ Reverse \/ NextMonth
    \/ \E p \in Procs : Step(p)
    \/ \E i \in Ids : RailDecides(i) \/ Hook(i)

Spec == Init /\ [][Next]_vars

----------------------------------------------------------------------------
TypeOK ==
    /\ held \in Nat /\ cleared \in Nat /\ held + cleared <= MaxCollected
    /\ Len(rows) <= MaxRows /\ DOMAIN rail = Ids
    /\ \A i \in Ids : rows[i].status \in Statuses /\ rows[i].amount > 0
    /\ \A i \in Ids : rail[i] \in {"unasked", "taken", "paid", "refused"}
    /\ \A p \in Procs : pc[p] \in {"idle", "claim", "push", "record", "ack"}

(* Money that left, or that the rail may still send, is never offered to   *)
(* the vendor again: its row counts against the wallet until the rail has  *)
(* refused the payout, whatever was lost on the way (execute_disbursement).*)
PaidMoneyHeld ==
    \A i \in Ids : rail[i] \in {"taken", "paid"} => rows[i].status \in Counted

(* The vendor never draws more than its share of what ever cleared, fees   *)
(* included, across extra payouts, sweeps, crashes and repeated answers:   *)
(* unless a claim followed a wallet that another claim had outdated.       *)
Entitled == ~raced => disbursed(Counted) <= peak
=============================================================================
