----------------------------- MODULE Collections -----------------------------
(***************************************************************************)
(* Collecting on one loan.  The auto-collection engine (a cron process,    *)
(* services/auto_collection.py) and the borrower's Pay Now requests        *)
(* (services/loan_payments.py) start pulls at the Zumrails rail; the rail  *)
(* settles them and tells the webhook workers                              *)
(* (api/webhooks/v1/endpoints/payments.py), which post the cash or handle  *)
(* the failure.  Processes interleave between commits and may crash.       *)
(*                                                                         *)
(* Money is in units of one installment; interest is left out.             *)
(***************************************************************************)
EXTENDS Integers, FiniteSetsExt

CONSTANTS
    N,             \* installments, due in order, one unit each
    Due,           \* installment -> due day
    MaxAttempts,   \* AutoCollectionPolicy.max_attempts
    RetryDelay,    \* AutoCollectionPolicy.retry_delay_days
    NsfFee,        \* the product's NSF fee, 0 when it has none
    Runs, Hooks,   \* cron processes, webhook workers
    PayNows,       \* Pay Now requests; a request names its pull too
    SyncReplies,   \* statuses the rail may answer a creation with
    EarlyHooks,    \* may a webhook overtake the commit of the initiation event?
    MaxCrashes, MaxDay    \* bounds of the model

Items    == 1 .. N
Attempts == Items \X (1 .. MaxAttempts)   \* <<installment, attempt_number>>
Pulls    == Attempts \cup PayNows         \* one rail transaction each
Workers  == Runs \cup Hooks \cup PayNows
Terminal == {"completed", "failed", "cancelled"}
Modes    == {"regular", "add_on", "payoff"}

ASSUME SizeAssumption ==
    /\ N \in Nat \ {0} /\ MaxAttempts \in Nat \ {0}
    /\ RetryDelay \in Nat /\ NsfFee \in Nat /\ MaxCrashes \in Nat /\ MaxDay \in Nat
    /\ Due \in [Items -> Nat]
ASSUME ActorAssumption ==
    /\ Runs \cap Hooks = {} /\ Runs \cap PayNows = {} /\ Hooks \cap PayNows = {}
    /\ PayNows \cap ((0 .. N) \X (0 .. MaxAttempts)) = {}
ASSUME RailAssumption ==
    /\ SyncReplies \subseteq {"pending", "completed", "failed"}
    /\ EarlyHooks \in BOOLEAN

VARIABLES
    (* the database *)
    attempts,   \* platform_collection_attempts, by <<installment, number>>
    autoCharge, \* loan.auto_charge_enabled
    initiated,  \* pulls with a committed loan_payment_initiated event
    terms,      \* Pay Now -> the repayment mode and amount of that event
    nonces,     \* pulls whose terminal webhook's nonce is committed
    receipts,   \* pull -> payment rows posted for it
    fees,       \* attempt -> NSF fee rows charged for it
    seq,        \* the loan's last ledger sequence number
    filled,     \* installments the plan counts as settled, oldest first
    addOn,      \* the add-on balance
    status,     \* loan.status
    (* the rail *)
    rail,       \* pull -> status at the vendor
    (* the processes *)
    pc, pull,   \* each worker's next step and the pull it works on
    plan,       \* cron process -> charges it planned and has not executed
    reply,      \* worker -> the vendor's answer it has not recorded yet
    seen,       \* worker -> what a failure handler has read
    mode,       \* worker -> the mode a settlement will post in
    (* the environment *)
    day, crashes

loanVars == <<seq, filled, addOn, status>>
dbVars   == <<attempts, autoCharge, initiated, terms, nonces, receipts, fees, loanVars>>
procVars == <<pc, pull, plan, reply, seen, mode>>
vars     == <<dbVars, rail, procVars, day, crashes>>

---------------------------------------------------------------------------
(* The loan's books *)

Open(i)  == i > filled
Payoff   == (N - filled) + addOn

AttemptRow == [outcome : {"none", "pending"} \cup Terminal,
               ref : BOOLEAN, fee : BOOLEAN, on : Nat]
NoAttempt == [outcome |-> "none", ref |-> FALSE, fee |-> FALSE, on |-> 0]
Numbers(i) == {n \in 1 .. MaxAttempts : attempts[<<i, n>>].outcome # "none"}

Terms(t) == IF t \in PayNows THEN terms[t] ELSE [mode |-> "regular", amount |-> 1]

(* PAYOFF DRIFT: a payoff that no longer matches is posted as regular.      *)
ModeAsQuoted(t) == Terms(t).mode    \* fault: no fallback
ModeAtSettlement(t) ==
    IF Terms(t).mode = "payoff" /\ Terms(t).amount # Payoff
    THEN "regular" ELSE Terms(t).mode

(* record_payment's amount rules (interest_engine's allocators).            *)
Accepted(m, amount) ==
    /\ m = "add_on" => amount <= addOn
    /\ m = "payoff" => amount = Payoff

Least(a, b) == IF a < b THEN a ELSE b

FilledUncapped(m, amount) ==    \* fault: cash in excess of the plan
    IF m = "payoff" THEN N ELSE IF m = "add_on" THEN filled ELSE filled + amount
FilledAfter(m, amount) ==
    CASE m = "regular" -> Least(N, filled + amount)
      [] m = "add_on"  -> filled
      [] m = "payoff"  -> N

AddOnAfter(m, amount) ==
    CASE m = "regular" -> addOn
      [] m = "add_on"  -> addOn - amount
      [] m = "payoff"  -> 0

(* record_payment: one transaction under the loan's row lock, a no-op when  *)
(* the pull already has its receipt.                                        *)
PostCashAgain(t, m) ==    \* fault: no dedupe on the external reference
    /\ receipts' = [receipts EXCEPT ![t] = @ + 1]
    /\ seq' = seq + 1
    /\ filled' = FilledAfter(m, Terms(t).amount)
    /\ addOn' = AddOnAfter(m, Terms(t).amount)
    /\ status' = IF filled' = N THEN "paid_off" ELSE status
PostCash(t, m) ==
    IF receipts[t] > 0
    THEN UNCHANGED <<receipts, loanVars>>
    ELSE /\ receipts' = [receipts EXCEPT ![t] = @ + 1]
         /\ seq' = seq + 1
         /\ filled' = FilledAfter(m, Terms(t).amount)
         /\ addOn' = AddOnAfter(m, Terms(t).amount)
         /\ status' = IF filled' = N THEN "paid_off" ELSE status

---------------------------------------------------------------------------
(* Moving a worker.  A cron process goes on with its plan, any other ends.  *)

NoPull == <<0, 0>>
Labels == {"idle", "next", "call", "record", "apply", "settle",
           "failread", "failseq", "failcommit"}

Goto(w, l) == pc' = [pc EXCEPT ![w] = l] /\ UNCHANGED pull
Finish(w)  == /\ pc' = [pc EXCEPT ![w] = IF w \in Runs THEN "next" ELSE "idle"]
              /\ pull' = [pull EXCEPT ![w] = NoPull]

(* The process stops: a crash, or an exception nobody catches.              *)
Stop(w)    == /\ pc' = [pc EXCEPT ![w] = "idle"]
              /\ pull' = [pull EXCEPT ![w] = NoPull]
              /\ plan' = [r \in Runs |-> IF r = w THEN {} ELSE plan[r]]

Init ==
    /\ attempts = [a \in Attempts |-> NoAttempt]
    /\ autoCharge = TRUE
    /\ initiated = {} /\ nonces = {}
    /\ terms = [p \in PayNows |-> [mode |-> "regular", amount |-> 1]]
    /\ receipts = [t \in Pulls |-> 0]
    /\ fees = [a \in Attempts |-> 0]
    /\ seq = 0 /\ filled = 0 /\ addOn = 0 /\ status = "active"
    /\ rail = [t \in Pulls |-> "none"]
    /\ pc = [w \in Workers |-> "idle"]
    /\ pull = [w \in Workers |-> NoPull]
    /\ plan = [r \in Runs |-> {}]
    /\ reply = [w \in Workers |-> "pending"]
    /\ seen = [w \in Workers |-> [fee |-> FALSE, seq |-> 0]]
    /\ mode = [w \in Workers |-> "regular"]
    /\ day = 0 /\ crashes = 0

---------------------------------------------------------------------------
(* One pass of the cron: run_auto_collection *)

Retryable(a) == attempts[a].outcome \in {"failed", "cancelled"}

(* _load_candidates and plan_charges: the plan is made once and executed    *)
(* later, charge by charge.                                                 *)
PlannedBesidePending ==    \* fault: a pending attempt does not stop a retry
    {a \in Attempts :
        LET i == a[1]  n == a[2] IN
        /\ status = "active" /\ autoCharge /\ Open(i)
        /\ Numbers(i) = 1 .. (n - 1)
        /\ \A k \in Numbers(i) : attempts[<<i, k>>].outcome # "completed"
        /\ n = 1 => Due[i] = day
        /\ n > 1 => day >= attempts[<<i, n - 1>>].on + RetryDelay}
PlannedTooSoon ==    \* fault: the delay counts from the due date
    {a \in Attempts :
        LET i == a[1]  n == a[2] IN
        /\ status = "active" /\ autoCharge /\ Open(i)
        /\ Numbers(i) = 1 .. (n - 1)
        /\ \A k \in Numbers(i) : Retryable(<<i, k>>)
        /\ n = 1 => Due[i] <= day
        /\ n > 1 => day >= Due[i] + RetryDelay}
Planned ==
    {a \in Attempts :
        LET i == a[1]  n == a[2] IN
        /\ status = "active" /\ autoCharge /\ Open(i)
        /\ Numbers(i) = 1 .. (n - 1)
        /\ \A k \in Numbers(i) : Retryable(<<i, k>>)
        /\ n = 1 => Due[i] = day
        /\ n > 1 => day >= attempts[<<i, n - 1>>].on + RetryDelay}

Load(r) ==
    /\ pc[r] = "idle"
    /\ Planned # {}
    /\ plan' = [plan EXCEPT ![r] = Planned]
    /\ Goto(r, "next")
    /\ UNCHANGED <<dbVars, rail, reply, seen, mode, day, crashes>>

(* execute_charge, 1: claim the attempt row and commit.  A row that is      *)
(* already there (the unique constraint) means another run has it.          *)
ClaimChargeAnyway(r, a) ==    \* fault: no unique constraint on the claim
    /\ pc[r] = "next"
    /\ a \in plan[r]
    /\ plan' = [plan EXCEPT ![r] = @ \ {a}]
    /\ attempts' = [attempts EXCEPT ![a] = [NoAttempt EXCEPT !.outcome = "pending",
                                                            !.on = day]]
    /\ pc' = [pc EXCEPT ![r] = "call"]
    /\ pull' = [pull EXCEPT ![r] = a]
    /\ UNCHANGED <<autoCharge, initiated, terms, nonces, receipts, fees, loanVars, rail,
                   reply, seen, mode, day, crashes>>
ClaimCharge(r, a) ==
    /\ pc[r] = "next"
    /\ a \in plan[r]
    /\ plan' = [plan EXCEPT ![r] = @ \ {a}]
    /\ IF attempts[a].outcome = "none"
       THEN /\ attempts' = [attempts EXCEPT ![a] = [NoAttempt EXCEPT !.outcome = "pending",
                                                                   !.on = day]]
            /\ pc' = [pc EXCEPT ![r] = "call"]
            /\ pull' = [pull EXCEPT ![r] = a]
       ELSE UNCHANGED <<attempts, pc, pull>>
    /\ UNCHANGED <<autoCharge, initiated, terms, nonces, receipts, fees, loanVars, rail,
                   reply, seen, mode, day, crashes>>

(* No funding profile on file: the charge is skipped.                       *)
SkipCharge(r, a) ==
    /\ pc[r] = "next"
    /\ a \in plan[r]
    /\ plan' = [plan EXCEPT ![r] = @ \ {a}]
    /\ UNCHANGED <<dbVars, rail, pc, pull, reply, seen, mode, day, crashes>>

EndRun(r) ==
    /\ pc[r] = "next"
    /\ plan[r] = {}
    /\ Goto(r, "idle")
    /\ UNCHANGED <<dbVars, rail, plan, reply, seen, mode, day, crashes>>

Payable(m) ==
    CASE m = "regular" -> 1 .. (N - filled)
      [] m = "add_on"  -> 1 .. addOn
      [] m = "payoff"  -> {Payoff}

(* initiate_payment up to the vendor call: the servicing gate and the       *)
(* mode's own checks, read without a lock.                                  *)
StartPayNow(p) ==
    /\ pc[p] = "idle"
    /\ rail[p] = "none"
    /\ status = "active"
    /\ \E m \in Modes : \E amount \in Payable(m) :
           terms' = [terms EXCEPT ![p] = [mode |-> m, amount |-> amount]]
    /\ pc' = [pc EXCEPT ![p] = "call"]
    /\ pull' = [pull EXCEPT ![p] = p]
    /\ UNCHANGED <<attempts, autoCharge, initiated, nonces, receipts, fees, loanVars, rail,
                   plan, reply, seen, mode, day, crashes>>

---------------------------------------------------------------------------
(* The vendor call and what it can come to *)

CallAnswered(w) ==
    /\ pc[w] = "call"
    /\ \E s \in SyncReplies : /\ rail' = [rail EXCEPT ![pull[w]] = s]
                              /\ reply' = [reply EXCEPT ![w] = s]
    /\ Goto(w, "record")
    /\ UNCHANGED <<dbVars, plan, seen, mode, day, crashes>>

(* A transient error: the rail may or may not have taken the pull.  The     *)
(* engine leaves the attempt pending without a reference; a request fails.  *)
CallUnknown(w) ==
    /\ pc[w] = "call"
    /\ \E s \in {"none", "pending"} : rail' = [rail EXCEPT ![pull[w]] = s]
    /\ Finish(w)
    /\ UNCHANGED <<dbVars, plan, reply, seen, mode, day, crashes>>

(* A permanent error: nothing is in flight; the attempt counts as failed,   *)
(* with no NSF fee.                                                         *)
CallRejected(w) ==
    /\ pc[w] = "call"
    /\ attempts' = IF w \in Runs
                   THEN [attempts EXCEPT ![pull[w]].outcome = "failed"]
                   ELSE attempts
    /\ Finish(w)
    /\ UNCHANGED <<autoCharge, initiated, terms, nonces, receipts, fees, loanVars, rail,
                   plan, reply, seen, mode, day, crashes>>

(* Record the reference and the initiation event, commit, and act at once   *)
(* on a terminal answer.  A request ignores a synchronous failure.          *)
RecordPull(w) ==
    /\ pc[w] = "record"
    /\ initiated' = initiated \cup {pull[w]}
    /\ attempts' = IF w \in Runs THEN [attempts EXCEPT ![pull[w]].ref = TRUE] ELSE attempts
    /\ \/ /\ reply[w] = "completed"
          /\ Goto(w, "apply")
          /\ mode' = [mode EXCEPT ![w] = ModeAtSettlement(pull[w])]
       \/ /\ reply[w] = "failed" /\ w \in Runs
          /\ Goto(w, "failread")
          /\ UNCHANGED mode
       \/ /\ reply[w] = "pending" \/ (reply[w] = "failed" /\ w \notin Runs)
          /\ Finish(w)
          /\ UNCHANGED mode
    /\ reply' = [reply EXCEPT ![w] = "pending"]
    /\ UNCHANGED <<autoCharge, terms, nonces, receipts, fees, loanVars, rail,
                   plan, seen, day, crashes>>

---------------------------------------------------------------------------
(* Settlement: on_collection_complete, then on_collection_settled *)

(* record_payment commits, and with it a webhook's nonce claim.             *)
ApplyCash(w) ==
    /\ pc[w] = "apply"
    /\ receipts[pull[w]] > 0 \/ Accepted(mode[w], Terms(pull[w]).amount)
    /\ PostCash(pull[w], mode[w])
    /\ nonces' = IF w \in Hooks THEN nonces \cup {pull[w]} ELSE nonces
    /\ mode' = [mode EXCEPT ![w] = "regular"]
    /\ IF w \in PayNows THEN Finish(w) ELSE Goto(w, "settle")
    /\ UNCHANGED <<attempts, autoCharge, initiated, terms, fees, rail,
                   plan, reply, seen, day, crashes>>

(* The allocator refuses the amount (ValueError): the request or the        *)
(* delivery fails and its nonce claim is rolled back.                       *)
RefuseCash(w) ==
    /\ pc[w] = "apply"
    /\ receipts[pull[w]] = 0
    /\ ~Accepted(mode[w], Terms(pull[w]).amount)
    /\ Stop(w)
    /\ mode' = [mode EXCEPT ![w] = "regular"]
    /\ UNCHANGED <<dbVars, rail, reply, seen, day, crashes>>

(* The attempt is looked up by the reference that RecordPull wrote.         *)
Recorded(t) == t \in Attempts /\ attempts[t].ref

SettleAttemptFirst(w) ==    \* fault: the bookkeeping does not wait for the cash
    /\ pc[w] \in {"apply", "settle"}
    /\ attempts' = IF Recorded(pull[w])
                   THEN [attempts EXCEPT ![pull[w]].outcome = "completed"]
                   ELSE attempts
    /\ IF pc[w] = "settle" THEN Finish(w) ELSE UNCHANGED <<pc, pull>>
    /\ UNCHANGED <<autoCharge, initiated, terms, nonces, receipts, fees, loanVars, rail,
                   plan, reply, seen, mode, day, crashes>>
SettleAttempt(w) ==
    /\ pc[w] = "settle"
    /\ attempts' = IF Recorded(pull[w])
                   THEN [attempts EXCEPT ![pull[w]].outcome = "completed"]
                   ELSE attempts
    /\ Finish(w)
    /\ UNCHANGED <<autoCharge, initiated, terms, nonces, receipts, fees, loanVars, rail,
                   plan, reply, seen, mode, day, crashes>>

---------------------------------------------------------------------------
(* Failure: on_collection_failed_txn and handle_failed_attempt.  The        *)
(* attempt is read, then the ledger's last sequence number, then one commit *)
(* writes what follows from them; neither read takes a lock.                *)

ReadFailed(w) ==
    /\ pc[w] = "failread"
    /\ IF Recorded(pull[w]) /\ attempts[pull[w]].outcome # "completed"
       THEN /\ seen' = [seen EXCEPT ![w].fee = attempts[pull[w]].fee]
            /\ Goto(w, "failseq")
       ELSE Finish(w) /\ UNCHANGED seen
    /\ UNCHANGED <<dbVars, rail, plan, reply, mode, day, crashes>>

ReadSeq(w) ==
    /\ pc[w] = "failseq"
    /\ seen' = [seen EXCEPT ![w].seq = seq]
    /\ Goto(w, "failcommit")
    /\ UNCHANGED <<dbVars, rail, plan, reply, mode, day, crashes>>

(* A fee is due unless the product has none or the attempt's marker was set;*)
(* the sequence number it was given must still be free.                     *)
ChargesFee(w) == NsfFee > 0 /\ ~seen[w].fee
SeqNotChecked(w) == TRUE    \* fault: no UNIQUE (loan_id, seq)
SeqIsFree(w)  == ChargesFee(w) => seen[w].seq = seq

CommitFailed(w) ==
    /\ pc[w] = "failcommit"
    /\ SeqIsFree(w)
    /\ attempts' = [attempts EXCEPT ![pull[w]].outcome = "failed",
                                    ![pull[w]].fee = @ \/ ChargesFee(w)]
    /\ IF ChargesFee(w)
       THEN /\ fees' = [fees EXCEPT ![pull[w]] = @ + 1]
            /\ seq' = seen[w].seq + 1
            /\ addOn' = addOn + NsfFee
       ELSE UNCHANGED <<fees, seq, addOn>>
    /\ \E deadAccount \in BOOLEAN : autoCharge' = (autoCharge /\ ~deadAccount)
    /\ seen' = [seen EXCEPT ![w] = [fee |-> FALSE, seq |-> 0]]
    /\ Finish(w)
    /\ UNCHANGED <<initiated, terms, nonces, receipts, filled, status, rail,
                   plan, reply, mode, day, crashes>>

(* UNIQUE (loan_id, seq) is violated: the commit fails and nothing of it    *)
(* is kept.                                                                 *)
ConflictFailed(w) ==
    /\ pc[w] = "failcommit"
    /\ ~SeqIsFree(w)
    /\ Stop(w)
    /\ seen' = [seen EXCEPT ![w] = [fee |-> FALSE, seq |-> 0]]
    /\ UNCHANGED <<dbVars, rail, reply, mode, day, crashes>>

---------------------------------------------------------------------------
(* The webhook: receive_zumrails_transaction.  The nonce claim is part of   *)
(* the handler's first commit; until then a second delivery of the same     *)
(* webhook waits for it, and after it is turned away as a replay.           *)

Claimable(h, t) ==
    /\ pc[h] = "idle"
    /\ t \notin nonces
    /\ \A g \in Hooks : pull[g] # t
    /\ EarlyHooks \/ \A w \in Workers \ Hooks : ~(pull[w] = t /\ pc[w] = "record")

DeliverAcknowledged(h, t) ==    \* fault: the nonce is committed up front
    /\ Claimable(h, t)
    /\ rail[t] = "completed"
    /\ t \in initiated
    /\ nonces' = nonces \cup {t}
    /\ pc' = [pc EXCEPT ![h] = "apply"]
    /\ pull' = [pull EXCEPT ![h] = t]
    /\ mode' = [mode EXCEPT ![h] = ModeAtSettlement(t)]
    /\ UNCHANGED <<attempts, autoCharge, initiated, terms, receipts, fees, loanVars, rail,
                   plan, reply, seen, day, crashes>>
DeliverCompleted(h, t) ==
    /\ Claimable(h, t)
    /\ rail[t] = "completed"
    /\ t \in initiated
    /\ pc' = [pc EXCEPT ![h] = "apply"]
    /\ pull' = [pull EXCEPT ![h] = t]
    /\ mode' = [mode EXCEPT ![h] = ModeAtSettlement(t)]
    /\ UNCHANGED <<dbVars, rail, plan, reply, seen, day, crashes>>

(* on_collection_failed commits its event, and the nonce, before the        *)
(* attempt is looked at.                                                    *)
DeliverUnsuccessful(h, t) ==    \* fault: a cancelled pull is treated as failed
    /\ Claimable(h, t)
    /\ rail[t] \in {"failed", "cancelled"}
    /\ t \in initiated
    /\ nonces' = nonces \cup {t}
    /\ pc' = [pc EXCEPT ![h] = "failread"]
    /\ pull' = [pull EXCEPT ![h] = t]
    /\ UNCHANGED <<attempts, autoCharge, initiated, terms, receipts, fees, loanVars, rail,
                   plan, reply, seen, mode, day, crashes>>
DeliverFailed(h, t) ==
    /\ Claimable(h, t)
    /\ rail[t] = "failed"
    /\ t \in initiated
    /\ nonces' = nonces \cup {t}
    /\ pc' = [pc EXCEPT ![h] = "failread"]
    /\ pull' = [pull EXCEPT ![h] = t]
    /\ UNCHANGED <<attempts, autoCharge, initiated, terms, receipts, fees, loanVars, rail,
                   plan, reply, seen, mode, day, crashes>>

DeliverCancelled(h, t) ==
    /\ Claimable(h, t)
    /\ rail[t] = "cancelled"
    /\ nonces' = nonces \cup {t}
    /\ attempts' = IF Recorded(t) /\ attempts[t].outcome = "pending"
                   THEN [attempts EXCEPT ![t].outcome = "cancelled"]
                   ELSE attempts
    /\ UNCHANGED <<autoCharge, initiated, terms, receipts, fees, loanVars, rail,
                   procVars, day, crashes>>

(* "Orphaned": no initiation event is committed (yet), but the nonce is.    *)
DeliverOrphan(h, t) ==
    /\ Claimable(h, t)
    /\ rail[t] \in {"completed", "failed"}
    /\ t \notin initiated
    /\ nonces' = nonces \cup {t}
    /\ UNCHANGED <<attempts, autoCharge, initiated, terms, receipts, fees, loanVars, rail,
                   procVars, day, crashes>>

---------------------------------------------------------------------------
(* The rail, staff, the clock and crashes *)

RailSettles(t) ==
    /\ rail[t] = "pending"
    /\ \E s \in Terminal : rail' = [rail EXCEPT ![t] = s]
    /\ UNCHANGED <<dbVars, procVars, day, crashes>>

ToggleAutoCharge ==
    /\ autoCharge' = ~autoCharge
    /\ UNCHANGED <<attempts, initiated, terms, nonces, receipts, fees, loanVars, rail,
                   procVars, day, crashes>>

ChargeOff ==
    /\ status = "active"
    /\ status' = "charged_off"
    /\ UNCHANGED <<attempts, autoCharge, initiated, terms, nonces, receipts, fees,
                   seq, filled, addOn, rail, procVars, day, crashes>>

NextDay ==
    /\ day < MaxDay
    /\ day' = day + 1
    /\ UNCHANGED <<dbVars, rail, procVars, crashes>>

Crash(w) ==
    /\ crashes < MaxCrashes
    /\ pc[w] # "idle"
    /\ Stop(w)
    /\ reply' = [reply EXCEPT ![w] = "pending"]
    /\ seen' = [seen EXCEPT ![w] = [fee |-> FALSE, seq |-> 0]]
    /\ mode' = [mode EXCEPT ![w] = "regular"]
    /\ crashes' = crashes + 1
    /\ UNCHANGED <<dbVars, rail, day>>

(* The steps a worker takes on its own once it has started.                 *)
Step(w) ==
    \/ CallAnswered(w) \/ CallUnknown(w) \/ CallRejected(w)
    \/ RecordPull(w)
    \/ ApplyCash(w) \/ RefuseCash(w) \/ SettleAttempt(w)
    \/ ReadFailed(w) \/ ReadSeq(w) \/ CommitFailed(w) \/ ConflictFailed(w)

CronStep(r) ==
    \/ Load(r) \/ EndRun(r)
    \/ \E a \in Attempts : ClaimCharge(r, a) \/ SkipCharge(r, a)

Deliver(h, t) ==
    \/ DeliverCompleted(h, t) \/ DeliverFailed(h, t)
    \/ DeliverCancelled(h, t) \/ DeliverOrphan(h, t)

Next ==
    \/ \E w \in Workers : Step(w) \/ Crash(w)
    \/ \E r \in Runs : CronStep(r)
    \/ \E p \in PayNows : StartPayNow(p)
    \/ \E h \in Hooks, t \in Pulls : Deliver(h, t)
    \/ \E t \in Pulls : RailSettles(t)
    \/ ToggleAutoCharge \/ ChargeOff \/ NextDay

Spec == Init /\ [][Next]_vars

(* A live process goes on, the rail settles what it took, and redelivers a  *)
(* webhook until it is acknowledged.  Nobody has to pay, and crashes are    *)
(* bounded by MaxCrashes.                                                   *)
Fairness ==
    /\ \A w \in Workers : WF_vars(Step(w))
    /\ \A t \in Pulls : /\ WF_vars(RailSettles(t))
                        /\ SF_vars(\E h \in Hooks : Deliver(h, t))

LiveSpec == Spec /\ Fairness
---------------------------------------------------------------------------
(* Properties *)

(* Every variable stays in its range; in particular the plan never counts   *)
(* more installments as settled than it has, whatever cash arrives.         *)
TypeOK ==
    /\ attempts \in [Attempts -> AttemptRow]
    /\ autoCharge \in BOOLEAN
    /\ initiated \subseteq Pulls /\ nonces \subseteq Pulls
    /\ terms \in [PayNows -> [mode : Modes, amount : Nat]]
    /\ receipts \in [Pulls -> Nat] /\ fees \in [Attempts -> Nat]
    /\ seq \in Nat /\ filled \in 0 .. N /\ addOn \in Nat
    /\ status \in {"active", "paid_off", "charged_off"}
    /\ rail \in [Pulls -> {"none", "pending"} \cup Terminal]
    /\ pc \in [Workers -> Labels]
    /\ pull \in [Workers -> Pulls \cup {NoPull}]
    /\ plan \in [Runs -> SUBSET Attempts]
    /\ reply \in [Workers -> {"pending", "completed", "failed"}]
    /\ seen \in [Workers -> [fee : BOOLEAN, seq : Nat]]
    /\ mode \in [Workers -> Modes]
    /\ day \in Nat /\ crashes \in Nat

(* "Never risk a double pull": however runs overlap, crash and meet         *)
(* webhooks, at most one of the engine's pulls for an installment is in     *)
(* flight or completed at the rail.                                         *)
OnePullPerInstallment ==
    \A i \in Items : \A m, n \in 1 .. MaxAttempts :
        /\ rail[<<i, m>>] \in {"pending", "completed"}
        /\ rail[<<i, n>>] \in {"pending", "completed"}
        => m = n

(* A retry is a retry: the attempt before it had ended without cash, and    *)
(* the policy's delay had passed, also when the plan was made earlier or by *)
(* another run.                                                             *)
RetriesFollowFailures ==
    \A i \in Items : \A n \in 2 .. MaxAttempts :
        attempts[<<i, n>>].outcome # "none" =>
            /\ Retryable(<<i, n - 1>>)
            /\ attempts[<<i, n>>].on >= attempts[<<i, n - 1>>].on + RetryDelay

(* An attempt is completed only when its cash is on the books: the engine   *)
(* never closes an installment's collection ahead of record_payment.        *)
CompletedAttemptsArePaid ==
    \A a \in Attempts : attempts[a].outcome = "completed" => receipts[a] > 0

(* An NSF fee is charged only for a pull the rail returned, never for one   *)
(* that was cancelled, rejected or lost.                                    *)
FeesOnlyForReturns ==
    \A a \in Attempts : fees[a] > 0 => rail[a] = "failed"

(* Every ledger row has a sequence number of its own: the last number counts*)
(* the rows, whichever commits raced for it.                                *)
SeqCountsRows ==
    seq = MapThenSumSet(LAMBDA t : receipts[t], Pulls)
          + MapThenSumSet(LAMBDA a : fees[a], Attempts)

(* The webhook of a completed pull is acknowledged for good only with the   *)
(* cash on the books, as long as no webhook overtakes its initiation.       *)
AcknowledgedCashIsPosted ==
    \A t \in nonces \cap initiated : rail[t] = "completed" => receipts[t] > 0

(* Collected cash reaches the books, whichever process crashes, and a       *)
(* payoff whose quote went stale too: it is posted as a regular payment.    *)
(* An add-on payment may be refused for ever.                               *)
CashReachesTheBooks ==
    \A t \in Pulls :
        (rail[t] = "completed" /\ t \in initiated /\ Terms(t).mode # "add_on")
            ~> receipts[t] > 0

(* "It persists iff processing commits": the nonce of a failed pull stays   *)
(* claimed only while it is being handled or once the attempt is failed.    *)
ClaimPersistsIffProcessed ==
    \A a \in nonces \cap Attempts :
        rail[a] = "failed" /\ attempts[a].ref =>
            \/ attempts[a].outcome = "failed"
            \/ \E w \in Workers : pull[w] = a

(* "At most one NSF fee per failed attempt."                                *)
AtMostOneFee == \A a \in Attempts : fees[a] <= 1

(* A disabled switch suppresses all further pulls of the engine.            *)
SwitchStopsPulls ==
    [][\A a \in Attempts :
          attempts[a].outcome = "none" /\ attempts'[a].outcome = "pending" => autoCharge]_vars

(* The stack implements CashPosting: each pull is created once, settled     *)
(* once by the rail, and posted at most once, only after it completed.      *)
Posting == INSTANCE CashPosting WITH posted <- receipts
PostsAsPromised == Posting!Spec
---------------------------------------------------------------------------
(* Why the safety properties hold: how the attempt rows, the rail, the      *)
(* nonces and the workers agree.  Together these are inductive.             *)

AttemptAgrees(a) ==
    /\ rail[a] # "none" => attempts[a].outcome # "none"
    /\ attempts[a].outcome = "completed" => receipts[a] > 0
    /\ attempts[a].outcome = "failed" => rail[a] \in {"none", "failed"}
    /\ attempts[a].outcome = "cancelled" => rail[a] = "cancelled"
    /\ fees[a] > 0 => rail[a] = "failed"

PullAgrees(t) ==
    /\ receipts[t] <= 1
    /\ receipts[t] > 0 => rail[t] = "completed"
    /\ t \in nonces => rail[t] \in Terminal
    /\ t \in nonces /\ t \in initiated /\ rail[t] = "completed" /\ ~EarlyHooks
         => receipts[t] > 0

PullHeld(w) ==
    IF pc[w] \in {"idle", "next"} THEN pull[w] = NoPull ELSE pull[w] \in Pulls

(* What the worker at each step may rely on.  A claim is made by one run,   *)
(* so at most one worker is about to create a pull.                         *)
WorkerAgrees(w) ==
    /\ pc[w] \in {"call", "record"} => /\ w \notin Hooks
                                       /\ w \in Runs => pull[w] \in Attempts
                                       /\ w \in PayNows => pull[w] = w
    /\ pc[w] = "call" => /\ rail[pull[w]] = "none"
                         /\ w \in Runs => attempts[pull[w]].outcome = "pending"
                         /\ \A v \in Workers : pc[v] = "call" /\ pull[v] = pull[w] => v = w
    /\ pc[w] = "record" => /\ rail[pull[w]] # "none"
                           /\ reply[w] # "pending" => rail[pull[w]] = reply[w]
                           /\ ~EarlyHooks => /\ pull[w] \notin nonces
                                             /\ \A h \in Hooks : pull[h] # pull[w]
    /\ pc[w] \in {"apply", "settle"} => rail[pull[w]] = "completed"
    /\ pc[w] = "settle" => receipts[pull[w]] > 0
    /\ pc[w] \in {"failread", "failseq", "failcommit"} => rail[pull[w]] = "failed"
    /\ pc[w] \in {"failseq", "failcommit"} => pull[w] \in Attempts

(* An attempt that was made or is planned comes after attempts that ended   *)
(* without cash, however old the plan is.                                   *)
Follows(i, n, on) ==
    /\ \A k \in 1 .. (n - 1) : Retryable(<<i, k>>)
    /\ n > 1 => on >= attempts[<<i, n - 1>>].on + RetryDelay

AttemptFollows(i, n) ==
    attempts[<<i, n>>].outcome # "none" => Follows(i, n, attempts[<<i, n>>].on)
PlanFollows(r) == \A i \in Items : \A n \in 1 .. MaxAttempts :
                     <<i, n>> \in plan[r] => Follows(i, n, day)

IndInv ==
    /\ TypeOK
    /\ \A a \in Attempts : AttemptAgrees(a)
    /\ \A t \in Pulls : PullAgrees(t)
    /\ \A w \in Workers : PullHeld(w) /\ WorkerAgrees(w)
    /\ \A i \in Items : \A n \in 1 .. MaxAttempts : AttemptFollows(i, n)
    /\ \A r \in Runs : PlanFollows(r)
=============================================================================
