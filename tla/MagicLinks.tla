----------------------------- MODULE MagicLinks -----------------------------
(***************************************************************************)
(* Sign-in codes of one application: auth/patient_auth_service.py issues   *)
(* and exchanges them, real_notification_dispatcher.py sends them and      *)
(* queues a retry when the vendor fails, scripts/process_notification_     *)
(* outbox.py drains that queue.  A code works once its magic_link_issued   *)
(* event is committed, and the send comes before that commit.              *)
(***************************************************************************)
EXTENDS Integers, Sequences, FiniteSets, FiniteSetsExt

CONSTANTS
    Requesters,   \* web requests for a code
    Workers,      \* outbox workers
    Exchangers,   \* web requests that exchange a code
    None, Wrong,  \* no code; a code nobody was sent
    OutboxEnabled, \* NOTIFICATION_OUTBOX_ENABLED
    Delays,       \* NOTIFICATION_RETRY_DELAYS, parsed
    MaxRetries,   \* NOTIFICATION_MAX_RETRIES
    MaxFailed, LockoutWindow, \* lockout after failed exchanges
    TTL,          \* lifetime of a code
    LastRequest,  \* bound: the time after which no code is requested
    MaxRequests, MaxTokens, MaxRows, MaxTime, MaxFaults \* bounds of the model

Tokens == 1 .. MaxTokens
Rows   == 1 .. MaxRows
Times  == 0 .. MaxTime

LinksAssumption ==
    /\ Requesters \cap Workers = {} /\ (Requesters \cup Workers) \cap Exchangers = {}
    /\ None # Wrong /\ {None, Wrong} \cap Tokens = {} /\ None \notin Rows \cup Workers
    /\ OutboxEnabled \in BOOLEAN /\ Delays \in Seq(Nat) /\ MaxFailed \in Nat \ {0}
    /\ {MaxRetries, LockoutWindow, TTL, LastRequest, MaxRequests, MaxTokens, MaxRows,
        MaxTime, MaxFaults} \subseteq Nat
    /\ IsFiniteSet(Exchangers)

VARIABLES
    now,
    minted,    \* codes generated so far
    expires,   \* code -> ttl_expires_at
    issued,    \* codes with a committed magic_link_issued event
    inHand,    \* codes the borrower has received
    consumed,  \* code -> magic_link_consumed events
    failed,    \* time -> magic_link_failed events of that time
    outbox,    \* platform_notification_outbox: row -> fields
    rowOf,     \* history: code -> the outbox row it was sent for, or None
    holder,    \* outbox row -> the worker that holds its row lock, or None
    pc, code,  \* process -> next step, the code it works on
    crashes,   \* history: workers that died with a row
    faults

tokenVars == <<minted, expires, issued, inHand, consumed, failed>>
queueVars == <<outbox, rowOf, holder, crashes>>
vars == <<now, tokenVars, queueVars, pc, code, faults>>

Processes == Requesters \cup Workers \cup Exchangers
NoRow == [st |-> "none", attempts |-> 0, next |-> 0, ttl |-> 0]

Init ==
    /\ now = 0 /\ minted = 0 /\ issued = {} /\ inHand = {}
    /\ expires = [t \in Tokens |-> 0]
    /\ consumed = [t \in Tokens |-> 0]
    /\ failed = [i \in Times |-> 0]
    /\ outbox = [r \in Rows |-> NoRow]
    /\ rowOf = [t \in Tokens |-> None]
    /\ holder = [r \in Rows |-> None]
    /\ pc = [p \in Processes |-> "idle"] /\ code = [p \in Processes |-> None]
    /\ crashes = 0 /\ faults = 0

At(p, step) == pc[p] = step
Goto(p, step) == pc' = [pc EXCEPT ![p] = step]
Finish(p) == Goto(p, "idle") /\ code' = [code EXCEPT ![p] = None]

(* _generate_token and _record_issued_event: the event is flushed only.    *)
Mint(p, r, ttl) ==
    /\ minted < MaxTokens
    /\ minted' = minted + 1
    /\ expires' = [expires EXCEPT ![minted + 1] = ttl]
    /\ rowOf' = [rowOf EXCEPT ![minted + 1] = r]
    /\ code' = [code EXCEPT ![p] = minted + 1]
    /\ Goto(p, "send")

Fault == faults < MaxFaults /\ faults' = faults + 1
Reach(p, arrived) == inHand' = IF arrived THEN inHand \cup {code[p]} ELSE inHand

---------------------------------------------------------------------------
(* notification_retry.py                                                   *)

Clamp(i) == Max({1, Min({i, Len(Delays)})})
DelayFor(attempt) == IF Delays = << >> THEN 0 ELSE Delays[Clamp(attempt - 1)]
NextAttemptAt(attempt) == now + DelayFor(attempt)
(* Mutant: the cap is off by one.                                          *)
IsExhaustedLate(attempts) == attempts > 1 + MaxRetries
IsExhausted(attempts) == attempts >= 1 + MaxRetries

---------------------------------------------------------------------------
(* request_magic_link / request_borrower_login                             *)

RequestLink(p) ==
    /\ At(p, "idle") /\ now <= LastRequest
    /\ Cardinality({t \in 1 .. minted : rowOf[t] = None}) < MaxRequests
    /\ Mint(p, None, now + TTL)
    /\ UNCHANGED <<now, issued, inHand, consumed, failed,
                   outbox, holder, crashes, faults>>

(* The vendor accepted; the magic_link_issued event is still uncommitted.  *)
SendOk(p) ==
    /\ At(p, "send")
    /\ inHand' = inHand \cup {code[p]}
    /\ Goto(p, "commit")
    /\ UNCHANGED <<now, minted, expires, issued, consumed, failed,
                   outbox, rowOf, holder, crashes, code, faults>>

(* A permanent failure or a crash: the flushed event is rolled back.       *)
RequestFails(p) ==
    /\ At(p, "send") \/ At(p, "commit")
    /\ Fault /\ Finish(p)
    /\ UNCHANGED <<now, tokenVars, queueVars>>

FreeRow == CHOOSE r \in Rows : outbox[r].st = "none"

(* A transient failure: if the outbox is on, _maybe_enqueue_retry commits  *)
(* a row of its own; the request rolls back.  The vendor may have delivered.*)
RequestQueued(p, arrived) ==
    /\ At(p, "send") /\ Fault
    /\ \E r \in Rows : outbox[r].st = "none"
    /\ Reach(p, arrived)
    /\ outbox' = IF OutboxEnabled
         THEN [outbox EXCEPT ![FreeRow] = [st |-> "pending", attempts |-> 1,
                                 next |-> NextAttemptAt(2), ttl |-> now + TTL]]
         ELSE outbox
    /\ Finish(p)
    /\ UNCHANGED <<now, minted, expires, issued, consumed, failed,
                   rowOf, holder, crashes>>

RequestCommits(p) ==
    /\ At(p, "commit")
    /\ issued' = issued \cup {code[p]}
    /\ Finish(p)
    /\ UNCHANGED <<now, minted, expires, inHand, consumed, failed, queueVars, faults>>

---------------------------------------------------------------------------
(* process_once: one claimed row per transaction.                          *)

Due(r) == outbox[r].st = "pending" /\ outbox[r].next <= now

(* claim_due: FOR UPDATE SKIP LOCKED, the earliest next_attempt_at first.  *)
Claimable(r) ==
    /\ Due(r) /\ holder[r] = None
    /\ \A q \in Rows : Due(q) /\ holder[q] = None => outbox[r].next <= outbox[q].next

Expired(r) == outbox[r].ttl <= now

(* Mutant: a status the table does not know.                               *)
MarkExhausted(r) == outbox' = [outbox EXCEPT ![r].st = "exhausted", ![r].attempts = @ + 1]
(* mark_failed, with a notification_retry_exhausted event beside it.       *)
MarkFailed(r) == outbox' = [outbox EXCEPT ![r].st = "failed", ![r].attempts = @ + 1]

(* Past the retry window the row fails in the transaction that claims it.  *)
ClaimExpired(w, r) ==
    /\ At(w, "idle") /\ Claimable(r) /\ Expired(r)
    /\ MarkFailed(r)
    /\ UNCHANGED <<now, tokenVars, rowOf, holder, crashes, pc, code, faults>>

Claim(w, r) ==
    /\ At(w, "idle") /\ Claimable(r) /\ ~Expired(r)
    /\ holder' = [holder EXCEPT ![r] = w]
    /\ Mint(w, r, outbox[r].ttl)
    /\ UNCHANGED <<now, issued, inHand, consumed, failed,
                   outbox, crashes, faults>>

Row(w) == CHOOSE r \in Rows : holder[r] = w
(* Mutant: the claim outlives its transaction.                             *)
ReleaseForgotten(w) == UNCHANGED holder
Release(w) == holder' = [holder EXCEPT ![Row(w)] = None]

(* Mutant: the savepoint with the issued event is rolled back.             *)
WorkerCommitsRowOnly(w) ==
    /\ At(w, "commit")
    /\ outbox' = [outbox EXCEPT ![Row(w)].st = "sent"]
    /\ Release(w) /\ Finish(w)
    /\ UNCHANGED <<now, tokenVars, rowOf, crashes, faults>>

(* mark_sent, the savepoint and the transaction commit together.           *)
WorkerCommits(w) ==
    /\ At(w, "commit")
    /\ outbox' = [outbox EXCEPT ![Row(w)].st = "sent"]
    /\ issued' = issued \cup {code[w]}
    /\ Release(w) /\ Finish(w)
    /\ UNCHANGED <<now, minted, expires, inHand, consumed, failed,
                   rowOf, crashes, faults>>

(* A permanent failure ends the row, whatever is left of its retries.      *)
WorkerRefused(w) ==
    /\ At(w, "send") /\ Fault
    /\ MarkFailed(Row(w)) /\ Release(w) /\ Finish(w)
    /\ UNCHANGED <<now, tokenVars, rowOf, crashes>>

(* A transient one is rescheduled until the attempts are exhausted.        *)
WorkerDelayed(w, arrived) ==
    LET r == Row(w) IN
    /\ At(w, "send") /\ Fault
    /\ Reach(w, arrived)
    /\ IF IsExhausted(outbox[r].attempts + 1)
       THEN MarkFailed(r)
       ELSE outbox' = [outbox EXCEPT ![r].attempts = @ + 1,
                                     ![r].next = NextAttemptAt(outbox[r].attempts + 2)]
    /\ Release(w) /\ Finish(w)
    /\ UNCHANGED <<now, minted, expires, issued, consumed, failed, rowOf, crashes>>

(* The worker dies or meets an unexpected error: the row stays pending.    *)
WorkerCrash(w) ==
    /\ ~At(w, "idle") /\ Fault
    /\ crashes' = crashes + 1
    /\ Release(w) /\ Finish(w)
    /\ UNCHANGED <<now, tokenVars, outbox, rowOf>>

---------------------------------------------------------------------------
(* exchange_magic_link / exchange_borrower_login                           *)

Recent == {i \in Times : i >= now - LockoutWindow}
(* Mutant: one failure too many before the lockout.                        *)
LockedLate == MapThenSumSet(LAMBDA i : failed[i], Recent) > MaxFailed
Locked == MapThenSumSet(LAMBDA i : failed[i], Recent) >= MaxFailed

(* The lookups, without a lock: an unknown code is to be recorded, a known *)
(* and live one that nobody has consumed is to be consumed.                *)
LookUp(x, t) ==
    /\ At(x, "idle") /\ ~Locked
    /\ \/ t \notin issued /\ Goto(x, "reject")
       \/ t \in issued /\ now <= expires[t] /\ consumed[t] = 0 /\ Goto(x, "consume")
    /\ code' = [code EXCEPT ![x] = t]
    /\ UNCHANGED <<now, tokenVars, queueVars, faults>>

(* _record_failed_attempt, in a commit of its own.                         *)
RecordFailed(x) ==
    /\ At(x, "reject")
    /\ failed' = [failed EXCEPT ![now] = @ + 1]
    /\ Finish(x)
    /\ UNCHANGED <<now, minted, expires, issued, inHand, consumed, queueVars, faults>>

(* The magic_link_consumed event, then the session of the response.        *)
ConsumeCode(x) ==
    /\ At(x, "consume")
    /\ consumed' = [consumed EXCEPT ![code[x]] = @ + 1]
    /\ Finish(x)
    /\ UNCHANGED <<now, minted, expires, issued, inHand, failed, queueVars, faults>>

(* A tick is long beside a vendor call and its timeout.                    *)
Tick == /\ now < MaxTime /\ now' = now + 1
        /\ \A p \in Processes : ~At(p, "send")
        /\ UNCHANGED <<tokenVars, queueVars, pc, code, faults>>

Answered(p) == SendOk(p) \/ RequestCommits(p)

Request(p) ==
    \/ RequestLink(p) \/ Answered(p)
    \/ RequestFails(p) \/ \E arrived \in BOOLEAN : RequestQueued(p, arrived)

(* The steps the worker loop and the vendor owe a row.                     *)
Work(w) ==
    \/ \E r \in Rows : Claim(w, r) \/ ClaimExpired(w, r)
    \/ SendOk(w) \/ WorkerCommits(w)

WorkFails(w) ==
    WorkerRefused(w) \/ WorkerCrash(w) \/ \E arrived \in BOOLEAN : WorkerDelayed(w, arrived)

Exchange(x) ==
    \/ \E t \in inHand \cup {Wrong} : LookUp(x, t)
    \/ RecordFailed(x) \/ ConsumeCode(x)

Next ==
    \/ \E p \in Requesters : Request(p)
    \/ \E w \in Workers : Work(w) \/ WorkFails(w)
    \/ \E x \in Exchangers : Exchange(x)
    \/ Tick

(* The worker polls for ever, a vendor call that was made ends, and time    *)
(* passes; nobody has to ask for a code or to use it.                      *)
Fairness ==
    /\ \A p \in Requesters : WF_vars(Answered(p))
    /\ \A w \in Workers : WF_vars(Work(w))
    /\ WF_vars(Tick)

Spec == Init /\ [][Next]_vars /\ Fairness
---------------------------------------------------------------------------
TypeOK ==
    /\ now \in Times /\ minted \in 0 .. MaxTokens /\ expires \in [Tokens -> Nat]
    /\ issued \subseteq Tokens /\ inHand \subseteq Tokens
    /\ consumed \in [Tokens -> Nat] /\ failed \in [Times -> Nat]
    /\ outbox \in [Rows -> [st : {"none", "pending", "sent", "failed"},
                            attempts : Nat, next : Nat, ttl : Nat]]
    /\ rowOf \in [Tokens -> Rows \cup {None}]
    /\ holder \in [Rows -> Workers \cup {None}]
    /\ pc \in [Processes -> {"idle", "send", "commit", "reject", "consume"}]
    /\ code \in [Processes -> Tokens \cup {None, Wrong}]
    /\ crashes \in Nat /\ faults \in 0 .. MaxFaults

SentFor(r) == {t \in 1 .. minted : rowOf[t] = r}
InFlight(t) == \E p \in Processes : code[p] = t

(* An outbox row is marked sent only with a code that works in the hands   *)
(* of the borrower, and a borrower holds a dead code only where a crash or *)
(* a lost answer fell between the send and the commit.                     *)
SentCodesWork ==
    /\ \A r \in Rows : outbox[r].st = "sent" => SentFor(r) \cap issued \cap inHand # {}
    /\ Cardinality({t \in inHand \ issued : ~InFlight(t)}) <= faults

(* The workers call the vendor for a row at most MaxRetries times, and     *)
(* once more for every worker that died with it, however many workers poll *)
(* (once where MaxRetries is 0: the limit is only read after an attempt).  *)
RetriesBounded ==
    \A r \in Rows :
        Cardinality(SentFor(r)) <= (IF MaxRetries = 0 THEN 1 ELSE MaxRetries) + crashes

(* Exchanges in flight together are the only way past the two limits: a    *)
(* code is consumed once, a window has MaxFailed failed attempts.          *)
ExchangeLimits ==
    /\ \A t \in Tokens : consumed[t] <= Cardinality(Exchangers)
    /\ MapThenSumSet(LAMBDA i : failed[i], Recent) < MaxFailed + Cardinality(Exchangers)

(* Every queued retry ends, sent or failed with its audit event: vendor    *)
(* failures, crashes and a row that breaks the worker do not keep it.      *)
RowsSettle ==
    \A r \in Rows : outbox[r].st = "pending" ~> outbox[r].st \in {"sent", "failed"}
=============================================================================
