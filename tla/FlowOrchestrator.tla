-------------------------- MODULE FlowOrchestrator --------------------------
(***************************************************************************)
(* One credit application on its way to a decision                         *)
(* (services/flow_orchestrator.py, the verification webhook and the        *)
(* endpoints that move the file).  Vendors answer verifications by         *)
(* webhook; the answer that completes the set decides the file.            *)
(*                                                                         *)
(* A worker loads the file, may then wait for its row lock, and decides on *)
(* the status it loaded: a second SELECT, even FOR UPDATE, does not        *)
(* refresh an object the session already holds.  What it queries under the *)
(* lock (the verifications) is current.                                    *)
(***************************************************************************)
EXTENDS Naturals, FiniteSets
CONSTANTS
    Types,               \* verifications the product's matrix requires
    Workers,             \* web workers
    ActivationBooksLoan, \* the flag: approval leads to offers, not to a loan
    None,
    MaxEvents,           \* bound on vendor events per verification
    MaxCrashes           \* bound on crashes of a worker

FlowAssumption ==
    /\ ActivationBooksLoan \in BOOLEAN /\ MaxEvents \in Nat
    /\ None \notin Workers

VARIABLES
    file,      \* the application's status
    verifs,    \* verification -> status, "done" for every final result
    received,  \* vendor events with a committed nonce
    logged,    \* vendor event -> verification_completed rows
    holder,    \* worker that holds the row lock, or None
    jobs,      \* worker -> what it does, or None
    ffaults

vars == <<file, verifs, received, logged, holder, jobs, ffaults>>

Events == Types \X (1..MaxEvents)

PreDecision == {"started", "verifying"}
Approval    == IF ActivationBooksLoan THEN "offer_acceptance" ELSE "approved"
Outcomes    == {Approval, "rejected", "under_review"}
Decided     == {"approved", "rejected", "under_review", "offer_acceptance"}
Statuses    == PreDecision \cup Decided \cup {"origination", "gate", "withdrawn"}

Init ==
    /\ file = "started"
    /\ verifs = [t \in Types |-> "none"]
    /\ received = {} /\ logged = [e \in Events |-> 0]
    /\ holder = None /\ jobs = [w \in Workers |-> None] /\ ffaults = 0

Job(op, event, at) == [op |-> op, event |-> event, at |-> at, seen |-> file, ready |-> FALSE]
Start(w, job)      == jobs[w] = None /\ jobs' = [jobs EXCEPT ![w] = job]
At(w, at)          == jobs[w] # None /\ jobs[w].at = at
Finish(w)          == jobs' = [jobs EXCEPT ![w] = None]

(* Mutant of LockFree: the row is read without FOR UPDATE.                 *)
NotLocked(w) == w \in Workers

LockFree(w) == holder = None

----------------------------------------------------------------------------
(* initiate_verification: under the lock, one open verification per type.  *)
Initiate(t) ==
    /\ holder = None
    /\ file \in PreDecision /\ verifs[t] # "pending"
    /\ verifs' = [verifs EXCEPT ![t] = "pending"]
    /\ file' = "verifying"
    /\ UNCHANGED <<received, logged, holder, jobs, ffaults>>

----------------------------------------------------------------------------
(* Mutant of Unclaimed: a replay is recognised by its log row only.        *)
NotLoggedYet(e) == logged[e] = 0

(* The primary key of processed_webhooks: one delivery of an event wins.   *)
Unclaimed(e) == e \notin received

(* receive_verification up to the commit of _emit_received, which commits  *)
(* the nonce with it.  Its verification must exist.                        *)
Receive(w, e) ==
    /\ verifs[e[1]] # "none" /\ Unclaimed(e)
    /\ received' = received \cup {e}
    /\ Start(w, Job("result", e, "received"))
    /\ UNCHANGED <<file, verifs, logged, holder, ffaults>>

(* handle_verification_result before the lock: an event in the log or a    *)
(* decided file ends it.                                                   *)
Load(w) ==
    /\ At(w, "received")
    /\ IF logged[jobs[w].event] > 0 \/ file \in Decided
       THEN Finish(w)
       ELSE jobs' = [jobs EXCEPT ![w].at = "loaded", ![w].seen = file]
    /\ UNCHANGED <<file, verifs, received, logged, holder, ffaults>>

(* _ready_to_decide, with the worker's own result flushed.                 *)
Ready(t) == \A u \in Types \ {t} : verifs[u] = "done"

(* The row lock, and what is read under it.                                *)
Judge(w) ==
    /\ \/ jobs[w] # None /\ jobs[w].op = "result" /\ At(w, "loaded")
            /\ jobs' = [jobs EXCEPT ![w].at = "judged", ![w].ready = Ready(jobs[w].event[1])]
       \/ jobs[w] # None /\ jobs[w].op = "submit" /\ At(w, "checked")
            /\ jobs' = [jobs EXCEPT ![w].at = "judged", ![w].ready = TRUE]
    /\ LockFree(w) /\ holder' = w
    /\ UNCHANGED <<file, verifs, received, logged, ffaults>>

(* submit_for_decision: idempotent on a decided file, refused while a      *)
(* verification is pending; both are looked at before the lock.            *)
Submit(w) ==
    /\ file \notin Decided
    /\ Start(w, Job("submit", None, "loaded"))
    /\ UNCHANGED <<file, verifs, received, logged, holder, ffaults>>

CheckPending(w) ==
    /\ At(w, "loaded") /\ jobs[w].op = "submit"
    /\ IF \E t \in Types : verifs[t] = "pending"
       THEN Finish(w)
       ELSE jobs' = [jobs EXCEPT ![w].at = "checked"]
    /\ UNCHANGED <<file, verifs, received, logged, holder, ffaults>>

(* _decide refuses a file loaded in another status than these, and the     *)
(* unit of work with it.                                                   *)
Refused(w) == jobs[w].ready /\ jobs[w].seen \notin PreDecision

Commit(w) ==
    /\ At(w, "judged")
    /\ holder' = None /\ Finish(w)
    /\ IF jobs[w].ready /\ ~Refused(w) THEN file' \in Outcomes ELSE file' = file
    /\ IF jobs[w].op = "result" /\ ~Refused(w)
       THEN /\ verifs' = [verifs EXCEPT ![jobs[w].event[1]] = "done"]
            /\ logged' = [logged EXCEPT ![jobs[w].event] = @ + 1]
       ELSE UNCHANGED <<verifs, logged>>
    /\ UNCHANGED <<received, ffaults>>

Crash(w) ==
    /\ jobs[w] # None /\ ffaults < MaxCrashes
    /\ Finish(w)
    /\ holder' = IF holder = w THEN None ELSE holder
    /\ ffaults' = ffaults + 1
    /\ UNCHANGED <<file, verifs, received, logged>>

----------------------------------------------------------------------------
(* The other writers of the status: they look at it when they load it and  *)
(* take no lock, but their UPDATE waits for one.  "gate" is any of the     *)
(* three verification gates a file can be parked on.                       *)
Finalizable == {"started", "origination", "verifying", "gate", "under_review"}
Returnable  == {"verifying", "gate", "under_review", "offer_acceptance"}

Move(op, from, to) ==
    \/ op = "finalize" /\ from \in Finalizable /\ to = "verifying"
    \/ op = "manual" /\ from \in PreDecision \cup {"under_review"} /\ to = "under_review"
    \/ op = "decide" /\ to \in {"approved", "rejected", "under_review"}
         /\ (ActivationBooksLoan \/ from # "approved" \/ to = "approved")
    \/ op = "cancel" /\ from \notin {"rejected", "withdrawn"} /\ to = "withdrawn"
         /\ (ActivationBooksLoan \/ from # "approved")
    \/ op = "return" /\ from \in Returnable /\ to = "origination"
    \/ op = "resubmit" /\ from = "origination" /\ to \in {"verifying", "gate"}
    \/ op = "reprocess" /\ from \in {"rejected", "under_review"} /\ to = "under_review"

Moves == {"finalize", "manual", "decide", "cancel", "return", "resubmit", "reprocess"}

OpenMove(w, op) ==
    /\ \E to \in Statuses : Move(op, file, to)
    /\ Start(w, Job(op, None, "open"))
    /\ UNCHANGED <<file, verifs, received, logged, holder, ffaults>>

CommitMove(w) ==
    /\ At(w, "open") /\ holder = None
    /\ \E to \in Statuses :
        /\ Move(jobs[w].op, jobs[w].seen, to)
        /\ file' = IF to = jobs[w].seen THEN file ELSE to
    /\ Finish(w)
    /\ UNCHANGED <<verifs, received, logged, holder, ffaults>>

----------------------------------------------------------------------------
Next ==
    \/ \E t \in Types : Initiate(t)
    \/ \E w \in Workers :
        \/ \E e \in Events : Receive(w, e)
        \/ \E op \in Moves : OpenMove(w, op)
        \/ Load(w) \/ Judge(w) \/ Submit(w) \/ CheckPending(w)
        \/ Commit(w) \/ Crash(w) \/ CommitMove(w)

Spec == Init /\ [][Next]_vars

----------------------------------------------------------------------------
TypeOK ==
    /\ file \in Statuses
    /\ verifs \in [Types -> {"none", "pending", "done"}]
    /\ received \subseteq Events
    /\ holder \in Workers \cup {None}

(* The result that completes the required set decides the file: two last   *)
(* results in two workers cannot each take the other's for missing and     *)
(* leave a complete file that nobody decides (handle_verification_result). *)
AllDone == \A t \in Types : verifs[t] = "done"
LastResultDecides == [][~AllDone /\ AllDone' => file' \notin PreDecision]_vars

(* A vendor event counts once, however often it is delivered and whichever *)
(* workers handle it, and only when it was received (processed_webhooks,   *)
(* _find_completed_event).                                                 *)
ResultsCountOnce == \A e \in Events : logged[e] <= 1 /\ (logged[e] = 1 => e \in received)
=============================================================================
