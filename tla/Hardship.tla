------------------------------ MODULE Hardship ------------------------------
(***************************************************************************)
(* Hardship amendments of one loan (services/hardship.py, with the two     *)
(* schedule_surgery primitives it composes, the staff endpoints, the       *)
(* SignNow webhook and the maintenance job).  A request is drafted, sent,  *)
(* signed by the borrower and only then applied to the schedule.           *)
(*                                                                         *)
(* Nothing here locks a row it reads.  A session reads the requests when   *)
(* it opens, decides on what it read, and writes the columns it changed    *)
(* when it commits.  A signature is written before the schedule is read:   *)
(* from then to its commit it holds the row, and other writers wait.       *)
(*                                                                         *)
(* Dates are payment periods: installment i is due in period i, what a     *)
(* deferment appends follows the last one.  A moved due date stays in its  *)
(* month, so it is a mark on the installment.                              *)
(***************************************************************************)
EXTENDS Naturals, Integers, Sequences, FiniteSets, FiniteSetsExt
CONSTANTS
    Requests,     \* hardship requests
    NItems,       \* installments of the loan
    Total,        \* amount of each, in payments
    Desks,        \* staff and job sessions
    Hooks,        \* webhook sessions
    MaxDeferred,  \* HardshipPolicy.max_deferred_installments
    Window,       \* HardshipPolicy.signature_window_days, in periods
    None,
    MaxDocs,      \* bound on documents per request
    MaxTime,      \* bound on the clock
    MaxFaults     \* bound on crashes

HardshipAssumption ==
    /\ NItems \in Nat /\ Total \in Nat \ {0} /\ Window \in Nat /\ MaxTime \in Nat
    /\ Desks \cap Hooks = {}

VARIABLES
    today,     \* current period
    items,     \* installment -> its status and what is paid of it
    reqs,      \* request -> its row
    appended,  \* request -> installment -> custom transactions it added for it
    moved,     \* installments a request moved: pairs of request and installment
    docs,      \* request -> its documents at SignNow, oldest first
    acked,     \* signature events whose nonce is kept
    sess,      \* session -> what it does and what it read, or None
    hfaults

bookVars == <<items, appended, moved>>
vars     == <<today, bookVars, reqs, docs, acked, sess, hfaults>>

Items    == 1..NItems
Open     == {"scheduled", "partial", "late"}   \* _DEFERRABLE_ITEM_STATUSES, _SUSPENDABLE_STATUSES
Shiftable == {"scheduled", "partial"}          \* _SHIFTABLE_ITEM_STATUSES
InForce  == {"active", "completed"}
Kinds    == {"deferment", "due_date_change"}

(* A row, and a history mark that no step reads: `resent`, a send was      *)
(* committed over an earlier one of the request.                           *)
NoRequest == [status |-> "none", kind |-> "deferment", targets |-> {}, doc |-> 0,
              expires |-> 0, signed |-> -1, resent |-> FALSE]

Init ==
    /\ today = 0
    /\ items = [i \in Items |-> [status |-> "scheduled", paid |-> 0]]
    /\ reqs = [r \in Requests |-> NoRequest]
    /\ appended = [r \in Requests |-> [i \in Items |-> 0]]
    /\ moved = {}
    /\ docs = [r \in Requests |-> << >>]
    /\ acked = {} /\ sess = [s \in Desks \cup Hooks |-> None] /\ hfaults = 0

----------------------------------------------------------------------------
(* The rest of servicing, as it bears on the schedule: payments go to the  *)
(* oldest installment that is owed, suspended or not, aging marks what is  *)
(* overdue, staff suspend and lift.                                        *)
Tomorrow ==
    /\ today < MaxTime
    /\ today' = today + 1
    /\ items' = [i \in Items |->
                    IF i < today' /\ items[i].status \in Shiftable
                    THEN [items[i] EXCEPT !.status = "late"] ELSE items[i]]
    /\ UNCHANGED <<reqs, appended, moved, docs, acked, sess, hfaults>>

Owed == {i \in Items : items[i].paid < Total}

Pay ==
    /\ Owed # {}
    /\ LET next == Min(Owed) IN
       items' = [i \in Items |->
                    CASE i < next -> [items[i] EXCEPT !.status = "paid"]
                      [] i = next -> [status |-> IF items[i].paid + 1 = Total THEN "paid" ELSE "partial",
                                      paid |-> items[i].paid + 1]
                      [] i > next -> items[i]]
    /\ UNCHANGED <<today, reqs, appended, moved, docs, acked, sess, hfaults>>

(* schedule_surgery.suspend_installment from the schedule tab.             *)
StaffSuspends(i) ==
    /\ items[i].status \in Open
    /\ items' = [items EXCEPT ![i].status = "suspended"]
    /\ UNCHANGED <<today, reqs, appended, moved, docs, acked, sess, hfaults>>

(* unsuspend_installment.  Of an installment that is still owed: lifting   *)
(* the suspension of one paid in full just before is left out.             *)
StaffLifts(i) ==
    /\ items[i].status = "suspended" /\ i \in Owed
    /\ items' = [items EXCEPT ![i].status = IF items[i].paid > 0 THEN "partial" ELSE "scheduled"]
    /\ UNCHANGED <<today, reqs, appended, moved, docs, acked, sess, hfaults>>

----------------------------------------------------------------------------
(* create_request: a draft, checked against the schedule and the policy.   *)
DeferredSoFar ==
    MapThenSumSet(LAMBDA r : Cardinality(reqs[r].targets),
                  {r \in Requests : reqs[r].kind = "deferment" /\ reqs[r].status \in InForce})

Deferrable(targets) ==
    /\ \A i \in targets : items[i].status \in Open
    /\ DeferredSoFar + Cardinality(targets) <= MaxDeferred

Movable(targets) == \A i \in targets : items[i].status \in Shiftable /\ i > today

CreateRequest(r) ==
    /\ reqs[r].status = "none"
    /\ \E kind \in Kinds, targets \in SUBSET Items \ {{}} :
        /\ IF kind = "deferment" THEN Deferrable(targets) ELSE Movable(targets)
        /\ reqs' = [reqs EXCEPT ![r] = [NoRequest EXCEPT !.status = "draft", !.kind = kind,
                                                         !.targets = targets]]
    /\ UNCHANGED <<today, bookVars, docs, acked, sess, hfaults>>

----------------------------------------------------------------------------
(* A session opens on what the database holds.  The time it opened at      *)
(* matters to a send and to the job.                                       *)
OpenSession(s, op, r, doc) ==
    /\ sess[s] = None
    /\ sess' = [sess EXCEPT ![s] =
                   [op |-> op, req |-> r, doc |-> doc, reqs |-> reqs, items |-> << >>,
                    at |-> IF op \in {"send", "maintain"} THEN today ELSE 0]]
    /\ UNCHANGED <<today, bookVars, reqs, docs, acked, hfaults>>

OpenDesk(s) ==
    \/ \E r \in Requests : reqs[r].status = "draft" /\ OpenSession(s, "send", r, 0)
    \/ \E r \in Requests :
        reqs[r].status \in {"draft", "awaiting_signature"} /\ OpenSession(s, "cancel", r, 0)
    \/ OpenSession(s, "maintain", None, 0)

(* A delivery first inserts its nonce: one that was kept makes it a replay,*)
(* one that another delivery has inserted makes it wait (_check_nonce).    *)
Deliverable(r, d) ==
    /\ docs[r][d] \in {"signed", "declined"} /\ <<r, d>> \notin acked
    /\ \A h \in Hooks : ~(sess[h] # None /\ sess[h].req = r /\ sess[h].doc = d)

(* The webhook finds the request by the document reference its sender      *)
(* committed.                                                              *)
OpenHook(s) ==
    \E r \in Requests : \E d \in DOMAIN docs[r] :
        /\ Deliverable(r, d) /\ reqs[r].doc = d
        /\ OpenSession(s, docs[r][d], r, d)

(* No request has the document yet, or any more: acknowledged, nonce kept. *)
AckOrphan ==
    \E r \in Requests : \E d \in DOMAIN docs[r] :
        /\ Deliverable(r, d) /\ reqs[r].doc # d
        /\ acked' = acked \cup {<<r, d>>}
        /\ UNCHANGED <<today, bookVars, reqs, docs, sess, hfaults>>

(* What a session read of its request and its installments.                *)
Seen(s)      == sess[s].reqs[sess[s].req]
SeenItem(s, i) == sess[s].items[i]
Close(s)     == sess' = [sess EXCEPT ![s] = None]
Doing(s, op) == sess[s] # None /\ sess[s].op = op

(* No signature that is being applied holds the row of the request.        *)
Free(r) == \A h \in Hooks : ~(Doing(h, "applying") /\ sess[h].req = r)

----------------------------------------------------------------------------
(* send_for_signature: the vendor has the document before the commit.      *)
SendCall(s) ==
    /\ Doing(s, "send") /\ sess[s].doc = 0
    /\ Len(docs[sess[s].req]) < MaxDocs
    /\ docs' = [docs EXCEPT ![sess[s].req] = Append(@, "out")]
    /\ sess' = [sess EXCEPT ![s].doc = Len(docs[sess[s].req]) + 1]
    /\ UNCHANGED <<today, bookVars, reqs, acked, hfaults>>

SendCommit(s) ==
    /\ Doing(s, "send") /\ sess[s].doc # 0 /\ Free(sess[s].req)
    /\ reqs' = [reqs EXCEPT ![sess[s].req].status = "awaiting_signature",
                            ![sess[s].req].doc = sess[s].doc,
                            ![sess[s].req].expires = sess[s].at + Window,
                            ![sess[s].req].resent = (reqs[sess[s].req].doc # 0)]
    /\ Close(s)
    /\ UNCHANGED <<today, bookVars, docs, acked, hfaults>>

(* cancel: staff withdraw a request that is not signed.                    *)
Cancel(s) ==
    /\ Doing(s, "cancel") /\ Free(sess[s].req)
    /\ reqs' = [reqs EXCEPT ![sess[s].req].status = "cancelled"]
    /\ Close(s)
    /\ UNCHANGED <<today, bookVars, docs, acked, hfaults>>

(* run_maintenance: expire what waited too long, complete the deferments   *)
(* whose appended transactions are all in the past.                        *)
Elapsed(r, at) == NItems + Cardinality(r.targets) < at

Maintained(r, seen, at) ==
    CASE seen.status = "awaiting_signature" /\ at > seen.expires -> [r EXCEPT !.status = "expired"]
      [] seen.status = "active" /\ seen.kind = "deferment" /\ Elapsed(seen, at)
                                    -> [r EXCEPT !.status = "completed"]
      [] OTHER -> r

RunMaintenance(s) ==
    /\ Doing(s, "maintain")
    /\ reqs' = [r \in Requests |-> Maintained(reqs[r], sess[s].reqs[r], sess[s].at)]
    /\ \A r \in Requests : reqs'[r] # reqs[r] => Free(r)
    /\ Close(s)
    /\ UNCHANGED <<today, bookVars, docs, acked, hfaults>>

----------------------------------------------------------------------------
(* handle_esign_event and its commit, which keeps the nonce.               *)
KeepNonce(s) == acked' = acked \cup {<<sess[s].req, sess[s].doc>>}

Declined(s) ==
    /\ Doing(s, "declined") /\ Free(sess[s].req)
    /\ reqs' = IF Seen(s).status = "awaiting_signature"
               THEN [reqs EXCEPT ![sess[s].req].status = "declined"] ELSE reqs
    /\ KeepNonce(s) /\ Close(s)
    /\ UNCHANGED <<today, bookVars, docs, hfaults>>

(* mark_signed: a replay, or a request that no longer awaits a signature.  *)
Awaits(s) == Seen(s).status = "awaiting_signature"

SignatureIgnored(s) ==
    /\ Doing(s, "signed") /\ ~Awaits(s)
    /\ KeepNonce(s) /\ Close(s)
    /\ UNCHANGED <<today, bookVars, reqs, docs, hfaults>>

WindowOver(s) == today > Seen(s).expires

SignatureTooLate(s) ==
    /\ Doing(s, "signed") /\ Awaits(s) /\ WindowOver(s) /\ Free(sess[s].req)
    /\ reqs' = [reqs EXCEPT ![sess[s].req].status = "expired"]
    /\ KeepNonce(s) /\ Close(s)
    /\ UNCHANGED <<today, bookVars, docs, hfaults>>

(* The signature is written first, which takes the row; only then does     *)
(* _apply read the installments.                                           *)
RecordSignature(s) ==
    /\ Doing(s, "signed") /\ Awaits(s) /\ ~WindowOver(s) /\ Free(sess[s].req)
    /\ sess' = [sess EXCEPT ![s].op = "applying", ![s].at = today, ![s].items = items]
    /\ UNCHANGED <<today, bookVars, reqs, docs, acked, hfaults>>

Applying(s, kind) == Doing(s, "applying") /\ Seen(s).kind = kind

Sign(s, status) ==
    reqs' = [reqs EXCEPT ![sess[s].req].status = status, ![sess[s].req].signed = sess[s].at]

(* _apply of a deferment: suspend each installment and append its amount,  *)
(* which add_custom_transaction refuses for a date in the past.            *)
CanDefer(s) ==
    /\ \A i \in Seen(s).targets : SeenItem(s, i).status \in Open
    /\ NItems + 1 >= today

Suspend(targets) ==
    [i \in Items |-> IF i \in targets THEN [items[i] EXCEPT !.status = "suspended"] ELSE items[i]]

Deferring(s) ==
    /\ Applying(s, "deferment") /\ CanDefer(s)
    /\ items' = Suspend(Seen(s).targets)
    /\ appended' = [appended EXCEPT ![sess[s].req] =
                       [i \in Items |-> IF i \in Seen(s).targets THEN @[i] + 1 ELSE @[i]]]
    /\ Sign(s, "active")
    /\ KeepNonce(s) /\ Close(s)
    /\ UNCHANGED <<today, moved, docs, hfaults>>

(* Mutant of DeferringFails: the surgery error is caught like the others,  *)
(* and what preceded it is committed.                                      *)
DeferringCaught(s) ==
    /\ Applying(s, "deferment") /\ ~CanDefer(s)
    /\ LET done == {i \in Seen(s).targets : \A j \in Seen(s).targets :
                        j <= i => SeenItem(s, j).status \in Open} IN
       /\ items' = Suspend(done)
       /\ appended' = [appended EXCEPT ![sess[s].req] =
                          [i \in Items |-> IF i \in done THEN @[i] + 1 ELSE @[i]]]
    /\ Sign(s, "awaiting_signature")
    /\ KeepNonce(s) /\ Close(s)
    /\ UNCHANGED <<today, moved, docs, hfaults>>

(* A ScheduleSurgeryError is not a HardshipError: the webhook answers 500, *)
(* nothing of the session is kept, and SignNow delivers again.             *)
DeferringFails(s) ==
    /\ Applying(s, "deferment") /\ ~CanDefer(s)
    /\ Close(s)
    /\ UNCHANGED <<today, bookVars, reqs, docs, acked, hfaults>>

(* _apply of a due-date change moves one installment after the other; the  *)
(* first that is no longer shiftable raises a HardshipError, which the     *)
(* webhook takes for a refusal: it commits what came before.               *)
Shifted(s) ==
    {i \in Seen(s).targets :
        \A j \in Seen(s).targets : j <= i => SeenItem(s, j).status \in Shiftable}

Shifting(s) ==
    /\ Applying(s, "due_date_change")
    /\ moved' = moved \cup ({sess[s].req} \X Shifted(s))
    /\ Sign(s, IF Shifted(s) = Seen(s).targets THEN "completed" ELSE reqs[sess[s].req].status)
    /\ KeepNonce(s) /\ Close(s)
    /\ UNCHANGED <<today, items, appended, docs, hfaults>>

Crash(s) ==
    /\ sess[s] # None /\ hfaults < MaxFaults
    /\ hfaults' = hfaults + 1
    /\ Close(s)
    /\ UNCHANGED <<today, bookVars, reqs, docs, acked>>

(* The borrower answers a document.                                        *)
BorrowerAnswers ==
    \E r \in Requests : \E d \in DOMAIN docs[r] : \E answer \in {"signed", "declined"} :
        /\ docs[r][d] = "out"
        /\ docs' = [docs EXCEPT ![r][d] = answer]
        /\ UNCHANGED <<today, bookVars, reqs, acked, sess, hfaults>>

----------------------------------------------------------------------------
DeskStep(s) ==
    \/ OpenDesk(s) \/ SendCall(s) \/ SendCommit(s) \/ Cancel(s) \/ RunMaintenance(s) \/ Crash(s)

HookStep(s) ==
    \/ OpenHook(s) \/ Declined(s) \/ SignatureIgnored(s) \/ SignatureTooLate(s)
    \/ RecordSignature(s) \/ Deferring(s) \/ DeferringFails(s) \/ Shifting(s) \/ Crash(s)

Next ==
    \/ Tomorrow \/ Pay \/ BorrowerAnswers \/ AckOrphan
    \/ \E i \in Items : StaffSuspends(i) \/ StaffLifts(i)
    \/ \E r \in Requests : CreateRequest(r)
    \/ \E s \in Desks : DeskStep(s)
    \/ \E s \in Hooks : HookStep(s)

Spec == Init /\ [][Next]_vars

----------------------------------------------------------------------------
TypeOK ==
    /\ today \in 0..MaxTime
    /\ \A i \in Items : items[i].status \in Open \cup {"paid", "suspended"} /\ items[i].paid \in 0..Total
    /\ \A r \in Requests :
        /\ reqs[r].status \in {"none", "draft", "awaiting_signature", "declined", "cancelled",
                               "expired"} \cup InForce
        /\ reqs[r].targets \subseteq Items /\ reqs[r].doc <= Len(docs[r])
    /\ \A r \in Requests : reqs[r].resent \in BOOLEAN
    /\ moved \subseteq Requests \X Items

Touched(r) == (\E i \in Items : appended[r][i] > 0) \/ (\E i \in Items : <<r, i>> \in moved)

(* The hard rule of the module: no change to the schedule without the      *)
(* borrower's signature on one of the request's documents, recorded inside *)
(* the window that was sent (mark_signed, _apply), whatever staff, the     *)
(* maintenance job, redeliveries and crashes do in between.  Where one     *)
(* send was written over another, the window kept may be the other one.    *)
SignedBeforeChange ==
    \A r \in Requests : Touched(r) =>
        /\ \E d \in DOMAIN docs[r] : docs[r][d] = "signed"
        /\ reqs[r].resent \/ reqs[r].signed \in 0..reqs[r].expires

(* A deferment appends each of its installments once or appends none: a    *)
(* failure on a later installment, a crash, a second delivery or another   *)
(* session never leaves half of the amendment or doubles it.  Only where   *)
(* one send was written over another may both documents be applied.        *)
DeferredOnceOrNotAtAll ==
    \A r \in Requests :
        \/ reqs[r].resent
        \/ \A i \in Items : appended[r][i] = 0
        \/ \A i \in Items : appended[r][i] = (IF i \in reqs[r].targets THEN 1 ELSE 0)

(* "decline / cancel / expire - terminal, nothing applied"                 *)
(* (services/hardship.py:27).                                              *)
TerminalAppliesNothing ==
    \A r \in Requests : reqs[r].status \in {"declined", "cancelled", "expired"} => ~Touched(r)
=============================================================================
