----------------------- MODULE NotificationProcessor -----------------------
(***************************************************************************)
(* From platform_events to notices: services/dunning.py and the request    *)
(* handlers append trigger events, services/notification_processor.py      *)
(* scans them behind a cursor and delivers them.  Event ids are allocated  *)
(* at insert and become visible at commit, so in any order.  The processor *)
(* commits after every notice; a run that ends early leaves its cursor.    *)
(***************************************************************************)
EXTENDS Naturals, Sequences, FiniteSets, FiniteSetsExt

CONSTANTS
    Procs,      \* processor runs that may overlap
    Scanners,   \* dunning scans that may overlap
    Handlers,   \* request handlers that emit other trigger events
    Keys,       \* dunning milestones: an installment and an offset
    DueOn,      \* milestone -> the one day whose scan announces it
    Vendors,    \* channels sent through a vendor: email, sms
    Dashboard,  \* the in-app channel
    Limits,     \* sizes of a batch that a run may be given
    None,
    MaxEvents, MaxDay, MaxChanges, MaxFaults   \* bounds of the model

Writers  == Scanners \cup Handlers
Channels == Vendors \cup {Dashboard}
Ids      == 1 .. MaxEvents

ProcessorAssumption ==
    /\ IsFiniteSet(Procs) /\ IsFiniteSet(Scanners)
    /\ Scanners \cap Handlers = {} /\ Dashboard \notin Vendors
    /\ None \notin Keys \cup Channels
    /\ DueOn \in [Keys -> Nat]
    /\ Limits \subseteq Nat \ {0}
    /\ {MaxEvents, MaxDay, MaxChanges, MaxFaults} \subseteq Nat

VARIABLES
    log,       \* platform_events in id order: milestone, writer and visibility
    overtaken, \* history: events that became visible after a higher id
    handled,   \* <<event, channel>> with a committed marker
    out,       \* history: channel -> event -> notices the borrower received
    cursor,    \* last_event_id of the committed cursor row
    world,     \* what the runs read: day, night, switches, flags, payments
    busy,      \* writers with an open transaction
    scan,      \* writer -> milestones its scan still has to look at
    run,       \* processor run -> its program counter and locals
    lost,      \* history: deliveries whose answer or commit was lost
    faults

vars == <<log, overtaken, handled, out, cursor, world, busy, scan, run, lost, faults>>

Worlds == [off : SUBSET Channels,  \* channels staff have switched off
           muted : BOOLEAN,        \* is a suppress-notifications flag active?
           night : BOOLEAN,        \* is it outside the send window?
           changes : Nat, day : Nat,
           closed : SUBSET Keys]   \* milestones of paid installments

Runs == [pc : {"idle", "plan", "check", "card", "skip", "send", "mark"},
         base : Nat,               \* last_event_id of the loaded cursor
         batch : SUBSET Ids, cur : {0} \cup Ids,
         todo : SUBSET Channels, chan : Channels \cup {None},
         hold : Nat, top : Nat,    \* min_unresolved (0 for None), max_scanned
         fresh : BOOLEAN]          \* has the session committed since the load?

Idle == [pc |-> "idle", base |-> 0, batch |-> {}, cur |-> 0, todo |-> {},
         chan |-> None, hold |-> 0, top |-> 0, fresh |-> FALSE]

Init ==
    /\ log = << >> /\ overtaken = {} /\ handled = {} /\ cursor = 0
    /\ out = [c \in Channels |-> [i \in Ids |-> 0]]
    /\ world = [off |-> {}, muted |-> FALSE, night |-> FALSE,
                changes |-> 0, day |-> 0, closed |-> {}]
    /\ busy = {} /\ scan = [w \in Writers |-> {}]
    /\ run = [p \in Procs |-> Idle]
    /\ lost = 0 /\ faults = 0

Visible == {i \in DOMAIN log : log[i].st = "visible"}
OpenBy(w) == {i \in DOMAIN log : log[i].by = w /\ log[i].st = "open"}

---------------------------------------------------------------------------
(* The writers.                                                            *)

(* Insert and flush an event: the id is taken, the row is not yet visible. *)
Emit(w, k) ==
    /\ Len(log) < MaxEvents
    /\ log' = Append(log, [key |-> k, by |-> w, st |-> "open"])

(* _already_emitted: what this transaction can see, its own rows included. *)
AlreadyEmitted(w, k) == \E i \in Visible \cup OpenBy(w) : log[i].key = k

(* run_dunning_scan: the open installments whose milestone falls today.    *)
StartScan(w) ==
    LET due == {k \in Keys : DueOn[k] = world.day /\ k \notin world.closed} IN
    /\ w \notin busy /\ due # {}
    /\ busy' = busy \cup {w}
    /\ scan' = [scan EXCEPT ![w] = due]
    /\ UNCHANGED <<log, overtaken, faults>>

ScanKey(w, k) ==
    /\ k \in scan[w]
    /\ IF AlreadyEmitted(w, k) THEN UNCHANGED log ELSE Emit(w, k)
    /\ scan' = [scan EXCEPT ![w] = @ \ {k}]
    /\ UNCHANGED <<overtaken, busy, faults>>

(* A request handler emits one event and has yet to commit.                *)
HandlerEmits(w) ==
    /\ w \notin busy
    /\ Emit(w, None)
    /\ busy' = busy \cup {w}
    /\ UNCHANGED <<overtaken, scan, faults>>

EndTransaction(w, st) ==
    /\ log' = [i \in DOMAIN log |->
                 IF i \in OpenBy(w) THEN [log[i] EXCEPT !.st = st] ELSE log[i]]
    /\ busy' = busy \ {w}
    /\ scan' = [scan EXCEPT ![w] = {}]

CommitWriter(w) ==
    /\ w \in busy /\ scan[w] = {}
    /\ EndTransaction(w, "visible")
    /\ overtaken' = overtaken \cup {i \in OpenBy(w) : \E j \in Visible : i < j}
    /\ UNCHANGED faults

RollbackWriter(w) ==
    /\ w \in busy /\ faults < MaxFaults
    /\ EndTransaction(w, "void")
    /\ faults' = faults + 1
    /\ UNCHANGED overtaken

---------------------------------------------------------------------------
(* The world the processor reads: time of day, staff switches, payments.   *)

Changes(w) == world.changes < MaxChanges /\ world' = [w EXCEPT !.changes = @ + 1]

NextDay == world.day < MaxDay /\ world' = [world EXCEPT !.day = @ + 1]
Dawn    == world.night /\ world' = [world EXCEPT !.night = FALSE]
Dusk    == ~world.night /\ Changes([world EXCEPT !.night = TRUE])
Mute    == ~world.muted /\ Changes([world EXCEPT !.muted = TRUE])
SwitchOff == \E c \in Channels \ world.off : Changes([world EXCEPT !.off = @ \cup {c}])
PayInstallment ==
    \E k \in Keys \ world.closed : Changes([world EXCEPT !.closed = @ \cup {k}])

---------------------------------------------------------------------------
(* NotificationProcessor.run                                               *)

(* ORDER BY id LIMIT n.                                                    *)
FirstIds(S, n) == {i \in S : Cardinality({j \in S : j < i}) < n}

(* _load_cursor and the SELECT behind it: the first visible trigger events *)
(* after the cursor.                                                       *)
LoadAndSelect(p) ==
    /\ run[p].pc = "idle"
    /\ \E n \in Limits :
         LET found == FirstIds({i \in Visible : i > cursor}, n) IN
         /\ found # {}
         /\ run' = [run EXCEPT ![p] = [Idle EXCEPT !.pc = "plan", !.base = cursor,
                                       !.batch = found, !.top = cursor]]
    /\ UNCHANGED <<handled, out, cursor, lost, faults>>

(* _plan: the channels the live notification rule still allows.            *)
PlannedChannels == Channels \ world.off

(* An event of the batch is taken up: max_scanned.                         *)
Taken(r, i) == [r EXCEPT !.cur = i, !.top = i, !.batch = @ \ {i}, !.todo = PlannedChannels,
                         !.pc = IF PlannedChannels = {} THEN "plan" ELSE "check"]

(* The next event of the batch, in id order.                               *)
Plan(p) ==
    /\ run[p].pc = "plan"
    /\ \E i \in run[p].batch :
         /\ \A j \in run[p].batch : i <= j
         /\ run' = [run EXCEPT ![p] = Taken(run[p], i)]
    /\ UNCHANGED <<handled, out, cursor, lost, faults>>

(* One plan of the event is finished with: on to the next plan or event.   *)
Done(r, c) == [r EXCEPT !.todo = @ \ {c}, !.chan = None,
                        !.pc = IF r.todo = {c} THEN "plan" ELSE "check"]
(* ... and the cursor has to stay below it: min_unresolved.                *)
Hold(r, c) == [Done(r, c) EXCEPT !.hold = IF @ = 0 THEN r.cur ELSE Min({@, r.cur})]
Fresh(r)   == [r EXCEPT !.fresh = TRUE]

(* Mutant: trusts the cursor for what has been handled.                    *)
HandledBelowCursor(p, c) == run[p].cur <= cursor

(* _already_handled, without a lock.                                       *)
AlreadyHandled(p, c) == <<run[p].cur, c>> \in handled

(* What a notice still needs: nothing, a dashboard card, a skip, a wait    *)
(* for the send window, or a vendor call.  The rule lists channels in one  *)
(* order, the same for every run.                                          *)
Check(p) ==
    LET r == run[p]
        c == CHOOSE x \in r.todo : TRUE
        Go(pc) == [r EXCEPT !.pc = pc, !.chan = c] IN
    /\ r.pc = "check"
    /\ run' = [run EXCEPT ![p] = IF AlreadyHandled(p, c) THEN Done(r, c)
                                 ELSE IF c = Dashboard THEN Go("card")
                                 ELSE IF world.muted THEN Go("skip")
                                 ELSE IF world.night THEN Hold(r, c) ELSE Go("send")]
    /\ UNCHANGED <<handled, out, cursor, lost, faults>>

Delivered(p) == [out EXCEPT ![run[p].chan][run[p].cur] = @ + 1]
Marked(p)    == handled \cup {<<run[p].cur, run[p].chan>>}

(* Commit a marker: a dashboard card, a skip, or a notification_sent row.  *)
Commit(p) ==
    /\ run[p].pc \in {"card", "skip", "mark"}
    /\ handled' = Marked(p)
    /\ out' = IF run[p].pc = "card" THEN Delivered(p) ELSE out
    /\ run' = [run EXCEPT ![p] = Fresh(Done(run[p], run[p].chan))]
    /\ UNCHANGED <<cursor, lost, faults>>

(* send_notification reached the borrower; the marker is not committed.    *)
SendOk(p) ==
    /\ run[p].pc = "send"
    /\ out' = Delivered(p)
    /\ run' = [run EXCEPT ![p].pc = "mark"]
    /\ UNCHANGED <<handled, cursor, lost, faults>>

(* PermanentNotificationError: rollback, an audited skip, commit.          *)
SendPermanent(p) ==
    /\ run[p].pc = "send"
    /\ handled' = Marked(p)
    /\ run' = [run EXCEPT ![p] = Fresh(Done(run[p], run[p].chan))]
    /\ UNCHANGED <<out, cursor, lost, faults>>

(* TransientNotificationError: rollback, hold the cursor.  The vendor may  *)
(* have delivered before its answer was lost.                              *)
SendTransient(p, arrived) ==
    /\ run[p].pc = "send" /\ faults < MaxFaults
    /\ faults' = faults + 1
    /\ out' = IF arrived THEN Delivered(p) ELSE out
    /\ lost' = IF arrived THEN lost + 1 ELSE lost
    /\ run' = [run EXCEPT ![p] = Fresh(Hold(run[p], run[p].chan))]
    /\ UNCHANGED <<handled, cursor>>

(* Mutants: the cursor passes what was deferred or failed.                 *)
NewLastIgnoresHold(r) == r.top
NewLastAtHold(r) == IF r.hold # 0 THEN r.hold ELSE r.top

(* The cursor the run leaves: below the first unresolved event.            *)
NewLast(r) == IF r.hold # 0 THEN r.hold - 1 ELSE r.top

(* _save_cursor.  The cursor object is read again only if the session      *)
(* committed or rolled back since it was loaded.                           *)
SaveCursor(p) ==
    LET r == run[p] IN
    /\ r.pc = "plan" /\ r.batch = {}
    /\ cursor' = IF NewLast(r) > (IF r.fresh THEN cursor ELSE r.base)
                 THEN NewLast(r) ELSE cursor
    /\ run' = [run EXCEPT ![p] = Idle]
    /\ UNCHANGED <<handled, out, lost, faults>>

(* The process dies: what was not committed is gone, a sent notice is not. *)
Crash(p) ==
    /\ run[p].pc # "idle" /\ faults < MaxFaults
    /\ faults' = faults + 1
    /\ lost' = IF run[p].pc = "mark" THEN lost + 1 ELSE lost
    /\ run' = [run EXCEPT ![p] = Idle]
    /\ UNCHANGED <<handled, out, cursor>>

Write(w) ==
    /\ \/ w \in Scanners /\ (StartScan(w) \/ \E k \in Keys : ScanKey(w, k))
       \/ w \in Handlers /\ HandlerEmits(w)
       \/ CommitWriter(w)
       \/ RollbackWriter(w)
    /\ UNCHANGED <<handled, out, cursor, world, run, lost>>

(* The steps the scheduler and the vendor owe a run.                       *)
Process(p) ==
    /\ \/ LoadAndSelect(p) \/ Plan(p) \/ SaveCursor(p)
       \/ Check(p) \/ Commit(p) \/ SendOk(p) \/ SendPermanent(p)
    /\ UNCHANGED <<log, overtaken, world, busy, scan>>

Fail(p) ==
    /\ Crash(p) \/ \E arrived \in BOOLEAN : SendTransient(p, arrived)
    /\ UNCHANGED <<log, overtaken, world, busy, scan>>

Morning == Dawn /\ UNCHANGED <<log, overtaken, handled, out, cursor, busy, scan, run, lost, faults>>

World ==
    /\ NextDay \/ PayInstallment \/ Dusk \/ SwitchOff \/ Mute
    /\ UNCHANGED <<log, overtaken, handled, out, cursor, busy, scan, run, lost, faults>>

Next ==
    \/ \E w \in Writers : Write(w)
    \/ \E p \in Procs : Process(p) \/ Fail(p)
    \/ World \/ Morning

(* The scheduler starts the job again and again, and mornings come.        *)
Fairness == (\A p \in Procs : WF_vars(Process(p))) /\ WF_vars(Morning)

Spec == Init /\ [][Next]_vars /\ Fairness
---------------------------------------------------------------------------
TypeOK ==
    /\ log \in Seq([key : Keys \cup {None}, by : Writers, st : {"open", "visible", "void"}])
    /\ overtaken \subseteq Ids /\ handled \subseteq Ids \X Channels
    /\ out \in [Channels -> [Ids -> Nat]]
    /\ cursor \in Nat /\ world \in Worlds /\ lost \in Nat /\ faults \in Nat
    /\ busy \subseteq Writers /\ scan \in [Writers -> SUBSET Keys]
    /\ run \in [Procs -> Runs]

Resolved(i) == \A c \in Channels : <<i, c>> \in handled \/ c \in world.off

(* The cursor only bounds the scan: no event it has passed is left without *)
(* a marker on some enabled channel, through deferrals, vendor failures,   *)
(* crashes and overlapping runs (an event that committed out of id order   *)
(* apart, which the code cannot see).                                      *)
NoSilentDrop == \A i \in Visible \ overtaken : i <= cursor => Resolved(i)

(* Notices of one milestone, or of one event that is not a milestone.      *)
Notices(I, c) == MapThenSumSet(LAMBDA i : out[c][i], I)

(* A borrower is told of a milestone, or of an event, at most once for     *)
(* every run that overlapped and every answer or commit lost after a send, *)
(* however often the scan and the job are run again.                       *)
ToldOnceBy(runs) ==
    \A c \in Channels :
        /\ \A k \in Keys :
             Notices({i \in DOMAIN log : log[i].key = k}, c)
                 <= Cardinality(Scanners) * Cardinality(runs) + lost
        /\ \A i \in DOMAIN log :
             log[i].key = None => out[c][i] <= Cardinality(runs) + lost

ToldOnce == ToldOnceBy(Procs)

(* Every event that commits in id order is in the end delivered or skipped *)
(* with an audit row on every enabled channel: neither a night, a vendor's *)
(* transient failures nor a crash makes the job lose it or stop on it.     *)
EventuallyResolved ==
    \A i \in Ids : (i \in Visible \ overtaken) ~> Resolved(i)
=============================================================================
