--------------------------- MODULE MessagingProofs ---------------------------
(***************************************************************************)
(* For every value of the constants: the cursor of the notices passes      *)
(* nothing that is unresolved, a borrower is told once for every run that  *)
(* overlapped and every answer lost, a sent code works, and the limits on  *)
(* retries, codes and failed exchanges hold.  Each component has an        *)
(* inductive invariant; the last part puts the lanes together.             *)
(***************************************************************************)
EXTENDS Messaging, Integers, FiniteSetTheorems, SumLemmas, TLAPS

(* The notices.                                                            *)

(* Events have ids within the bound.                                        *)
NoticesTyped == TypeOK /\ Len(log) <= MaxEvents

(* What a run holds of events: they are visible, in order, and nothing      *)
(* between them was left out of the batch.                                  *)
BatchInOrder(r) ==
    /\ r.batch \subseteq Visible
    /\ \A b \in r.batch : r.top < b
    /\ \A i \in Visible \ overtaken, b \in r.batch : r.top < i /\ i <= b => i \in r.batch

(* Its counters are ids of visible events, and it works on what it holds.   *)
LocalsFit(r) ==
    /\ r.top = 0 \/ \E j \in Visible : r.top <= j
    /\ r.hold # 0 => r.hold \in Visible /\ r.hold <= r.top
    /\ r.pc # "plan" => r.cur \in Visible /\ r.cur = r.top /\ r.todo # {}
    /\ r.pc \in {"card", "skip", "send", "mark"} => r.chan \in r.todo

(* The channels of an event that a run is done with.                        *)
PlannedAway(i, todo) == \A c \in Channels \ todo : <<i, c>> \in handled \/ c \in world.off

(* Every event up to the newest scanned one is resolved, held back or in    *)
(* hand.                                                                    *)
NothingMissed(r) ==
    \A i \in Visible \ overtaken : i <= r.top =>
        \/ Resolved(i)
        \/ r.hold # 0 /\ r.hold <= i
        \/ i = r.cur /\ r.pc # "plan" /\ PlannedAway(i, r.todo)

(* What a run carries from its load to its save.                            *)
Carried(r) == r.pc # "idle" => BatchInOrder(r) /\ LocalsFit(r) /\ NothingMissed(r)

(* The cursor names no id above the visible ones.                           *)
CursorSeen == cursor = 0 \/ \E j \in Visible : cursor <= j

(* The inductive invariant of the scan.                                     *)
ScanInv ==
    /\ NoticesTyped /\ NoSilentDrop /\ CursorSeen
    /\ \A p \in Procs : Carried(run[p])

(* What every step does to the tables: events become visible above the      *)
(* visible ones or overtaken, markers and switched-off channels stay.       *)
Grows ==
    /\ Visible \subseteq Visible' /\ handled \subseteq handled'
    /\ world.off \subseteq world'.off
    /\ \A i \in Visible' \ overtaken' :
         i \in Visible \ overtaken \/ \A j \in Visible : j < i

(* What is resolved stays resolved.                                         *)
LEMMA ResolvedStays ==
    ASSUME Grows
    PROVE  /\ \A i : Resolved(i) => Resolved(i)'
           /\ \A i, t : PlannedAway(i, t) => PlannedAway(i, t)'
BY DEF Grows, Resolved, PlannedAway

(* Ids are natural numbers.                                                 *)
LEMMA VisibleIds ==
    ASSUME ProcessorAssumption, NoticesTyped
    PROVE  Visible \subseteq Ids /\ Ids \subseteq Nat \ {0} /\ DOMAIN log \subseteq Ids
BY DEF NoticesTyped, TypeOK, Visible, Ids, ProcessorAssumption

(* The next state's ids.                                                    *)
LEMMA VisibleIdsNext ==
    ASSUME ProcessorAssumption, NoticesTyped'
    PROVE  Visible' \subseteq Ids /\ DOMAIN log' \subseteq Ids
BY DEF NoticesTyped, TypeOK, Visible, Ids, ProcessorAssumption

(* A run that does not move carries what it carried.                        *)
LEMMA CarriedStays ==
    ASSUME ProcessorAssumption, NoticesTyped, NoticesTyped', Grows, NEW r \in Runs, Carried(r)
    PROVE  Carried(r)'
<1>1. SUFFICES ASSUME r.pc # "idle"
               PROVE  BatchInOrder(r)' /\ LocalsFit(r)' /\ NothingMissed(r)'
  BY DEF Carried
<1>2. BatchInOrder(r) /\ LocalsFit(r) /\ NothingMissed(r)
  BY <1>1 DEF Carried
<1>3. /\ r.top \in Nat /\ r.hold \in Nat /\ r.batch \subseteq Ids
      /\ Visible \subseteq Ids /\ Visible' \subseteq Ids /\ Ids \subseteq Nat \ {0}
  BY VisibleIds, VisibleIdsNext DEF Runs
<1>4. \A i \in Visible' \ overtaken' : i <= r.top => i \in Visible \ overtaken
  BY <1>2, <1>3 DEF Grows, LocalsFit
<1>5. BatchInOrder(r)'
  <2>1. r.batch \subseteq Visible /\ \A b \in r.batch : r.top < b
    BY <1>2 DEF BatchInOrder
  <2>2. ASSUME NEW i \in Visible' \ overtaken', NEW b \in r.batch, r.top < i, i <= b
        PROVE  i \in r.batch
    <3>1. i \in Nat /\ b \in Nat /\ b \in Visible
      BY <1>3, <2>1
    <3>2. i \in Visible \ overtaken
      BY <2>2, <3>1 DEF Grows
    <3> QED
      BY <1>2, <2>2, <3>2 DEF BatchInOrder
  <2>3. r.batch \subseteq Visible'
    BY <2>1 DEF Grows
  <2> QED
    BY <2>1, <2>2, <2>3 DEF BatchInOrder
<1>6. LocalsFit(r)'
  BY <1>2 DEF Grows, LocalsFit
<1>7. NothingMissed(r)'
  BY <1>2, <1>4, ResolvedStays DEF NothingMissed
<1> QED
  BY <1>5, <1>6, <1>7

(* The cursor's promise, while it stays where it is.                        *)
LEMMA CursorStays ==
    ASSUME ProcessorAssumption, NoticesTyped, NoticesTyped', Grows, NoSilentDrop, CursorSeen,
           cursor' = cursor
    PROVE  NoSilentDrop' /\ CursorSeen'
<1>1. /\ cursor \in Nat /\ Visible \subseteq Ids /\ Visible' \subseteq Ids
      /\ Ids \subseteq Nat \ {0}
  BY VisibleIds, VisibleIdsNext DEF NoticesTyped, TypeOK
<1>2. \A i \in Visible' \ overtaken' : i <= cursor => i \in Visible \ overtaken
  BY <1>1 DEF Grows, CursorSeen
<1>3. NoSilentDrop'
  BY <1>2, ResolvedStays DEF NoSilentDrop
<1> QED
  BY <1>3 DEF Grows, CursorSeen

(* A step that moves no run, and one that moves one.                        *)
LEMMA ScanStays ==
    ASSUME ProcessorAssumption, ScanInv, NoticesTyped', Grows, UNCHANGED <<cursor, run>>
    PROVE  ScanInv'
<1>1. \A p \in Procs : run[p] \in Runs
  BY DEF ScanInv, NoticesTyped, TypeOK
<1>2. ASSUME NEW p \in Procs PROVE Carried(run[p])'
  <2>1. PICK r \in Runs : r = run[p] /\ Carried(r)
    BY <1>1 DEF ScanInv
  <2>2. Carried(r)'
    BY <2>1, CarriedStays DEF ScanInv
  <2>3. r = run'[p]
    BY <2>1
  <2> QED
    BY <2>2, <2>3 DEF Carried, BatchInOrder, LocalsFit, NothingMissed
<1> QED
  BY <1>2, CursorStays DEF ScanInv

(* The run that moves carries what it has to.                               *)
Moves(p, r) == run' = [run EXCEPT ![p] = r] /\ Carried(r)'

(* A run that carries on keeps what the others carry.                       *)
LEMMA RunMoves ==
    ASSUME ProcessorAssumption, ScanInv, NoticesTyped', Grows,
           NEW p \in Procs, NEW r \in Runs, Moves(p, r), NoSilentDrop', CursorSeen'
    PROVE  ScanInv'
<1>1. \A q \in Procs : run[q] \in Runs /\ run \in [Procs -> Runs]
  BY DEF ScanInv, NoticesTyped, TypeOK
<1>2. ASSUME NEW q \in Procs PROVE Carried(run[q])'
  <2>1. CASE q = p
    BY <1>1, <2>1 DEF Moves, Carried, BatchInOrder, LocalsFit, NothingMissed
  <2>2. CASE q # p
    <3>1. PICK s \in Runs : s = run[q] /\ Carried(s)
      BY <1>1 DEF ScanInv
    <3>2. Carried(s)'
      BY <3>1, CarriedStays DEF ScanInv
    <3>3. s = run'[q]
      BY <1>1, <2>2, <3>1 DEF Moves
    <3> QED
      BY <3>2, <3>3 DEF Carried, BatchInOrder, LocalsFit, NothingMissed
  <2> QED
    BY <2>1, <2>2
<1> QED
  BY <1>2 DEF ScanInv

(* An event of the log.                                                     *)
Events == [key : Keys \cup {None}, by : Writers, st : {"open", "visible", "void"}]

(* A new row is the last one.                                               *)
LEMMA EmitAppends ==
    ASSUME ProcessorAssumption, NoticesTyped, NEW w \in Writers, NEW k \in Keys \cup {None},
           Emit(w, k)
    PROVE  /\ log' \in Seq(Events) /\ Len(log') = Len(log) + 1 /\ Len(log') <= MaxEvents
           /\ \A i \in DOMAIN log : i \in DOMAIN log' /\ log'[i] = log[i]
           /\ \A i \in DOMAIN log' : i \in DOMAIN log \/ i = Len(log')
           /\ log'[Len(log')] = [key |-> k, by |-> w, st |-> "open"]
           /\ Visible' = Visible
<1>1. log \in Seq(Events) /\ Len(log) \in Nat /\ DOMAIN log = 1..Len(log)
  BY DEF NoticesTyped, TypeOK, Events
<1>2. [key |-> k, by |-> w, st |-> "open"] \in Events
  BY DEF Events
<1> DEFINE row == [key |-> k, by |-> w, st |-> "open"]
<1>3. log' = Append(log, row) /\ Len(log) < MaxEvents
  BY DEF Emit
<1> HIDE DEF row
<1>4. /\ log' \in Seq(Events) /\ Len(log') = Len(log) + 1
      /\ \A i \in 1..Len(log) : log'[i] = log[i]
      /\ log'[Len(log) + 1] = row /\ DOMAIN log' = 1..(Len(log) + 1)
  BY <1>1, <1>2, <1>3 DEF row
<1>5. MaxEvents \in Nat
  BY DEF ProcessorAssumption
<1>6. row.st # "visible"
  BY DEF row
<1>7. Visible' = Visible
  BY <1>1, <1>4, <1>6 DEF Visible
<1> QED
  BY <1>1, <1>3, <1>4, <1>5, <1>7 DEF row

(* The end of a transaction: its open rows change their state.              *)
LEMMA EndRewrites ==
    ASSUME ProcessorAssumption, NoticesTyped, NEW w \in Writers, NEW st \in {"visible", "void"},
           EndTransaction(w, st)
    PROVE  /\ log' \in Seq(Events) /\ Len(log') = Len(log) /\ DOMAIN log' = DOMAIN log
           /\ \A i \in DOMAIN log : i \notin OpenBy(w) => log'[i] = log[i]
           /\ \A i \in OpenBy(w) : log'[i] = [log[i] EXCEPT !.st = st]
           /\ Visible \subseteq Visible'
           /\ \A i \in Visible' : i \in Visible \/ (st = "visible" /\ i \in OpenBy(w))
<1>1. log \in Seq(Events) /\ Len(log) \in Nat /\ DOMAIN log = 1..Len(log)
  BY DEF NoticesTyped, TypeOK, Events
<1>2. log' = [i \in DOMAIN log |->
                IF i \in OpenBy(w) THEN [log[i] EXCEPT !.st = st] ELSE log[i]]
  BY DEF EndTransaction
<1>3. \A i \in DOMAIN log : log[i] \in Events
  BY <1>1
<1>4. \A i \in DOMAIN log : [log[i] EXCEPT !.st = st] \in Events
  BY <1>3 DEF Events
<1>5. /\ log' \in Seq(Events) /\ Len(log') = Len(log) /\ DOMAIN log' = DOMAIN log
  BY <1>1, <1>2, <1>3, <1>4
<1>6. /\ \A i \in DOMAIN log : i \notin OpenBy(w) => log'[i] = log[i]
      /\ \A i \in OpenBy(w) : i \in DOMAIN log /\ log'[i] = [log[i] EXCEPT !.st = st]
  BY <1>2 DEF OpenBy
<1>7. Visible \subseteq Visible'
  BY <1>5, <1>6 DEF Visible, OpenBy
<1>8. \A i \in OpenBy(w) : log'[i].st = st
  BY <1>3, <1>6 DEF Events
<1>9. \A i \in Visible' : i \in Visible \/ (st = "visible" /\ i \in OpenBy(w))
  BY <1>5, <1>6, <1>8 DEF Visible
<1> QED
  BY <1>5, <1>6, <1>7, <1>9

(* Writers keep the types and let the tables grow.                          *)
LEMMA WritesGrow ==
    ASSUME ProcessorAssumption, NoticesTyped, NEW w \in Writers, Write(w)
    PROVE  NoticesTyped' /\ Grows
<1>1. UNCHANGED <<handled, out, cursor, world, run, lost>>
  BY DEF Write
<1>2. /\ log \in Seq(Events) /\ Len(log) <= MaxEvents /\ overtaken \subseteq Ids
      /\ handled \subseteq Ids \X Channels /\ out \in [Channels -> [Ids -> Nat]]
      /\ cursor \in Nat /\ world \in Worlds /\ lost \in Nat /\ faults \in Nat
      /\ busy \subseteq Writers /\ scan \in [Writers -> SUBSET Keys]
      /\ run \in [Procs -> Runs]
  BY DEF NoticesTyped, TypeOK, Events
<1> DEFINE Fits == /\ log' \in Seq(Events) /\ Len(log') <= MaxEvents /\ overtaken' \subseteq Ids
                   /\ faults' \in Nat /\ busy' \subseteq Writers
                   /\ scan' \in [Writers -> SUBSET Keys]
           Above == /\ Visible \subseteq Visible'
                    /\ \A i \in Visible' \ overtaken' :
                         i \in Visible \ overtaken \/ \A j \in Visible : j < i
<1>3. CASE w \in Scanners /\ StartScan(w)
  <2>1. Fits
    BY <1>2, <1>3 DEF StartScan
  <2>2. Above
    BY <1>3 DEF StartScan, Visible
  <2> QED
    BY <1>1, <1>2, <2>1, <2>2 DEF NoticesTyped, TypeOK, Events, Grows
<1>4. ASSUME NEW k \in Keys, ScanKey(w, k) PROVE NoticesTyped' /\ Grows
  <2>1. CASE AlreadyEmitted(w, k)
    <3>1. UNCHANGED log
      BY <1>4, <2>1 DEF ScanKey
    <3>2. Fits
      BY <1>2, <1>4, <3>1 DEF ScanKey
    <3>3. Above
      BY <1>4, <3>1 DEF ScanKey, Visible
    <3> QED
      BY <1>1, <1>2, <3>2, <3>3 DEF NoticesTyped, TypeOK, Events, Grows
  <2>2. CASE ~AlreadyEmitted(w, k)
    <3>1. Emit(w, k)
      BY <1>4, <2>2 DEF ScanKey
    <3>2. log' \in Seq(Events) /\ Len(log') <= MaxEvents /\ Visible' = Visible
      BY <3>1, EmitAppends
    <3>3. Fits
      BY <1>2, <1>4, <3>2 DEF ScanKey
    <3>4. Above
      BY <1>4, <3>2 DEF ScanKey
    <3> QED
      BY <1>1, <1>2, <3>3, <3>4 DEF NoticesTyped, TypeOK, Events, Grows
  <2> QED
    BY <2>1, <2>2
<1>5. CASE w \in Handlers /\ HandlerEmits(w)
  <2>1. Emit(w, None)
    BY <1>5 DEF HandlerEmits
  <2>2. log' \in Seq(Events) /\ Len(log') <= MaxEvents /\ Visible' = Visible
    BY <2>1, EmitAppends
  <2>3. Fits
    BY <1>2, <1>5, <2>2 DEF HandlerEmits
  <2>4. Above
    BY <1>5, <2>2 DEF HandlerEmits
  <2> QED
    BY <1>1, <1>2, <2>3, <2>4 DEF NoticesTyped, TypeOK, Events, Grows
<1>6. CASE CommitWriter(w)
  <2>1. EndTransaction(w, "visible")
    BY <1>6 DEF CommitWriter
  <2>2. /\ log' \in Seq(Events) /\ Len(log') = Len(log) /\ Visible \subseteq Visible'
        /\ \A i \in Visible' : i \in Visible \/ i \in OpenBy(w)
    BY <2>1, EndRewrites
  <2>3. overtaken' = overtaken \cup {i \in OpenBy(w) : \E j \in Visible : i < j}
    BY <1>6 DEF CommitWriter
  <2>4. OpenBy(w) \subseteq Ids /\ OpenBy(w) \cap Visible = {}
    BY VisibleIds DEF OpenBy, Visible
  <2>5. Fits
    BY <1>2, <1>6, <2>1, <2>2, <2>3, <2>4 DEF CommitWriter, EndTransaction
  <2>6. Visible \subseteq Nat /\ OpenBy(w) \subseteq Nat
    BY <2>4, VisibleIds
  <2>7. Above
    <3>1. ASSUME NEW i \in Visible' \ overtaken', i \notin Visible \ overtaken,
                 NEW j \in Visible
          PROVE  j < i
      <4>1. i \in OpenBy(w) /\ ~(i < j)
        BY <2>2, <2>3, <3>1
      <4>2. i # j
        BY <2>4, <4>1
      <4> QED
        BY <2>6, <4>1, <4>2
    <3> QED
      BY <2>2, <3>1
  <2> QED
    BY <1>1, <1>2, <2>5, <2>7 DEF NoticesTyped, TypeOK, Events, Grows
<1>7. CASE RollbackWriter(w)
  <2>1. EndTransaction(w, "void") /\ overtaken' = overtaken
    BY <1>7 DEF RollbackWriter
  <2>2. /\ log' \in Seq(Events) /\ Len(log') = Len(log) /\ Visible \subseteq Visible'
        /\ \A i \in Visible' : i \in Visible
    BY <2>1, EndRewrites
  <2>3. Fits
    BY <1>2, <1>7, <2>1, <2>2 DEF RollbackWriter, EndTransaction
  <2>4. Above
    BY <2>1, <2>2
  <2> QED
    BY <1>1, <1>2, <2>3, <2>4 DEF NoticesTyped, TypeOK, Events, Grows
<1> QED
  BY <1>3, <1>4, <1>5, <1>6, <1>7 DEF Write

(* So does the world.                                                       *)
LEMMA WorldGrows ==
    ASSUME ProcessorAssumption, NoticesTyped, World \/ Morning
    PROVE  /\ NoticesTyped' /\ Grows
           /\ UNCHANGED <<log, overtaken, handled, out, cursor, busy, scan, run, lost, faults>>
<1>1. UNCHANGED <<log, overtaken, handled, out, cursor, busy, scan, run, lost, faults>>
  BY DEF World, Morning
<1>2. world \in Worlds
  BY DEF NoticesTyped, TypeOK
<1>3. world' \in Worlds /\ world.off \subseteq world'.off
  <2>1. CASE NextDay
    BY <1>2, <2>1 DEF NextDay, Worlds
  <2>7. ASSUME NEW v \in Worlds, Changes(v), world.off \subseteq v.off
         PROVE  world' \in Worlds /\ world.off \subseteq world'.off
    BY <2>7 DEF Changes, Worlds
  <2>2. CASE PayInstallment
    <3>1. PICK k \in Keys \ world.closed :
            Changes([world EXCEPT !.closed = world.closed \cup {k}])
      BY <2>2 DEF PayInstallment
    <3>2. [world EXCEPT !.closed = world.closed \cup {k}] \in Worlds
      BY <1>2 DEF Worlds
    <3>3. world.off \subseteq [world EXCEPT !.closed = world.closed \cup {k}].off
      BY <1>2 DEF Worlds
    <3> QED
      BY <2>7, <3>1, <3>2, <3>3
  <2>3. CASE Dusk
    <3>1. Changes([world EXCEPT !.night = TRUE])
      BY <2>3 DEF Dusk
    <3>2. /\ [world EXCEPT !.night = TRUE] \in Worlds
          /\ world.off \subseteq [world EXCEPT !.night = TRUE].off
      BY <1>2 DEF Worlds
    <3> QED
      BY <2>7, <3>1, <3>2
  <2>4. CASE SwitchOff
    <3>1. PICK c \in Channels \ world.off :
            Changes([world EXCEPT !.off = world.off \cup {c}])
      BY <2>4 DEF SwitchOff
    <3>2. [world EXCEPT !.off = world.off \cup {c}] \in Worlds
      BY <1>2 DEF Worlds
    <3>3. world.off \subseteq [world EXCEPT !.off = world.off \cup {c}].off
      BY <1>2 DEF Worlds
    <3> QED
      BY <2>7, <3>1, <3>2, <3>3
  <2>5. CASE Mute
    <3>1. Changes([world EXCEPT !.muted = TRUE])
      BY <2>5 DEF Mute
    <3>2. /\ [world EXCEPT !.muted = TRUE] \in Worlds
          /\ world.off \subseteq [world EXCEPT !.muted = TRUE].off
      BY <1>2 DEF Worlds
    <3> QED
      BY <2>7, <3>1, <3>2
  <2>6. CASE Dawn
    BY <1>2, <2>6 DEF Dawn, Worlds
  <2> QED
    BY <2>1, <2>2, <2>3, <2>4, <2>5, <2>6 DEF World, Morning
<1>4. NoticesTyped'
  BY <1>1, <1>3 DEF NoticesTyped, TypeOK
<1>5. Visible' = Visible /\ overtaken' = overtaken /\ handled' = handled
  BY <1>1 DEF Visible
<1> QED
  BY <1>1, <1>3, <1>4, <1>5 DEF Grows

(* The SELECT leaves out nothing below what it returns.                     *)
LEMMA FirstIdsAreFirst ==
    ASSUME ProcessorAssumption, NEW S \in SUBSET Ids, NEW n \in Nat
    PROVE  /\ FirstIds(S, n) \subseteq S
           /\ \A i \in S, b \in FirstIds(S, n) : i <= b => i \in FirstIds(S, n)
<1>1. IsFiniteSet(S) /\ S \subseteq Nat
  <2>1. 1 \in Int /\ MaxEvents \in Int
    BY DEF ProcessorAssumption
  <2>2. IsFiniteSet(Ids)
    BY <2>1, FS_Interval DEF Ids
  <2>3. IsFiniteSet(S)
    BY <2>2, FS_Subset
  <2> QED
    BY <2>3 DEF Ids
<1>2. ASSUME NEW i \in S, NEW b \in FirstIds(S, n), i <= b PROVE i \in FirstIds(S, n)
  <2> DEFINE below(x) == {j \in S : j < x}
  <2>1. b \in S /\ Cardinality(below(b)) < n
    BY DEF FirstIds
  <2>2. IsFiniteSet(below(b)) /\ below(i) \subseteq below(b)
    <3>1. \A j \in S : j < i => j < b
      BY <1>1, <1>2, <2>1
    <3> QED
      BY <1>1, <3>1, FS_Subset
  <2>3. /\ Cardinality(below(i)) <= Cardinality(below(b))
        /\ Cardinality(below(i)) \in Nat /\ Cardinality(below(b)) \in Nat
    BY <2>2, FS_Subset, FS_CardinalityType
  <2>4. Cardinality(below(i)) < n
    BY <2>1, <2>3
  <2> QED
    BY <2>4 DEF FirstIds
<1> QED
  BY <1>2 DEF FirstIds

(* The smaller of two numbers.                                              *)
LEMMA MinOfTwo ==
    ASSUME NEW a \in Nat, NEW b \in Nat
    PROVE  Min({a, b}) = IF a <= b THEN a ELSE b
<1>1. \E x \in {a, b} : \A y \in {a, b} : x <= y
  OBVIOUS
<1>2. Min({a, b}) \in {a, b} /\ \A y \in {a, b} : Min({a, b}) <= y
  BY <1>1 DEF Min
<1> QED
  BY <1>2

(* The runs' steps leave the events and the world alone.                    *)
StillTables == UNCHANGED <<log, overtaken, world, busy, scan>> /\ handled \subseteq handled'

(* Where only runs move, the tables grow as every step makes them grow.     *)
LEMMA StillGrows ==
    ASSUME StillTables
    PROVE  Grows /\ Visible' = Visible
BY DEF StillTables, Grows, Visible

(* A run that is done with a channel: a marker is there.                    *)
LEMMA DoneCarries ==
    ASSUME ProcessorAssumption, NEW o \in Runs, o.pc \notin {"idle", "plan"}, NEW c \in o.todo,
           Carried(o)', <<o.cur, c>> \in handled'
    PROVE  Done(o, c) \in Runs /\ Carried(Done(o, c))'
<1> DEFINE r == Done(o, c)
<1>1. /\ r \in Runs /\ r.todo = o.todo \ {c} /\ r.chan = None
      /\ r.pc = (IF o.todo = {c} THEN "plan" ELSE "check")
      /\ r.batch = o.batch /\ r.cur = o.cur /\ r.top = o.top /\ r.hold = o.hold
  BY DEF Done, Runs
<1> HIDE DEF r
<1>2. BatchInOrder(o)' /\ LocalsFit(o)' /\ NothingMissed(o)'
  BY DEF Carried
<1>3. BatchInOrder(r)'
  BY <1>1, <1>2 DEF BatchInOrder
<1>4. LocalsFit(r)'
  BY <1>1, <1>2 DEF LocalsFit
<1>5. ASSUME NEW i, PlannedAway(i, o.todo)', i = o.cur
      PROVE  PlannedAway(i, r.todo)' /\ (r.todo = {} => Resolved(i)')
  BY <1>1, <1>5 DEF PlannedAway, Resolved
<1>6. NothingMissed(r)'
  BY <1>1, <1>2, <1>5 DEF NothingMissed
<1> QED
  BY <1>1, <1>3, <1>4, <1>6 DEF Carried, r

(* A run that gives up on a channel for now: the event is held.             *)
LEMMA HoldCarries ==
    ASSUME ProcessorAssumption, NoticesTyped', NEW o \in Runs, o.pc \notin {"idle", "plan"},
           NEW c \in o.todo, Carried(o)'
    PROVE  Hold(o, c) \in Runs /\ Carried(Hold(o, c))'
<1> DEFINE r == Hold(o, c)
<1>1. BatchInOrder(o)' /\ LocalsFit(o)' /\ NothingMissed(o)'
  BY DEF Carried
<1>2. o.cur \in Visible' /\ o.cur \in Ids /\ o.cur = o.top /\ o.hold \in Nat /\ Ids \subseteq Nat \ {0}
  <2>1. o.cur \in Visible' /\ o.cur = o.top
    BY <1>1 DEF LocalsFit
  <2> QED
    BY <2>1, VisibleIdsNext DEF Runs, Ids
<1>3. \E h \in Nat : /\ h = (IF o.hold = 0 THEN o.cur ELSE Min({o.hold, o.cur}))
                     /\ h # 0 /\ h <= o.cur /\ (o.hold # 0 => h <= o.hold)
                     /\ h \in {o.hold, o.cur}
  <2>1. o.cur \in Nat /\ o.cur # 0
    BY <1>2
  <2>2. Min({o.hold, o.cur}) = IF o.hold <= o.cur THEN o.hold ELSE o.cur
    BY <1>2, <2>1, MinOfTwo
  <2>3. CASE o.hold = 0
    BY <2>1, <2>3
  <2>4. CASE o.hold # 0
    <3>1. CASE o.hold <= o.cur
      BY <1>2, <2>2, <2>4, <3>1
    <3>2. CASE ~(o.hold <= o.cur)
      BY <1>2, <2>1, <2>2, <2>4, <3>2
    <3> QED
      BY <3>1, <3>2
  <2> QED
    BY <2>3, <2>4
<1>4. PICK h \in Nat : /\ h = (IF o.hold = 0 THEN o.cur ELSE Min({o.hold, o.cur}))
                       /\ h # 0 /\ h <= o.cur /\ (o.hold # 0 => h <= o.hold)
                       /\ h \in {o.hold, o.cur}
  BY <1>3
<1>5. /\ r.todo = o.todo \ {c} /\ r.chan = None /\ r.hold = h
      /\ r.pc = (IF o.todo = {c} THEN "plan" ELSE "check")
      /\ r.batch = o.batch /\ r.cur = o.cur /\ r.top = o.top /\ r \in Runs
  BY <1>4 DEF Hold, Done, Runs
<1> HIDE DEF r
<1>6. BatchInOrder(r)'
  BY <1>1, <1>5 DEF BatchInOrder
<1>7. LocalsFit(r)'
  BY <1>1, <1>2, <1>4, <1>5 DEF LocalsFit
<1>8. NothingMissed(r)'
  <2>1. ASSUME NEW i \in Visible' \ overtaken', i <= r.top PROVE Resolved(i)' \/ r.hold <= i
    <3>1. i \in Nat
      BY VisibleIdsNext, <1>2
    <3>2. \/ Resolved(i)' \/ (o.hold # 0 /\ o.hold <= i) \/ i = o.cur
      BY <1>1, <1>5, <2>1 DEF NothingMissed
    <3> QED
      BY <1>2, <1>4, <1>5, <3>1, <3>2
  <2> QED
    BY <1>4, <1>5, <2>1 DEF NothingMissed
<1> QED
  BY <1>5, <1>6, <1>7, <1>8 DEF Carried, r

(* A held run is of the right type.                                         *)
LEMMA HoldTyped ==
    ASSUME NEW o \in Runs, NEW c
    PROVE  Hold(o, c) \in Runs
<1>1. PICK h \in Nat : h = (IF o.hold = 0 THEN o.cur ELSE Min({o.hold, o.cur}))
  <2>1. o.hold \in Nat /\ o.cur \in Nat
    BY DEF Runs, Ids
  <2> QED
    BY <2>1, MinOfTwo
<1> QED
  BY <1>1 DEF Hold, Done, Runs

(* Whether the session has committed is not part of the scan.               *)
LEMMA FreshCarries ==
    ASSUME NEW r \in Runs, Carried(r)'
    PROVE  Fresh(r) \in Runs /\ Carried(Fresh(r))'
BY DEF Fresh, Runs, Carried, BatchInOrder, LocalsFit, NothingMissed

(* A run that turns to one of its channels, or has sent.                    *)
LEMMA TurnCarries ==
    ASSUME NEW o \in Runs, o.pc \notin {"idle", "plan"}, Carried(o)', NEW c \in o.todo,
           NEW q \in {"card", "skip", "send", "mark"}
    PROVE  /\ [o EXCEPT !.pc = q, !.chan = c] \in Runs
           /\ Carried([o EXCEPT !.pc = q, !.chan = c])'
<1>1. BatchInOrder(o)' /\ LocalsFit(o)' /\ NothingMissed(o)'
  BY DEF Carried
<1> DEFINE r == [o EXCEPT !.pc = q, !.chan = c]
<1>2. /\ r \in Runs /\ r.pc = q /\ r.chan = c /\ r.todo = o.todo /\ r.batch = o.batch
      /\ r.cur = o.cur /\ r.top = o.top /\ r.hold = o.hold
  BY DEF Runs
<1> HIDE DEF r
<1>3. BatchInOrder(r)' /\ LocalsFit(r)' /\ NothingMissed(r)'
  BY <1>1, <1>2 DEF BatchInOrder, LocalsFit, NothingMissed
<1> QED
  BY <1>2, <1>3 DEF Carried, r

(* An idle run carries nothing.                                             *)
LEMMA IdleCarries == Idle \in Runs /\ Carried(Idle) /\ Carried(Idle)'
BY DEF Idle, Runs, Carried

(* What a run's step leaves of the types: its markers, its notices and its  *)
(* locals.                                                                  *)
LEMMA RunTypes ==
    ASSUME ProcessorAssumption, NoticesTyped, NEW p \in Procs, NEW r \in Runs,
           UNCHANGED <<log, overtaken, world, busy, scan>>, run' = [run EXCEPT ![p] = r],
           handled' \subseteq Ids \X Channels, out' \in [Channels -> [Ids -> Nat]],
           cursor' \in Nat, lost' \in Nat, faults' \in Nat
    PROVE  NoticesTyped'
<1>1. run' \in [Procs -> Runs]
  BY DEF NoticesTyped, TypeOK
<1> QED
  BY <1>1 DEF NoticesTyped, TypeOK

(* One more notice.                                                         *)
LEMMA DeliveredTyped ==
    ASSUME out \in [Channels -> [Ids -> Nat]], NEW p, run[p].cur \in Ids, run[p].chan \in Channels
    PROVE  /\ Delivered(p) \in [Channels -> [Ids -> Nat]]
           /\ \A c \in Channels, i \in Ids :
                Delivered(p)[c][i] =
                  IF c = run[p].chan /\ i = run[p].cur THEN out[c][i] + 1 ELSE out[c][i]
<1> DEFINE i == run[p].cur
           c == run[p].chan
<1>1. PICK f \in [Ids -> Nat] : f = out[c]
  OBVIOUS
<1>2. PICK g \in [Ids -> Nat] : g = [f EXCEPT ![i] = f[i] + 1]
  <2>1. f[i] + 1 \in Nat
    OBVIOUS
  <2>2. [f EXCEPT ![i] = f[i] + 1] \in [Ids -> Nat]
    BY <2>1
  <2> QED
    BY <2>2
<1>3. Delivered(p) = [out EXCEPT ![c] = g]
  BY <1>1, <1>2 DEF Delivered
<1>4. \A j \in Ids : g[j] = IF j = i THEN f[j] + 1 ELSE f[j]
  BY <1>2
<1> QED
  BY <1>1, <1>3, <1>4

(* The types that a step of a run relies on.                                *)
LEMMA RunTyped ==
    ASSUME NoticesTyped, NEW p \in Procs
    PROVE  /\ run[p] \in Runs /\ handled \subseteq Ids \X Channels
           /\ out \in [Channels -> [Ids -> Nat]] /\ cursor \in Nat /\ lost \in Nat
           /\ faults \in Nat /\ world \in Worlds
BY DEF NoticesTyped, TypeOK

(* A step that moves one run and not the cursor.                            *)
LEMMA RunKeepsScan ==
    ASSUME ProcessorAssumption, ScanInv, NEW p \in Procs, NEW r \in Runs, Moves(p, r),
           StillTables, cursor' = cursor, NoticesTyped'
    PROVE  ScanInv'
BY StillGrows, CursorStays, RunMoves DEF ScanInv

(* What a run that stands before a marker or a send works on.               *)
LEMMA InHand ==
    ASSUME ProcessorAssumption, ScanInv, NEW p \in Procs, NEW o \in Runs, o = run[p],
           o.pc \notin {"idle", "plan"}
    PROVE  /\ o.cur \in Visible /\ o.cur \in Ids /\ o.todo # {} /\ o.todo \subseteq Channels
           /\ o.pc # "check" => o.chan \in o.todo
<1>1. LocalsFit(o)
  BY DEF ScanInv, Carried, LocalsFit
<1> QED
  BY <1>1, VisibleIds DEF LocalsFit, Runs, ScanInv

(* _load_cursor and the select, read below the cursor of nobody else.       *)
LEMMA LoadKeepsScan ==
    ASSUME ProcessorAssumption, ScanInv, NEW p \in Procs, LoadAndSelect(p),
           UNCHANGED <<log, overtaken, world, busy, scan>>
    PROVE  ScanInv'
<1>1. StillTables /\ cursor' = cursor /\ UNCHANGED <<out, lost, faults>>
  BY DEF LoadAndSelect, StillTables
<1> DEFINE S == {i \in Visible : i > cursor}
<1>2. PICK n \in Limits :
        /\ FirstIds(S, n) # {}
        /\ run' = [run EXCEPT ![p] = [Idle EXCEPT !.pc = "plan", !.base = cursor,
                                      !.batch = FirstIds(S, n), !.top = cursor]]
  BY DEF LoadAndSelect
<1>3. n \in Nat /\ S \subseteq Ids /\ Visible \subseteq Ids /\ Ids \subseteq Nat /\ cursor \in Nat
  BY VisibleIds DEF ProcessorAssumption, ScanInv, NoticesTyped, TypeOK
<1>4. /\ FirstIds(S, n) \subseteq S
      /\ \A i \in S, b \in FirstIds(S, n) : i <= b => i \in FirstIds(S, n)
  BY <1>3, FirstIdsAreFirst
<1>5. PICK r \in Runs :
        /\ r.pc = "plan" /\ r.batch = FirstIds(S, n) /\ r.top = cursor /\ r.hold = 0
        /\ run' = [run EXCEPT ![p] = r]
  <2> DEFINE new == [Idle EXCEPT !.pc = "plan", !.base = cursor,
                                 !.batch = FirstIds(S, n), !.top = cursor]
  <2>1. new \in Runs
    BY <1>3, <1>4 DEF Idle, Runs
  <2>2. new.pc = "plan" /\ new.batch = FirstIds(S, n) /\ new.top = cursor /\ new.hold = 0
    BY DEF Idle
  <2> QED
    BY <1>2, <2>1, <2>2
<1>13. FirstIds(S, n) \in SUBSET Ids
  BY <1>3, <1>4
<1>14. PICK found \in SUBSET Ids : found = FirstIds(S, n)
  BY <1>13
<1>15. /\ \A b \in found : b \in Visible /\ cursor < b
       /\ \A i \in Visible, b \in found : cursor < i /\ i <= b => i \in found
  BY <1>3, <1>4, <1>14
<1>16. r.batch = found /\ r.top = cursor
  BY <1>5, <1>14
<1>6. Visible' = Visible /\ overtaken' = overtaken
  BY <1>1, StillGrows DEF StillTables
<1>7. BatchInOrder(r)'
  BY <1>6, <1>15, <1>16 DEF BatchInOrder
<1>8. LocalsFit(r)'
  <2>1. cursor = 0 \/ \E j \in Visible' : cursor <= j
    BY <1>6 DEF ScanInv, CursorSeen
  <2> QED
    BY <1>5, <2>1 DEF LocalsFit
<1>11. NoticesTyped'
  BY <1>1, <1>5, RunTyped, RunTypes DEF LoadAndSelect, ScanInv
<1>9. NoSilentDrop'
  BY <1>1, StillGrows, CursorStays, <1>11 DEF ScanInv
<1>10. NothingMissed(r)'
  BY <1>1, <1>5, <1>9 DEF NothingMissed, NoSilentDrop
<1>12. Moves(p, r)
  BY <1>5, <1>7, <1>8, <1>10 DEF Moves, Carried
<1> QED
  BY <1>1, <1>5, <1>11, <1>12, RunKeepsScan

(* An event leaves the batch: planned, skipped or deferred to the           *)
(* morning.                                                                 *)
LEMMA PlanKeepsScan ==
    ASSUME ProcessorAssumption, ScanInv, NEW p \in Procs, Plan(p),
           UNCHANGED <<log, overtaken, world, busy, scan>>
    PROVE  ScanInv'
<1>1. StillTables /\ cursor' = cursor /\ UNCHANGED <<handled, out, lost, faults>>
  BY DEF Plan, StillTables
<1>2. PICK o \in Runs : o = run[p]
  BY RunTyped DEF ScanInv
<1>3. o.pc = "plan" /\ BatchInOrder(o) /\ LocalsFit(o) /\ NothingMissed(o)
  BY <1>2 DEF Plan, ScanInv, Carried, BatchInOrder, LocalsFit, NothingMissed
<1>4. PICK i \in o.batch : (\A j \in o.batch : i <= j) /\ run' = [run EXCEPT ![p] = Taken(o, i)]
  BY <1>2 DEF Plan
<1>5. /\ i \in Visible /\ i \in Ids /\ o.top < i /\ o.batch \subseteq Ids /\ o.top \in Nat
      /\ o.hold \in Nat /\ Visible \subseteq Ids /\ Ids \subseteq Nat
  BY <1>3, <1>4, VisibleIds DEF BatchInOrder, Runs, ScanInv
<1>6. /\ Taken(o, i) \in Runs /\ Taken(o, i).cur = i /\ Taken(o, i).top = i
      /\ Taken(o, i).batch = o.batch \ {i} /\ Taken(o, i).todo = PlannedChannels
      /\ Taken(o, i).pc = (IF PlannedChannels = {} THEN "plan" ELSE "check")
      /\ Taken(o, i).hold = o.hold
  <2>1. PICK b \in SUBSET Ids : b = o.batch \ {i}
    BY <1>5
  <2>2. PICK t \in SUBSET Channels : t = PlannedChannels
    BY DEF PlannedChannels
  <2>3. PICK q \in {"plan", "check"} : q = (IF PlannedChannels = {} THEN "plan" ELSE "check")
    OBVIOUS
  <2>4. Taken(o, i) = [o EXCEPT !.cur = i, !.top = i, !.batch = b, !.todo = t, !.pc = q]
    BY <2>1, <2>2, <2>3 DEF Taken
  <2>5. i \in Nat
    BY <1>5
  <2>6. /\ [o EXCEPT !.cur = i, !.top = i, !.batch = b, !.todo = t, !.pc = q] \in Runs
        /\ [o EXCEPT !.cur = i, !.top = i, !.batch = b, !.todo = t, !.pc = q].hold = o.hold
    BY <1>5, <2>5 DEF Runs
  <2> QED
    BY <2>1, <2>2, <2>3, <2>4, <2>6 DEF Runs
<1>7. PICK r \in Runs :
        /\ r.cur = i /\ r.top = i /\ r.batch = o.batch \ {i} /\ r.todo = PlannedChannels
        /\ r.pc = (IF PlannedChannels = {} THEN "plan" ELSE "check") /\ r.hold = o.hold
        /\ run' = [run EXCEPT ![p] = r]
  BY <1>4, <1>6
<1>8. Visible' = Visible /\ overtaken' = overtaken /\ handled' = handled /\ world' = world
  BY <1>1, StillGrows DEF StillTables
<1>9. \A b \in o.batch \ {i} : i < b
  <2>1. ASSUME NEW b \in o.batch \ {i} PROVE i < b
    <3>1. i \in Nat /\ b \in Nat
      BY <1>5
    <3>2. i <= b /\ i # b
      BY <1>4
    <3> QED
      BY <3>1, <3>2
  <2> QED
    BY <2>1
<1>10. BatchInOrder(r)'
  <2>1. \A k \in Visible \ overtaken, b \in o.batch : i < k /\ k <= b => k \in o.batch \ {i}
    BY <1>3, <1>5 DEF BatchInOrder
  <2> QED
    BY <1>3, <1>7, <1>8, <1>9, <2>1 DEF BatchInOrder
<1>11. LocalsFit(r)'
  BY <1>3, <1>5, <1>7, <1>8 DEF LocalsFit
<1>12. NothingMissed(r)'
  <2>1. PlannedAway(i, r.todo)'
    BY <1>7, <1>8 DEF PlannedAway, PlannedChannels
  <2>2. PlannedChannels = {} => Resolved(i)'
    BY <1>8 DEF Resolved, PlannedChannels
  <2>3. ASSUME NEW k \in Visible \ overtaken, k <= i, k # i
        PROVE  Resolved(k)' \/ (o.hold # 0 /\ o.hold <= k)
    <3>1. k <= o.top
      BY <1>3, <1>4, <1>5, <2>3 DEF BatchInOrder
    <3> QED
      BY <1>3, <1>8, <3>1 DEF NothingMissed, Resolved
  <2> QED
    BY <1>7, <1>8, <2>1, <2>2, <2>3 DEF NothingMissed
<1>13. NoticesTyped'
  BY <1>1, <1>7, RunTyped, RunTypes DEF ScanInv
<1>14. Moves(p, r)
  BY <1>7, <1>10, <1>11, <1>12 DEF Moves, Carried
<1> QED
  BY <1>1, <1>13, <1>14, RunKeepsScan

(* A step of a run changes the locals of that run only.                     *)
LEMMA CheckKeepsScan ==
    ASSUME ProcessorAssumption, ScanInv, NEW p \in Procs, Check(p),
           UNCHANGED <<log, overtaken, world, busy, scan>>
    PROVE  ScanInv'
<1>1. StillTables /\ cursor' = cursor /\ UNCHANGED <<handled, out, lost, faults>>
  BY DEF Check, StillTables
<1>2. PICK o \in Runs : o = run[p]
  BY RunTyped DEF ScanInv
<1>3. o.pc = "check"
  BY <1>2 DEF Check
<1>4. o.todo # {}
  BY <1>2, <1>3, InHand
<1>5. PICK c \in o.todo : c = CHOOSE x \in o.todo : TRUE
  BY <1>4
<1>6. run' = [run EXCEPT ![p] = IF <<o.cur, c>> \in handled THEN Done(o, c)
                                ELSE IF c = Dashboard THEN [o EXCEPT !.pc = "card", !.chan = c]
                                ELSE IF world.muted THEN [o EXCEPT !.pc = "skip", !.chan = c]
                                ELSE IF world.night THEN Hold(o, c)
                                ELSE [o EXCEPT !.pc = "send", !.chan = c]]
  BY <1>2, <1>5 DEF Check, AlreadyHandled
<1>7. ASSUME NEW r \in Runs, run' = [run EXCEPT ![p] = r],
             NoticesTyped' /\ Carried(o)' => Carried(r)'
      PROVE  ScanInv'
  <2>1. NoticesTyped'
    BY <1>1, <1>7, RunTyped, RunTypes DEF ScanInv
  <2>2. Carried(o)'
    BY <1>1, <1>2, <2>1, StillGrows, CarriedStays DEF ScanInv
  <2>3. Moves(p, r)
    BY <1>7, <2>1, <2>2 DEF Moves
  <2> QED
    BY <1>1, <2>1, <2>3, RunKeepsScan
<1>8. o.pc \notin {"idle", "plan"}
  BY <1>3
<1>9. CASE <<o.cur, c>> \in handled
  <2>1. <<o.cur, c>> \in handled'
    BY <1>1, <1>9
  <2>2. Done(o, c) \in Runs
    BY DEF Done, Runs
  <2>3. Carried(o)' => Carried(Done(o, c))'
    BY <1>8, <2>1, DoneCarries
  <2>4. PICK r \in Runs : r = Done(o, c)
    BY <2>2
  <2>5. Carried(o)' => Carried(r)'
    BY <2>3, <2>4
  <2>6. run' = [run EXCEPT ![p] = r]
    BY <1>6, <1>9, <2>4
  <2> QED
    BY <1>7, <2>5, <2>6
<1>10. CASE <<o.cur, c>> \notin handled /\ c # Dashboard /\ ~world.muted /\ world.night
  <2>1. Hold(o, c) \in Runs
    BY HoldTyped
  <2>2. NoticesTyped' /\ Carried(o)' => Carried(Hold(o, c))'
    BY <1>8, HoldCarries
  <2> QED
    BY <1>6, <1>7, <1>10, <2>1, <2>2
<1>11. ASSUME NEW q \in {"card", "skip", "send"},
              run' = [run EXCEPT ![p] = [o EXCEPT !.pc = q, !.chan = c]]
       PROVE  ScanInv'
  <2>1. [o EXCEPT !.pc = q, !.chan = c] \in Runs
    BY DEF Runs
  <2>2. Carried(o)' => Carried([o EXCEPT !.pc = q, !.chan = c])'
    BY <1>8, TurnCarries
  <2> QED
    BY <1>7, <1>11, <2>1, <2>2
<1> QED
  BY <1>6, <1>9, <1>10, <1>11

(* A step that ends with a marker: what the run does next.                  *)
LEMMA MarkKeepsScan ==
    ASSUME ProcessorAssumption, ScanInv, NEW p \in Procs,
           run[p].pc \in {"card", "skip", "send", "mark"},
           UNCHANGED <<log, overtaken, world, busy, scan, cursor, lost, faults>>,
           handled' = Marked(p), out' \in {out, Delivered(p)},
           run' = [run EXCEPT ![p] = Fresh(Done(run[p], run[p].chan))]
    PROVE  ScanInv'
<1>1. PICK o \in Runs : o = run[p]
  BY RunTyped DEF ScanInv
<1>2. o.pc \notin {"idle", "plan", "check"}
  BY <1>1
<1>3. o.cur \in Ids /\ o.chan \in o.todo /\ o.chan \in Channels
  BY <1>1, <1>2, InHand
<1>4. StillTables /\ <<o.cur, o.chan>> \in handled' /\ handled' \subseteq Ids \X Channels
  BY <1>1, <1>3, RunTyped DEF StillTables, Marked, ScanInv
<1>5. PICK d \in Runs : d = Done(o, o.chan)
  BY DEF Done, Runs
<1>6. PICK r \in Runs : r = Fresh(d)
  BY DEF Fresh, Runs
<1>7. run' = [run EXCEPT ![p] = r]
  BY <1>1, <1>5, <1>6
<1>8. out' \in [Channels -> [Ids -> Nat]]
  BY <1>1, <1>3, RunTyped, DeliveredTyped DEF ScanInv
<1>9. NoticesTyped'
  BY <1>4, <1>7, <1>8, RunTyped, RunTypes DEF ScanInv
<1>10. Carried(o)'
  BY <1>1, <1>4, <1>9, StillGrows, CarriedStays DEF ScanInv
<1>11. Carried(Done(o, o.chan))'
  BY <1>2, <1>3, <1>4, <1>10, DoneCarries
<1>12. Carried(d)'
  BY <1>5, <1>11
<1>13. Carried(Fresh(d))'
  BY <1>12, FreshCarries
<1>14. Moves(p, r)
  BY <1>6, <1>7, <1>13 DEF Moves
<1> QED
  BY <1>4, <1>9, <1>14, RunKeepsScan

(* A vendor took the notice, or its answer was lost.                        *)
LEMMA SendOkKeepsScan ==
    ASSUME ProcessorAssumption, ScanInv, NEW p \in Procs, SendOk(p),
           UNCHANGED <<log, overtaken, world, busy, scan>>
    PROVE  ScanInv'
<1>1. PICK o \in Runs : o = run[p]
  BY RunTyped DEF ScanInv
<1>2. o.pc = "send" /\ UNCHANGED <<handled, cursor, lost, faults>> /\ StillTables
  BY <1>1 DEF SendOk, StillTables
<1>3. o.cur \in Ids /\ o.chan \in o.todo /\ o.chan \in Channels
  BY <1>1, <1>2, InHand
<1>4. PICK r \in Runs : r = [o EXCEPT !.pc = "mark", !.chan = o.chan]
  BY DEF Runs
<1>5. r = [o EXCEPT !.pc = "mark"]
  BY <1>4 DEF Runs
<1>6. run' = [run EXCEPT ![p] = r]
  <2>1. run' = [run EXCEPT ![p] = [run[p] EXCEPT !.pc = "mark"]]
    BY DEF SendOk
  <2> QED
    BY <1>1, <1>5, <2>1
<1>7. out' \in [Channels -> [Ids -> Nat]]
  BY <1>1, <1>3, RunTyped, DeliveredTyped DEF ScanInv, SendOk
<1>8. NoticesTyped'
  BY <1>2, <1>6, <1>7, RunTyped, RunTypes DEF ScanInv
<1>9. Carried(o)'
  BY <1>1, <1>2, <1>8, StillGrows, CarriedStays DEF ScanInv
<1>10. Carried([o EXCEPT !.pc = "mark", !.chan = o.chan])'
  BY <1>2, <1>3, <1>9, TurnCarries
<1>11. Moves(p, r)
  BY <1>4, <1>6, <1>10 DEF Moves
<1> QED
  BY <1>2, <1>8, <1>11, RunKeepsScan

(* A transient failure holds the cursor below its event.                    *)
LEMMA SendTransientKeepsScan ==
    ASSUME ProcessorAssumption, ScanInv, NEW p \in Procs, NEW arrived \in BOOLEAN,
           SendTransient(p, arrived), UNCHANGED <<log, overtaken, world, busy, scan>>
    PROVE  ScanInv'
<1>1. PICK o \in Runs : o = run[p]
  BY RunTyped DEF ScanInv
<1>2. o.pc = "send" /\ UNCHANGED <<handled, cursor>> /\ StillTables
  BY <1>1 DEF SendTransient, StillTables
<1>3. o.cur \in Ids /\ o.chan \in o.todo /\ o.chan \in Channels
  BY <1>1, <1>2, InHand
<1>4. PICK d \in Runs : d = Hold(o, o.chan)
  BY HoldTyped
<1>5. PICK r \in Runs : r = Fresh(d)
  BY DEF Fresh, Runs
<1>6. run' = [run EXCEPT ![p] = r]
  BY <1>1, <1>4, <1>5 DEF SendTransient
<1>7. out' \in [Channels -> [Ids -> Nat]] /\ lost' \in Nat /\ faults' \in Nat
  BY <1>1, <1>3, RunTyped, DeliveredTyped DEF ScanInv, SendTransient
<1>8. NoticesTyped'
  BY <1>2, <1>6, <1>7, RunTyped, RunTypes DEF ScanInv
<1>9. Carried(o)'
  BY <1>1, <1>2, <1>8, StillGrows, CarriedStays DEF ScanInv
<1>10. Carried(Hold(o, o.chan))'
  BY <1>2, <1>3, <1>8, <1>9, HoldCarries
<1>11. Carried(d)'
  BY <1>4, <1>10
<1>12. Carried(Fresh(d))'
  BY <1>11, FreshCarries
<1>13. Moves(p, r)
  BY <1>5, <1>6, <1>12 DEF Moves
<1> QED
  BY <1>2, <1>8, <1>13, RunKeepsScan

(* The cursor moves to what is resolved and no further.                     *)
LEMMA SaveKeepsScan ==
    ASSUME ProcessorAssumption, ScanInv, NEW p \in Procs, SaveCursor(p),
           UNCHANGED <<log, overtaken, world, busy, scan>>
    PROVE  ScanInv'
<1>1. PICK o \in Runs : o = run[p]
  BY RunTyped DEF ScanInv
<1>2. /\ o.pc = "plan" /\ UNCHANGED <<handled, out, lost, faults>>
      /\ run' = [run EXCEPT ![p] = Idle] /\ cursor' \in {cursor, NewLast(o)}
  BY <1>1 DEF SaveCursor
<1>3. LocalsFit(o) /\ NothingMissed(o)
  BY <1>1, <1>2 DEF ScanInv, Carried, LocalsFit, NothingMissed
<1>4. /\ o.top \in Nat /\ o.hold \in Nat /\ Visible \subseteq Nat /\ cursor \in Nat
  BY VisibleIds DEF Runs, ScanInv, NoticesTyped, TypeOK
<1>5. /\ NewLast(o) \in Nat /\ NewLast(o) <= o.top
      /\ o.hold # 0 => NewLast(o) < o.hold
  BY <1>3, <1>4 DEF NewLast, LocalsFit
<1>6. StillTables /\ Visible' = Visible /\ overtaken' = overtaken /\ Grows
  BY <1>2, StillGrows DEF StillTables
<1>7. NoticesTyped'
  BY <1>2, <1>5, IdleCarries, RunTyped, RunTypes DEF ScanInv
<1>8. NoSilentDrop' /\ CursorSeen'
  <2>1. CASE cursor' = cursor
    BY <1>6, <1>7, <2>1, CursorStays DEF ScanInv
  <2>2. CASE cursor' = NewLast(o)
    <3>1. ASSUME NEW i \in Visible \ overtaken, i <= NewLast(o) PROVE Resolved(i)
      <4>1. i \in Nat /\ i <= o.top
        BY <1>4, <1>5, <3>1
      <4>2. ~(o.hold # 0 /\ o.hold <= i)
        BY <1>4, <1>5, <3>1, <4>1
      <4> QED
        BY <1>2, <1>3, <4>1, <4>2 DEF NothingMissed
    <3>2. NoSilentDrop'
      BY <1>6, <2>2, <3>1, ResolvedStays DEF NoSilentDrop
    <3>3. NewLast(o) = 0 \/ \E j \in Visible : NewLast(o) <= j
      BY <1>3, <1>4, <1>5 DEF LocalsFit
    <3> QED
      BY <1>6, <2>2, <3>2, <3>3 DEF CursorSeen
  <2> QED
    BY <1>2, <2>1, <2>2
<1>9. Moves(p, Idle)
  BY <1>2, IdleCarries DEF Moves
<1> QED
  BY <1>6, <1>7, <1>8, <1>9, IdleCarries, RunMoves

(* A run that dies leaves the cursor as it is.                              *)
LEMMA CrashKeepsScan ==
    ASSUME ProcessorAssumption, ScanInv, NEW p \in Procs, Crash(p),
           UNCHANGED <<log, overtaken, world, busy, scan>>
    PROVE  ScanInv'
<1>1. /\ run' = [run EXCEPT ![p] = Idle] /\ UNCHANGED <<handled, out, cursor>>
      /\ lost' \in Nat /\ faults' \in Nat
  BY RunTyped DEF Crash, ScanInv
<1>2. StillTables
  BY <1>1 DEF StillTables
<1>3. NoticesTyped'
  BY <1>1, IdleCarries, RunTyped, RunTypes DEF ScanInv
<1>4. Moves(p, Idle)
  BY <1>1, IdleCarries DEF Moves
<1> QED
  BY <1>1, <1>2, <1>3, <1>4, IdleCarries, RunKeepsScan

(* The inductive invariant of the scan holds and is kept.                   *)
LEMMA ScanInit == ASSUME ProcessorAssumption, Init PROVE ScanInv
<1>1. log = << >> /\ Visible = {}
  BY DEF Init, Visible
<1>2. run \in [Procs -> Runs] /\ \A p \in Procs : run[p] = Idle
  BY IdleCarries DEF Init
<1>3. \A p \in Procs : Carried(run[p])
  BY <1>2 DEF Carried, Idle
<1>4. out \in [Channels -> [Ids -> Nat]] /\ world \in Worlds
  BY DEF Init, Worlds
<1>5. TypeOK /\ Len(log) <= MaxEvents
  BY <1>1, <1>2, <1>4 DEF Init, TypeOK, ProcessorAssumption
<1> QED
  BY <1>1, <1>3, <1>5 DEF ScanInv, NoticesTyped, NoSilentDrop, CursorSeen, Init

(* The invariant of the scan is inductive.                                  *)
LEMMA ScanStep == ASSUME ProcessorAssumption, ScanInv, [Next]_vars PROVE ScanInv'
<1>1. ASSUME NEW w \in Writers, Write(w) PROVE ScanInv'
  <2>1. NoticesTyped' /\ Grows
    BY <1>1, WritesGrow DEF ScanInv
  <2> QED
    BY <1>1, <2>1, ScanStays DEF Write
<1>2. ASSUME NEW p \in Procs, Process(p) PROVE ScanInv'
  <2>1. CASE Commit(p)
    BY <1>2, <2>1, MarkKeepsScan DEF Process, Commit
  <2>2. CASE SendPermanent(p)
    BY <1>2, <2>2, MarkKeepsScan DEF Process, SendPermanent
  <2> QED
    BY <1>2, <2>1, <2>2, LoadKeepsScan, PlanKeepsScan, SaveKeepsScan, CheckKeepsScan,
       SendOkKeepsScan DEF Process
<1>3. ASSUME NEW p \in Procs, Fail(p) PROVE ScanInv'
  BY <1>3, CrashKeepsScan, SendTransientKeepsScan DEF Fail
<1>4. CASE World \/ Morning
  BY <1>4, WorldGrows, ScanStays DEF ScanInv
<1>5. CASE UNCHANGED vars
  <2>1. UNCHANGED <<cursor, run>> /\ NoticesTyped'
    BY <1>5 DEF vars, ScanInv, NoticesTyped, TypeOK
  <2>2. Grows
    BY <1>5 DEF vars, Grows, Visible
  <2> QED
    BY <2>1, <2>2, ScanStays
<1> QED
  BY <1>1, <1>2, <1>3, <1>4, <1>5 DEF Next

(* Who has told what.                                                       *)

(* Sums of weights that are at most n more than others, where not zero.     *)
LEMMA SumWithin ==
    ASSUME NEW S, IsFiniteSet(S), NEW w \in [S -> Nat], NEW v \in [S -> Nat], NEW n \in Nat,
           NEW V \in SUBSET S, \A x \in V : w[x] <= v[x] + n, \A x \in S \ V : w[x] = 0
    PROVE  SumOf(w, S) <= SumOf(v, S) + Cardinality(V) * n
<1> DEFINE I == 1..n
           f == [z \in V \X I |-> <<z[1], v[z[1]] + z[2]>>]
           More == {f[z] : z \in V \X I}
           UW == Units(w, S)
           UV == Units(v, S)
<1>1. IsFiniteSet(I) /\ Cardinality(I) = n
  BY FS_Interval
<1>2. IsFiniteSet(V)
  BY FS_Subset
<1>3. IsFiniteSet(V \X I) /\ Cardinality(V \X I) = Cardinality(V) * n
  <2> HIDE DEF I
  <2> QED
    BY <1>1, <1>2, FS_Product
<1>4. f \in Surjection(V \X I, More)
  BY DEF Surjection
<1>5. IsFiniteSet(More) /\ Cardinality(More) <= Cardinality(V) * n
  <2> HIDE DEF More, I
  <2> QED
    BY <1>3, <1>4, FS_Surjection
<1>6. IsFiniteSet(UV) /\ IsFiniteSet(UW)
  BY UnitsFinite
<1>7. UW \subseteq UV \cup More
  <2>1. ASSUME NEW x \in S, NEW j \in 1..w[x] PROVE <<x, j>> \in UV \cup More
    <3>1. x \in V
      BY <2>1
    <3>2. w[x] \in Nat /\ v[x] \in Nat /\ w[x] <= v[x] + n /\ j \in Nat /\ 1 <= j /\ j <= w[x]
      BY <2>1, <3>1
    <3>3. CASE j <= v[x]
      <4>1. <<x, j>> \in UnitsOf(x, v[x])
        BY <3>2, <3>3 DEF UnitsOf
      <4> QED
        BY <4>1 DEF Units
    <3>4. CASE j > v[x]
      <4>1. j - v[x] \in I /\ v[x] + (j - v[x]) = j
        BY <3>2, <3>4
      <4>2. PICK d \in I : v[x] + d = j
        BY <4>1
      <4>3. <<x, d>> \in V \X I /\ f[<<x, d>>] = <<x, j>>
        BY <3>1, <4>2
      <4> QED
        BY <4>3
    <3> QED
      BY <3>2, <3>3, <3>4
  <2> HIDE DEF More, UV
  <2>2. UW = UNION {{x} \X (1..w[x]) : x \in S}
    BY DEF Units, UnitsOf
  <2> QED
    BY <2>1, <2>2
<1> HIDE DEF I, f, More, UW, UV
<1>8. IsFiniteSet(UV \cup More)
  BY <1>5, <1>6, FS_Union
<1>9. Cardinality(UW) <= Cardinality(UV \cup More)
  BY <1>7, <1>8, FS_Subset
<1>10. Cardinality(UV \cup More) <= Cardinality(UV) + Cardinality(More)
  <2>1. Cardinality(UV \cup More) = Cardinality(UV) + Cardinality(More) - Cardinality(UV \cap More)
    BY <1>5, <1>6, FS_Union
  <2>2. IsFiniteSet(UV \cap More)
    BY <1>6, FS_Subset
  <2>3. Cardinality(UV \cap More) \in Nat /\ Cardinality(UV) \in Nat /\ Cardinality(More) \in Nat
    BY <1>5, <1>6, <2>2, FS_CardinalityType
  <2> QED
    BY <2>1, <2>3
<1>11. Cardinality(UW) \in Nat /\ Cardinality(UV) \in Nat /\ Cardinality(More) \in Nat
       /\ Cardinality(UV \cup More) \in Nat /\ Cardinality(V) \in Nat
  BY <1>2, <1>5, <1>6, <1>8, FS_CardinalityType
<1>12. Cardinality(V) * n \in Nat
  BY <1>11
<1> QED
  BY <1>5, <1>9, <1>10, <1>11, <1>12 DEF UW, UV, SumOf

(* One weight grows by one.                                                 *)
LEMMA SumGrowsByOne ==
    ASSUME NEW S, IsFiniteSet(S), NEW w \in [S -> Nat], NEW v \in [S -> Nat], NEW x \in S,
           v[x] = w[x] + 1, \A y \in S \ {x} : v[y] = w[y]
    PROVE  SumOf(v, S) = SumOf(w, S) + 1
<1>1. SumOf(v, S) = v[x] + SumOf(v, S \ {x}) /\ SumOf(w, S) = w[x] + SumOf(w, S \ {x})
  BY SumStep
<1>2. SumOf(v, S \ {x}) = SumOf(w, S \ {x})
  BY SumSame
<1>3. SumOf(w, S \ {x}) \in Nat
  BY SumShrinks
<1> QED
  BY <1>1, <1>2, <1>3

(* No weight is more than the sum.                                          *)
LEMMA SumHasAll ==
    ASSUME NEW S, IsFiniteSet(S), NEW w \in [S -> Nat], NEW x \in S
    PROVE  w[x] <= SumOf(w, S)
<1>1. SumOf(w, S) = w[x] + SumOf(w, S \ {x})
  BY SumStep
<1>2. SumOf(w, S \ {x}) \in Nat
  BY SumShrinks
<1> QED
  BY <1>1, <1>2

(* A factor that grows.                                                     *)
LEMMA ProductGrows ==
    ASSUME NEW a \in Nat, NEW b \in Nat, NEW n \in Nat, a <= b
    PROVE  a * n <= b * n
<1>1. PICK d \in Nat : b = a + d
  <2>1. b - a \in Nat /\ b = a + (b - a)
    OBVIOUS
  <2> QED
    BY <2>1
<1>2. b * n = a * n + d * n /\ d * n \in Nat /\ a * n \in Nat
  BY <1>1
<1> QED
  BY <1>2

(* A bound on the events bounds the ids.                                     *)
LEMMA IdsFinite == ASSUME ProcessorAssumption PROVE IsFiniteSet(Ids)
<1>1. 1 \in Int /\ MaxEvents \in Int
  BY DEF ProcessorAssumption
<1> QED
  BY <1>1, FS_Interval DEF Ids

(* The notice a run works on.                                               *)
Works(r, steps, i, c) == r.pc \in steps /\ r.cur = i /\ r.chan = c

(* Why a borrower was told as often as he was: of notice i on channel c,    *)
(* L[c][i] answers or commits were lost and the runs of T[c][i] told him,   *)
(* each once.  They do not tell him again, and unless one of them has put   *)
(* the marker they are all about to.                                        *)
Account(A, L, T) ==
    /\ \A c \in Channels : SumOf(L[c], Ids) <= lost
    /\ \A c \in Channels, i \in Ids : out[c][i] <= L[c][i] + Cardinality(T[c][i])
    /\ \A c \in Channels, i \in Ids : \A p \in T[c][i] :
         /\ ~Works(run[p], {"card", "send"}, i, c)
         /\ <<i, c>> \in handled \/ Works(run[p], {"mark"}, i, c)

Losses   == [Channels -> [Ids -> Nat]]
Tells(A) == [Channels -> [Ids -> SUBSET A]]

Accounted(A) == \E L \in Losses, T \in Tells(A) : Account(A, L, T)

(* Nobody tells or loses anything.                                          *)
Quiet(A) ==
    /\ UNCHANGED <<out, lost>> /\ handled \subseteq handled'
    /\ \A q \in A, i \in Ids, c \in Channels :
         /\ Works(run'[q], {"card", "send"}, i, c) =>
              \/ Works(run[q], {"card", "send"}, i, c)
              \/ <<i, c>> \notin handled /\ run[q].pc = "check"
         /\ Works(run[q], {"mark"}, i, c) =>
              Works(run'[q], {"mark"}, i, c) \/ <<i, c>> \in handled'

(* A step that sends nothing and loses nothing.                             *)
LEMMA QuietAccounts ==
    ASSUME NEW A, Accounted(A), Quiet(A)
    PROVE  Accounted(A)'
<1>1. PICK L \in Losses, T \in Tells(A) : Account(A, L, T)
  BY DEF Accounted
<1>2. ASSUME NEW c \in Channels, NEW i \in Ids, NEW p \in T[c][i]
      PROVE  /\ ~Works(run'[p], {"card", "send"}, i, c)
             /\ <<i, c>> \in handled' \/ Works(run'[p], {"mark"}, i, c)
  <2>1. p \in A
    BY DEF Tells
  <2>2. /\ ~Works(run[p], {"card", "send"}, i, c)
        /\ <<i, c>> \in handled \/ Works(run[p], {"mark"}, i, c)
    BY <1>1 DEF Account
  <2>3. <<i, c>> \in handled \/ run[p].pc # "check"
    BY <2>2 DEF Works
  <2> QED
    BY <2>1, <2>2, <2>3 DEF Quiet
<1>3. Account(A, L, T)'
  BY <1>1, <1>2 DEF Account, Quiet, Works
<1> QED
  BY <1>3 DEF Accounted

(* Run p tells of the notice and marks it, now or next.                     *)
TellsOnce(p, r, i, c) ==
    /\ Works(run[p], {"card", "send"}, i, c)
    /\ run' = [run EXCEPT ![p] = r] /\ r.pc \notin {"card", "send"}
    /\ Works(r, {"mark"}, i, c) \/ <<i, c>> \in handled'
    /\ handled \subseteq handled' /\ lost' = lost

(* The notice reaches him.                                                  *)
Reaches(i, c) ==
    \A d \in Channels, j \in Ids :
        out'[d][j] = IF d = c /\ j = i THEN out[d][j] + 1 ELSE out[d][j]

(* A send, paid for by the run that holds the event.                        *)
LEMMA TellAccounts ==
    ASSUME NEW A, IsFiniteSet(A), Accounted(A), run \in [Procs -> Runs],
           out \in [Channels -> [Ids -> Nat]],
           NEW p \in A, p \in Procs, NEW r \in Runs, NEW i \in Ids, NEW c \in Channels,
           TellsOnce(p, r, i, c), Reaches(i, c)
    PROVE  Accounted(A)'
<1>1. PICK L \in Losses, T \in Tells(A) : Account(A, L, T)
  BY DEF Accounted
<1>2. PICK U \in Tells(A) : \A d \in Channels, j \in Ids :
        U[d][j] = IF d = c /\ j = i THEN T[d][j] \cup {p} ELSE T[d][j]
  <2> DEFINE W == [d \in Channels |-> [j \in Ids |->
                     IF d = c /\ j = i THEN T[d][j] \cup {p} ELSE T[d][j]]]
  <2>1. W \in Tells(A)
    BY DEF Tells
  <2> QED
    BY <2>1
<1>3. p \notin T[c][i]
  BY <1>1 DEF Account, TellsOnce
<1>4. Cardinality(U[c][i]) = Cardinality(T[c][i]) + 1
  <2>1. T[c][i] \in SUBSET A /\ U[c][i] = T[c][i] \cup {p}
    BY <1>2 DEF Tells
  <2>2. IsFiniteSet(T[c][i])
    BY <2>1, FS_Subset
  <2> QED
    BY <1>3, <2>1, <2>2, FS_AddElement
<1>5. ASSUME NEW d \in Channels, NEW j \in Ids
      PROVE  out'[d][j] <= L[d][j] + Cardinality(U[d][j])
  <2>1. /\ out[d][j] <= L[d][j] + Cardinality(T[d][j]) /\ out[d][j] \in Nat
        /\ L[d][j] \in Nat
    BY <1>1 DEF Account, Losses
  <2>2. Cardinality(T[d][j]) \in Nat
    BY FS_Subset, FS_CardinalityType DEF Tells
  <2>3. CASE d = c /\ j = i
    <3>1. Cardinality(U[d][j]) = Cardinality(T[d][j]) + 1 /\ out'[d][j] = out[d][j] + 1
      BY <1>4, <2>3 DEF Reaches
    <3> QED
      BY <2>1, <2>2, <3>1
  <2>4. CASE ~(d = c /\ j = i)
    BY <1>2, <2>1, <2>4 DEF Reaches
  <2> QED
    BY <2>3, <2>4
<1>6. ASSUME NEW d \in Channels, NEW j \in Ids, NEW q \in U[d][j]
      PROVE  /\ ~Works(run'[q], {"card", "send"}, j, d)
             /\ <<j, d>> \in handled' \/ Works(run'[q], {"mark"}, j, d)
  <2>1. CASE q = p
    <3>1. run'[p] = r
      BY DEF TellsOnce
    <3>2. CASE d = c /\ j = i
      BY <2>1, <3>1, <3>2 DEF TellsOnce, Works
    <3>3. CASE ~(d = c /\ j = i)
      <4>1. q \in T[d][j]
        BY <1>2, <3>3
      <4>2. <<j, d>> \in handled \/ Works(run[p], {"mark"}, j, d)
        BY <1>1, <2>1, <4>1 DEF Account
      <4> QED
        BY <2>1, <3>1, <4>2 DEF TellsOnce, Works
    <3> QED
      BY <3>2, <3>3
  <2>2. CASE q # p
    <3>1. q \in T[d][j]
      BY <1>2, <2>2
    <3>2. run'[q] = run[q]
      BY <2>2 DEF TellsOnce
    <3>3. /\ ~Works(run[q], {"card", "send"}, j, d)
          /\ <<j, d>> \in handled \/ Works(run[q], {"mark"}, j, d)
      BY <1>1, <3>1 DEF Account
    <3> QED
      BY <3>2, <3>3 DEF TellsOnce
  <2> QED
    BY <2>1, <2>2
<1>7. \A d \in Channels : SumOf(L[d], Ids) <= lost'
  BY <1>1 DEF Account, TellsOnce
<1>8. Account(A, L, U)'
  BY <1>5, <1>6, <1>7 DEF Account, Works
<1> QED
  BY <1>8 DEF Accounted

(* An answer or a commit is lost, after the notice may have reached him.    *)
LosesIt(p, r, i, c) ==
    /\ run' = [run EXCEPT ![p] = r] /\ r.pc \notin {"card", "send", "mark"}
    /\ handled' = handled /\ lost' = lost + 1
    /\ \/ Works(run[p], {"mark"}, i, c) /\ out' = out
       \/ Works(run[p], {"send"}, i, c) /\ Reaches(i, c)

(* A send whose answer or marker is lost, paid for by lost.                 *)
LEMMA LossAccounts ==
    ASSUME ProcessorAssumption, NEW A, IsFiniteSet(A), Accounted(A), run \in [Procs -> Runs],
           out \in [Channels -> [Ids -> Nat]], lost \in Nat,
           NEW p \in A, p \in Procs, NEW r \in Runs, NEW i \in Ids, NEW c \in Channels,
           LosesIt(p, r, i, c)
    PROVE  Accounted(A)'
<1>1. PICK L \in Losses, T \in Tells(A) : Account(A, L, T)
  BY DEF Accounted
<1>2. PICK U \in Tells(A) : \A d \in Channels, j \in Ids :
        U[d][j] = IF d = c /\ j = i THEN T[d][j] \ {p} ELSE T[d][j]
  <2> DEFINE W == [d \in Channels |-> [j \in Ids |->
                     IF d = c /\ j = i THEN T[d][j] \ {p} ELSE T[d][j]]]
  <2>1. W \in Tells(A)
    BY DEF Tells
  <2> QED
    BY <2>1
<1>3. PICK M \in Losses : \A d \in Channels, j \in Ids :
        M[d][j] = IF d = c /\ j = i THEN L[d][j] + 1 ELSE L[d][j]
  <2> DEFINE W == [d \in Channels |-> [j \in Ids |->
                     IF d = c /\ j = i THEN L[d][j] + 1 ELSE L[d][j]]]
  <2>1. W \in Losses
    BY DEF Losses
  <2> QED
    BY <2>1
<1>4. ASSUME NEW d \in Channels, NEW j \in Ids
      PROVE  out'[d][j] <= M[d][j] + Cardinality(U[d][j])
  <2>1. /\ out[d][j] <= L[d][j] + Cardinality(T[d][j]) /\ out[d][j] \in Nat
        /\ L[d][j] \in Nat
    BY <1>1 DEF Account, Losses
  <2>2. Cardinality(T[d][j]) \in Nat /\ IsFiniteSet(T[d][j])
    BY FS_Subset, FS_CardinalityType DEF Tells
  <2>3. CASE d = c /\ j = i
    <3>1. U[d][j] = T[d][j] \ {p} /\ M[d][j] = L[d][j] + 1
      BY <1>2, <1>3, <2>3
    <3>2. Cardinality(U[d][j]) = IF p \in T[d][j] THEN Cardinality(T[d][j]) - 1
                                 ELSE Cardinality(T[d][j])
      BY <2>2, <3>1, FS_RemoveElement
    <3>3. CASE out' = out
      BY <2>1, <2>2, <3>1, <3>2, <3>3
    <3>4. CASE Works(run[p], {"send"}, i, c) /\ Reaches(i, c)
      <4>1. p \notin T[d][j]
        BY <1>1, <2>3, <3>4 DEF Account, Works
      <4>2. out'[d][j] = out[d][j] + 1
        BY <2>3, <3>4 DEF Reaches
      <4> QED
        BY <2>1, <2>2, <3>1, <3>2, <4>1, <4>2
    <3> QED
      BY <3>3, <3>4 DEF LosesIt
  <2>4. CASE ~(d = c /\ j = i)
    <3>1. out'[d][j] = out[d][j]
      BY <2>4 DEF LosesIt, Reaches
    <3> QED
      BY <1>2, <1>3, <2>1, <2>4, <3>1
  <2> QED
    BY <2>3, <2>4
<1>5. ASSUME NEW d \in Channels, NEW j \in Ids, NEW q \in U[d][j]
      PROVE  /\ ~Works(run'[q], {"card", "send"}, j, d)
             /\ <<j, d>> \in handled' \/ Works(run'[q], {"mark"}, j, d)
  <2>1. q \in T[d][j] /\ ~(q = p /\ d = c /\ j = i)
    BY <1>2
  <2>2. /\ ~Works(run[q], {"card", "send"}, j, d)
        /\ <<j, d>> \in handled \/ Works(run[q], {"mark"}, j, d)
    BY <1>1, <2>1 DEF Account
  <2>3. CASE q = p
    <3>1. run'[p] = r
      BY DEF LosesIt
    <3>2. ~Works(run[p], {"mark"}, j, d)
      BY <2>1, <2>3 DEF LosesIt, Works
    <3> QED
      BY <2>2, <2>3, <3>1, <3>2 DEF LosesIt, Works
  <2>4. CASE q # p
    <3>1. run'[q] = run[q]
      BY <2>4 DEF LosesIt
    <3> QED
      BY <2>2, <3>1 DEF LosesIt
  <2> QED
    BY <2>3, <2>4
<1>6. ASSUME NEW d \in Channels PROVE SumOf(M[d], Ids) <= lost'
  <2>1. IsFiniteSet(Ids)
    BY IdsFinite
  <2>2. L[d] \in [Ids -> Nat] /\ M[d] \in [Ids -> Nat]
    BY DEF Losses
  <2>3. SumOf(L[d], Ids) <= lost /\ SumOf(L[d], Ids) \in Nat
    BY <1>1, <2>1, <2>2, UnitsFinite DEF Account
  <2>4. CASE d = c
    <3>1. M[d][i] = L[d][i] + 1 /\ \A y \in Ids \ {i} : M[d][y] = L[d][y]
      BY <1>3, <2>4
    <3>2. SumOf(M[d], Ids) = SumOf(L[d], Ids) + 1
      BY <2>1, <2>2, <3>1, SumGrowsByOne
    <3> QED
      BY <2>3, <3>2 DEF LosesIt
  <2>5. CASE d # c
    <3>1. SumOf(M[d], Ids) = SumOf(L[d], Ids)
      BY <1>3, <2>5, SumSame
    <3> QED
      BY <2>3, <3>1 DEF LosesIt
  <2> QED
    BY <2>4, <2>5
<1>7. Account(A, M, U)'
  BY <1>4, <1>5, <1>6 DEF Account, Works
<1> QED
  BY <1>7 DEF Accounted

(* A run moves without telling or losing anything.                          *)
Passes(p, r) ==
    /\ run' = [run EXCEPT ![p] = r]
    /\ UNCHANGED <<out, lost>> /\ handled \subseteq handled'
    /\ r.pc \in {"card", "send"} => run[p].pc = "check" /\ <<r.cur, r.chan>> \notin handled
    /\ run[p].pc = "mark" => <<run[p].cur, run[p].chan>> \in handled'

(* A run goes on with an event that it holds.                               *)
LEMMA PassAccounts ==
    ASSUME NEW A \in SUBSET Procs, Accounted(A), run \in [Procs -> Runs],
           NEW p \in Procs, NEW r \in Runs, Passes(p, r)
    PROVE  Accounted(A)'
<1>1. ASSUME NEW q \in A, NEW i \in Ids, NEW c \in Channels
      PROVE  /\ Works(run'[q], {"card", "send"}, i, c) =>
                  \/ Works(run[q], {"card", "send"}, i, c)
                  \/ <<i, c>> \notin handled /\ run[q].pc = "check"
             /\ Works(run[q], {"mark"}, i, c) =>
                  Works(run'[q], {"mark"}, i, c) \/ <<i, c>> \in handled'
  <2>1. CASE q = p
    <3>1. run'[q] = r /\ run[q] = run[p]
      BY <2>1 DEF Passes
    <3> QED
      BY <3>1 DEF Passes, Works
  <2>2. CASE q # p
    <3>1. run'[q] = run[q]
      BY <2>2 DEF Passes
    <3> QED
      BY <3>1 DEF Works
  <2> QED
    BY <2>1, <2>2
<1>2. Quiet(A)
  BY <1>1 DEF Quiet, Passes
<1> QED
  BY <1>2, QuietAccounts

(* A milestone is emitted by scans only, and once by each unless its event  *)
(* was rolled back.                                                         *)
Live(i) == i \in DOMAIN log /\ log[i].st # "void" /\ log[i].key # None
KeysOnce ==
    /\ \A i \in DOMAIN log : log[i].key # None => log[i].by \in Scanners
    /\ \A i, j : Live(i) /\ Live(j) /\ log[i].key = log[j].key /\ log[i].by = log[j].by => i = j

(* Only what is visible has been told.                                      *)
ToldSeen == \A c \in Channels, i \in Ids : out[c][i] > 0 => i \in Visible

(* The inductive invariant, for the runs A that move.                       *)
TellInv(A) ==
    /\ ScanInv /\ KeysOnce /\ ToldSeen /\ Accounted(A)
    /\ \A p \in Procs \ A : run[p].pc = "idle"

(* The log holds events.                                                    *)
LEMMA LogHoldsEvents == ASSUME ScanInv PROVE \A i \in DOMAIN log : log[i] \in Events
<1>1. log \in Seq(Events)
  BY DEF ScanInv, NoticesTyped, TypeOK, Events
<1> QED
  BY <1>1

(* Writers keep it that way.                                                *)
LEMMA EmitKeepsKeys ==
    ASSUME ProcessorAssumption, ScanInv, KeysOnce, NEW w \in Writers,
           NEW k \in Keys \cup {None}, Emit(w, k),
           k # None => w \in Scanners /\ ~AlreadyEmitted(w, k)
    PROVE  KeysOnce'
<1> DEFINE n == Len(log')
<1>1. /\ \A i \in DOMAIN log : i \in DOMAIN log' /\ log'[i] = log[i]
      /\ \A i \in DOMAIN log' : i \in DOMAIN log \/ i = n
      /\ log'[n] = [key |-> k, by |-> w, st |-> "open"]
  BY EmitAppends DEF ScanInv
<1>2. log'[n].key = k /\ log'[n].by = w
  BY <1>1
<1> HIDE DEF n
<1>3. ASSUME NEW i \in DOMAIN log, Live(i), log[i].key = k, log[i].by = w PROVE FALSE
  <2>1. k # None
    BY <1>3 DEF Live
  <2>2. log[i] \in Events
    BY LogHoldsEvents
  <2>3. log[i].st = "open" \/ log[i].st = "visible"
    BY <1>3, <2>2 DEF Events, Live
  <2>4. i \in Visible \cup OpenBy(w)
    BY <1>3, <2>3 DEF Visible, OpenBy
  <2> QED
    BY <1>3, <2>1, <2>4 DEF AlreadyEmitted
<1>4. \A i \in DOMAIN log' : log'[i].key # None => log'[i].by \in Scanners
  BY <1>1, <1>2 DEF KeysOnce
<1>5. ASSUME NEW i, NEW j, Live(i)', Live(j)', log'[i].key = log'[j].key, log'[i].by = log'[j].by
      PROVE  i = j
  <2>1. (i \in DOMAIN log \/ i = n) /\ (j \in DOMAIN log \/ j = n)
    BY <1>1, <1>5 DEF Live
  <2>2. i \in DOMAIN log => Live(i) /\ log'[i] = log[i]
    BY <1>1, <1>5 DEF Live
  <2>3. j \in DOMAIN log => Live(j) /\ log'[j] = log[j]
    BY <1>1, <1>5 DEF Live
  <2>4. CASE i \in DOMAIN log /\ j \in DOMAIN log
    BY <1>5, <2>2, <2>3, <2>4 DEF KeysOnce
  <2>5. CASE i \in DOMAIN log /\ j = n
    BY <1>2, <1>3, <1>5, <2>2, <2>5
  <2>6. CASE j \in DOMAIN log /\ i = n
    BY <1>2, <1>3, <1>5, <2>3, <2>6
  <2> QED
    BY <2>1, <2>4, <2>5, <2>6
<1> QED
  BY <1>4, <1>5 DEF KeysOnce

(* The end of a writer's transaction adds no event of a milestone.          *)
LEMMA EndKeepsKeys ==
    ASSUME ProcessorAssumption, ScanInv, KeysOnce, NEW w \in Writers,
           NEW st \in {"visible", "void"}, EndTransaction(w, st)
    PROVE  KeysOnce'
<1>1. /\ DOMAIN log' = DOMAIN log
      /\ \A i \in DOMAIN log : i \notin OpenBy(w) => log'[i] = log[i]
      /\ \A i \in OpenBy(w) : log'[i] = [log[i] EXCEPT !.st = st]
  BY EndRewrites DEF ScanInv
<1>2. \A i \in DOMAIN log : log[i] \in Events
  BY LogHoldsEvents
<1>3. ASSUME NEW i \in DOMAIN log
      PROVE  log'[i].key = log[i].key /\ log'[i].by = log[i].by
  <2>1. PICK e \in Events : e = log[i]
    BY <1>2
  <2>2. log'[i] \in {e, [e EXCEPT !.st = st]}
    BY <1>1, <2>1
  <2> QED
    BY <2>1, <2>2 DEF Events
<1>4. \A i : Live(i)' => Live(i)
  BY <1>1, <1>3 DEF Live, OpenBy
<1>5. \A i \in DOMAIN log' : log'[i].key # None => log'[i].by \in Scanners
  BY <1>1, <1>3 DEF KeysOnce
<1>6. \A i, j : Live(i)' /\ Live(j)' /\ log'[i].key = log'[j].key /\ log'[i].by = log'[j].by
                  => i = j
  BY <1>1, <1>3, <1>4 DEF KeysOnce, Live
<1> QED
  BY <1>5, <1>6 DEF KeysOnce

(* No write lets a scan emit a milestone twice.                             *)
LEMMA WriteKeepsKeys ==
    ASSUME ProcessorAssumption, ScanInv, KeysOnce, NEW w \in Writers, Write(w)
    PROVE  KeysOnce'
<1>1. ASSUME UNCHANGED log PROVE KeysOnce'
  BY <1>1 DEF KeysOnce, Live
<1>2. CASE w \in Scanners /\ StartScan(w)
  BY <1>1, <1>2 DEF StartScan
<1>3. ASSUME w \in Scanners, NEW k \in Keys, ScanKey(w, k) PROVE KeysOnce'
  <2>1. CASE AlreadyEmitted(w, k)
    BY <1>1, <1>3, <2>1 DEF ScanKey
  <2>2. CASE ~AlreadyEmitted(w, k)
    BY <1>3, <2>2, EmitKeepsKeys DEF ScanKey
  <2> QED
    BY <2>1, <2>2
<1>4. CASE HandlerEmits(w)
  BY <1>4, EmitKeepsKeys DEF HandlerEmits
<1>5. CASE CommitWriter(w)
  BY <1>5, EndKeepsKeys DEF CommitWriter
<1>6. CASE RollbackWriter(w)
  BY <1>6, EndKeepsKeys DEF RollbackWriter
<1> QED
  BY <1>2, <1>3, <1>4, <1>5, <1>6 DEF Write

(* A notice that reaches him is one of a visible event.                     *)
LEMMA SeenStays ==
    ASSUME ToldSeen, UNCHANGED log, out' = out \/ \E i \in Visible, c \in Channels : Reaches(i, c)
    PROVE  ToldSeen'
<1>1. Visible' = Visible
  BY DEF Visible
<1>2. CASE out' = out
  BY <1>1, <1>2 DEF ToldSeen
<1>3. ASSUME NEW i \in Visible, NEW c \in Channels, Reaches(i, c) PROVE ToldSeen'
  BY <1>1, <1>3 DEF ToldSeen, Reaches
<1> QED
  BY <1>2, <1>3

(* What a run delivers reaches the borrower.                                *)
LEMMA DeliveryReaches ==
    ASSUME ProcessorAssumption, ScanInv, NEW p \in Procs,
           run[p].pc \in {"card", "send"}, out' = Delivered(p)
    PROVE  Reaches(run[p].cur, run[p].chan)
<1>1. PICK o \in Runs : o = run[p]
  BY RunTyped DEF ScanInv
<1>2. o.cur \in Ids /\ o.chan \in Channels
  BY <1>1, InHand
<1>3. \A d \in Channels, j \in Ids :
        Delivered(p)[d][j] = IF d = o.chan /\ j = o.cur THEN out[d][j] + 1 ELSE out[d][j]
  BY <1>1, <1>2, DeliveredTyped DEF ScanInv, NoticesTyped, TypeOK
<1> QED
  BY <1>1, <1>3 DEF Reaches

(* A run that is done with a notice plans or checks the next.               *)
LEMMA DoneTurns ==
    ASSUME NEW o \in Runs, NEW c
    PROVE  /\ Done(o, c) \in Runs /\ Done(o, c).pc \in {"plan", "check"}
           /\ Fresh(Done(o, c)) \in Runs /\ Fresh(Done(o, c)).pc \in {"plan", "check"}
<1>1. PICK q \in {"plan", "check"} : q = (IF o.todo = {c} THEN "plan" ELSE "check")
  OBVIOUS
<1>2. Done(o, c) = [o EXCEPT !.todo = o.todo \ {c}, !.chan = None, !.pc = q]
  BY <1>1 DEF Done
<1>3. PICK d \in Runs : d = Done(o, c) /\ d.pc = q
  BY <1>2 DEF Runs
<1>4. Fresh(d) \in Runs /\ Fresh(d).pc = d.pc
  BY DEF Fresh, Runs
<1> QED
  BY <1>1, <1>3, <1>4

(* A run holds its event back.                                              *)
LEMMA HoldTurns ==
    ASSUME NEW o \in Runs, NEW c
    PROVE  /\ Hold(o, c) \in Runs /\ Hold(o, c).pc \in {"plan", "check"}
           /\ Fresh(Hold(o, c)) \in Runs /\ Fresh(Hold(o, c)).pc \in {"plan", "check"}
<1>1. PICK d \in Runs : d = Done(o, c) /\ d.pc \in {"plan", "check"}
  BY DoneTurns
<1>2. Hold(o, c).pc = d.pc
  BY <1>1 DEF Hold, Runs
<1>3. PICK h \in Runs : h = Hold(o, c) /\ h.pc = d.pc
  BY <1>2, HoldTyped
<1>4. Fresh(h) \in Runs /\ Fresh(h).pc = h.pc
  BY DEF Fresh, Runs
<1> QED
  BY <1>1, <1>3, <1>4

(* A run's step: the invariant's two parts that it can disturb.             *)
LEMMA RunKeepsAccount ==
    ASSUME ProcessorAssumption, NEW A \in SUBSET Procs, TellInv(A), NEW p \in Procs,
           Process(p) \/ Fail(p), p \in A
    PROVE  Accounted(A)' /\ ToldSeen'
<1>1. PICK o \in Runs : o = run[p]
  BY RunTyped DEF ScanInv, TellInv
<1>2. /\ run \in [Procs -> Runs] /\ out \in [Channels -> [Ids -> Nat]] /\ lost \in Nat
      /\ handled \subseteq Ids \X Channels /\ Accounted(A) /\ ScanInv /\ ToldSeen
  BY DEF TellInv, ScanInv, NoticesTyped, TypeOK
<1>3. IsFiniteSet(A)
  BY FS_Subset DEF ProcessorAssumption
<1>4. UNCHANGED log
  BY DEF Process, Fail
<1>5. o.pc \in {"card", "skip", "send", "mark"} =>
        o.cur \in Visible /\ o.cur \in Ids /\ o.chan \in Channels
  BY <1>1, <1>2, InHand
<1>6. ASSUME NEW r \in Runs, Passes(p, r) PROVE Accounted(A)' /\ ToldSeen'
  BY <1>2, <1>4, <1>6, PassAccounts, SeenStays DEF Passes
<1>7. ASSUME NEW r \in Runs, o.pc \in {"card", "send"}, out' = Delivered(p),
             TellsOnce(p, r, o.cur, o.chan)
      PROVE  Accounted(A)' /\ ToldSeen'
  <2>1. Reaches(o.cur, o.chan)
    BY <1>1, <1>2, <1>7, DeliveryReaches
  <2> QED
    BY <1>2, <1>3, <1>4, <1>5, <1>7, <2>1, TellAccounts, SeenStays
<1>8. ASSUME NEW r \in Runs, LosesIt(p, r, o.cur, o.chan), o.pc \in {"send", "mark"}
      PROVE  Accounted(A)' /\ ToldSeen'
  BY <1>2, <1>3, <1>4, <1>5, <1>8, LossAccounts, SeenStays DEF LosesIt
<1>9. CASE LoadAndSelect(p)
  <2>1. UNCHANGED <<handled, out, lost>> /\ o.pc = "idle"
    BY <1>1, <1>9 DEF LoadAndSelect
  <2>2. PICK r \in Runs : r.pc = "plan" /\ run' = [run EXCEPT ![p] = r]
    <3>1. PICK n \in Limits : run' = [run EXCEPT ![p] =
            [Idle EXCEPT !.pc = "plan", !.base = cursor,
                         !.batch = FirstIds({i \in Visible : i > cursor}, n), !.top = cursor]]
      BY <1>9 DEF LoadAndSelect
    <3>2. FirstIds({i \in Visible : i > cursor}, n) \subseteq Ids /\ cursor \in Nat
      BY VisibleIds, <1>2 DEF FirstIds, ScanInv, NoticesTyped, TypeOK
    <3>3. [Idle EXCEPT !.pc = "plan", !.base = cursor,
                       !.batch = FirstIds({i \in Visible : i > cursor}, n), !.top = cursor] \in Runs
      BY <3>2 DEF Idle, Runs
    <3> QED
      BY <3>1, <3>3 DEF Idle
  <2>3. Passes(p, r)
    BY <1>1, <2>1, <2>2 DEF Passes
  <2> QED
    BY <1>6, <2>3
<1>10. CASE Plan(p)
  <2>1. UNCHANGED <<handled, out, lost>> /\ o.pc = "plan"
    BY <1>1, <1>10 DEF Plan
  <2>2. PICK i \in o.batch : run' = [run EXCEPT ![p] = Taken(o, i)]
    BY <1>1, <1>10 DEF Plan
  <2>3. PICK r \in Runs : r = Taken(o, i) /\ r.pc \in {"plan", "check"}
    <3>1. i \in Ids /\ i \in Nat /\ o.batch \ {i} \subseteq Ids
      <4>1. o.batch \subseteq Ids
        BY DEF Runs
      <4> QED
        BY <4>1, VisibleIds, <1>2 DEF ScanInv
    <3>2. PICK b \in SUBSET Ids : b = o.batch \ {i}
      BY <3>1
    <3>3. PICK t \in SUBSET Channels : t = PlannedChannels
      BY DEF PlannedChannels
    <3>4. PICK q \in {"plan", "check"} : q = (IF PlannedChannels = {} THEN "plan" ELSE "check")
      OBVIOUS
    <3>5. Taken(o, i) = [o EXCEPT !.cur = i, !.top = i, !.batch = b, !.todo = t, !.pc = q]
      BY <3>2, <3>3, <3>4 DEF Taken
    <3> QED
      BY <3>1, <3>5 DEF Runs
  <2>4. Passes(p, r)
    BY <1>1, <2>1, <2>2, <2>3 DEF Passes
  <2> QED
    BY <1>6, <2>4
<1>11. CASE SaveCursor(p)
  <2>1. o.pc = "plan" /\ run' = [run EXCEPT ![p] = Idle] /\ UNCHANGED <<handled, out, lost>>
    BY <1>1, <1>11 DEF SaveCursor
  <2>2. Passes(p, Idle)
    BY <1>1, <2>1 DEF Passes, Idle
  <2> QED
    BY <1>6, <2>2, IdleCarries
<1>12. CASE Check(p)
  <2>1. UNCHANGED <<handled, out, lost>> /\ o.pc = "check"
    BY <1>1, <1>12 DEF Check
  <2>2. o.todo # {}
    BY <1>1, <1>2, <2>1, InHand
  <2>3. PICK c \in o.todo : c = CHOOSE x \in o.todo : TRUE
    BY <2>2
  <2>4. PICK s \in Runs : s = Done(o, c)
    BY DEF Done, Runs
  <2>5. PICK h \in Runs : h = Hold(o, c)
    BY HoldTyped
  <2>6. run' = [run EXCEPT ![p] = IF <<o.cur, c>> \in handled THEN s
                                  ELSE IF c = Dashboard THEN [o EXCEPT !.pc = "card", !.chan = c]
                                  ELSE IF world.muted THEN [o EXCEPT !.pc = "skip", !.chan = c]
                                  ELSE IF world.night THEN h
                                  ELSE [o EXCEPT !.pc = "send", !.chan = c]]
    BY <1>1, <1>12, <2>3, <2>4, <2>5 DEF Check, AlreadyHandled
  <2>7. s.pc \in {"plan", "check"} /\ h.pc \in {"plan", "check"}
    BY <2>4, <2>5, DoneTurns, HoldTurns
  <2>8. ASSUME NEW r \in Runs, r.pc \in {"plan", "check"}, run' = [run EXCEPT ![p] = r]
        PROVE  Accounted(A)' /\ ToldSeen'
    <3>1. Passes(p, r)
      BY <1>1, <2>1, <2>8 DEF Passes
    <3> QED
      BY <1>6, <3>1
  <2>9. ASSUME NEW q \in {"card", "skip", "send"}, <<o.cur, c>> \notin handled,
               run' = [run EXCEPT ![p] = [o EXCEPT !.pc = q, !.chan = c]]
        PROVE  Accounted(A)' /\ ToldSeen'
    <3>1. PICK r \in Runs : r = [o EXCEPT !.pc = q, !.chan = c]
      BY DEF Runs
    <3>2. r.cur = o.cur /\ r.chan = c
      BY <3>1 DEF Runs
    <3>3. Passes(p, r)
      BY <1>1, <2>1, <2>9, <3>1, <3>2 DEF Passes
    <3> QED
      BY <1>6, <3>3
  <2> QED
    BY <2>6, <2>7, <2>8, <2>9
<1>13. ASSUME run' = [run EXCEPT ![p] = Fresh(Done(run[p], run[p].chan))]
       PROVE  \E r \in Runs : r.pc \in {"plan", "check"} /\ run' = [run EXCEPT ![p] = r]
  BY <1>1, <1>13, DoneTurns
<1>14. CASE Commit(p)
  <2>1. PICK r \in Runs : r.pc \in {"plan", "check"} /\ run' = [run EXCEPT ![p] = r]
    BY <1>13, <1>14 DEF Commit
  <2>2. handled' = handled \cup {<<o.cur, o.chan>>} /\ lost' = lost
    BY <1>1, <1>14 DEF Commit, Marked
  <2>3. CASE o.pc = "card"
    <3>1. out' = Delivered(p)
      BY <1>1, <1>14, <2>3 DEF Commit
    <3>2. TellsOnce(p, r, o.cur, o.chan)
      BY <1>1, <2>1, <2>2, <2>3 DEF TellsOnce, Works
    <3> QED
      BY <1>7, <2>3, <3>1, <3>2
  <2>4. CASE o.pc # "card"
    <3>1. Passes(p, r)
      BY <1>1, <1>14, <2>1, <2>2, <2>4 DEF Commit, Passes
    <3> QED
      BY <1>6, <3>1
  <2> QED
    BY <2>3, <2>4
<1>15. CASE SendOk(p)
  <2>1. PICK r \in Runs : r = [o EXCEPT !.pc = "mark"]
    BY DEF Runs
  <2>2. r.pc = "mark" /\ r.cur = o.cur /\ r.chan = o.chan
    BY <2>1 DEF Runs
  <2>3. run' = [run EXCEPT ![p] = r]
    <3>1. run' = [run EXCEPT ![p] = [run[p] EXCEPT !.pc = "mark"]]
      BY <1>15 DEF SendOk
    <3> QED
      BY <1>1, <2>1, <3>1
  <2>4. o.pc = "send" /\ out' = Delivered(p) /\ UNCHANGED <<handled, lost>>
    BY <1>1, <1>15 DEF SendOk
  <2>5. TellsOnce(p, r, o.cur, o.chan)
    BY <1>1, <2>2, <2>3, <2>4 DEF TellsOnce, Works
  <2> QED
    BY <1>7, <2>4, <2>5
<1>16. CASE SendPermanent(p)
  <2>1. PICK r \in Runs : r.pc \in {"plan", "check"} /\ run' = [run EXCEPT ![p] = r]
    BY <1>13, <1>16 DEF SendPermanent
  <2>2. Passes(p, r)
    BY <1>1, <1>16, <2>1 DEF SendPermanent, Passes, Marked
  <2> QED
    BY <1>6, <2>2
<1>17. ASSUME NEW arrived \in BOOLEAN, SendTransient(p, arrived)
       PROVE  Accounted(A)' /\ ToldSeen'
  <2>3. PICK r \in Runs : r = Fresh(Hold(o, o.chan)) /\ r.pc \in {"plan", "check"}
    BY HoldTurns
  <2>4. run' = [run EXCEPT ![p] = r] /\ o.pc = "send" /\ handled' = handled
    BY <1>1, <1>17, <2>3 DEF SendTransient
  <2>5. CASE arrived
    <3>1. out' = Delivered(p) /\ lost' = lost + 1
      BY <1>17, <2>5 DEF SendTransient
    <3>2. Reaches(o.cur, o.chan)
      BY <1>1, <1>2, <2>4, <3>1, DeliveryReaches
    <3>3. LosesIt(p, r, o.cur, o.chan)
      BY <1>1, <2>3, <2>4, <3>1, <3>2 DEF LosesIt, Works
    <3> QED
      BY <1>8, <2>4, <3>3
  <2>6. CASE ~arrived
    <3>1. Passes(p, r)
      BY <1>1, <1>17, <2>3, <2>4, <2>6 DEF SendTransient, Passes
    <3> QED
      BY <1>6, <3>1
  <2> QED
    BY <2>5, <2>6
<1>18. CASE Crash(p)
  <2>1. run' = [run EXCEPT ![p] = Idle] /\ UNCHANGED <<handled, out>> /\ Idle.pc = "idle"
    BY <1>18 DEF Crash, Idle
  <2>2. CASE o.pc = "mark"
    <3>1. LosesIt(p, Idle, o.cur, o.chan)
      BY <1>1, <1>18, <2>1, <2>2 DEF Crash, LosesIt, Works
    <3> QED
      BY <1>8, <2>2, <3>1, IdleCarries
  <2>3. CASE o.pc # "mark"
    <3>1. Passes(p, Idle)
      BY <1>1, <1>18, <2>1, <2>3 DEF Crash, Passes
    <3> QED
      BY <1>6, <3>1, IdleCarries
  <2> QED
    BY <2>2, <2>3
<1> QED
  BY <1>9, <1>10, <1>11, <1>12, <1>14, <1>15, <1>16, <1>17, <1>18 DEF Process, Fail

(* Every step of a lane is a step of the notices or leaves them alone.      *)
LEMMA LaneStepsScan == [LaneNext]_allVars => [Next]_vars
BY DEF LaneNext, AloneLane, OverlapLane, LinksLane, ExchangesLane, allVars, noticeVars

(* The invariant of the scan, in every lane.                                *)
LEMMA ScanInvariant == LaneSpec => []ScanInv
<1>1. LaneInit => ScanInv
  BY ScanInit, ConstantsFit DEF LaneInit
<1>2. ScanInv /\ [LaneNext]_allVars => ScanInv'
  BY LaneStepsScan, ScanStep, ConstantsFit
<1> QED
  BY <1>1, <1>2, PTL DEF LaneSpec

(* NotificationProcessor.run never lets the cursor pass an event that some  *)
(* enabled channel still waits for: not when it defers to the morning, not  *)
(* when a vendor fails or the run dies, not with any number of runs at once.*)
THEOREM CursorDropsNothing == LaneSpec => []NoSilentDrop
<1>1. ScanInv => NoSilentDrop
  BY DEF ScanInv
<1> QED
  BY <1>1, ScanInvariant, PTL

(* The invariant of the notices that were told.                             *)
LEMMA TellInit == ASSUME ProcessorAssumption, Init, NEW A PROVE TellInv(A)
<1>1. ScanInv
  BY ScanInit
<1>2. log = << >> /\ lost = 0 /\ out = [c \in Channels |-> [i \in Ids |-> 0]]
  BY DEF Init
<1>3. KeysOnce /\ ToldSeen
  BY <1>2 DEF KeysOnce, Live, ToldSeen
<1>4. PICK L \in Losses : \A c \in Channels, i \in Ids : L[c][i] = 0
  <2>1. [c \in Channels |-> [i \in Ids |-> 0]] \in Losses
    BY DEF Losses
  <2> QED
    BY <2>1
<1>5. PICK T \in Tells(A) : \A c \in Channels, i \in Ids : T[c][i] = {}
  <2>1. [c \in Channels |-> [i \in Ids |-> {}]] \in Tells(A)
    BY DEF Tells
  <2> QED
    BY <2>1
<1>6. ASSUME NEW c \in Channels PROVE SumOf(L[c], Ids) = 0
  <2>1. Units(L[c], Ids) = {}
    BY <1>4 DEF Units, UnitsOf
  <2> QED
    BY <2>1, FS_EmptySet DEF SumOf
<1>7. ASSUME NEW c \in Channels, NEW i \in Ids
      PROVE  out[c][i] <= L[c][i] + Cardinality(T[c][i])
  <2>1. Cardinality(T[c][i]) = 0
    BY <1>5, FS_EmptySet
  <2> QED
    BY <1>2, <1>4, <2>1
<1>8. Account(A, L, T)
  BY <1>2, <1>5, <1>6, <1>7 DEF Account
<1>9. \A p \in Procs \ A : run[p].pc = "idle"
  BY DEF Init, Idle
<1> QED
  BY <1>1, <1>3, <1>8, <1>9 DEF TellInv, Accounted

(* Steps that move no run.                                                  *)
LEMMA StillAccounts ==
    ASSUME NEW A, Accounted(A), UNCHANGED <<run, out, lost, handled>>
    PROVE  Accounted(A)'
<1>1. Quiet(A)
  BY DEF Quiet, Works
<1> QED
  BY <1>1, QuietAccounts

(* The account of what was told is kept by every step.                      *)
LEMMA TellStep ==
    ASSUME ProcessorAssumption, NEW A \in SUBSET Procs, TellInv(A), [Next]_vars,
           \A p \in Procs \ A : run'[p] = run[p]
    PROVE  TellInv(A)'
<1>1. ScanInv'
  BY ScanStep DEF TellInv
<1>2. \A p \in Procs \ A : run'[p].pc = "idle"
  BY DEF TellInv
<1>3. ASSUME UNCHANGED log PROVE KeysOnce'
  BY <1>3 DEF TellInv, KeysOnce, Live
<1>4. ASSUME NEW w \in Writers, Write(w) PROVE KeysOnce' /\ ToldSeen' /\ Accounted(A)'
  <2>1. KeysOnce'
    BY <1>4, WriteKeepsKeys DEF TellInv
  <2>2. Visible \subseteq Visible'
    BY <1>4, WritesGrow DEF TellInv, ScanInv, Grows
  <2>3. ToldSeen'
    BY <1>4, <2>2 DEF TellInv, ToldSeen, Write
  <2>4. Accounted(A)'
    BY <1>4, StillAccounts DEF TellInv, Write
  <2> QED
    BY <2>1, <2>3, <2>4
<1>5. ASSUME NEW p \in Procs, Process(p) \/ Fail(p)
      PROVE  KeysOnce' /\ ToldSeen' /\ Accounted(A)'
  <2>1. p \in A
    <3>1. SUFFICES ASSUME p \notin A PROVE FALSE
      OBVIOUS
    <3>2. run[p].pc = "idle" /\ run'[p].pc = "idle" /\ run \in [Procs -> Runs]
      BY <1>2, <3>1 DEF TellInv, ScanInv, NoticesTyped, TypeOK
    <3>3. LoadAndSelect(p)
      BY <1>5, <3>2 DEF Process, Fail, Plan, SaveCursor, Check, Commit, SendOk, SendPermanent,
                        Crash, SendTransient
    <3>4. PICK b, t : run' = [run EXCEPT ![p] = [Idle EXCEPT !.pc = "plan", !.base = cursor,
                                                             !.batch = b, !.top = t]]
      BY <3>3 DEF LoadAndSelect
    <3>5. run'[p].pc = "plan"
      BY <3>2, <3>4 DEF Idle
    <3> QED
      BY <3>2, <3>5
  <2>2. KeysOnce'
    BY <1>3, <1>5 DEF Process, Fail
  <2> QED
    BY <1>5, <2>1, <2>2, RunKeepsAccount
<1>6. CASE World \/ Morning
  <2>1. UNCHANGED <<log, handled, out, run, lost>>
    BY <1>6 DEF World, Morning
  <2>2. ToldSeen'
    BY <2>1, SeenStays DEF TellInv
  <2> QED
    BY <1>1, <1>2, <1>3, <2>1, <2>2, StillAccounts DEF TellInv
<1>7. CASE UNCHANGED vars
  <2>1. UNCHANGED <<log, handled, out, run, lost>>
    BY <1>7 DEF vars
  <2>2. ToldSeen'
    BY <2>1, SeenStays DEF TellInv
  <2> QED
    BY <1>1, <1>2, <1>3, <2>1, <2>2, StillAccounts DEF TellInv
<1>8. CASE Next
  BY <1>1, <1>2, <1>4, <1>5, <1>6, <1>8 DEF Next, TellInv
<1> QED
  BY <1>7, <1>8

(* What the invariant says of all events of one milestone.                  *)
LEMMA ToldOnceOfKey ==
    ASSUME ProcessorAssumption, NEW A \in SUBSET Procs, TellInv(A),
           NEW c \in Channels, NEW k \in Keys
    PROVE  Notices({i \in DOMAIN log : log[i].key = k}, c)
             <= Cardinality(Scanners) * Cardinality(A) + lost
<1> DEFINE S == {i \in DOMAIN log : log[i].key = k}
           V == S \cap Visible
<1>1. PICK L \in Losses, T \in Tells(A) : Account(A, L, T)
  BY DEF TellInv, Accounted
<1>2. S \subseteq Ids /\ IsFiniteSet(Ids) /\ Visible \subseteq DOMAIN log
  BY VisibleIds, IdsFinite DEF TellInv, ScanInv, Visible
<1>3. IsFiniteSet(S) /\ IsFiniteSet(A) /\ Cardinality(A) \in Nat
  BY <1>2, FS_Subset, FS_CardinalityType DEF ProcessorAssumption
<1>4. PICK n \in Nat : n = Cardinality(A)
  BY <1>3
<1>5. PICK w \in [Ids -> Nat] : w = out[c]
  BY DEF TellInv, ScanInv, NoticesTyped, TypeOK
<1>6. PICK v \in [Ids -> Nat] : v = L[c]
  BY DEF Losses
<1>7. \A x \in Ids : w[x] <= v[x] + n
  <2>1. ASSUME NEW x \in Ids PROVE w[x] <= v[x] + n
    <3>1. w[x] <= v[x] + Cardinality(T[c][x])
      BY <1>1, <1>5, <1>6 DEF Account
    <3>2. Cardinality(T[c][x]) \in Nat /\ Cardinality(T[c][x]) <= n
      BY <1>3, <1>4, FS_Subset, FS_CardinalityType DEF Tells
    <3> QED
      BY <3>1, <3>2
  <2> QED
    BY <2>1
<1>8. \A x \in S \ V : w[x] = 0
  <2>1. ASSUME NEW x \in S \ V PROVE w[x] = 0
    <3>1. ~(out[c][x] > 0) /\ w[x] \in Nat
      BY <1>2 DEF TellInv, ToldSeen
    <3> QED
      BY <1>5, <3>1
  <2> QED
    BY <2>1
<1>9. Cardinality(V) <= Cardinality(Scanners)
  <2> DEFINE f == [i \in V |-> log[i].by]
  <2>1. \A i \in V : Live(i) /\ log[i].key = k /\ log[i].by \in Scanners
    BY DEF Live, Visible, ProcessorAssumption, TellInv, KeysOnce
  <2>2. f \in Injection(V, Scanners)
    <3>1. f \in [V -> Scanners]
      BY <2>1
    <3>2. \A i, j \in V : f[i] = f[j] => i = j
      BY <2>1 DEF TellInv, KeysOnce
    <3> HIDE DEF f, V
    <3> QED
      BY <3>1, <3>2 DEF Injection, IsInjective
  <2> HIDE DEF f, V
  <2> QED
    BY <2>2, FS_Injection DEF ProcessorAssumption
<1>10. Notices(S, c) = SumOf(w, S)
  <2>1. MapThenSumSet(LAMBDA x : w[x], S) = SumOf(w, S)
    BY <1>2, <1>3, MapThenSumSetIsSum
  <2> QED
    BY <1>5, <2>1 DEF Notices
<1> HIDE DEF S, V
<1>11. SumOf(w, S) <= SumOf(v, S) + Cardinality(V) * n
  <2>1. PICK a \in [S -> Nat] : \A x \in S : a[x] = w[x]
    <3>1. [x \in S |-> w[x]] \in [S -> Nat]
      BY <1>2
    <3> QED
      BY <3>1
  <2>2. PICK b \in [S -> Nat] : \A x \in S : b[x] = v[x]
    <3>1. [x \in S |-> v[x]] \in [S -> Nat]
      BY <1>2
    <3> QED
      BY <3>1
  <2>3. SumOf(a, S) = SumOf(w, S) /\ SumOf(b, S) = SumOf(v, S)
    BY <2>1, <2>2, SumSame
  <2>4. V \in SUBSET S
    BY DEF V
  <2>5. \A x \in V : a[x] <= b[x] + n
    BY <1>2, <1>7, <2>1, <2>2, <2>4
  <2>6. \A x \in S \ V : a[x] = 0
    BY <1>8, <2>1
  <2>7. SumOf(a, S) <= SumOf(b, S) + Cardinality(V) * n
    BY <1>3, <2>4, <2>5, <2>6, SumWithin
  <2> QED
    BY <2>3, <2>7
<1>12. SumOf(v, S) <= SumOf(v, Ids) /\ SumOf(v, Ids) <= lost /\ SumOf(v, S) \in Nat
       /\ SumOf(v, Ids) \in Nat
  <2>1. SumOf(v, Ids) <= lost
    BY <1>1, <1>6 DEF Account
  <2> QED
    BY <1>2, <2>1, SumShrinks
<1>13. Cardinality(V) * n <= Cardinality(Scanners) * n
  <2>1. Cardinality(V) \in Nat /\ Cardinality(Scanners) \in Nat
    <3>1. V \in SUBSET S
      BY DEF V
    <3> QED
      BY <1>3, <3>1, FS_Subset, FS_CardinalityType DEF ProcessorAssumption
  <2> QED
    BY <1>9, <2>1, ProductGrows
<1>14. /\ Cardinality(V) * n \in Nat /\ Cardinality(Scanners) * n \in Nat /\ lost \in Nat
       /\ SumOf(w, S) \in Nat
  <2>1. Cardinality(V) \in Nat /\ Cardinality(Scanners) \in Nat
    <3>1. V \in SUBSET S
      BY DEF V
    <3> QED
      BY <1>3, <3>1, FS_Subset, FS_CardinalityType DEF ProcessorAssumption
  <2>2. SumOf(w, S) \in Nat
    BY <1>2, SumShrinks
  <2> QED
    BY <2>1, <2>2 DEF TellInv, ScanInv, NoticesTyped, TypeOK
<1> QED
  BY <1>4, <1>10, <1>11, <1>12, <1>13, <1>14 DEF S

(* ... and of one event that is no milestone.                               *)
LEMMA ToldOnceOfEvent ==
    ASSUME ProcessorAssumption, NEW A \in SUBSET Procs, TellInv(A),
           NEW c \in Channels, NEW i \in Ids
    PROVE  out[c][i] <= Cardinality(A) + lost
<1>1. PICK L \in Losses, T \in Tells(A) : Account(A, L, T)
  BY DEF TellInv, Accounted
<1>2. L[c] \in [Ids -> Nat]
  BY DEF Losses
<1>3. L[c][i] <= SumOf(L[c], Ids) /\ SumOf(L[c], Ids) <= lost /\ SumOf(L[c], Ids) \in Nat
  BY <1>1, <1>2, IdsFinite, SumHasAll, UnitsFinite DEF Account
<1>4. IsFiniteSet(A) /\ T[c][i] \in SUBSET A
  BY FS_Subset DEF ProcessorAssumption, Tells
<1>5. Cardinality(T[c][i]) \in Nat /\ Cardinality(A) \in Nat /\ Cardinality(T[c][i]) <= Cardinality(A)
  BY <1>4, FS_Subset, FS_CardinalityType
<1>6. out[c][i] <= L[c][i] + Cardinality(T[c][i]) /\ L[c][i] \in Nat /\ out[c][i] \in Nat
  BY <1>1, <1>2 DEF Account, TellInv, ScanInv, NoticesTyped, TypeOK
<1>7. lost \in Nat
  BY DEF TellInv, ScanInv, NoticesTyped, TypeOK
<1> QED
  BY <1>3, <1>5, <1>6, <1>7

(* The account says that nobody is told more often.                         *)
LEMMA ToldOnceHolds ==
    ASSUME ProcessorAssumption, NEW A \in SUBSET Procs, TellInv(A)
    PROVE  ToldOnceBy(A)
<1>1. DOMAIN log \subseteq Ids
  BY VisibleIds DEF TellInv, ScanInv
<1> QED
  BY <1>1, ToldOnceOfKey, ToldOnceOfEvent DEF ToldOnceBy

(* The runs that take part in a lane.                                       *)
Taking == IF lane = "overlap" THEN Procs ELSE Crew

(* The account, in every lane, for the runs that may take part.             *)
LEMMA TellInvariant == LaneSpec => [](ScanInv /\ TellInv(Taking))
<1>1. LaneInit => ScanInv /\ TellInv(Taking)
  BY ScanInit, TellInit, ConstantsFit DEF LaneInit
<1>2. ASSUME ScanInv /\ TellInv(Taking), [LaneNext]_allVars
      PROVE  (ScanInv /\ TellInv(Taking))'
  <2>1. PICK A \in SUBSET Procs : A = Taking
    BY ConstantsFit DEF Taking
  <2>2. lane' = lane
    BY <1>2 DEF LaneNext, AloneLane, OverlapLane, LinksLane, ExchangesLane, allVars
  <2>3. A = Taking'
    BY <2>1, <2>2 DEF Taking
  <2>4. [Next]_vars
    BY <1>2, LaneStepsScan
  <2>5. \A p \in Procs \ A : run'[p] = run[p]
    BY <1>2, <2>1 DEF LaneNext, AloneLane, OverlapLane, LinksLane, ExchangesLane, allVars,
                      noticeVars, vars, Taking
  <2>6. TellInv(A)
    BY <1>2, <2>1
  <2>7. TellInv(A)'
    BY <2>4, <2>5, <2>6, ConstantsFit, TellStep
  <2>8. ScanInv'
    BY <2>7 DEF TellInv
  <2> QED
    BY <2>3, <2>7, <2>8 DEF TellInv, Accounted, Account
<1> QED
  BY <1>1, <1>2, PTL DEF LaneSpec

(* A borrower hears of a milestone of his loan, or of any other event, once *)
(* for every run of the job that overlapped (and every scan that did) and   *)
(* once for every answer or commit that was lost after a send: the markers  *)
(* and _already_emitted hold, for any number of runs, scans and events.     *)
THEOREM BorrowerToldOncePerRun == LaneSpec => []ToldOncePerRun
<1>1. ASSUME TellInv(Taking) PROVE ToldOncePerRun
  <2>1. PICK A \in SUBSET Procs : A = Taking
    BY ConstantsFit DEF Taking
  <2>2. TellInv(A)
    BY <1>1, <2>1
  <2>3. ToldOnceBy(A)
    BY <2>2, ConstantsFit, ToldOnceHolds
  <2> QED
    BY <2>1, <2>3 DEF ToldOncePerRun, Taking
<1> QED
  BY <1>1, TellInvariant, PTL

---------------------------------------------------------------------------
(* The sign-in codes.  Both lanes of them share the variables; Xs are the   *)
(* requests that exchange codes, Toks the codes and Tms the times.          *)

(* The requests that stand before the record of an exchange of t.           *)
Consuming(Xs, t) == {x \in Xs : pc[x] = "consume" /\ code[x] = t}
Rejecting(Xs)    == {x \in Xs : pc[x] = "reject"}
Lately(Tms)      == {i \in Tms : i >= now - LockoutWindow}

(* Both limits, with what is in flight counted in.                          *)
ExchangeInv(Xs, Toks, Tms, max) ==
    /\ now \in Tms /\ consumed \in [Toks -> Nat] /\ failed \in [Tms -> Nat]
    /\ \A t \in Toks : consumed[t] + Cardinality(Consuming(Xs, t)) <= Cardinality(Xs)
    /\ SumOf(failed, Lately(Tms)) + Cardinality(Rejecting(Xs)) < max + Cardinality(Xs)

(* A request x of Xs looks up the code t below the limits.                  *)
Looks(Xs, Tms, max, x, t) ==
    /\ \/ SumOf(failed, Lately(Tms)) < max /\ pc' = [pc EXCEPT ![x] = "reject"]
       \/ consumed[t] = 0 /\ pc' = [pc EXCEPT ![x] = "consume"]
    /\ pc[x] = "idle" /\ code' = [code EXCEPT ![x] = t]
    /\ UNCHANGED <<now, consumed, failed>>

(* It records a failure.                                                    *)
RecordsFailure(x) ==
    /\ pc[x] = "reject" /\ failed' = [failed EXCEPT ![now] = @ + 1]
    /\ pc' = [pc EXCEPT ![x] = "idle"] /\ code' = [code EXCEPT ![x] = None]
    /\ UNCHANGED <<now, consumed>>

(* It consumes its code.                                                    *)
Consumes(x) ==
    /\ pc[x] = "consume" /\ consumed' = [consumed EXCEPT ![code[x]] = @ + 1]
    /\ pc' = [pc EXCEPT ![x] = "idle"] /\ code' = [code EXCEPT ![x] = None]
    /\ UNCHANGED <<now, failed>>

(* Everything else: no exchange begins or ends, and time may pass.          *)
LeavesExchanges(Xs, Tms) ==
    /\ \A x \in Xs : pc'[x] = pc[x] /\ code'[x] = code[x]
    /\ now' \in {now, now + 1} /\ now' \in Tms
    /\ UNCHANGED <<consumed, failed>>

ExchangeStep(Xs, Toks, Tms, max) ==
    \/ \E x \in Xs : \E t : Looks(Xs, Tms, max, x, t)
    \/ \E x \in Xs : RecordsFailure(x) \/ Consumes(x)
    \/ LeavesExchanges(Xs, Tms)

(* The limits with what is in flight are kept: the sums by the failures     *)
(* that are recorded, the counts by the requests that stand before a        *)
(* write.                                                                   *)
LEMMA ExchangesKeepLimits ==
    ASSUME LockoutWindow \in Nat, NEW Xs, IsFiniteSet(Xs), NEW Toks, NEW T \in Nat, NEW max \in Nat,
           NEW P, Xs \subseteq P, NEW D, pc \in [P -> D], NEW C, code \in [P -> C],
           ExchangeInv(Xs, Toks, 0 .. T, max), ExchangeStep(Xs, Toks, 0 .. T, max)
    PROVE  ExchangeInv(Xs, Toks, 0 .. T, max)'
<1> DEFINE Tms == 0 .. T
<1>1. IsFiniteSet(Tms) /\ Tms \subseteq Nat
  BY FS_Interval
<1>2. ExchangeInv(Xs, Toks, Tms, max) /\ ExchangeStep(Xs, Toks, Tms, max)
  OBVIOUS
<1>3. SUFFICES ExchangeInv(Xs, Toks, Tms, max)'
  OBVIOUS
<1> HIDE DEF Tms
<1>4. /\ now \in Tms /\ consumed \in [Toks -> Nat] /\ failed \in [Tms -> Nat]
      /\ \A t \in Toks : consumed[t] + Cardinality(Consuming(Xs, t)) <= Cardinality(Xs)
      /\ SumOf(failed, Lately(Tms)) + Cardinality(Rejecting(Xs)) < max + Cardinality(Xs)
  BY <1>2 DEF ExchangeInv
<1>5. Lately(Tms) \subseteq Tms /\ IsFiniteSet(Lately(Tms))
  BY <1>1, FS_Subset DEF Lately
<1>6. SumOf(failed, Lately(Tms)) \in Nat
  BY <1>1, <1>4, <1>5, SumShrinks
<1>7. ASSUME NEW S \in SUBSET Xs
      PROVE  IsFiniteSet(S) /\ Cardinality(S) \in Nat /\ Cardinality(S) <= Cardinality(Xs)
             /\ Cardinality(Xs) \in Nat
  BY FS_Subset, FS_CardinalityType
<1>8. \A t : Consuming(Xs, t) \in SUBSET Xs /\ Consuming(Xs, t)' \in SUBSET Xs
  BY DEF Consuming
<1>9. Rejecting(Xs) \in SUBSET Xs /\ Rejecting(Xs)' \in SUBSET Xs
  BY DEF Rejecting
<1>10. ASSUME NEW x \in Xs, NEW t, Looks(Xs, Tms, max, x, t)
       PROVE  ExchangeInv(Xs, Toks, Tms, max)'
  <2>1. Lately(Tms)' = Lately(Tms) /\ UNCHANGED <<now, consumed, failed>>
    BY <1>10 DEF Looks, Lately
  <2>2. ASSUME NEW s \in Toks
        PROVE  consumed'[s] + Cardinality(Consuming(Xs, s)') <= Cardinality(Xs)
    <3>1. CASE pc'[x] = "consume" /\ s = t
      <4>1. consumed'[s] = 0
        BY <1>10, <3>1, <2>1 DEF Looks
      <4> QED
        BY <4>1, <1>7, <1>8
    <3>2. CASE ~(pc'[x] = "consume" /\ s = t)
      <4>1. Consuming(Xs, s)' = Consuming(Xs, s)
        BY <1>10, <3>2 DEF Looks, Consuming
      <4> QED
        BY <1>4, <2>1, <4>1
    <3> QED
      BY <3>1, <3>2
  <2>3. SumOf(failed, Lately(Tms))' + Cardinality(Rejecting(Xs)') < max + Cardinality(Xs)
    <3>1. SumOf(failed, Lately(Tms))' = SumOf(failed, Lately(Tms))
      BY <2>1 DEF SumOf, Units, UnitsOf
    <3>2. CASE SumOf(failed, Lately(Tms)) < max
      BY <1>6, <1>7, <1>9, <3>1, <3>2
    <3>3. CASE pc' = [pc EXCEPT ![x] = "consume"]
      <4>1. Rejecting(Xs)' = Rejecting(Xs)
        BY <1>10, <3>3 DEF Looks, Rejecting
      <4> QED
        BY <1>4, <3>1, <4>1
    <3> QED
      BY <1>10, <3>2, <3>3 DEF Looks
  <2> QED
    BY <1>4, <2>1, <2>2, <2>3 DEF ExchangeInv
<1>11. ASSUME NEW x \in Xs, RecordsFailure(x) PROVE ExchangeInv(Xs, Toks, Tms, max)'
  <2>1. /\ Lately(Tms)' = Lately(Tms) /\ UNCHANGED <<now, consumed>> /\ pc[x] = "reject"
        /\ failed' = [failed EXCEPT ![now] = @ + 1] /\ failed' \in [Tms -> Nat]
    BY <1>4, <1>11 DEF RecordsFailure, Lately
  <2>2. \A s : Consuming(Xs, s)' = Consuming(Xs, s)
    BY <1>11 DEF RecordsFailure, Consuming
  <2>3. Rejecting(Xs)' = Rejecting(Xs) \ {x} /\ x \in Rejecting(Xs)
    BY <1>11 DEF RecordsFailure, Rejecting
  <2>4. Cardinality(Rejecting(Xs)') = Cardinality(Rejecting(Xs)) - 1
    BY <1>7, <1>9, <2>3, FS_RemoveElement
  <2>5. SumOf(failed, Lately(Tms))' <= SumOf(failed, Lately(Tms)) + 1
        /\ SumOf(failed, Lately(Tms))' \in Nat
    <3>1. PICK a \in [Lately(Tms) -> Nat] : \A i \in Lately(Tms) : a[i] = failed[i]
      <4>1. [i \in Lately(Tms) |-> failed[i]] \in [Lately(Tms) -> Nat]
        BY <1>4, <1>5
      <4> QED
        BY <4>1
    <3>2. PICK b \in [Lately(Tms) -> Nat] : \A i \in Lately(Tms) : b[i] = failed'[i]
      <4>1. [i \in Lately(Tms) |-> failed'[i]] \in [Lately(Tms) -> Nat]
        BY <1>5, <2>1
      <4> QED
        BY <4>1
    <3>3. SumOf(a, Lately(Tms)) = SumOf(failed, Lately(Tms))
      BY <3>1, SumSame
    <3>4. SumOf(b, Lately(Tms)) = SumOf(failed', Lately(Tms))
      BY <3>2, SumSame
    <3>5. SumOf(failed, Lately(Tms))' = SumOf(failed', Lately(Tms))
      BY <2>1 DEF SumOf, Units, UnitsOf
    <3>6. SumOf(b, Lately(Tms)) \in Nat
      BY <1>5, UnitsFinite
    <3>7. CASE now \in Lately(Tms)
      <4>1. b[now] = a[now] + 1 /\ \A i \in Lately(Tms) \ {now} : b[i] = a[i]
        BY <1>4, <1>5, <2>1, <3>1, <3>2, <3>7
      <4>2. SumOf(b, Lately(Tms)) = SumOf(a, Lately(Tms)) + 1
        BY <1>5, <3>7, <4>1, SumGrowsByOne
      <4> QED
        BY <1>6, <3>3, <3>4, <3>5, <3>6, <4>2
    <3>8. CASE now \notin Lately(Tms)
      <4>1. \A i \in Lately(Tms) : b[i] = a[i]
        BY <1>4, <1>5, <2>1, <3>1, <3>2, <3>8
      <4>2. SumOf(b, Lately(Tms)) = SumOf(a, Lately(Tms))
        BY <4>1, SumSame
      <4> QED
        BY <1>6, <3>3, <3>4, <3>5, <3>6, <4>2
    <3> QED
      BY <3>7, <3>8
  <2>6. SumOf(failed, Lately(Tms))' + Cardinality(Rejecting(Xs)') < max + Cardinality(Xs)
    BY <1>4, <1>6, <1>7, <1>9, <2>4, <2>5
  <2> QED
    BY <1>4, <2>1, <2>2, <2>6 DEF ExchangeInv
<1>12. ASSUME NEW x \in Xs, Consumes(x) PROVE ExchangeInv(Xs, Toks, Tms, max)'
  <2>1. /\ Lately(Tms)' = Lately(Tms) /\ UNCHANGED <<now, failed>> /\ pc[x] = "consume"
        /\ consumed' = [consumed EXCEPT ![code[x]] = @ + 1]
    BY <1>12 DEF Consumes, Lately
  <2>2. consumed' \in [Toks -> Nat]
    <3>1. PICK k : k = code[x]
      OBVIOUS
    <3>2. PICK f \in [Toks -> Nat] : f = consumed
      BY <1>4
    <3>3. consumed' = [f EXCEPT ![k] = f[k] + 1]
      BY <2>1, <3>1, <3>2
    <3>4. CASE k \in Toks
      BY <3>2, <3>3, <3>4
    <3>5. CASE k \notin Toks
      <4>1. consumed' = f
        BY <3>2, <3>3, <3>5
      <4> QED
        BY <3>2, <4>1
    <3> QED
      BY <3>4, <3>5
  <2>3. Rejecting(Xs)' = Rejecting(Xs)
    BY <1>12 DEF Consumes, Rejecting
  <2>4. SumOf(failed, Lately(Tms))' = SumOf(failed, Lately(Tms))
    BY <2>1 DEF SumOf, Units, UnitsOf
  <2>5. ASSUME NEW s \in Toks
        PROVE  consumed'[s] + Cardinality(Consuming(Xs, s)') <= Cardinality(Xs)
    <3>1. CASE s = code[x]
      <4>1. x \in Consuming(Xs, s) /\ consumed'[s] = consumed[s] + 1
        BY <1>4, <2>1, <3>1 DEF Consuming
      <4>2. Consuming(Xs, s)' = Consuming(Xs, s) \ {x}
        BY <1>12 DEF Consumes, Consuming
      <4>3. Cardinality(Consuming(Xs, s)') = Cardinality(Consuming(Xs, s)) - 1
        BY <1>7, <1>8, <4>1, <4>2, FS_RemoveElement
      <4>4. consumed[s] \in Nat /\ Cardinality(Consuming(Xs, s)) \in Nat
            /\ consumed[s] + Cardinality(Consuming(Xs, s)) <= Cardinality(Xs)
        BY <1>4, <1>7, <1>8
      <4> QED
        BY <4>1, <4>3, <4>4
    <3>2. CASE s # code[x]
      <4>1. Consuming(Xs, s)' = Consuming(Xs, s) /\ consumed'[s] = consumed[s]
        BY <1>4, <1>12, <3>2 DEF Consumes, Consuming
      <4> QED
        BY <1>4, <4>1
    <3> QED
      BY <3>1, <3>2
  <2> QED
    BY <1>4, <2>1, <2>2, <2>3, <2>4, <2>5 DEF ExchangeInv
<1>13. CASE LeavesExchanges(Xs, Tms)
  <2>1. \A s : Consuming(Xs, s)' = Consuming(Xs, s)
    BY <1>13 DEF LeavesExchanges, Consuming
  <2>2. Rejecting(Xs)' = Rejecting(Xs)
    BY <1>13 DEF LeavesExchanges, Rejecting
  <2>3. now' \in Nat /\ now \in Nat /\ now' >= now /\ now' \in Tms /\ UNCHANGED <<consumed, failed>>
    BY <1>1, <1>4, <1>13 DEF LeavesExchanges
  <2>4. Lately(Tms)' \subseteq Lately(Tms)
    <3>1. ASSUME NEW i \in Tms, i >= now' - LockoutWindow PROVE i >= now - LockoutWindow
      <4>1. PICK m \in Nat, n \in Nat, w \in Nat : m = now /\ n = now' /\ w = LockoutWindow
        BY <2>3
      <4>2. i \in Nat /\ i >= n - w /\ n >= m
        BY <1>1, <2>3, <3>1, <4>1
      <4>3. i >= m - w
        BY <4>2
      <4> QED
        BY <4>1, <4>3
    <3> QED
      BY <3>1 DEF Lately
  <2>5. SumOf(failed, Lately(Tms))' <= SumOf(failed, Lately(Tms))
        /\ SumOf(failed, Lately(Tms))' \in Nat
    <3>1. SumOf(failed, Lately(Tms))' = SumOf(failed, Lately(Tms)')
      BY <2>3 DEF SumOf, Units, UnitsOf
    <3>2. \A i \in Lately(Tms) : failed[i] \in Nat
      BY <1>4, <1>5
    <3> QED
      BY <1>5, <2>4, <3>1, <3>2, SumShrinks
  <2>6. SumOf(failed, Lately(Tms))' + Cardinality(Rejecting(Xs)') < max + Cardinality(Xs)
    BY <1>4, <1>6, <1>7, <1>9, <2>2, <2>5
  <2> QED
    BY <1>4, <2>1, <2>3, <2>6 DEF ExchangeInv
<1> QED
  BY <1>2, <1>10, <1>11, <1>12, <1>13 DEF ExchangeStep
---------------------------------------------------------------------------
(* The retry queue.                                                         *)

(* The greater of two.                                                      *)
LEMMA MaxOfTwo ==
    ASSUME NEW a \in Nat, NEW b \in Nat
    PROVE  Max({a, b}) = IF a <= b THEN b ELSE a
<1>1. \E x \in {a, b} : \A y \in {a, b} : x >= y
  OBVIOUS
<1>2. Max({a, b}) \in {a, b} /\ \A y \in {a, b} : Max({a, b}) >= y
  BY <1>1 DEF Max
<1> QED
  BY <1>2

(* A delay is a natural number, whatever list was configured.               *)
LEMMA DelayTyped ==
    ASSUME Links!LinksAssumption, NEW n \in Nat, n >= 1
    PROVE  Links!DelayFor(n) \in Nat
<1>1. Delays \in Seq(Nat) /\ Len(Delays) \in Nat
  BY DEF Links!LinksAssumption
<1>2. CASE Delays = << >>
  BY <1>2 DEF Links!DelayFor
<1>3. CASE Delays # << >>
  <2>1. Len(Delays) >= 1
    BY <1>1, <1>3
  <2>2. PICK l \in Nat : l = Len(Delays) /\ l >= 1
    BY <1>1, <2>1
  <2>3. PICK i \in Nat : i = n - 1
    OBVIOUS
  <2>4. Min({i, l}) \in Nat /\ Min({i, l}) <= l
    BY MinOfTwo
  <2>5. PICK m \in Nat : m = Min({i, l}) /\ m <= l
    BY <2>4
  <2>6. PICK k \in Nat : k = Max({1, m}) /\ 1 <= k /\ k <= l
    <3>1. Max({1, m}) = IF 1 <= m THEN m ELSE 1
      BY MaxOfTwo
    <3> QED
      BY <2>2, <2>5, <3>1
  <2>7. Links!Clamp(n - 1) = k
    <3>1. Links!Clamp(i) = Max({1, Min({i, l})})
      BY <2>2 DEF Links!Clamp, Links!Max, Links!Min, Max, Min
    <3> QED
      BY <2>3, <2>5, <2>6, <3>1
  <2>8. k \in 1 .. Len(Delays)
    BY <2>2, <2>6
  <2>9. Delays[k] \in Nat
    BY <1>1, <2>8
  <2> QED
    BY <1>3, <2>7, <2>9 DEF Links!DelayFor
<1> QED
  BY <1>2, <1>3

(* Those who send a code, and how often a row is sent where no worker dies. *)
Senders   == Requesters \cup Workers
MostSends == IF MaxRetries = 0 THEN 1 ELSE MaxRetries

(* A sender that works has a code, one that is about to commit has sent it. *)
SenderFits(p) ==
    /\ pc[p] \in {"idle", "send", "commit"}
    /\ pc[p] = "idle" => code[p] = None
    /\ pc[p] # "idle" => code[p] \in 1 .. minted
    /\ pc[p] = "commit" => code[p] \in inHand

(* The codes that will never work; each took a fault.                       *)
DeadCodes == {t \in inHand \ issued : \A p \in Senders : code[p] # t}

CodesInv ==
    /\ \A p \in Senders : SenderFits(p)
    /\ issued \subseteq 1 .. minted
    /\ Cardinality(DeadCodes) <= linkFaults

(* A row and its lock: held by the worker that sends a code for it.         *)
Held(r) == holder[r] # None
HolderFits(r) ==
    Held(r) => /\ outbox[r].st = "pending" /\ holder[r] \in Workers
               /\ pc[holder[r]] # "idle" /\ rowOf[code[holder[r]]] = r

(* A row and the codes that were sent for it: each took an attempt, or was  *)
(* the last act of a worker that died.                                      *)
RetriesFit(r) ==
    /\ outbox[r].st = "none" => Links!SentFor(r) = {}
    /\ outbox[r].st = "pending" =>
         /\ 1 <= outbox[r].attempts /\ outbox[r].attempts <= MostSends
         /\ Cardinality(Links!SentFor(r)) + 1
              <= outbox[r].attempts + crashes + (IF Held(r) THEN 1 ELSE 0)
    /\ Cardinality(Links!SentFor(r)) <= MostSends + crashes

SentWorks(r) ==
    outbox[r].st = "sent" => Links!SentFor(r) \cap issued \cap inHand # {}

OneRowEach == \A r, q \in Links!Rows : Held(r) /\ holder[r] = holder[q] => r = q
HasRow(w)  == pc[w] # "idle" => \E r \in Links!Rows : holder[r] = w

RowsInv ==
    /\ \A r \in Links!Rows : HolderFits(r) /\ RetriesFit(r) /\ SentWorks(r)
    /\ OneRowEach /\ \A w \in Workers : HasRow(w)

(* The inductive invariant of the retry queue.                              *)
LinksInv == Links!TypeOK /\ CodesInv /\ RowsInv

(* What the assumption and the types say.                                   *)
LEMMA LinkBounds ==
    ASSUME Links!LinksAssumption
    PROVE  /\ MaxRetries \in Nat /\ LockoutWindow \in Nat /\ QueueTTL \in Nat
           /\ QueueTokens \in Nat /\ MaxRows \in Nat /\ QueueTime \in Nat /\ QueueFaults \in Nat
BY DEF Links!LinksAssumption

(* The sets that the processes, codes and rows are taken from.              *)
LEMMA LinkSets ==
    ASSUME Links!LinksAssumption
    PROVE  /\ IsFiniteSet(Links!Tokens) /\ Links!Tokens \subseteq Nat /\ None \notin Links!Tokens
           /\ Links!Rows \subseteq Nat /\ None \notin Links!Rows /\ None \notin Workers
           /\ Senders \subseteq Links!Processes /\ Reader \in Links!Processes
           /\ Reader \notin Senders /\ Requesters \cap Workers = {}
<1>1. 1 \in Int /\ QueueTokens \in Int
  BY LinkBounds
<1>2. IsFiniteSet(1 .. QueueTokens)
  BY <1>1, FS_Interval
<1> QED
  BY <1>2 DEF Links!LinksAssumption, Links!Tokens, Links!Rows, Links!Processes, Senders

Steps   == {"idle", "send", "commit", "reject", "consume"}
RowType == [st : {"none", "pending", "sent", "failed"}, attempts : Nat, next : Nat, ttl : Nat]

(* The types, as the steps below use them.                                  *)
LEMMA LinkTyped ==
    ASSUME Links!LinksAssumption, Links!TypeOK
    PROVE  /\ minted \in Nat /\ minted <= QueueTokens /\ now \in Nat /\ now <= QueueTime
           /\ linkFaults \in Nat /\ crashes \in Nat
           /\ inHand \subseteq Links!Tokens /\ issued \subseteq Links!Tokens
           /\ pc \in [Links!Processes -> Steps]
           /\ code \in [Links!Processes -> Links!Tokens \cup {None, Wrong}]
           /\ rowOf \in [Links!Tokens -> Links!Rows \cup {None}]
           /\ holder \in [Links!Rows -> Workers \cup {None}]
           /\ outbox \in [Links!Rows -> RowType]
BY LinkBounds DEF Links!TypeOK, Links!Times, Steps, RowType

(* A process stops, steps or starts while the codes and faults change so:   *)
(* how the senders' part of the invariant survives.                         *)
LEMMA DeadAreFew ==
    ASSUME Links!LinksAssumption, Links!TypeOK, Cardinality(DeadCodes) <= linkFaults, issued \subseteq issued',
           linkFaults' \in Nat,
           \/ DeadCodes' \subseteq DeadCodes /\ linkFaults' = linkFaults
           \/ \E t : DeadCodes' \subseteq DeadCodes \cup {t} /\ linkFaults' = linkFaults + 1
    PROVE  Cardinality(DeadCodes)' <= linkFaults'
<1>1. IsFiniteSet(Links!Tokens)
  BY LinkSets
<1>2. DeadCodes \subseteq Links!Tokens /\ linkFaults \in Int
  BY LinkTyped DEF DeadCodes
<1>3. IsFiniteSet(DeadCodes) /\ Cardinality(DeadCodes) \in Nat
  BY <1>1, <1>2, FS_Subset, FS_CardinalityType
<1>4. Cardinality(DeadCodes)' = Cardinality(DeadCodes')
  OBVIOUS
<1>5. CASE DeadCodes' \subseteq DeadCodes /\ linkFaults' = linkFaults
  <2>1. Cardinality(DeadCodes') <= Cardinality(DeadCodes) /\ Cardinality(DeadCodes') \in Nat
    BY <1>3, <1>5, FS_Subset, FS_CardinalityType
  <2> QED
    BY <1>2, <1>3, <1>4, <1>5, <2>1
<1>6. ASSUME NEW t, DeadCodes' \subseteq DeadCodes \cup {t}, linkFaults' = linkFaults + 1
      PROVE  Cardinality(DeadCodes)' <= linkFaults'
  <2>1. IsFiniteSet(DeadCodes \cup {t})
        /\ Cardinality(DeadCodes \cup {t}) <= Cardinality(DeadCodes) + 1
        /\ Cardinality(DeadCodes \cup {t}) \in Nat
    <3>1. PICK S : S = DeadCodes
      OBVIOUS
    <3>2. IsFiniteSet(S) /\ Cardinality(S) \in Nat
      BY <1>3, <3>1
    <3>3. IsFiniteSet(S \cup {t})
          /\ Cardinality(S \cup {t}) = IF t \in S THEN Cardinality(S) ELSE Cardinality(S) + 1
      BY <3>2, FS_AddElement
    <3> QED
      BY <3>1, <3>2, <3>3
  <2>2. Cardinality(DeadCodes') <= Cardinality(DeadCodes \cup {t}) /\ Cardinality(DeadCodes') \in Nat
    BY <1>6, <2>1, FS_Subset, FS_CardinalityType
  <2> QED
    BY <1>2, <1>3, <1>4, <1>6, <2>1, <2>2
<1> QED
  BY <1>5, <1>6

(* A new code.                                                              *)
LEMMA MintKeepsCodes ==
    ASSUME Links!LinksAssumption, Links!TypeOK, CodesInv, NEW p \in Senders, pc[p] = "idle",
           NEW r, NEW ttl, Links!Mint(p, r, ttl), UNCHANGED <<inHand, issued, linkFaults>>
    PROVE  CodesInv'
<1>1. /\ minted \in Nat /\ pc \in [Links!Processes -> Steps] /\ p \in Links!Processes
      /\ code \in [Links!Processes -> Links!Tokens \cup {None, Wrong}] /\ linkFaults \in Nat
      /\ minted' = minted + 1
  BY LinkTyped, LinkSets DEF Links!Mint
<1>2. /\ pc' = [pc EXCEPT ![p] = "send"] /\ code' = [code EXCEPT ![p] = minted + 1]
  BY DEF Links!Mint, Links!Goto
<1>3. 1 .. minted \subseteq 1 .. minted' /\ minted + 1 \in 1 .. minted'
  BY <1>1
<1>4. ASSUME NEW q \in Senders PROVE SenderFits(q)'
  <2>1. SenderFits(q)
    BY DEF CodesInv
  <2> QED
    BY <1>1, <1>2, <1>3, <2>1 DEF SenderFits
<1>5. code[p] = None /\ None \notin Links!Tokens /\ inHand \subseteq Links!Tokens
  BY LinkTyped, LinkSets DEF CodesInv, SenderFits
<1>6. DeadCodes' \subseteq DeadCodes
  <2>1. ASSUME NEW t \in DeadCodes' PROVE t \in DeadCodes
    <3>1. t \in inHand \ issued /\ \A q \in Senders : code'[q] # t
      BY <2>1 DEF DeadCodes
    <3>2. \A q \in Senders : code[q] # t
      BY <1>1, <1>2, <1>5, <3>1
    <3> QED
      BY <3>1, <3>2 DEF DeadCodes
  <2> QED
    BY <2>1
<1>7. Cardinality(DeadCodes)' <= linkFaults'
  BY <1>1, <1>6, DeadAreFew DEF CodesInv
<1> QED
  BY <1>3, <1>4, <1>7 DEF CodesInv

(* A sender is done with its code, which is issued or took a fault.         *)
LEMMA FinishKeepsCodes ==
    ASSUME Links!LinksAssumption, Links!TypeOK, CodesInv, NEW p \in Senders, pc[p] # "idle",
           Links!Finish(p), minted' = minted, inHand \subseteq inHand', issued \subseteq issued',
           inHand' \subseteq inHand \cup {code[p]}, issued' \subseteq issued \cup {code[p]},
           \/ code[p] \in issued' /\ linkFaults' = linkFaults
           \/ linkFaults' = linkFaults + 1
    PROVE  CodesInv'
<1>1. /\ minted \in Nat /\ pc \in [Links!Processes -> Steps] /\ p \in Links!Processes
      /\ code \in [Links!Processes -> Links!Tokens \cup {None, Wrong}] /\ linkFaults \in Nat
      /\ linkFaults' \in Nat
  BY LinkTyped, LinkSets
<1>2. /\ pc' = [pc EXCEPT ![p] = "idle"] /\ code' = [code EXCEPT ![p] = None]
  BY DEF Links!Finish, Links!Goto
<1>3. \A q \in Senders : SenderFits(q)'
  BY <1>1, <1>2 DEF SenderFits, CodesInv
<1>4. code[p] \in 1 .. minted
  BY DEF CodesInv, SenderFits
<1>5. DeadCodes' \subseteq DeadCodes \cup {code[p]}
  BY <1>1, <1>2 DEF DeadCodes
<1>6. code[p] \in issued' => DeadCodes' \subseteq DeadCodes
  BY <1>5 DEF DeadCodes
<1>7. Cardinality(DeadCodes)' <= linkFaults'
  <2>1. CASE code[p] \in issued' /\ linkFaults' = linkFaults
    BY <1>1, <1>6, <2>1, DeadAreFew DEF CodesInv
  <2>2. CASE linkFaults' = linkFaults + 1
    BY <1>1, <1>5, <2>2, DeadAreFew DEF CodesInv
  <2> QED
    BY <2>1, <2>2
<1> QED
  BY <1>3, <1>4, <1>7 DEF CodesInv

(* A vendor took the code.                                                  *)
LEMMA SendKeepsCodes ==
    ASSUME Links!LinksAssumption, Links!TypeOK, CodesInv, NEW p \in Senders, Links!SendOk(p)
    PROVE  CodesInv'
<1>1. /\ pc \in [Links!Processes -> Steps] /\ p \in Links!Processes /\ linkFaults \in Nat
      /\ pc' = [pc EXCEPT ![p] = "commit"] /\ inHand' = inHand \cup {code[p]} /\ pc[p] = "send"
      /\ UNCHANGED <<minted, issued, code, linkFaults>>
  BY LinkTyped, LinkSets DEF Links!SendOk, Links!Goto, Links!At
<1>2. \A q \in Senders : SenderFits(q)'
  BY <1>1 DEF SenderFits, CodesInv
<1>3. DeadCodes' \subseteq DeadCodes
  BY <1>1 DEF DeadCodes
<1>4. Cardinality(DeadCodes)' <= linkFaults'
  BY <1>1, <1>3, DeadAreFew DEF CodesInv
<1> QED
  BY <1>1, <1>2, <1>4 DEF CodesInv

(* Nothing that the senders' part speaks of.                                *)
LEMMA OthersKeepCodes ==
    ASSUME CodesInv, \A p \in Senders : pc'[p] = pc[p] /\ code'[p] = code[p],
           UNCHANGED <<minted, inHand, issued, linkFaults>>
    PROVE  CodesInv'
<1>1. \A q \in Senders : SenderFits(q)'
  BY DEF SenderFits, CodesInv
<1>2. DeadCodes' = DeadCodes
  BY DEF DeadCodes
<1> QED
  BY <1>1, <1>2 DEF CodesInv

(* The row of a worker that works.                                          *)
LEMMA RowOfWorker ==
    ASSUME Links!LinksAssumption, LinksInv, NEW w \in Workers, pc[w] # "idle"
    PROVE  \E r \in Links!Rows :
             /\ Links!Row(w) = r /\ holder[r] = w /\ Held(r) /\ outbox[r].st = "pending"
             /\ rowOf[code[w]] = r /\ code[w] \in 1 .. minted /\ pc[w] \in {"send", "commit"}
             /\ \A q \in Links!Rows \ {r} : holder[q] # w
<1>1. PICK r \in Links!Rows : holder[r] = w
  BY DEF LinksInv, RowsInv, HasRow
<1>2. Held(r) /\ HolderFits(r) /\ \A q \in Links!Rows : holder[q] = w => q = r
  BY <1>1, LinkSets DEF Held, LinksInv, RowsInv, OneRowEach
<1>3. Links!Row(w) = r
  BY <1>1, <1>2 DEF Links!Row
<1>4. SenderFits(w)
  BY DEF LinksInv, CodesInv, Senders
<1> QED
  BY <1>1, <1>2, <1>3, <1>4 DEF HolderFits, SenderFits

(* An idle sender holds no row.                                             *)
LEMMA IdleHoldsNone ==
    ASSUME Links!LinksAssumption, LinksInv, NEW p \in Senders, p \in Workers => pc[p] = "idle"
    PROVE  \A q \in Links!Rows : Held(q) => holder[q] # p
BY DEF LinksInv, RowsInv, HolderFits, Senders

(* The codes sent for a row.                                                *)
LEMMA SentForTyped ==
    ASSUME Links!LinksAssumption, Links!TypeOK, NEW r
    PROVE  /\ Links!SentFor(r) \subseteq 1 .. minted /\ IsFiniteSet(Links!SentFor(r))
           /\ Cardinality(Links!SentFor(r)) \in Nat
<1>1. 1 \in Int /\ minted \in Int
  BY LinkTyped
<1>2. IsFiniteSet(1 .. minted)
  BY <1>1, FS_Interval
<1>3. Links!SentFor(r) \subseteq 1 .. minted
  BY DEF Links!SentFor
<1> QED
  BY <1>2, <1>3, FS_Subset, FS_CardinalityType

(* A new code is one more of its row, and of no other.                      *)
LEMMA MintSentFor ==
    ASSUME Links!LinksAssumption, Links!TypeOK, NEW p, NEW r, NEW ttl, Links!Mint(p, r, ttl)
    PROVE  /\ \A q : Links!SentFor(q)' =
                       IF q = r THEN Links!SentFor(q) \cup {minted + 1} ELSE Links!SentFor(q)
           /\ \A q : minted + 1 \notin Links!SentFor(q)
           /\ \A t \in 1 .. minted : rowOf'[t] = rowOf[t]
           /\ rowOf'[minted + 1] = r /\ minted' = minted + 1
<1>1. /\ minted \in Nat /\ minted < QueueTokens /\ minted' = minted + 1 /\ QueueTokens \in Nat
      /\ rowOf' = [rowOf EXCEPT ![minted + 1] = r]
      /\ rowOf \in [Links!Tokens -> Links!Rows \cup {None}]
  BY LinkTyped, LinkBounds DEF Links!Mint
<1>2. minted + 1 \in Links!Tokens /\ 1 .. minted \subseteq Links!Tokens
      /\ 1 .. minted' = (1 .. minted) \cup {minted + 1} /\ minted + 1 \notin 1 .. minted
  BY <1>1 DEF Links!Tokens
<1>3. rowOf'[minted + 1] = r /\ \A t \in 1 .. minted : rowOf'[t] = rowOf[t]
  BY <1>1, <1>2
<1>4. ASSUME NEW q
      PROVE  Links!SentFor(q)' =
               IF q = r THEN Links!SentFor(q) \cup {minted + 1} ELSE Links!SentFor(q)
  BY <1>2, <1>3 DEF Links!SentFor
<1>5. \A q : minted + 1 \notin Links!SentFor(q)
  BY <1>2 DEF Links!SentFor
<1> QED
  BY <1>1, <1>3, <1>4, <1>5

(* A step that touches one row r, and of the workers only p: the others     *)
(* stay as they are.                                                        *)
Turned(p, r) ==
    /\ \A q \in Links!Rows \ {r} :
         /\ holder'[q] = holder[q] /\ outbox'[q] = outbox[q]
         /\ Links!SentFor(q)' = Links!SentFor(q)
         /\ Held(q) => holder[q] # p
    /\ \A w \in Workers \ {p} : (pc'[w] = "idle" <=> pc[w] = "idle") /\ code'[w] = code[w]
    /\ \A t \in 1 .. minted : rowOf'[t] = rowOf[t]
    /\ issued \subseteq issued' /\ inHand \subseteq inHand'
    /\ crashes' \in {crashes, crashes + 1}

(* The row that changes is right again.                                     *)
Settled(p, r) ==
    /\ HolderFits(r)' /\ RetriesFit(r)' /\ SentWorks(r)'
    /\ holder'[r] \in {None, p}
    /\ p \in Workers => (pc'[p] # "idle" <=> holder'[r] = p)

(* A step that settles its row keeps the invariant of the rows.             *)
LEMMA RowTurns ==
    ASSUME Links!LinksAssumption, LinksInv, NEW p \in Senders, NEW r \in Links!Rows,
           Held(r) => holder[r] = p, Turned(p, r), Settled(p, r)
    PROVE  RowsInv'
<1>1. /\ crashes \in Nat /\ crashes' \in Nat /\ crashes <= crashes' /\ MostSends \in Nat
      /\ minted \in Nat
  BY LinkTyped, LinkBounds DEF LinksInv, Turned, MostSends
<1>2. ASSUME NEW q \in Links!Rows, q # r
      PROVE  HolderFits(q)' /\ RetriesFit(q)' /\ SentWorks(q)'
  <2>1. /\ holder'[q] = holder[q] /\ outbox'[q] = outbox[q]
        /\ Links!SentFor(q)' = Links!SentFor(q)
        /\ Held(q) => holder[q] # p
    BY <1>2 DEF Turned
  <2>2. HolderFits(q) /\ RetriesFit(q) /\ SentWorks(q)
    BY DEF LinksInv, RowsInv
  <2>3. HolderFits(q)'
    <3>1. SUFFICES ASSUME Held(q)
                   PROVE  /\ outbox'[q].st = "pending" /\ holder'[q] \in Workers
                          /\ pc'[holder'[q]] # "idle" /\ rowOf'[code'[holder'[q]]] = q
      BY <2>1 DEF HolderFits, Held
    <3>2. PICK v \in Workers : v = holder[q] /\ v # p /\ pc[v] # "idle" /\ rowOf[code[v]] = q
                               /\ outbox[q].st = "pending"
      BY <2>1, <2>2, <3>1 DEF HolderFits
    <3>3. code[v] \in 1 .. minted
      BY <3>2 DEF LinksInv, CodesInv, SenderFits, Senders
    <3> QED
      BY <2>1, <3>2, <3>3 DEF Turned
  <2>4. PICK n \in Nat : n = Cardinality(Links!SentFor(q)) /\ n = Cardinality(Links!SentFor(q)')
    BY <2>1, SentForTyped DEF LinksInv
  <2>5. outbox[q].attempts \in Nat
    BY LinkTyped DEF LinksInv, RowType
  <2>6. RetriesFit(q)'
    <3>1. Held(q)' = Held(q)
      BY <2>1 DEF Held
    <3>2. n <= MostSends + crashes'
      BY <1>1, <2>2, <2>4 DEF RetriesFit
    <3>3. ASSUME outbox[q].st = "pending"
          PROVE  /\ 1 <= outbox[q].attempts /\ outbox[q].attempts <= MostSends
                 /\ n + 1 <= outbox[q].attempts + crashes' + (IF Held(q) THEN 1 ELSE 0)
      BY <1>1, <2>2, <2>4, <2>5, <3>3 DEF RetriesFit
    <3>4. outbox[q].st = "none" => Links!SentFor(q) = {}
      BY <2>2 DEF RetriesFit
    <3> QED
      BY <2>1, <2>4, <3>1, <3>2, <3>3, <3>4 DEF RetriesFit
  <2>7. SentWorks(q)'
    BY <2>1, <2>2 DEF SentWorks, Turned
  <2> QED
    BY <2>3, <2>6, <2>7
<1>3. OneRowEach'
  <2>1. ASSUME NEW q \in Links!Rows, NEW s \in Links!Rows, holder'[q] # None,
               holder'[q] = holder'[s], q # s
        PROVE  FALSE
    <3>1. CASE q # r /\ s # r
      BY <2>1, <3>1 DEF Turned, LinksInv, RowsInv, OneRowEach, Held
    <3>2. CASE q = r
      BY <2>1, <3>2 DEF Turned, Settled, Held
    <3>3. CASE s = r
      BY <2>1, <3>3 DEF Turned, Settled, Held
    <3> QED
      BY <3>1, <3>2, <3>3
  <2> QED
    BY <2>1 DEF OneRowEach, Held
<1>4. ASSUME NEW w \in Workers PROVE HasRow(w)'
  <2>1. CASE w = p
    BY <2>1 DEF HasRow, Settled
  <2>2. CASE w # p
    <3>1. SUFFICES ASSUME pc'[w] # "idle" PROVE \E q \in Links!Rows : holder'[q] = w
      BY DEF HasRow
    <3>2. pc[w] # "idle"
      BY <2>2, <3>1 DEF Turned
    <3>3. PICK q \in Links!Rows : holder[q] = w
      BY <3>2 DEF LinksInv, RowsInv, HasRow
    <3>4. q # r
      BY <2>2, <3>3, LinkSets DEF Held
    <3> QED
      BY <3>3, <3>4 DEF Turned
  <2> QED
    BY <2>1, <2>2
<1> QED
  BY <1>2, <1>3, <1>4 DEF RowsInv, Settled

(* A step that touches no row.                                              *)
LEMMA RowsStay ==
    ASSUME Links!LinksAssumption, LinksInv, UNCHANGED <<outbox, holder, crashes>>,
           \A w \in Workers : (pc'[w] = "idle" <=> pc[w] = "idle") /\ code'[w] = code[w],
           \A t \in 1 .. minted : rowOf'[t] = rowOf[t],
           \A q \in Links!Rows : Links!SentFor(q)' = Links!SentFor(q),
           issued \subseteq issued', inHand \subseteq inHand'
    PROVE  RowsInv'
<1>1. ASSUME NEW q \in Links!Rows PROVE HolderFits(q)' /\ RetriesFit(q)' /\ SentWorks(q)'
  <2>1. HolderFits(q) /\ RetriesFit(q) /\ SentWorks(q) /\ Links!SentFor(q)' = Links!SentFor(q)
    BY DEF LinksInv, RowsInv
  <2>2. HolderFits(q)'
    <3>1. \A v \in Workers : pc[v] # "idle" => code[v] \in 1 .. minted
      BY DEF LinksInv, CodesInv, SenderFits, Senders
    <3> QED
      BY <2>1, <3>1 DEF HolderFits, Held
  <2>3. RetriesFit(q)'
    BY <2>1 DEF RetriesFit, Held
  <2>4. SentWorks(q)'
    BY <2>1 DEF SentWorks
  <2> QED
    BY <2>2, <2>3, <2>4
<1>2. OneRowEach' /\ \A w \in Workers : HasRow(w)'
  BY DEF LinksInv, RowsInv, OneRowEach, HasRow, Held
<1> QED
  BY <1>1, <1>2 DEF RowsInv

(* The types, step by step.                                                 *)

(* The variables that a step of a process moves are typed.                  *)
LEMMA LinkTypesFrom ==
    ASSUME Links!LinksAssumption, Links!TypeOK,
           now' \in Links!Times, minted' \in 0 .. QueueTokens,
           expires' \in [Links!Tokens -> Nat],
           issued' \subseteq Links!Tokens, inHand' \subseteq Links!Tokens,
           consumed' \in [Links!Tokens -> Nat], failed' \in [Links!Times -> Nat],
           outbox' \in [Links!Rows -> RowType],
           rowOf' \in [Links!Tokens -> Links!Rows \cup {None}],
           holder' \in [Links!Rows -> Workers \cup {None}],
           pc' \in [Links!Processes -> Steps],
           code' \in [Links!Processes -> Links!Tokens \cup {None, Wrong}],
           crashes' \in Nat, linkFaults' \in 0 .. QueueFaults
    PROVE  Links!TypeOK'
BY DEF Links!TypeOK, Steps, RowType

(* The types, conjunct by conjunct.                                         *)
LEMMA LinkTypes ==
    ASSUME Links!LinksAssumption, Links!TypeOK
    PROVE  /\ now \in Links!Times /\ minted \in 0 .. QueueTokens
           /\ expires \in [Links!Tokens -> Nat]
           /\ issued \subseteq Links!Tokens /\ inHand \subseteq Links!Tokens
           /\ consumed \in [Links!Tokens -> Nat] /\ failed \in [Links!Times -> Nat]
           /\ outbox \in [Links!Rows -> RowType]
           /\ rowOf \in [Links!Tokens -> Links!Rows \cup {None}]
           /\ holder \in [Links!Rows -> Workers \cup {None}]
           /\ pc \in [Links!Processes -> Steps]
           /\ code \in [Links!Processes -> Links!Tokens \cup {None, Wrong}]
           /\ crashes \in Nat /\ linkFaults \in 0 .. QueueFaults
BY DEF Links!TypeOK, Steps, RowType

(* A new code is one of the codes.                                          *)
LEMMA MintTypes ==
    ASSUME Links!LinksAssumption, Links!TypeOK, NEW p \in Links!Processes,
           NEW r \in Links!Rows \cup {None}, NEW ttl \in Nat, Links!Mint(p, r, ttl)
    PROVE  /\ minted' \in 0 .. QueueTokens /\ expires' \in [Links!Tokens -> Nat]
           /\ rowOf' \in [Links!Tokens -> Links!Rows \cup {None}]
           /\ pc' \in [Links!Processes -> Steps]
           /\ code' \in [Links!Processes -> Links!Tokens \cup {None, Wrong}]
<1>1. minted \in Nat /\ QueueTokens \in Nat /\ minted < QueueTokens /\ minted' = minted + 1
  BY LinkTyped, LinkBounds DEF Links!Mint
<1>2. minted + 1 \in Links!Tokens /\ minted' \in 0 .. QueueTokens
  BY <1>1 DEF Links!Tokens
<1> QED
  BY <1>2, LinkTypes DEF Links!Mint, Links!Goto, Steps

(* A process that finishes.                                                 *)
LEMMA FinishTypes ==
    ASSUME Links!LinksAssumption, Links!TypeOK, NEW p \in Links!Processes, Links!Finish(p)
    PROVE  /\ pc' \in [Links!Processes -> Steps]
           /\ code' \in [Links!Processes -> Links!Tokens \cup {None, Wrong}]
BY LinkTypes DEF Links!Finish, Links!Goto, Steps

(* A fault is counted.                                                      *)
LEMMA FaultTypes ==
    ASSUME Links!LinksAssumption, Links!TypeOK, Links!Fault
    PROVE  linkFaults' \in 0 .. QueueFaults /\ linkFaults' = linkFaults + 1
BY LinkTypes, LinkBounds DEF Links!Fault

(* The steps of requests.                                                   *)
LEMMA RequestLinkKeeps ==
    ASSUME Links!LinksAssumption, LinksInv, NEW p \in Requesters, Links!RequestLink(p)
    PROVE  LinksInv'
<1>1. /\ pc[p] = "idle" /\ Links!Mint(p, None, now + QueueTTL)
      /\ UNCHANGED <<now, issued, inHand, consumed, failed, outbox, holder, crashes, linkFaults>>
  BY DEF Links!RequestLink, Links!At
<1>2. p \in Senders /\ p \in Links!Processes /\ p \notin Workers /\ now + QueueTTL \in Nat
  BY LinkSets, LinkTyped, LinkBounds DEF Senders, LinksInv
<1>3. Links!TypeOK'
  BY <1>1, <1>2, MintTypes, LinkTypes, LinkTypesFrom DEF LinksInv
<1>4. CodesInv'
  BY <1>1, <1>2, MintKeepsCodes DEF LinksInv
<1>5. /\ \A q \in Links!Rows : Links!SentFor(q)' = Links!SentFor(q)
      /\ \A t \in 1 .. minted : rowOf'[t] = rowOf[t]
  BY <1>1, MintSentFor, LinkSets DEF LinksInv
<1>6. \A w \in Workers : pc'[w] = pc[w] /\ code'[w] = code[w]
  <2>1. \A w \in Workers : w # p /\ w \in Links!Processes
    BY <1>2, LinkSets DEF Senders
  <2> QED
    BY <1>1, <2>1, LinkTypes DEF LinksInv, Links!Mint, Links!Goto
<1>7. RowsInv'
  BY <1>1, <1>5, <1>6, RowsStay
<1> QED
  BY <1>3, <1>4, <1>7 DEF LinksInv

(* The rows while codes are neither made nor moved to other rows.           *)
LEMMA SentForStays ==
    ASSUME UNCHANGED <<minted, rowOf>>
    PROVE  /\ \A q : Links!SentFor(q)' = Links!SentFor(q)
           /\ \A t \in 1 .. minted : rowOf'[t] = rowOf[t]
BY DEF Links!SentFor

(* The vendor takes the code, of a request or of a worker.                  *)
LEMMA SendOkKeeps ==
    ASSUME Links!LinksAssumption, LinksInv, NEW p \in Senders, Links!SendOk(p)
    PROVE  LinksInv'
<1>1. /\ pc[p] = "send" /\ pc' = [pc EXCEPT ![p] = "commit"] /\ inHand' = inHand \cup {code[p]}
      /\ UNCHANGED <<now, minted, expires, issued, consumed, failed, outbox, rowOf, holder, crashes,
                     code, linkFaults>>
  BY DEF Links!SendOk, Links!At, Links!Goto
<1>2. p \in Links!Processes /\ code[p] \in Links!Tokens
  <2>1. code[p] \in 1 .. minted /\ minted \in Nat /\ minted <= QueueTokens
    BY <1>1, LinkTyped DEF LinksInv, CodesInv, SenderFits
  <2> QED
    BY <2>1, LinkSets, LinkBounds DEF Links!Tokens
<1>3. Links!TypeOK'
  <2>1. pc' \in [Links!Processes -> Steps]
    BY <1>1, LinkTypes DEF LinksInv, Steps
  <2> QED
    BY <1>1, <1>2, <2>1, LinkTypes, LinkTypesFrom DEF LinksInv
<1>4. CodesInv'
  BY SendKeepsCodes DEF LinksInv
<1>5. \A w \in Workers : (pc'[w] = "idle" <=> pc[w] = "idle") /\ code'[w] = code[w]
  BY <1>1, LinkSets, LinkTypes DEF LinksInv, Senders
<1>6. RowsInv'
  BY <1>1, <1>5, SentForStays, RowsStay
<1> QED
  BY <1>3, <1>4, <1>6 DEF LinksInv

(* A sender that works: what it holds.                                      *)
LEMMA SenderAtWork ==
    ASSUME Links!LinksAssumption, LinksInv, NEW p \in Senders, pc[p] # "idle"
    PROVE  p \in Links!Processes /\ code[p] \in 1 .. minted /\ code[p] \in Links!Tokens
<1>1. code[p] \in 1 .. minted /\ minted \in Nat /\ minted <= QueueTokens
  BY LinkTyped DEF LinksInv, CodesInv, SenderFits
<1> QED
  BY <1>1, LinkSets, LinkBounds DEF Links!Tokens

(* A request that ends leaves the workers alone.                            *)
LEMMA RequestEnds ==
    ASSUME Links!LinksAssumption, LinksInv, NEW p \in Requesters, Links!Finish(p)
    PROVE  \A w \in Workers : pc'[w] = pc[w] /\ code'[w] = code[w]
<1>1. \A w \in Workers : w # p /\ w \in Links!Processes
  BY LinkSets DEF Senders
<1> QED
  BY <1>1, LinkTypes DEF LinksInv, Links!Finish, Links!Goto

(* A request fails: its code may be in the borrower's hands, dead.          *)
LEMMA RequestFailsKeeps ==
    ASSUME Links!LinksAssumption, LinksInv, NEW p \in Requesters, Links!RequestFails(p)
    PROVE  LinksInv'
<1>1. /\ pc[p] # "idle" /\ Links!Fault /\ Links!Finish(p) /\ p \in Senders
      /\ UNCHANGED <<now, minted, expires, issued, inHand, consumed, failed, outbox, rowOf, holder,
                     crashes>>
  BY DEF Links!RequestFails, Links!At, Senders, Links!tokenVars, Links!queueVars
<1>2. Links!TypeOK'
  BY <1>1, SenderAtWork, FinishTypes, FaultTypes, LinkTypes, LinkTypesFrom DEF LinksInv
<1>3. CodesInv'
  BY <1>1, FaultTypes, FinishKeepsCodes DEF LinksInv
<1>4. RowsInv'
  BY <1>1, RequestEnds, SentForStays, RowsStay
<1> QED
  BY <1>2, <1>3, <1>4 DEF LinksInv

(* A request commits: its code works from now on.                           *)
LEMMA RequestCommitsKeeps ==
    ASSUME Links!LinksAssumption, LinksInv, NEW p \in Requesters, Links!RequestCommits(p)
    PROVE  LinksInv'
<1>1. /\ pc[p] # "idle" /\ Links!Finish(p) /\ p \in Senders /\ issued' = issued \cup {code[p]}
      /\ UNCHANGED <<now, minted, expires, inHand, consumed, failed, outbox, rowOf, holder,
                     crashes, linkFaults>>
  BY DEF Links!RequestCommits, Links!At, Senders, Links!queueVars
<1>2. Links!TypeOK'
  BY <1>1, SenderAtWork, FinishTypes, LinkTypes, LinkTypesFrom DEF LinksInv
<1>3. CodesInv'
  <2>1. issued' \subseteq 1 .. minted
    BY <1>1, SenderAtWork DEF LinksInv, CodesInv
  <2> QED
    BY <1>1, <2>1, FinishKeepsCodes DEF LinksInv
<1>4. RowsInv'
  BY <1>1, RequestEnds, SentForStays, RowsStay
<1> QED
  BY <1>2, <1>3, <1>4 DEF LinksInv

(* A worker lets its row go.                                                *)
LEMMA WorkerLeaves ==
    ASSUME Links!LinksAssumption, LinksInv, NEW w \in Workers, pc[w] # "idle", NEW r \in Links!Rows,
           Links!Row(w) = r, holder[r] = w, \A q \in Links!Rows \ {r} : holder[q] # w,
           Links!Release(w), Links!Finish(w), UNCHANGED <<minted, rowOf>>,
           \A q \in Links!Rows \ {r} : outbox'[q] = outbox[q],
           issued \subseteq issued', inHand \subseteq inHand', crashes' \in {crashes, crashes + 1},
           RetriesFit(r)', SentWorks(r)'
    PROVE  RowsInv' /\ holder' \in [Links!Rows -> Workers \cup {None}]
<1>1. /\ holder \in [Links!Rows -> Workers \cup {None}] /\ w \in Links!Processes /\ w \in Senders
      /\ pc \in [Links!Processes -> Steps] /\ Workers \subseteq Links!Processes
      /\ code \in [Links!Processes -> Links!Tokens \cup {None, Wrong}] /\ w # None
  BY LinkTyped, LinkSets DEF LinksInv, Senders
<1>2. /\ holder' = [holder EXCEPT ![r] = None] /\ pc' = [pc EXCEPT ![w] = "idle"]
      /\ code' = [code EXCEPT ![w] = None]
  BY DEF Links!Release, Links!Finish, Links!Goto
<1>3. holder'[r] = None /\ \A q \in Links!Rows \ {r} : holder'[q] = holder[q]
  BY <1>1, <1>2
<1>4. pc'[w] = "idle" /\ \A v \in Workers \ {w} : pc'[v] = pc[v] /\ code'[v] = code[v]
  BY <1>1, <1>2
<1>5. Turned(w, r)
  BY <1>3, <1>4, SentForStays DEF Turned
<1>6. Settled(w, r)
  BY <1>1, <1>3, <1>4 DEF Settled, HolderFits, Held
<1>7. RowsInv'
  BY <1>1, <1>5, <1>6, RowTurns
<1> QED
  BY <1>1, <1>2, <1>7

(* The fields of a row, and what the invariant says of one that is pending. *)
LEMMA RowPending ==
    ASSUME Links!LinksAssumption, LinksInv, NEW r \in Links!Rows, outbox[r].st = "pending"
    PROVE  \E a \in Nat, n \in Nat, s \in Nat, c \in Nat, h \in {0, 1} :
             /\ a = outbox[r].attempts /\ n = Cardinality(Links!SentFor(r)) /\ s = MostSends
             /\ c = crashes /\ h = IF Held(r) THEN 1 ELSE 0
             /\ 1 <= a /\ a <= s /\ n + 1 <= a + c + h /\ n <= s + c
<1>1. outbox[r].attempts \in Nat /\ Cardinality(Links!SentFor(r)) \in Nat /\ crashes \in Nat
  BY LinkTyped, SentForTyped DEF LinksInv, RowType
<1>2. MostSends \in Nat
  BY LinkBounds DEF MostSends
<1>3. RetriesFit(r)
  BY DEF LinksInv, RowsInv
<1>4. (IF Held(r) THEN 1 ELSE 0) \in {0, 1}
  OBVIOUS
<1> QED
  BY <1>1, <1>2, <1>3, <1>4 DEF RetriesFit

(* A row is failed: no more codes are sent for it.                          *)
LEMMA FailedFits ==
    ASSUME Links!LinksAssumption, LinksInv, NEW r \in Links!Rows, outbox[r].st = "pending",
           Links!MarkFailed(r), UNCHANGED <<minted, rowOf>>, crashes' = crashes
    PROVE  /\ RetriesFit(r)' /\ SentWorks(r)' /\ outbox' \in [Links!Rows -> RowType]
           /\ outbox'[r].st = "failed" /\ \A q \in Links!Rows \ {r} : outbox'[q] = outbox[q]
<1>1. outbox \in [Links!Rows -> RowType]
  BY LinkTyped DEF LinksInv
<1>2. PICK f \in RowType : f.st = "failed"
             /\ f = [outbox[r] EXCEPT !.st = "failed", !.attempts = outbox[r].attempts + 1]
  <2>1. PICK e \in RowType : e = outbox[r]
    BY <1>1
  <2>2. e.attempts + 1 \in Nat
    BY <2>1 DEF RowType
  <2>3. PICK k \in Nat : k = e.attempts + 1
    BY <2>2
  <2>4. [e EXCEPT !.st = "failed", !.attempts = k] \in RowType
        /\ [e EXCEPT !.st = "failed", !.attempts = k].st = "failed"
    BY <2>1, <2>3 DEF RowType
  <2> QED
    BY <2>1, <2>3, <2>4
<1>3. f.st = "failed"
  BY <1>2
<1>4. outbox' = [outbox EXCEPT ![r] = f]
  <2>1. outbox' = [outbox EXCEPT ![r].st = "failed", ![r].attempts = @ + 1]
    BY DEF Links!MarkFailed
  <2> QED
    BY <1>1, <1>2, <2>1 DEF RowType
<1>5. outbox'[r] = f /\ outbox' \in [Links!Rows -> RowType]
      /\ \A q \in Links!Rows \ {r} : outbox'[q] = outbox[q]
  BY <1>1, <1>4
<1>6. RetriesFit(r)'
  <2>1. Cardinality(Links!SentFor(r)) <= MostSends + crashes
    BY DEF LinksInv, RowsInv, RetriesFit
  <2>2. Links!SentFor(r)' = Links!SentFor(r)
    BY SentForStays
  <2> QED
    BY <1>3, <1>5, <2>1, <2>2 DEF RetriesFit
<1> QED
  BY <1>3, <1>5, <1>6 DEF SentWorks

(* A row past its window fails at the claim.                                *)
LEMMA ClaimExpiredKeeps ==
    ASSUME Links!LinksAssumption, LinksInv, NEW w \in Workers, NEW r \in Links!Rows,
           Links!ClaimExpired(w, r)
    PROVE  LinksInv'
<1>1. /\ pc[w] = "idle" /\ holder[r] = None /\ outbox[r].st = "pending" /\ Links!MarkFailed(r)
      /\ UNCHANGED <<now, minted, expires, issued, inHand, consumed, failed, rowOf, holder,
                     crashes, pc, code, linkFaults>>
  BY DEF Links!ClaimExpired, Links!At, Links!Claimable, Links!Due, Links!tokenVars
<1>2. /\ RetriesFit(r)' /\ SentWorks(r)' /\ outbox' \in [Links!Rows -> RowType]
      /\ \A q \in Links!Rows \ {r} : outbox'[q] = outbox[q]
  BY <1>1, FailedFits
<1>3. w \in Senders /\ \A q \in Links!Rows : Held(q) => holder[q] # w
  BY <1>1, IdleHoldsNone DEF Senders
<1>4. Links!TypeOK'
  BY <1>1, <1>2, LinkTypes, LinkTypesFrom DEF LinksInv
<1>5. CodesInv'
  BY <1>1, OthersKeepCodes DEF LinksInv
<1>6. Turned(w, r)
  BY <1>1, <1>2, <1>3, SentForStays DEF Turned
<1>7. Settled(w, r)
  BY <1>1, <1>2, LinkSets DEF Settled, HolderFits, Held
<1>8. RowsInv'
  BY <1>1, <1>3, <1>6, <1>7, RowTurns DEF Held
<1> QED
  BY <1>4, <1>5, <1>8 DEF LinksInv

(* A worker locks a row and makes a code for it.                            *)
LEMMA ClaimKeeps ==
    ASSUME Links!LinksAssumption, LinksInv, NEW w \in Workers, NEW r \in Links!Rows,
           Links!Claim(w, r)
    PROVE  LinksInv'
<1>1. /\ pc[w] = "idle" /\ holder[r] = None /\ outbox[r].st = "pending"
      /\ holder' = [holder EXCEPT ![r] = w] /\ Links!Mint(w, r, outbox[r].ttl)
      /\ UNCHANGED <<now, issued, inHand, consumed, failed, outbox, crashes, linkFaults>>
  BY DEF Links!Claim, Links!At, Links!Claimable, Links!Due
<1>2. /\ w \in Senders /\ w \in Links!Processes /\ outbox[r].ttl \in Nat /\ w # None
      /\ \A q \in Links!Rows : Held(q) => holder[q] # w
      /\ Workers \subseteq Links!Processes
  BY <1>1, IdleHoldsNone, LinkTyped, LinkSets DEF LinksInv, Senders, RowType
<1>3. Links!TypeOK'
  <2>1. holder' \in [Links!Rows -> Workers \cup {None}]
    BY <1>1, LinkTypes DEF LinksInv
  <2> QED
    BY <1>1, <1>2, <2>1, MintTypes, LinkTypes, LinkTypesFrom DEF LinksInv
<1>4. CodesInv'
  BY <1>1, <1>2, MintKeepsCodes DEF LinksInv
<1>5. PICK m \in Nat : m = minted + 1
  BY LinkTyped DEF LinksInv
<1>6. /\ \A q \in Links!Rows \ {r} : Links!SentFor(q)' = Links!SentFor(q)
      /\ Links!SentFor(r)' = Links!SentFor(r) \cup {m} /\ m \notin Links!SentFor(r)
      /\ \A t \in 1 .. minted : rowOf'[t] = rowOf[t]
      /\ rowOf'[m] = r
  BY <1>1, <1>5, MintSentFor DEF LinksInv
<1>7. /\ pc'[w] = "send" /\ code'[w] = m
      /\ \A v \in Workers \ {w} : pc'[v] = pc[v] /\ code'[v] = code[v]
  BY <1>1, <1>2, <1>5, LinkTypes DEF LinksInv, Links!Mint, Links!Goto
<1>8. holder'[r] = w /\ \A q \in Links!Rows \ {r} : holder'[q] = holder[q]
  BY <1>1, LinkTypes DEF LinksInv
<1>9. Turned(w, r)
  BY <1>1, <1>2, <1>6, <1>7, <1>8 DEF Turned
<1>10. RetriesFit(r)'
  <2>1. PICK a \in Nat, n \in Nat, s \in Nat, c \in Nat, h \in {0, 1} :
             /\ a = outbox[r].attempts /\ n = Cardinality(Links!SentFor(r)) /\ s = MostSends
             /\ c = crashes /\ h = IF Held(r) THEN 1 ELSE 0
             /\ 1 <= a /\ a <= s /\ n + 1 <= a + c + h /\ n <= s + c
    BY <1>1, RowPending
  <2>2. h = 0
    BY <1>1, <2>1 DEF Held
  <2>3. Cardinality(Links!SentFor(r)') = n + 1
    BY <1>6, <2>1, SentForTyped, FS_AddElement DEF LinksInv
  <2>4. Held(r)'
    BY <1>2, <1>8 DEF Held
  <2>5. n + 1 <= s + c /\ (n + 1) + 1 <= a + c + 1
    BY <2>1, <2>2
  <2> QED
    BY <1>1, <2>1, <2>3, <2>4, <2>5 DEF RetriesFit, MostSends
<1>11. Settled(w, r)
  BY <1>1, <1>6, <1>7, <1>8, <1>10 DEF Settled, HolderFits, SentWorks
<1>12. RowsInv'
  BY <1>1, <1>2, <1>9, <1>11, RowTurns DEF Held
<1> QED
  BY <1>3, <1>4, <1>12 DEF LinksInv

(* mark_sent and the issued event, in one transaction.                      *)
LEMMA WorkerCommitsKeeps ==
    ASSUME Links!LinksAssumption, LinksInv, NEW w \in Workers, Links!WorkerCommits(w)
    PROVE  LinksInv'
<1>1. /\ pc[w] = "commit" /\ pc[w] # "idle" /\ Links!Release(w) /\ Links!Finish(w) /\ w \in Senders
      /\ outbox' = [outbox EXCEPT ![Links!Row(w)].st = "sent"]
      /\ issued' = issued \cup {code[w]}
      /\ UNCHANGED <<now, minted, expires, inHand, consumed, failed, rowOf, crashes, linkFaults>>
  BY DEF Links!WorkerCommits, Links!At, Senders
<1>2. PICK r \in Links!Rows :
             /\ Links!Row(w) = r /\ holder[r] = w /\ Held(r) /\ outbox[r].st = "pending"
             /\ rowOf[code[w]] = r /\ code[w] \in 1 .. minted /\ pc[w] \in {"send", "commit"}
             /\ \A q \in Links!Rows \ {r} : holder[q] # w
  BY <1>1, RowOfWorker
<1>3. PICK e \in RowType : e = outbox[r]
  BY LinkTyped DEF LinksInv
<1>4. PICK f \in RowType : f = [e EXCEPT !.st = "sent"] /\ f.st = "sent"
  <2>1. [e EXCEPT !.st = "sent"] \in RowType /\ [e EXCEPT !.st = "sent"].st = "sent"
    BY <1>3 DEF RowType
  <2> QED
    BY <2>1
<1>5. outbox' = [outbox EXCEPT ![r] = f] /\ outbox \in [Links!Rows -> RowType]
  BY <1>1, <1>2, <1>3, <1>4, LinkTyped DEF LinksInv
<1>6. outbox'[r] = f /\ outbox' \in [Links!Rows -> RowType]
      /\ \A q \in Links!Rows \ {r} : outbox'[q] = outbox[q]
  BY <1>5
<1>7. RetriesFit(r)'
  <2>1. Cardinality(Links!SentFor(r)) <= MostSends + crashes
    BY DEF LinksInv, RowsInv, RetriesFit
  <2>2. Links!SentFor(r)' = Links!SentFor(r)
    BY <1>1, SentForStays
  <2> QED
    BY <1>1, <1>4, <1>6, <2>1, <2>2 DEF RetriesFit
<1>8. SentWorks(r)'
  <2>1. code[w] \in Links!SentFor(r)
    BY <1>2 DEF Links!SentFor
  <2>2. code[w] \in inHand
    BY <1>1 DEF LinksInv, CodesInv, SenderFits
  <2>3. Links!SentFor(r)' = Links!SentFor(r)
    BY <1>1, SentForStays
  <2> QED
    BY <1>1, <2>1, <2>2, <2>3 DEF SentWorks
<1>9. issued \subseteq issued' /\ issued' \subseteq Links!Tokens
  BY <1>1, SenderAtWork, LinkTypes DEF LinksInv
<1>10. RowsInv' /\ holder' \in [Links!Rows -> Workers \cup {None}]
  BY <1>1, <1>2, <1>6, <1>7, <1>8, <1>9, WorkerLeaves
<1>11. Links!TypeOK'
  BY <1>1, <1>6, <1>9, <1>10, SenderAtWork, FinishTypes, LinkTypes, LinkTypesFrom DEF LinksInv
<1>12. CodesInv'
  <2>1. issued' \subseteq 1 .. minted
    BY <1>1, <1>2 DEF LinksInv, CodesInv
  <2> QED
    BY <1>1, <1>9, <2>1, FinishKeepsCodes DEF LinksInv
<1> QED
  BY <1>10, <1>11, <1>12 DEF LinksInv

(* A permanent failure.                                                     *)
LEMMA WorkerRefusedKeeps ==
    ASSUME Links!LinksAssumption, LinksInv, NEW w \in Workers, Links!WorkerRefused(w)
    PROVE  LinksInv'
<1>1. /\ pc[w] # "idle" /\ Links!Release(w) /\ Links!Finish(w) /\ w \in Senders
      /\ Links!MarkFailed(Links!Row(w)) /\ Links!Fault
      /\ UNCHANGED <<now, minted, expires, issued, inHand, consumed, failed, rowOf, crashes>>
  BY DEF Links!WorkerRefused, Links!At, Senders, Links!tokenVars
<1>2. PICK r \in Links!Rows :
             /\ Links!Row(w) = r /\ holder[r] = w /\ Held(r) /\ outbox[r].st = "pending"
             /\ rowOf[code[w]] = r /\ code[w] \in 1 .. minted /\ pc[w] \in {"send", "commit"}
             /\ \A q \in Links!Rows \ {r} : holder[q] # w
  BY <1>1, RowOfWorker
<1>3. /\ RetriesFit(r)' /\ SentWorks(r)' /\ outbox' \in [Links!Rows -> RowType]
      /\ \A q \in Links!Rows \ {r} : outbox'[q] = outbox[q]
  BY <1>1, <1>2, FailedFits
<1>4. RowsInv' /\ holder' \in [Links!Rows -> Workers \cup {None}]
  BY <1>1, <1>2, <1>3, WorkerLeaves
<1>5. Links!TypeOK'
  BY <1>1, <1>3, <1>4, SenderAtWork, FinishTypes, FaultTypes, LinkTypes, LinkTypesFrom DEF LinksInv
<1>6. CodesInv'
  BY <1>1, FaultTypes, FinishKeepsCodes DEF LinksInv
<1> QED
  BY <1>4, <1>5, <1>6 DEF LinksInv

(* A worker dies: the row is free, and pays with the crash.                 *)
LEMMA WorkerCrashKeeps ==
    ASSUME Links!LinksAssumption, LinksInv, NEW w \in Workers, Links!WorkerCrash(w)
    PROVE  LinksInv'
<1>1. /\ pc[w] # "idle" /\ Links!Release(w) /\ Links!Finish(w) /\ w \in Senders
      /\ crashes' = crashes + 1 /\ Links!Fault
      /\ UNCHANGED <<now, minted, expires, issued, inHand, consumed, failed, outbox, rowOf>>
  BY DEF Links!WorkerCrash, Links!At, Senders, Links!tokenVars
<1>2. PICK r \in Links!Rows :
             /\ Links!Row(w) = r /\ holder[r] = w /\ Held(r) /\ outbox[r].st = "pending"
             /\ rowOf[code[w]] = r /\ code[w] \in 1 .. minted /\ pc[w] \in {"send", "commit"}
             /\ \A q \in Links!Rows \ {r} : holder[q] # w
  BY <1>1, RowOfWorker
<1>3. PICK a \in Nat, n \in Nat, s \in Nat, c \in Nat, h \in {0, 1} :
             /\ a = outbox[r].attempts /\ n = Cardinality(Links!SentFor(r)) /\ s = MostSends
             /\ c = crashes /\ h = IF Held(r) THEN 1 ELSE 0
             /\ 1 <= a /\ a <= s /\ n + 1 <= a + c + h /\ n <= s + c
  BY <1>2, RowPending
<1>4. RetriesFit(r)'
  <2>1. n + 1 <= a + (c + 1) /\ n + 1 <= a + (c + 1) + 1 /\ n <= s + (c + 1)
    BY <1>3
  <2>2. Links!SentFor(r)' = Links!SentFor(r)
    BY <1>1, SentForStays
  <2>3. n + 1 <= a + (c + 1) + (IF Held(r)' THEN 1 ELSE 0)
    BY <2>1
  <2> QED
    BY <1>1, <1>2, <1>3, <2>1, <2>2, <2>3 DEF RetriesFit, MostSends
<1>5. SentWorks(r)'
  BY <1>1, <1>2 DEF SentWorks
<1>6. RowsInv' /\ holder' \in [Links!Rows -> Workers \cup {None}]
  BY <1>1, <1>2, <1>4, <1>5, WorkerLeaves
<1>7. Links!TypeOK'
  BY <1>1, <1>6, SenderAtWork, FinishTypes, FaultTypes, LinkTypes, LinkTypesFrom DEF LinksInv
<1>8. CodesInv'
  BY <1>1, FaultTypes, FinishKeepsCodes DEF LinksInv
<1> QED
  BY <1>6, <1>7, <1>8 DEF LinksInv

(* What a transient failure leaves in the borrower's hands.                 *)
LEMMA ReachTypes ==
    ASSUME Links!LinksAssumption, LinksInv, NEW p \in Senders, pc[p] # "idle", NEW arrived,
           Links!Reach(p, arrived)
    PROVE  /\ inHand \subseteq inHand' /\ inHand' \subseteq inHand \cup {code[p]}
           /\ inHand' \subseteq Links!Tokens
BY SenderAtWork, LinkTypes DEF LinksInv, Links!Reach

(* A transient failure: the row pays with an attempt, or fails.             *)
LEMMA WorkerDelayedKeeps ==
    ASSUME Links!LinksAssumption, LinksInv, NEW w \in Workers, NEW arrived,
           Links!WorkerDelayed(w, arrived)
    PROVE  LinksInv'
<1>1. PICK r : r = Links!Row(w)
  OBVIOUS
<1>2. /\ pc[w] # "idle" /\ Links!Release(w) /\ Links!Finish(w) /\ w \in Senders
      /\ Links!Reach(w, arrived) /\ Links!Fault
      /\ IF Links!IsExhausted(outbox[r].attempts + 1)
         THEN Links!MarkFailed(r)
         ELSE outbox' = [outbox EXCEPT ![r].attempts = @ + 1,
                              ![r].next = Links!NextAttemptAt(outbox[r].attempts + 2)]
      /\ UNCHANGED <<now, minted, expires, issued, consumed, failed, rowOf, crashes>>
  BY <1>1 DEF Links!WorkerDelayed, Links!At, Senders
<1>3. /\ r \in Links!Rows /\ holder[r] = w /\ Held(r) /\ outbox[r].st = "pending"
      /\ \A q \in Links!Rows \ {r} : holder[q] # w
  <2>1. PICK q \in Links!Rows :
             /\ Links!Row(w) = q /\ holder[q] = w /\ Held(q) /\ outbox[q].st = "pending"
             /\ rowOf[code[w]] = q /\ code[w] \in 1 .. minted /\ pc[w] \in {"send", "commit"}
             /\ \A s \in Links!Rows \ {q} : holder[s] # w
    BY <1>2, RowOfWorker
  <2> QED
    BY <1>1, <2>1
<1>4. /\ RetriesFit(r)' /\ SentWorks(r)' /\ outbox' \in [Links!Rows -> RowType]
      /\ \A q \in Links!Rows \ {r} : outbox'[q] = outbox[q]
  <2>1. CASE Links!IsExhausted(outbox[r].attempts + 1)
    <3>1. Links!MarkFailed(r)
      BY <1>2, <2>1
    <3> QED
      BY <1>2, <1>3, <3>1, FailedFits
  <2>2. CASE ~Links!IsExhausted(outbox[r].attempts + 1)
    <3>1. PICK a \in Nat, n \in Nat, s \in Nat, c \in Nat, h \in {0, 1} :
             /\ a = outbox[r].attempts /\ n = Cardinality(Links!SentFor(r)) /\ s = MostSends
             /\ c = crashes /\ h = IF Held(r) THEN 1 ELSE 0
             /\ 1 <= a /\ a <= s /\ n + 1 <= a + c + h /\ n <= s + c
      BY <1>3, RowPending
    <3>2. PICK e \in RowType : e = outbox[r] /\ e.st = "pending" /\ e.attempts = a
      BY <1>3, <3>1, LinkTyped DEF LinksInv
    <3>3. PICK d \in Nat : d = Links!NextAttemptAt(a + 2)
      <4>1. Links!DelayFor(a + 2) \in Nat
        BY DelayTyped
      <4>2. now \in Nat
        BY LinkTyped DEF LinksInv
      <4> QED
        BY <4>1, <4>2 DEF Links!NextAttemptAt
    <3>4. PICK k \in Nat : k = a + 1
      OBVIOUS
    <3>5. PICK f \in RowType : f.st = "pending" /\ f.attempts = k
                               /\ f = [e EXCEPT !.attempts = k, !.next = d]
      <4>1. /\ [e EXCEPT !.attempts = k, !.next = d] \in RowType
            /\ [e EXCEPT !.attempts = k, !.next = d].st = "pending"
            /\ [e EXCEPT !.attempts = k, !.next = d].attempts = k
        BY <3>2, <3>3, <3>4 DEF RowType
      <4> QED
        BY <4>1
    <3>6. outbox' = [outbox EXCEPT ![r] = f] /\ outbox \in [Links!Rows -> RowType]
      <4>1. outbox' = [outbox EXCEPT ![r].attempts = @ + 1, ![r].next = d]
        BY <1>2, <2>2, <3>1, <3>3
      <4>2. outbox \in [Links!Rows -> RowType]
        BY LinkTyped DEF LinksInv
      <4> QED
        BY <1>3, <3>1, <3>2, <3>4, <3>5, <4>1, <4>2 DEF RowType
    <3>7. outbox'[r] = f /\ outbox' \in [Links!Rows -> RowType]
          /\ \A q \in Links!Rows \ {r} : outbox'[q] = outbox[q]
      BY <1>3, <3>6
    <3>8. k <= s
      <4>1. MaxRetries \in Nat /\ ~(a + 1 >= 1 + MaxRetries)
        BY <2>2, <3>1, LinkBounds DEF Links!IsExhausted
      <4>2. PICK m \in Nat : m = MaxRetries
        BY <4>1
      <4>3. m # 0 /\ a + 1 <= m
        BY <4>1, <4>2
      <4>4. s = m
        BY <3>1, <4>2, <4>3 DEF MostSends
      <4> QED
        BY <3>4, <4>3, <4>4
    <3>9. RetriesFit(r)'
      <4>1. 1 <= k /\ n + 1 <= k + c /\ n + 1 <= k + c + 1
        BY <3>1, <3>4
      <4>2. n + 1 <= k + c + (IF Held(r)' THEN 1 ELSE 0)
        BY <4>1
      <4>3. Links!SentFor(r)' = Links!SentFor(r)
        BY <1>2, SentForStays
      <4> QED
        BY <1>2, <3>1, <3>5, <3>7, <3>8, <4>1, <4>2, <4>3 DEF RetriesFit, MostSends
    <3>10. SentWorks(r)'
      BY <3>5, <3>7 DEF SentWorks
    <3> QED
      BY <3>7, <3>9, <3>10
  <2> QED
    BY <2>1, <2>2
<1>5. /\ inHand \subseteq inHand' /\ inHand' \subseteq inHand \cup {code[w]}
      /\ inHand' \subseteq Links!Tokens
  BY <1>2, ReachTypes
<1>6. RowsInv' /\ holder' \in [Links!Rows -> Workers \cup {None}]
  BY <1>1, <1>2, <1>3, <1>4, <1>5, WorkerLeaves
<1>7. Links!TypeOK'
  BY <1>2, <1>4, <1>5, <1>6, SenderAtWork, FinishTypes, FaultTypes, LinkTypes, LinkTypesFrom
  DEF LinksInv
<1>8. CodesInv'
  BY <1>2, <1>5, FaultTypes, FinishKeepsCodes DEF LinksInv
<1> QED
  BY <1>6, <1>7, <1>8 DEF LinksInv

(* A request that fails for now leaves a row behind.                        *)
LEMMA RequestQueuedKeeps ==
    ASSUME Links!LinksAssumption, LinksInv, NEW p \in Requesters, NEW arrived,
           Links!RequestQueued(p, arrived)
    PROVE  LinksInv'
<1>1. PICK r \in Links!Rows : r = Links!FreeRow /\ outbox[r].st = "none"
  <2>1. \E q \in Links!Rows : outbox[q].st = "none"
    BY DEF Links!RequestQueued
  <2> QED
    BY <2>1 DEF Links!FreeRow
<1>2. /\ pc[p] # "idle" /\ Links!Fault /\ Links!Finish(p) /\ p \in Senders /\ p \notin Workers
      /\ Links!Reach(p, arrived)
      /\ outbox' = [outbox EXCEPT ![r] = [st |-> "pending", attempts |-> 1,
                                 next |-> Links!NextAttemptAt(2), ttl |-> now + QueueTTL]]
      /\ UNCHANGED <<now, minted, expires, issued, consumed, failed, rowOf, holder, crashes>>
  BY <1>1, LinkSets DEF Links!RequestQueued, Links!At, Senders
<1>3. /\ inHand \subseteq inHand' /\ inHand' \subseteq inHand \cup {code[p]}
      /\ inHand' \subseteq Links!Tokens
  BY <1>2, ReachTypes
<1>4. PICK d \in Nat, l \in Nat : d = Links!NextAttemptAt(2) /\ l = now + QueueTTL
  <2>1. Links!DelayFor(2) \in Nat
    BY DelayTyped
  <2>2. now \in Nat /\ QueueTTL \in Nat
    BY LinkTyped, LinkBounds DEF LinksInv
  <2> QED
    BY <2>1, <2>2 DEF Links!NextAttemptAt
<1>5. PICK f \in RowType : f.st = "pending" /\ f.attempts = 1
                           /\ f = [st |-> "pending", attempts |-> 1, next |-> d, ttl |-> l]
  <2>1. [st |-> "pending", attempts |-> 1, next |-> d, ttl |-> l] \in RowType
    BY DEF RowType
  <2> QED
    BY <2>1
<1>6. outbox' = [outbox EXCEPT ![r] = f] /\ outbox \in [Links!Rows -> RowType]
  BY <1>2, <1>4, <1>5, LinkTyped DEF LinksInv
<1>7. outbox'[r] = f /\ outbox' \in [Links!Rows -> RowType]
      /\ \A q \in Links!Rows \ {r} : outbox'[q] = outbox[q]
  BY <1>6
<1>8. Links!TypeOK'
  BY <1>2, <1>3, <1>7, SenderAtWork, FinishTypes, FaultTypes, LinkTypes, LinkTypesFrom
  DEF LinksInv
<1>9. CodesInv'
  BY <1>2, <1>3, FaultTypes, FinishKeepsCodes DEF LinksInv
<1>10. ~Held(r) /\ Links!SentFor(r) = {}
  BY <1>1 DEF LinksInv, RowsInv, HolderFits, RetriesFit
<1>11. \A q \in Links!Rows : Held(q) => holder[q] # p
  BY <1>2, IdleHoldsNone
<1>12. Turned(p, r)
  BY <1>2, <1>3, <1>7, <1>11, RequestEnds, SentForStays DEF Turned
<1>13. Settled(p, r)
  <2>1. ~Held(r)' /\ holder'[r] = None
    BY <1>2, <1>10 DEF Held
  <2>2. Links!SentFor(r)' = {} /\ Cardinality(Links!SentFor(r)') = 0
    BY <1>2, <1>10, SentForStays, FS_EmptySet
  <2>3. PICK s \in Nat, c \in Nat : s = MostSends /\ c = crashes /\ 1 <= s
    <3>1. MostSends \in Nat /\ 1 <= MostSends
      BY LinkBounds DEF MostSends
    <3> QED
      BY <3>1, LinkTyped DEF LinksInv
  <2>4. 0 + 1 <= 1 + c + 0 /\ 0 <= s + c
    BY <2>3
  <2>5. RetriesFit(r)'
    BY <1>2, <1>5, <1>7, <2>1, <2>2, <2>3, <2>4 DEF RetriesFit, MostSends
  <2> QED
    BY <1>2, <1>5, <1>7, <2>1, <2>5 DEF Settled, HolderFits, SentWorks
<1>14. RowsInv'
  BY <1>2, <1>10, <1>12, <1>13, RowTurns
<1> QED
  BY <1>8, <1>9, <1>14 DEF LinksInv

(* A step that moves the reader only, or the clock.                         *)
LEMMA ReaderKeeps ==
    ASSUME Links!LinksAssumption, LinksInv,
           \A p \in Senders : pc'[p] = pc[p] /\ code'[p] = code[p],
           UNCHANGED <<minted, expires, issued, inHand, outbox, rowOf, holder, crashes, linkFaults>>,
           now' \in Links!Times, consumed' \in [Links!Tokens -> Nat],
           failed' \in [Links!Times -> Nat], pc' \in [Links!Processes -> Steps],
           code' \in [Links!Processes -> Links!Tokens \cup {None, Wrong}]
    PROVE  LinksInv'
<1>1. Links!TypeOK'
  BY LinkTypes, LinkTypesFrom DEF LinksInv
<1>2. CodesInv'
  BY OthersKeepCodes DEF LinksInv
<1>3. RowsInv'
  BY SentForStays, RowsStay DEF Senders
<1> QED
  BY <1>1, <1>2, <1>3 DEF LinksInv

(* One count more.                                                          *)
LEMMA CountedOnce ==
    ASSUME NEW S, NEW f \in [S -> Nat], NEW k
    PROVE  [f EXCEPT ![k] = @ + 1] \in [S -> Nat]
<1>1. CASE k \in S
  BY <1>1
<1>2. CASE k \notin S
  BY <1>2
<1> QED
  BY <1>1, <1>2

(* The borrower exchanges a code.                                           *)
LEMMA ReaderSteps ==
    ASSUME Links!LinksAssumption, LinksInv, Links!Exchange(Reader)
    PROVE  LinksInv'
<1>1. /\ Reader \in Links!Processes /\ Reader \notin Senders /\ Senders \subseteq Links!Processes
      /\ pc \in [Links!Processes -> Steps] /\ now \in Links!Times
      /\ code \in [Links!Processes -> Links!Tokens \cup {None, Wrong}]
      /\ consumed \in [Links!Tokens -> Nat] /\ failed \in [Links!Times -> Nat]
      /\ inHand \subseteq Links!Tokens
  BY LinkSets, LinkTypes DEF LinksInv
<1>2. ASSUME NEW t \in inHand \cup {Wrong}, Links!LookUp(Reader, t) PROVE LinksInv'
  <2>1. PICK s \in {"reject", "consume"} : pc' = [pc EXCEPT ![Reader] = s]
    BY <1>2 DEF Links!LookUp, Links!Goto
  <2>2. /\ code' = [code EXCEPT ![Reader] = t]
        /\ UNCHANGED <<now, minted, expires, issued, inHand, consumed, failed, outbox, rowOf,
                       holder, crashes, linkFaults>>
    BY <1>2 DEF Links!LookUp, Links!tokenVars, Links!queueVars
  <2>3. pc' \in [Links!Processes -> Steps]
        /\ code' \in [Links!Processes -> Links!Tokens \cup {None, Wrong}]
    BY <1>1, <2>1, <2>2 DEF Steps
  <2>4. \A p \in Senders : pc'[p] = pc[p] /\ code'[p] = code[p]
    BY <1>1, <2>1, <2>2
  <2> QED
    BY <1>1, <2>2, <2>3, <2>4, ReaderKeeps
<1>3. ASSUME Links!RecordFailed(Reader) \/ Links!ConsumeCode(Reader) PROVE LinksInv'
  <2>1. /\ pc' = [pc EXCEPT ![Reader] = "idle"] /\ code' = [code EXCEPT ![Reader] = None]
        /\ UNCHANGED <<now, minted, expires, issued, inHand, outbox, rowOf,
                       holder, crashes, linkFaults>>
    BY <1>3 DEF Links!RecordFailed, Links!ConsumeCode, Links!queueVars, Links!Finish, Links!Goto
  <2>2. pc' \in [Links!Processes -> Steps]
        /\ code' \in [Links!Processes -> Links!Tokens \cup {None, Wrong}]
    BY <1>1, <2>1 DEF Steps
  <2>3. \A p \in Senders : pc'[p] = pc[p] /\ code'[p] = code[p]
    BY <1>1, <2>1
  <2>4. /\ failed' = [failed EXCEPT ![now] = @ + 1] \/ failed' = failed
        /\ consumed' = [consumed EXCEPT ![code[Reader]] = @ + 1] \/ consumed' = consumed
    BY <1>3 DEF Links!RecordFailed, Links!ConsumeCode
  <2>5. failed' \in [Links!Times -> Nat] /\ consumed' \in [Links!Tokens -> Nat]
    BY <1>1, <2>4, CountedOnce
  <2> QED
    BY <1>1, <2>1, <2>2, <2>3, <2>5, ReaderKeeps
<1> QED
  BY <1>2, <1>3 DEF Links!Exchange

(* Time passes.                                                             *)
LEMMA TickKeeps ==
    ASSUME Links!LinksAssumption, LinksInv, Links!Tick
    PROVE  LinksInv'
<1>1. /\ now < QueueTime /\ now' = now + 1
      /\ UNCHANGED <<minted, expires, issued, inHand, consumed, failed, outbox, rowOf,
                     holder, crashes, pc, code, linkFaults>>
  BY DEF Links!Tick, Links!tokenVars, Links!queueVars
<1>2. now' \in Links!Times
  BY <1>1, LinkTyped, LinkBounds DEF LinksInv, Links!Times
<1> QED
  BY <1>1, <1>2, LinkTypes, ReaderKeeps DEF LinksInv

(* The queue starts empty.                                                  *)
LEMMA LinksInit == Links!LinksAssumption /\ Links!Init => LinksInv
<1> SUFFICES ASSUME Links!LinksAssumption, Links!Init PROVE LinksInv
  OBVIOUS
<1>1. Links!TypeOK
  BY LinkBounds DEF Links!Init, Links!TypeOK, Links!Times, Links!NoRow
<1>2. CodesInv
  <2>1. DeadCodes = {}
    BY DEF DeadCodes, Links!Init
  <2>2. Cardinality(DeadCodes) <= linkFaults
    BY <2>1, FS_EmptySet DEF Links!Init
  <2>3. \A p \in Senders : SenderFits(p)
    BY LinkSets DEF SenderFits, Links!Init
  <2> QED
    BY <2>2, <2>3 DEF CodesInv, Links!Init
<1>3. ASSUME NEW r \in Links!Rows PROVE HolderFits(r) /\ RetriesFit(r) /\ SentWorks(r) /\ ~Held(r)
  <2>1. Links!SentFor(r) = {} /\ Cardinality(Links!SentFor(r)) = 0
    <3>1. Links!SentFor(r) = {}
      BY DEF Links!SentFor, Links!Init
    <3> QED
      BY <3>1, FS_EmptySet
  <2>2. outbox[r].st = "none" /\ holder[r] = None /\ crashes = 0
    BY DEF Links!Init, Links!NoRow
  <2>3. 0 <= MostSends + 0
    BY LinkBounds DEF MostSends
  <2> QED
    BY <2>1, <2>2, <2>3 DEF HolderFits, RetriesFit, SentWorks, Held
<1>4. \A w \in Workers : HasRow(w)
  BY LinkSets DEF HasRow, Links!Init, Senders
<1> QED
  BY <1>1, <1>2, <1>3, <1>4 DEF LinksInv, RowsInv, OneRowEach

(* The invariant of the retry queue is inductive.                           *)
LEMMA LinksStep ==
    ASSUME Links!LinksAssumption, LinksInv, Links!Next
    PROVE  LinksInv'
<1>1. ASSUME NEW p \in Requesters, Links!Request(p) PROVE LinksInv'
  <2>1. p \in Senders
    BY DEF Senders
  <2> QED
    BY <1>1, <2>1, RequestLinkKeeps, SendOkKeeps, RequestCommitsKeeps, RequestFailsKeeps,
       RequestQueuedKeeps DEF Links!Request, Links!Answered
<1>2. ASSUME NEW w \in Workers, Links!Work(w) PROVE LinksInv'
  <2>1. w \in Senders
    BY DEF Senders
  <2> QED
    BY <1>2, <2>1, ClaimKeeps, ClaimExpiredKeeps, SendOkKeeps, WorkerCommitsKeeps DEF Links!Work
<1>3. ASSUME NEW w \in Workers, Links!WorkFails(w) PROVE LinksInv'
  BY <1>3, WorkerRefusedKeeps, WorkerCrashKeeps, WorkerDelayedKeeps DEF Links!WorkFails
<1> QED
  BY <1>1, <1>2, <1>3, ReaderSteps, TickKeeps DEF Links!Next

(* The other lanes leave the queue alone.                                   *)
LEMMA LinksStutter ==
    ASSUME Links!LinksAssumption, LinksInv, UNCHANGED linkVars
    PROVE  LinksInv'
<1>1. UNCHANGED <<now, minted, expires, issued, inHand, consumed, failed, outbox, rowOf,
                  holder, crashes, pc, code, linkFaults>>
  BY DEF linkVars
<1> QED
  BY <1>1, LinkTypes, ReaderKeeps DEF LinksInv

(* Zeros add up to zero.                                                    *)
LEMMA ZerosAddUp ==
    ASSUME NEW S, NEW w, \A x \in S : w[x] = 0
    PROVE  SumOf(w, S) = 0
<1>1. \A x \in S : UnitsOf(x, w[x]) = {}
  BY DEF UnitsOf
<1>2. Units(w, S) = {}
  BY <1>1 DEF Units
<1> QED
  BY <1>2, FS_EmptySet DEF SumOf

(* The exchanges of the retry queue: one reader.                            *)
LinkExchanges == ExchangeInv({Reader}, Links!Tokens, 0 .. QueueTime, QueueFailed)

(* The failures of the window, as a sum.                                    *)
LEMMA RecentSum ==
    ASSUME Links!LinksAssumption, failed \in [Links!Times -> Nat]
    PROVE  /\ Links!MapThenSumSet(LAMBDA i : failed[i], Links!Recent)
                = SumOf(failed, Lately(0 .. QueueTime))
           /\ Links!Times = 0 .. QueueTime
<1>1. Links!Times = 0 .. QueueTime /\ Links!Recent = Lately(0 .. QueueTime)
  BY DEF Links!Times, Links!Recent, Lately
<1>2. IsFiniteSet(0 .. QueueTime)
  BY LinkBounds, FS_Interval
<1>3. IsFiniteSet(Links!Recent) /\ \A i \in Links!Recent : failed[i] \in Nat
  BY <1>1, <1>2, FS_Subset DEF Links!Recent
<1> DEFINE iter == CHOOSE i : Adds(i, failed, Links!Recent)
<1>4. Links!MapThenSumSet(LAMBDA i : failed[i], Links!Recent) = iter[Links!Recent]
  BY DEF Links!MapThenSumSet, Links!MapThenFoldSet, Adds, Pick
<1>5. Adds(iter, failed, Links!Recent)
  BY <1>3, SumAdds
<1>6. iter[Links!Recent] = SumOf(failed, Links!Recent)
  BY <1>3, <1>5, AddsIsSum
<1> QED
  BY <1>1, <1>4, <1>6

(* A step of a sender, or of the clock, is none of an exchange.             *)
LEMMA SendersLeave ==
    ASSUME Links!LinksAssumption, Links!TypeOK, NEW p \in Senders,
           \E s : pc' = [pc EXCEPT ![p] = s], code' = code \/ \E t : code' = [code EXCEPT ![p] = t],
           UNCHANGED <<now, consumed, failed>>
    PROVE  LeavesExchanges({Reader}, 0 .. QueueTime)
<1>1. p # Reader /\ Reader \in Links!Processes
  BY LinkSets
<1>2. pc'[Reader] = pc[Reader] /\ code'[Reader] = code[Reader]
  BY <1>1, LinkTypes
<1> QED
  BY <1>2, LinkTypes DEF LeavesExchanges, Links!Times

(* Every step of the queue is an exchange of the reader or none.            *)
LEMMA LinkExchangesStep ==
    ASSUME Links!LinksAssumption, LinksInv, Links!Next
    PROVE  ExchangeStep({Reader}, Links!Tokens, 0 .. QueueTime, QueueFailed)
<1>1. Links!TypeOK
  BY DEF LinksInv
<1>2. ASSUME NEW p \in Requesters, Links!Request(p)
      PROVE  LeavesExchanges({Reader}, 0 .. QueueTime)
  <2>1. p \in Senders
    BY DEF Senders
  <2>2. /\ \E s : pc' = [pc EXCEPT ![p] = s]
        /\ code' = code \/ \E t : code' = [code EXCEPT ![p] = t]
        /\ UNCHANGED <<now, consumed, failed>>
    BY <1>2 DEF Links!Request, Links!Answered, Links!RequestLink, Links!SendOk, Links!RequestFails,
          Links!RequestQueued, Links!RequestCommits, Links!Mint, Links!Goto, Links!Finish,
          Links!tokenVars
  <2> QED
    BY <1>1, <2>1, <2>2, SendersLeave
<1>3. ASSUME NEW w \in Workers, Links!Work(w) \/ Links!WorkFails(w)
      PROVE  LeavesExchanges({Reader}, 0 .. QueueTime)
  <2>1. w \in Senders
    BY DEF Senders
  <2>2. ASSUME NEW r \in Links!Rows, Links!ClaimExpired(w, r)
        PROVE  LeavesExchanges({Reader}, 0 .. QueueTime)
    BY <1>1, <2>2, LinkTypes DEF Links!ClaimExpired, Links!tokenVars, LeavesExchanges, Links!Times
  <2>3. ASSUME \/ \E r \in Links!Rows : Links!Claim(w, r)
               \/ Links!SendOk(w) \/ Links!WorkerCommits(w) \/ Links!WorkFails(w)
        PROVE  LeavesExchanges({Reader}, 0 .. QueueTime)
    <3>1. /\ \E s : pc' = [pc EXCEPT ![w] = s]
          /\ code' = code \/ \E t : code' = [code EXCEPT ![w] = t]
          /\ UNCHANGED <<now, consumed, failed>>
      BY <2>3 DEF Links!Claim, Links!SendOk, Links!WorkerCommits, Links!WorkFails,
            Links!WorkerRefused, Links!WorkerCrash, Links!WorkerDelayed, Links!Mint, Links!Goto,
            Links!Finish, Links!tokenVars
    <3> QED
      BY <1>1, <2>1, <3>1, SendersLeave
  <2> QED
    BY <1>3, <2>2, <2>3 DEF Links!Work
<1>4. CASE Links!Tick
  <2>1. /\ now' = now + 1 /\ now < QueueTime
        /\ UNCHANGED <<consumed, failed, pc, code>>
    BY <1>4 DEF Links!Tick, Links!tokenVars
  <2>2. now' \in 0 .. QueueTime
    BY <1>1, <2>1, LinkTyped, LinkBounds
  <2> QED
    BY <2>1, <2>2 DEF LeavesExchanges, ExchangeStep
<1>5. ASSUME NEW t, Links!LookUp(Reader, t)
      PROVE  Looks({Reader}, 0 .. QueueTime, QueueFailed, Reader, t)
  <2>1. /\ pc[Reader] = "idle" /\ code' = [code EXCEPT ![Reader] = t]
        /\ \/ pc' = [pc EXCEPT ![Reader] = "reject"]
           \/ consumed[t] = 0 /\ pc' = [pc EXCEPT ![Reader] = "consume"]
        /\ UNCHANGED <<now, consumed, failed>> /\ ~Links!Locked
    BY <1>5 DEF Links!LookUp, Links!At, Links!Goto, Links!tokenVars
  <2>2. failed \in [Links!Times -> Nat]
    BY <1>1, LinkTypes
  <2>3. ~(SumOf(failed, Lately(0 .. QueueTime)) >= QueueFailed)
    BY <2>1, <2>2, RecentSum DEF Links!Locked
  <2>4. SumOf(failed, Lately(0 .. QueueTime)) \in Nat /\ QueueFailed \in Nat
    <3>1. IsFiniteSet(0 .. QueueTime)
      BY LinkBounds, FS_Interval
    <3>2. Lately(0 .. QueueTime) \in SUBSET (0 .. QueueTime)
      BY DEF Lately
    <3>3. \A i \in 0 .. QueueTime : failed[i] \in Nat
      BY <2>2 DEF Links!Times
    <3> QED
      BY <3>1, <3>2, <3>3, SumShrinks DEF Links!LinksAssumption
  <2>5. SumOf(failed, Lately(0 .. QueueTime)) < QueueFailed
    BY <2>3, <2>4
  <2> QED
    BY <2>1, <2>5 DEF Looks
<1>6. ASSUME Links!RecordFailed(Reader) PROVE RecordsFailure(Reader)
  BY <1>6 DEF Links!RecordFailed, RecordsFailure, Links!At, Links!Finish, Links!Goto
<1>7. ASSUME Links!ConsumeCode(Reader) PROVE Consumes(Reader)
  BY <1>7 DEF Links!ConsumeCode, Consumes, Links!At, Links!Finish, Links!Goto
<1>8. CASE Links!Exchange(Reader)
  BY <1>5, <1>6, <1>7, <1>8 DEF Links!Exchange, ExchangeStep
<1> QED
  BY <1>2, <1>3, <1>4, <1>8 DEF Links!Next, ExchangeStep

(* So the limits of the reader are kept.                                    *)
LEMMA LinkExchangesKept ==
    ASSUME Links!LinksAssumption, LinksInv, LinkExchanges, Links!Next
    PROVE  LinkExchanges'
<1>1. ExchangeStep({Reader}, Links!Tokens, 0 .. QueueTime, QueueFailed)
  BY LinkExchangesStep
<1>2. ExchangeInv({Reader}, Links!Tokens, 0 .. QueueTime, QueueFailed)
  BY DEF LinkExchanges
<1>3. IsFiniteSet({Reader})
  BY FS_Singleton
<1>4. /\ LockoutWindow \in Nat /\ QueueTime \in Nat /\ QueueFailed \in Nat
      /\ {Reader} \subseteq Links!Processes
      /\ pc \in [Links!Processes -> Steps]
      /\ code \in [Links!Processes -> Links!Tokens \cup {None, Wrong}]
  BY LinkBounds, LinkSets, LinkTypes DEF LinksInv, Links!LinksAssumption
<1>5. ExchangeInv({Reader}, Links!Tokens, 0 .. QueueTime, QueueFailed)'
  BY <1>1, <1>2, <1>3, <1>4, ExchangesKeepLimits
<1> QED
  BY <1>5 DEF LinkExchanges

(* They hold at the start.                                                  *)
LEMMA LinkExchangesInit == Links!LinksAssumption /\ Links!Init => LinkExchanges
<1> SUFFICES ASSUME Links!LinksAssumption, Links!Init PROVE LinkExchanges
  OBVIOUS
<1>1. /\ now = 0 /\ consumed = [t \in Links!Tokens |-> 0] /\ failed = [i \in 0 .. QueueTime |-> 0]
      /\ pc[Reader] = "idle"
  BY LinkSets DEF Links!Init, Links!Times
<1>2. Cardinality({Reader}) = 1 /\ QueueFailed \in Nat \ {0} /\ QueueTime \in Nat
  BY FS_Singleton, LinkBounds DEF Links!LinksAssumption
<1>3. \A t : Consuming({Reader}, t) = {} /\ Rejecting({Reader}) = {}
  BY <1>1 DEF Consuming, Rejecting
<1>4. Cardinality({}) = 0
  BY FS_EmptySet
<1>5. SumOf(failed, Lately(0 .. QueueTime)) = 0
  <2>1. \A i \in Lately(0 .. QueueTime) : failed[i] = 0
    BY <1>1 DEF Lately
  <2> QED
    BY <2>1, ZerosAddUp
<1>6. /\ now \in 0 .. QueueTime /\ consumed \in [Links!Tokens -> Nat]
      /\ failed \in [0 .. QueueTime -> Nat]
  BY <1>1, <1>2
<1>7. \A t \in Links!Tokens : consumed[t] + Cardinality(Consuming({Reader}, t)) <= Cardinality({Reader})
  <2>1. \A t \in Links!Tokens : consumed[t] = 0 /\ Cardinality(Consuming({Reader}, t)) = 0
    BY <1>1, <1>3, <1>4
  <2> QED
    BY <1>2, <2>1
<1>8. SumOf(failed, Lately(0 .. QueueTime)) + Cardinality(Rejecting({Reader}))
        < QueueFailed + Cardinality({Reader})
  <2>1. PICK k \in Nat \ {0} : k = QueueFailed
    BY <1>2
  <2>2. 0 + 0 < k + 1
    BY <2>1
  <2> QED
    BY <1>2, <1>3, <1>4, <1>5, <2>1, <2>2
<1> QED
  BY <1>6, <1>7, <1>8 DEF LinkExchanges, ExchangeInv

---------------------------------------------------------------------------
(* The lane without a queue: requests that exchange codes together.         *)
ReadersInv == ExchangeInv(Readers, Exchanges!Tokens, 0 .. MaxTime, MaxFailed)

(* A request that works has a code.                                         *)
HasCode(p) == pc[p] \in {"send", "commit"} => code[p] \in Exchanges!Tokens

(* The types of this lane, with what keeps them.                            *)
ReaderTypes == Exchanges!TypeOK /\ \A p \in Requesters : HasCode(p)

(* The sets and bounds of the lane.                                         *)
LEMMA ReaderSets ==
    ASSUME Exchanges!LinksAssumption
    PROVE  /\ MaxTokens \in Nat /\ MaxTime \in Nat /\ MaxLost \in Nat /\ TTL \in Nat
           /\ LockoutWindow \in Nat /\ MaxFailed \in Nat \ {0}
           /\ Exchanges!Tokens = 1 .. MaxTokens /\ Exchanges!Times = 0 .. MaxTime
           /\ Exchanges!Processes = Requesters \cup Readers /\ Requesters \cap Readers = {}
           /\ IsFiniteSet(Readers)
<1>1. {LockoutWindow, TTL, MaxTokens, MaxTime, MaxLost} \subseteq Nat /\ MaxFailed \in Nat \ {0}
  BY DEF Exchanges!LinksAssumption
<1>2. /\ Exchanges!Tokens = 1 .. MaxTokens /\ Exchanges!Times = 0 .. MaxTime
      /\ Exchanges!Processes = Requesters \cup Readers
  BY DEF Exchanges!Tokens, Exchanges!Times, Exchanges!Processes
<1>3. (Requesters \cup {}) \cap Readers = {}
  BY DEF Exchanges!LinksAssumption
<1>4. IsFiniteSet(Readers)
  BY DEF Exchanges!LinksAssumption, Exchanges!IsFiniteSet, IsFiniteSet
<1> QED
  BY <1>1, <1>2, <1>3, <1>4

(* The types, conjunct by conjunct.                                         *)
LEMMA ReaderTyped ==
    ASSUME Exchanges!LinksAssumption, Exchanges!TypeOK
    PROVE  /\ now \in 0 .. MaxTime /\ minted \in 0 .. MaxTokens
           /\ expires \in [Exchanges!Tokens -> Nat]
           /\ issued \subseteq Exchanges!Tokens /\ inHand \subseteq Exchanges!Tokens
           /\ consumed \in [Exchanges!Tokens -> Nat] /\ failed \in [0 .. MaxTime -> Nat]
           /\ outbox \in [Exchanges!Rows -> RowType]
           /\ rowOf \in [Exchanges!Tokens -> Exchanges!Rows \cup {None}]
           /\ holder \in [Exchanges!Rows -> {} \cup {None}]
           /\ pc \in [Requesters \cup Readers -> Steps]
           /\ code \in [Requesters \cup Readers -> Exchanges!Tokens \cup {None, Wrong}]
           /\ crashes \in Nat /\ linkFaults \in 0 .. MaxLost
BY ReaderSets DEF Exchanges!TypeOK, Steps, RowType

(* The variables that a step moves are typed.                               *)
LEMMA ReaderTypesFrom ==
    ASSUME Exchanges!LinksAssumption,
           now' \in 0 .. MaxTime, minted' \in 0 .. MaxTokens,
           expires' \in [Exchanges!Tokens -> Nat],
           issued' \subseteq Exchanges!Tokens, inHand' \subseteq Exchanges!Tokens,
           consumed' \in [Exchanges!Tokens -> Nat], failed' \in [0 .. MaxTime -> Nat],
           outbox' \in [Exchanges!Rows -> RowType],
           rowOf' \in [Exchanges!Tokens -> Exchanges!Rows \cup {None}],
           holder' \in [Exchanges!Rows -> {} \cup {None}],
           pc' \in [Requesters \cup Readers -> Steps],
           code' \in [Requesters \cup Readers -> Exchanges!Tokens \cup {None, Wrong}],
           crashes' \in Nat, linkFaults' \in 0 .. MaxLost
    PROVE  Exchanges!TypeOK'
BY ReaderSets DEF Exchanges!TypeOK, Steps, RowType

(* One process p moves to step s with t.                                    *)
Goes(p, s, t) == pc' = [pc EXCEPT ![p] = s] /\ code' = [code EXCEPT ![p] = t]

(* A process that steps stays typed, and has a code where it needs one.     *)
LEMMA MoveTypes ==
    ASSUME Exchanges!LinksAssumption, ReaderTypes, NEW p \in Requesters \cup Readers,
           NEW s \in Steps, NEW t \in Exchanges!Tokens \cup {None, Wrong}, Goes(p, s, t),
           s \in {"send", "commit"} => t \in Exchanges!Tokens
    PROVE  /\ pc' \in [Requesters \cup Readers -> Steps]
           /\ code' \in [Requesters \cup Readers -> Exchanges!Tokens \cup {None, Wrong}]
           /\ \A q \in Requesters : HasCode(q)'
<1>1. /\ pc \in [Requesters \cup Readers -> Steps]
      /\ code \in [Requesters \cup Readers -> Exchanges!Tokens \cup {None, Wrong}]
  BY ReaderTyped DEF ReaderTypes
<1>2. ASSUME NEW q \in Requesters PROVE HasCode(q)'
  BY <1>1 DEF Goes, HasCode, ReaderTypes
<1> QED
  BY <1>1, <1>2 DEF Goes

(* The requests for codes: none of them is an exchange.                     *)
LEMMA RequestTypes ==
    ASSUME Exchanges!LinksAssumption, ReaderTypes, NEW p \in Requesters, Exchanges!Request(p)
    PROVE  ReaderTypes' /\ LeavesExchanges(Readers, 0 .. MaxTime)
<1>1. p \in Requesters \cup Readers /\ p \notin Readers /\ "idle" \in Steps /\ "send" \in Steps
      /\ "commit" \in Steps /\ Exchanges!TypeOK
  BY ReaderSets DEF Steps, ReaderTypes
<1>2. ASSUME NEW s \in Steps, NEW t \in Exchanges!Tokens \cup {None, Wrong}, Goes(p, s, t),
             UNCHANGED <<now, consumed, failed>>
      PROVE  LeavesExchanges(Readers, 0 .. MaxTime)
  <2>1. \A x \in Readers : pc'[x] = pc[x] /\ code'[x] = code[x]
    BY <1>1, <1>2, ReaderTyped DEF Goes
  <2> QED
    BY <1>1, <1>2, <2>1, ReaderTyped DEF LeavesExchanges
<1>3. CASE Exchanges!RequestLink(p)
  <2>1. /\ minted < MaxTokens /\ minted' = minted + 1
        /\ expires' = [expires EXCEPT ![minted + 1] = now + TTL]
        /\ rowOf' = [rowOf EXCEPT ![minted + 1] = None]
        /\ Goes(p, "send", minted + 1)
        /\ UNCHANGED <<now, issued, inHand, consumed, failed, outbox, holder, crashes, linkFaults>>
    BY <1>3 DEF Exchanges!RequestLink, Exchanges!Mint, Exchanges!Goto, Goes
  <2>2. PICK m \in Nat : m = minted + 1 /\ m \in Exchanges!Tokens /\ minted' \in 0 .. MaxTokens
    BY <1>1, <2>1, ReaderTyped, ReaderSets
  <2>3. now + TTL \in Nat
    BY <1>1, ReaderTyped, ReaderSets
  <2>4. expires' \in [Exchanges!Tokens -> Nat]
        /\ rowOf' \in [Exchanges!Tokens -> Exchanges!Rows \cup {None}]
    BY <1>1, <2>1, <2>2, <2>3, ReaderTyped
  <2>5. Goes(p, "send", m)
    BY <2>1, <2>2
  <2>6. /\ pc' \in [Requesters \cup Readers -> Steps]
        /\ code' \in [Requesters \cup Readers -> Exchanges!Tokens \cup {None, Wrong}]
        /\ \A q \in Requesters : HasCode(q)'
    BY <1>1, <2>2, <2>5, MoveTypes
  <2>7. Exchanges!TypeOK'
    BY <1>1, <2>1, <2>2, <2>4, <2>6, ReaderTyped, ReaderTypesFrom
  <2> QED
    BY <1>1, <1>2, <2>1, <2>2, <2>5, <2>6, <2>7 DEF ReaderTypes
<1>4. CASE Exchanges!SendOk(p)
  <2>1. /\ pc[p] = "send" /\ pc' = [pc EXCEPT ![p] = "commit"] /\ inHand' = inHand \cup {code[p]}
        /\ UNCHANGED <<now, minted, expires, issued, consumed, failed, outbox, rowOf, holder,
                       crashes, code, linkFaults>>
    BY <1>4 DEF Exchanges!SendOk, Exchanges!At, Exchanges!Goto
  <2>2. PICK t \in Exchanges!Tokens : t = code[p]
    BY <2>1 DEF ReaderTypes, HasCode
  <2>3. Goes(p, "commit", t)
    <3>1. code' = [code EXCEPT ![p] = t]
      BY <1>1, <2>1, <2>2, ReaderTyped
    <3> QED
      BY <2>1, <3>1 DEF Goes
  <2>4. /\ pc' \in [Requesters \cup Readers -> Steps]
        /\ code' \in [Requesters \cup Readers -> Exchanges!Tokens \cup {None, Wrong}]
        /\ \A q \in Requesters : HasCode(q)'
    BY <1>1, <2>3, MoveTypes
  <2>5. Exchanges!TypeOK'
    BY <1>1, <2>1, <2>2, <2>4, ReaderTyped, ReaderTypesFrom
  <2> QED
    BY <1>1, <1>2, <2>1, <2>3, <2>4, <2>5 DEF ReaderTypes
<1>5. ASSUME pc[p] \in {"send", "commit"}, Exchanges!Finish(p),
             inHand' \subseteq inHand \cup {code[p]}, issued' \subseteq issued \cup {code[p]},
             linkFaults' \in 0 .. MaxLost,
             UNCHANGED <<now, minted, expires, consumed, failed, outbox, rowOf, holder, crashes>>
      PROVE  ReaderTypes' /\ LeavesExchanges(Readers, 0 .. MaxTime)
  <2>1. Goes(p, "idle", None)
    BY <1>5 DEF Exchanges!Finish, Exchanges!Goto, Goes
  <2>2. code[p] \in Exchanges!Tokens
    BY <1>5 DEF ReaderTypes, HasCode
  <2>3. /\ pc' \in [Requesters \cup Readers -> Steps]
        /\ code' \in [Requesters \cup Readers -> Exchanges!Tokens \cup {None, Wrong}]
        /\ \A q \in Requesters : HasCode(q)'
    BY <1>1, <2>1, MoveTypes
  <2>4. Exchanges!TypeOK'
    BY <1>1, <1>5, <2>2, <2>3, ReaderTyped, ReaderTypesFrom
  <2> QED
    BY <1>1, <1>2, <1>5, <2>1, <2>3, <2>4 DEF ReaderTypes
<1>6. Exchanges!Fault => linkFaults' \in 0 .. MaxLost
  BY <1>1, ReaderTyped, ReaderSets DEF Exchanges!Fault
<1>7. CASE Exchanges!RequestFails(p)
  BY <1>5, <1>6, <1>7 DEF Exchanges!RequestFails, Exchanges!At, Exchanges!tokenVars,
     Exchanges!queueVars
<1>8. ASSUME NEW arrived \in BOOLEAN, Exchanges!RequestQueued(p, arrived)
      PROVE  ReaderTypes' /\ LeavesExchanges(Readers, 0 .. MaxTime)
  <2>1. inHand' \subseteq inHand \cup {code[p]}
    BY <1>8 DEF Exchanges!RequestQueued, Exchanges!Reach
  <2> QED
    BY <1>5, <1>6, <1>8, <2>1 DEF Exchanges!RequestQueued, Exchanges!At
<1>9. CASE Exchanges!RequestCommits(p)
  <2>1. linkFaults' \in 0 .. MaxLost
    BY <1>1, <1>9, ReaderTyped DEF Exchanges!RequestCommits
  <2> QED
    BY <1>5, <1>9, <2>1 DEF Exchanges!RequestCommits, Exchanges!At, Exchanges!queueVars
<1> QED
  BY <1>3, <1>4, <1>7, <1>8, <1>9 DEF Exchanges!Request, Exchanges!Answered

(* The failures of the window, as a sum.                                    *)
LEMMA ReadersRecentSum ==
    ASSUME Exchanges!LinksAssumption, failed \in [0 .. MaxTime -> Nat]
    PROVE  /\ Exchanges!MapThenSumSet(LAMBDA i : failed[i], Exchanges!Recent)
                = SumOf(failed, Lately(0 .. MaxTime))
           /\ SumOf(failed, Lately(0 .. MaxTime)) \in Nat
<1>1. Exchanges!Recent = Lately(0 .. MaxTime)
  BY ReaderSets DEF Exchanges!Recent, Lately
<1>2. IsFiniteSet(0 .. MaxTime)
  BY ReaderSets, FS_Interval
<1>3. IsFiniteSet(Exchanges!Recent) /\ \A i \in Exchanges!Recent : failed[i] \in Nat
  BY <1>1, <1>2, FS_Subset DEF Lately
<1> DEFINE iter == CHOOSE i : Adds(i, failed, Exchanges!Recent)
<1>4. Exchanges!MapThenSumSet(LAMBDA i : failed[i], Exchanges!Recent) = iter[Exchanges!Recent]
  BY DEF Exchanges!MapThenSumSet, Exchanges!MapThenFoldSet, Adds, Pick
<1>5. Adds(iter, failed, Exchanges!Recent)
  BY <1>3, SumAdds
<1>6. iter[Exchanges!Recent] = SumOf(failed, Exchanges!Recent)
  <2>1. PICK R, f, g : R = Exchanges!Recent /\ f = failed /\ g = iter
    OBVIOUS
  <2>2. IsFiniteSet(R) /\ (\A i \in R : f[i] \in Nat) /\ Adds(g, f, R)
    BY <1>3, <1>5, <2>1
  <2>3. g[R] = SumOf(f, R)
    BY <2>2, AddsIsSum
  <2> QED
    BY <2>1, <2>3
<1>7. SumOf(failed, Exchanges!Recent) \in Nat
  BY <1>3, SumShrinks
<1> QED
  BY <1>1, <1>4, <1>6, <1>7

(* The exchanges themselves.                                                *)
LEMMA ExchangeTypes ==
    ASSUME Exchanges!LinksAssumption, ReaderTypes, NEW x \in Readers, Exchanges!Exchange(x)
    PROVE  ReaderTypes' /\ ExchangeStep(Readers, Exchanges!Tokens, 0 .. MaxTime, MaxFailed)
<1>1. /\ x \in Requesters \cup Readers /\ {"idle", "reject", "consume"} \subseteq Steps
      /\ Exchanges!TypeOK
  BY DEF Steps, ReaderTypes
<1>2. ASSUME NEW t \in inHand \cup {Wrong}, Exchanges!LookUp(x, t)
      PROVE  ReaderTypes' /\ Looks(Readers, 0 .. MaxTime, MaxFailed, x, t)
  <2>1. /\ pc[x] = "idle" /\ code' = [code EXCEPT ![x] = t] /\ ~Exchanges!Locked
        /\ \/ pc' = [pc EXCEPT ![x] = "reject"]
           \/ consumed[t] = 0 /\ pc' = [pc EXCEPT ![x] = "consume"]
        /\ UNCHANGED <<now, minted, expires, issued, inHand, consumed, failed, outbox, rowOf,
                       holder, crashes, linkFaults>>
    BY <1>2 DEF Exchanges!LookUp, Exchanges!At, Exchanges!Goto, Exchanges!tokenVars,
       Exchanges!queueVars
  <2>2. PICK s \in {"reject", "consume"} : Goes(x, s, t)
    BY <2>1 DEF Goes
  <2>3. s \in Steps /\ s \notin {"send", "commit"} /\ t \in Exchanges!Tokens \cup {None, Wrong}
    BY <1>1, <2>2, ReaderTyped
  <2>4. /\ pc' \in [Requesters \cup Readers -> Steps]
        /\ code' \in [Requesters \cup Readers -> Exchanges!Tokens \cup {None, Wrong}]
        /\ \A q \in Requesters : HasCode(q)'
    BY <1>1, <2>2, <2>3, MoveTypes
  <2>5. Exchanges!TypeOK'
    BY <1>1, <2>1, <2>4, ReaderTyped, ReaderTypesFrom
  <2>6. SumOf(failed, Lately(0 .. MaxTime)) < MaxFailed
    <3>1. SumOf(failed, Lately(0 .. MaxTime)) \in Nat
          /\ ~(SumOf(failed, Lately(0 .. MaxTime)) >= MaxFailed)
      BY <1>1, <2>1, ReaderTyped, ReadersRecentSum DEF Exchanges!Locked
    <3> QED
      BY <3>1, ReaderSets
  <2> QED
    BY <2>1, <2>4, <2>5, <2>6 DEF Looks, ReaderTypes
<1>3. ASSUME Exchanges!Finish(x), failed' \in [0 .. MaxTime -> Nat],
             consumed' \in [Exchanges!Tokens -> Nat],
             UNCHANGED <<now, minted, expires, issued, inHand, outbox, rowOf, holder, crashes,
                         linkFaults>>
      PROVE  ReaderTypes'
  <2>1. Goes(x, "idle", None)
    BY <1>3 DEF Exchanges!Finish, Exchanges!Goto, Goes
  <2>2. /\ pc' \in [Requesters \cup Readers -> Steps]
        /\ code' \in [Requesters \cup Readers -> Exchanges!Tokens \cup {None, Wrong}]
        /\ \A q \in Requesters : HasCode(q)'
    BY <1>1, <2>1, MoveTypes
  <2>3. Exchanges!TypeOK'
    BY <1>1, <1>3, <2>2, ReaderTyped, ReaderTypesFrom
  <2> QED
    BY <2>2, <2>3 DEF ReaderTypes
<1>4. failed \in [0 .. MaxTime -> Nat] /\ consumed \in [Exchanges!Tokens -> Nat]
  BY <1>1, ReaderTyped
<1>5. CASE Exchanges!RecordFailed(x)
  <2>1. /\ Exchanges!Finish(x) /\ failed' = [failed EXCEPT ![now] = @ + 1]
        /\ UNCHANGED <<now, minted, expires, issued, inHand, consumed, outbox, rowOf, holder,
                       crashes, linkFaults>>
    BY <1>5 DEF Exchanges!RecordFailed, Exchanges!queueVars
  <2>2. failed' \in [0 .. MaxTime -> Nat]
    BY <1>4, <2>1, CountedOnce
  <2>3. RecordsFailure(x)
    BY <1>5, <2>1 DEF RecordsFailure, Exchanges!RecordFailed, Exchanges!At, Exchanges!Finish,
       Exchanges!Goto
  <2> QED
    BY <1>3, <1>4, <2>1, <2>2, <2>3 DEF ExchangeStep
<1>6. CASE Exchanges!ConsumeCode(x)
  <2>1. /\ Exchanges!Finish(x) /\ consumed' = [consumed EXCEPT ![code[x]] = @ + 1]
        /\ UNCHANGED <<now, minted, expires, issued, inHand, failed, outbox, rowOf, holder,
                       crashes, linkFaults>>
    BY <1>6 DEF Exchanges!ConsumeCode, Exchanges!queueVars
  <2>2. consumed' \in [Exchanges!Tokens -> Nat]
    BY <1>4, <2>1, CountedOnce
  <2>3. Consumes(x)
    BY <1>6, <2>1 DEF Consumes, Exchanges!ConsumeCode, Exchanges!At, Exchanges!Finish,
       Exchanges!Goto
  <2> QED
    BY <1>3, <1>4, <2>1, <2>2, <2>3 DEF ExchangeStep
<1> QED
  BY <1>2, <1>5, <1>6 DEF Exchanges!Exchange, ExchangeStep

(* The invariant of the lane is inductive.                                  *)
LEMMA ReadersStep ==
    ASSUME Exchanges!LinksAssumption, ReaderTypes, ReadersInv, Exchanges!Next
    PROVE  ReaderTypes' /\ ReadersInv'
<1>1. Exchanges!TypeOK
  BY DEF ReaderTypes
<1>2. ReaderTypes' /\ ExchangeStep(Readers, Exchanges!Tokens, 0 .. MaxTime, MaxFailed)
  <2>1. CASE Exchanges!Tick
    <3>1. /\ now < MaxTime /\ now' = now + 1
          /\ UNCHANGED <<minted, expires, issued, inHand, consumed, failed, outbox, rowOf,
                         holder, crashes, pc, code, linkFaults>>
      BY <2>1 DEF Exchanges!Tick, Exchanges!tokenVars, Exchanges!queueVars
    <3>2. now' \in 0 .. MaxTime
      BY <1>1, <3>1, ReaderTyped, ReaderSets
    <3>3. Exchanges!TypeOK'
      BY <1>1, <3>1, <3>2, ReaderTyped, ReaderTypesFrom
    <3>4. \A p \in Requesters : HasCode(p)'
      BY <3>1 DEF ReaderTypes, HasCode
    <3> QED
      BY <3>1, <3>2, <3>3, <3>4 DEF ReaderTypes, LeavesExchanges, ExchangeStep
  <2> QED
    BY <2>1, RequestTypes, ExchangeTypes DEF Exchanges!Next, ExchangeStep
<1>3. ExchangeInv(Readers, Exchanges!Tokens, 0 .. MaxTime, MaxFailed)'
  <2>1. ExchangeInv(Readers, Exchanges!Tokens, 0 .. MaxTime, MaxFailed)
    BY DEF ReadersInv
  <2>2. /\ LockoutWindow \in Nat /\ MaxTime \in Nat /\ MaxFailed \in Nat /\ IsFiniteSet(Readers)
        /\ Readers \subseteq Requesters \cup Readers
        /\ pc \in [Requesters \cup Readers -> Steps]
        /\ code \in [Requesters \cup Readers -> Exchanges!Tokens \cup {None, Wrong}]
    BY <1>1, ReaderTyped, ReaderSets
  <2> QED
    BY <1>2, <2>1, <2>2, ExchangesKeepLimits
<1> QED
  BY <1>2, <1>3 DEF ReadersInv

(* It holds at the start.                                                   *)
LEMMA ReadersInit ==
    ASSUME Exchanges!LinksAssumption, Exchanges!Init
    PROVE  ReaderTypes /\ ReadersInv
<1>1. /\ now = 0 /\ minted = 0 /\ issued = {} /\ inHand = {}
      /\ expires = [t \in Exchanges!Tokens |-> 0]
      /\ consumed = [t \in Exchanges!Tokens |-> 0]
      /\ failed = [i \in 0 .. MaxTime |-> 0]
      /\ outbox = [r \in Exchanges!Rows |-> Exchanges!NoRow]
      /\ rowOf = [t \in Exchanges!Tokens |-> None]
      /\ holder = [r \in Exchanges!Rows |-> None]
      /\ pc = [p \in Requesters \cup Readers |-> "idle"]
      /\ code = [p \in Requesters \cup Readers |-> None]
      /\ crashes = 0 /\ linkFaults = 0
  BY ReaderSets DEF Exchanges!Init
<1>2. ReaderTypes
  <2>1. Exchanges!TypeOK
    BY <1>1, ReaderSets DEF Exchanges!TypeOK, Exchanges!NoRow
  <2> QED
    BY <1>1, <2>1 DEF ReaderTypes, HasCode
<1>3. Cardinality(Readers) \in Nat
  BY ReaderSets, FS_CardinalityType
<1>4. \A t : Consuming(Readers, t) = {} /\ Rejecting(Readers) = {}
  BY <1>1 DEF Consuming, Rejecting
<1>5. Cardinality({}) = 0
  BY FS_EmptySet
<1>6. SumOf(failed, Lately(0 .. MaxTime)) = 0
  <2>1. \A i \in Lately(0 .. MaxTime) : failed[i] = 0
    BY <1>1 DEF Lately
  <2> QED
    BY <2>1, ZerosAddUp
<1>7. now \in 0 .. MaxTime /\ consumed \in [Exchanges!Tokens -> Nat] /\ failed \in [0 .. MaxTime -> Nat]
  BY <1>1, ReaderSets
<1>8. \A t \in Exchanges!Tokens : consumed[t] + Cardinality(Consuming(Readers, t)) <= Cardinality(Readers)
  <2>1. \A t \in Exchanges!Tokens : consumed[t] = 0 /\ Cardinality(Consuming(Readers, t)) = 0
    BY <1>1, <1>4, <1>5
  <2> QED
    BY <1>3, <2>1
<1>9. SumOf(failed, Lately(0 .. MaxTime)) + Cardinality(Rejecting(Readers))
        < MaxFailed + Cardinality(Readers)
  <2>1. PICK k \in Nat \ {0}, n \in Nat : k = MaxFailed /\ n = Cardinality(Readers)
    BY <1>3, ReaderSets
  <2>2. 0 + 0 < k + n
    BY <2>1
  <2> QED
    BY <1>4, <1>5, <1>6, <2>1, <2>2
<1> QED
  BY <1>2, <1>7, <1>8, <1>9 DEF ReadersInv, ExchangeInv

(* The other lanes leave it alone.                                          *)
LEMMA ReadersStutter ==
    ASSUME ReaderTypes, ReadersInv, UNCHANGED linkVars
    PROVE  ReaderTypes' /\ ReadersInv'
<1>1. UNCHANGED <<now, minted, expires, issued, inHand, consumed, failed, outbox, rowOf,
                  holder, crashes, pc, code, linkFaults>>
  BY DEF linkVars
<1>2. ReaderTypes'
  BY <1>1 DEF ReaderTypes, HasCode, Exchanges!TypeOK
<1>3. ReadersInv'
  BY <1>1 DEF ReadersInv, ExchangeInv, Consuming, Rejecting, Lately, SumOf, Units, UnitsOf
<1> QED
  BY <1>2, <1>3

---------------------------------------------------------------------------
(* The lanes of the sign-in codes.                                          *)
CodesSafe ==
    IF lane = "exchanges" THEN ReaderTypes /\ ReadersInv ELSE LinksInv /\ LinkExchanges

(* The invariant of the codes, in every lane.                               *)
LEMMA CodesSafeInvariant == LaneSpec => []CodesSafe
<1>1. LaneInit => CodesSafe
  BY ConstantsFit, LinksInit, LinkExchangesInit, ReadersInit DEF LaneInit, CodesSafe
<1>2. ASSUME CodesSafe, [LaneNext]_allVars PROVE CodesSafe'
  <2>1. lane' = lane
    BY <1>2 DEF LaneNext, AloneLane, OverlapLane, LinksLane, ExchangesLane, allVars
  <2>2. CASE UNCHANGED linkVars
    <3>1. UNCHANGED <<now, minted, expires, issued, inHand, consumed, failed, outbox, rowOf,
                      holder, crashes, pc, code, linkFaults>>
      BY <2>2 DEF linkVars
    <3>2. LinkExchanges => LinkExchanges'
      BY <3>1 DEF LinkExchanges, ExchangeInv, Consuming, Rejecting, Lately, SumOf, Units, UnitsOf
    <3> QED
      BY <1>2, <2>1, <2>2, <3>2, ConstantsFit, LinksStutter, ReadersStutter DEF CodesSafe
  <2>3. CASE lane = "links" /\ Links!Next
    <3>1. LinksInv /\ LinkExchanges
      BY <1>2, <2>3 DEF CodesSafe
    <3>2. LinksInv' /\ LinkExchanges'
      BY <2>3, <3>1, ConstantsFit, LinksStep, LinkExchangesKept
    <3> QED
      BY <2>1, <2>3, <3>2 DEF CodesSafe
  <2>4. CASE lane = "exchanges" /\ Exchanges!Next
    <3>1. ReaderTypes' /\ ReadersInv'
      BY <1>2, <2>4, ConstantsFit, ReadersStep DEF CodesSafe
    <3> QED
      BY <2>1, <2>4, <3>1 DEF CodesSafe
  <2>5. \/ UNCHANGED linkVars
        \/ lane = "links" /\ Links!Next
        \/ lane = "exchanges" /\ Exchanges!Next
    BY <1>2 DEF LaneNext, AloneLane, OverlapLane, LinksLane, ExchangesLane, allVars
  <2> QED
    BY <2>2, <2>3, <2>4, <2>5
<1> QED
  BY <1>1, <1>2, PTL DEF LaneSpec

(* The tables, cursors and outbox rows keep their types through every       *)
(* handler, failure and crash of every lane.                                *)
THEOREM MessagingTyped == LaneSpec => []AllTypesOK
<1>1. ScanInv /\ CodesSafe => AllTypesOK
  BY DEF ScanInv, NoticesTyped, CodesSafe, ReaderTypes, LinksInv, AllTypesOK
<1> QED
  BY <1>1, ScanInvariant, CodesSafeInvariant, PTL

(* The counts of the instances are those of this module.                    *)
LEMMA SameCount ==
    \A S : Links!Cardinality(S) = Cardinality(S) /\ Exchanges!Cardinality(S) = Cardinality(S)
BY DEF Links!Cardinality, Exchanges!Cardinality, Cardinality

(* An outbox row is marked sent only with a code that works in the hands of *)
(* the borrower, and the dead codes he holds are no more than the faults:   *)
(* process_once marks and issues in one transaction, for any number of      *)
(* workers, rows, delays and retries.                                       *)
THEOREM RetriedCodesWork == LaneSpec => []SentCodesWork
<1>1. ASSUME CodesSafe PROVE SentCodesWork
  <2>1. SUFFICES ASSUME lane = "links" PROVE Links!SentCodesWork
    BY DEF SentCodesWork
  <2>2. LinksInv /\ Links!LinksAssumption
    BY <1>1, <2>1, ConstantsFit DEF CodesSafe
  <2>3. \A r \in Links!Rows : outbox[r].st = "sent" => Links!SentFor(r) \cap issued \cap inHand # {}
    BY <2>2 DEF LinksInv, RowsInv, SentWorks
  <2>4. PICK D : D = {t \in inHand \ issued : ~Links!InFlight(t)}
    OBVIOUS
  <2>5. D \subseteq DeadCodes
    BY <2>2, <2>4, LinkSets DEF DeadCodes, Links!InFlight
  <2>6. IsFiniteSet(DeadCodes)
    <3>1. DeadCodes \subseteq Links!Tokens
      BY <2>2, LinkTyped DEF DeadCodes, LinksInv
    <3> QED
      BY <2>2, <3>1, LinkSets, FS_Subset
  <2>7. Cardinality(D) <= linkFaults
    <3>1. Cardinality(D) \in Nat /\ Cardinality(DeadCodes) \in Nat
          /\ Cardinality(D) <= Cardinality(DeadCodes)
      BY <2>5, <2>6, FS_Subset, FS_CardinalityType
    <3>2. Cardinality(DeadCodes) <= linkFaults /\ linkFaults \in Nat
      BY <2>2, LinkTyped DEF LinksInv, CodesInv
    <3> QED
      BY <3>1, <3>2
  <2>8. Links!Cardinality({t \in inHand \ issued : ~Links!InFlight(t)}) <= linkFaults
    BY <2>4, <2>7, SameCount
  <2> QED
    BY <2>3, <2>8 DEF Links!SentCodesWork
<1> QED
  BY <1>1, CodesSafeInvariant, PTL

(* The vendor is called for a row no more often than the configured retries *)
(* and the workers that died with it; a code is consumed, and failures are  *)
(* counted in the lockout window, past their limits by no more than the     *)
(* requests in flight: the checks that exchange_magic_link makes before it  *)
(* writes are not locks, and this is all they lose by it.                   *)
THEOREM LimitsAreKept == LaneSpec => []LimitsHold
<1>1. ASSUME CodesSafe PROVE LimitsHold
  <2>1. ASSUME lane # "exchanges" PROVE Links!RetriesBounded /\ Links!ExchangeLimits
    <3>1. LinksInv /\ LinkExchanges /\ Links!LinksAssumption
      BY <1>1, <2>1, ConstantsFit DEF CodesSafe
    <3>2. \A r \in Links!Rows : Cardinality(Links!SentFor(r)) <= MostSends + crashes
      BY <3>1 DEF LinksInv, RowsInv, RetriesFit
    <3>3. Links!RetriesBounded
      BY <3>2, SameCount DEF Links!RetriesBounded, MostSends
    <3>4. Cardinality({Reader}) = 1 /\ QueueFailed \in Nat
      BY <3>1, FS_Singleton DEF Links!LinksAssumption
    <3>5. \A t : IsFiniteSet(Consuming({Reader}, t)) /\ IsFiniteSet(Rejecting({Reader}))
      BY FS_Singleton, FS_Subset DEF Consuming, Rejecting
    <3>6. \A t : Cardinality(Consuming({Reader}, t)) \in Nat /\ Cardinality(Rejecting({Reader})) \in Nat
      BY <3>5, FS_CardinalityType
    <3>7. ASSUME NEW t \in Links!Tokens PROVE consumed[t] <= Links!Cardinality({Reader})
      <4>1. consumed[t] \in Nat /\ consumed[t] + Cardinality(Consuming({Reader}, t)) <= 1
        BY <3>1, <3>4 DEF LinkExchanges, ExchangeInv
      <4> QED
        BY <3>4, <3>6, <4>1, SameCount
    <3>8. Links!MapThenSumSet(LAMBDA i : failed[i], Links!Recent)
            < QueueFailed + Links!Cardinality({Reader})
      <4>1. failed \in [Links!Times -> Nat]
        BY <3>1, LinkTypes DEF LinksInv
      <4>2. SumOf(failed, Lately(0 .. QueueTime)) + Cardinality(Rejecting({Reader})) < QueueFailed + 1
        BY <3>1, <3>4 DEF LinkExchanges, ExchangeInv
      <4>3. SumOf(failed, Lately(0 .. QueueTime)) \in Nat
        <5>1. IsFiniteSet(0 .. QueueTime)
          BY <3>1, LinkBounds, FS_Interval
        <5>2. Lately(0 .. QueueTime) \in SUBSET (0 .. QueueTime)
          BY DEF Lately
        <5>3. \A i \in 0 .. QueueTime : failed[i] \in Nat
          BY <4>1 DEF Links!Times
        <5> QED
          BY <5>1, <5>2, <5>3, SumShrinks
      <4>4. SumOf(failed, Lately(0 .. QueueTime)) < QueueFailed + 1
        <5>1. PICK s \in Nat, c \in Nat, m \in Nat :
                     /\ s = SumOf(failed, Lately(0 .. QueueTime))
                     /\ c = Cardinality(Rejecting({Reader})) /\ m = QueueFailed
          BY <3>4, <3>6, <4>3
        <5>2. s + c < m + 1
          BY <4>2, <5>1
        <5>3. s < m + 1
          BY <5>2
        <5> QED
          BY <5>1, <5>3
      <4>5. Links!Cardinality({Reader}) = 1
        BY <3>4, SameCount
      <4>6. Links!MapThenSumSet(LAMBDA i : failed[i], Links!Recent)
              = SumOf(failed, Lately(0 .. QueueTime))
        BY <3>1, <4>1, RecentSum
      <4> QED
        BY <4>4, <4>5, <4>6
    <3> QED
      BY <3>3, <3>7, <3>8 DEF Links!ExchangeLimits
  <2>2. ASSUME lane = "exchanges" PROVE Exchanges!ExchangeLimits
    <3>1. ReaderTypes /\ ReadersInv /\ Exchanges!LinksAssumption
      BY <1>1, <2>2, ConstantsFit DEF CodesSafe
    <3>2. IsFiniteSet(Readers) /\ Cardinality(Readers) \in Nat /\ MaxFailed \in Nat
      BY <3>1, ReaderSets, FS_CardinalityType
    <3>3. \A t : IsFiniteSet(Consuming(Readers, t)) /\ IsFiniteSet(Rejecting(Readers))
      BY <3>2, FS_Subset DEF Consuming, Rejecting
    <3>4. \A t : Cardinality(Consuming(Readers, t)) \in Nat /\ Cardinality(Rejecting(Readers)) \in Nat
      BY <3>3, FS_CardinalityType
    <3>5. ASSUME NEW t \in Exchanges!Tokens PROVE consumed[t] <= Exchanges!Cardinality(Readers)
      <4>1. consumed[t] \in Nat
            /\ consumed[t] + Cardinality(Consuming(Readers, t)) <= Cardinality(Readers)
        BY <3>1 DEF ReadersInv, ExchangeInv
      <4>2. consumed[t] <= Cardinality(Readers)
        BY <3>2, <3>4, <4>1
      <4> QED
        BY <4>2, SameCount
    <3>6. Exchanges!MapThenSumSet(LAMBDA i : failed[i], Exchanges!Recent)
            < MaxFailed + Exchanges!Cardinality(Readers)
      <4>1. failed \in [0 .. MaxTime -> Nat]
            /\ SumOf(failed, Lately(0 .. MaxTime)) + Cardinality(Rejecting(Readers))
                 < MaxFailed + Cardinality(Readers)
        BY <3>1 DEF ReadersInv, ExchangeInv
      <4>2. SumOf(failed, Lately(0 .. MaxTime)) \in Nat
            /\ Exchanges!MapThenSumSet(LAMBDA i : failed[i], Exchanges!Recent)
                 = SumOf(failed, Lately(0 .. MaxTime))
        BY <3>1, <4>1, ReadersRecentSum
      <4>3. SumOf(failed, Lately(0 .. MaxTime)) < MaxFailed + Cardinality(Readers)
        <5>1. PICK s \in Nat, c \in Nat, m \in Nat, n \in Nat :
                     /\ s = SumOf(failed, Lately(0 .. MaxTime)) /\ c = Cardinality(Rejecting(Readers))
                     /\ m = MaxFailed /\ n = Cardinality(Readers)
          BY <3>2, <3>4, <4>2
        <5>2. s + c < m + n
          BY <4>1, <5>1
        <5>3. s < m + n
          BY <5>2
        <5> QED
          BY <5>1, <5>3
      <4> QED
        BY <4>2, <4>3, SameCount
    <3> QED
      BY <3>5, <3>6 DEF Exchanges!ExchangeLimits
  <2> QED
    BY <2>1, <2>2 DEF LimitsHold
<1> QED
  BY <1>1, CodesSafeInvariant, PTL
=============================================================================
