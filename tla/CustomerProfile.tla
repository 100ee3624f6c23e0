-------------------------- MODULE CustomerProfile --------------------------
(***************************************************************************)
(* A borrower's profile (services/customer_profile.py): a counter of       *)
(* versions, a lock and a deletion mark on one row, the values in field    *)
(* rows that are superseded and never changed, and applications that       *)
(* freeze what the profile says.  A session reads the profile without a    *)
(* lock; its flush of the counter takes the row and holds it to the commit.*)
(***************************************************************************)
EXTENDS Naturals, Sequences, FiniteSets, SequencesExt
CONSTANTS
    Fields, Values,
    Patches,    \* what a session may ask for: field -> value or None
    Apps,       \* applications of the borrower, with what each had collected
    Collected,
    Editors, Attachers, Keepers,   \* sessions that edit, attach, lock or delete
    MaxSessions,   \* bound: sessions begun
    None

ProfileAssumption ==
    /\ IsFiniteSet(Fields) /\ None \notin Values
    /\ Collected \in [Apps -> [Fields -> Values \cup {None}]]
    /\ Patches \subseteq [Fields -> Values \cup {None}]
    /\ Keepers \cap (Editors \cup Attachers) = {}

VARIABLES
    profile,    \* the profile's row
    rows,       \* its field rows, in order of their ids
    app,        \* application -> the version it names, its snapshot, its columns
    shared,     \* versions two sessions have both written
    stale,      \* applications linked while an edit or another link committed
    begun,      \* sessions so far
    work        \* session -> what it holds

vars == <<profile, rows, app, shared, stale, begun, work>>

Sessions == Editors \cup Attachers \cup Keepers
Idle     == [op |-> "idle"]
Blank    == [f \in Fields |-> None]
Unlinked == [version |-> 0, snapshot |-> None, columns |-> None]

Init ==
    /\ profile = [exists |-> FALSE, version |-> 0, locked |-> FALSE, deleted |-> FALSE]
    /\ rows = << >>
    /\ app = [a \in Apps |-> Unlinked]
    /\ shared = {} /\ stale = {} /\ begun = 0
    /\ work = [s \in Sessions |-> Idle]

Give(s) == work' = [work EXCEPT ![s] = Idle]
Begin(s) == work[s] = Idle /\ begun < MaxSessions /\ begun' = begun + 1
Doing(s, op) == work[s].op = op

(* profile_values: the current row of each field.                          *)
CurrentIds(rs, f) == {k \in 1..Len(rs) : rs[k].field = f /\ rs[k].current}
ValuesOf(rs) ==
    [f \in Fields |-> IF CurrentIds(rs, f) = {} THEN None
                      ELSE rs[CHOOSE k \in CurrentIds(rs, f) : TRUE].value]

(* Mutant of Standing: the rows read for validation are reused.            *)
LoadedStanding(s, f) ==
    {k \in 1..work[s].seen : /\ rows[k].field = f
                             /\ \A j \in (k + 1)..work[s].seen : rows[j].field # f}

----------------------------------------------------------------------------
(* _write_values: a value that differs supersedes the standing row.  The   *)
(* standing row is looked up once the profile's row is held.               *)
Standing(s, f) == CurrentIds(rows, f)

Changed(s) ==
    {f \in Fields : /\ work[s].patch[f] # None
                    /\ \A k \in Standing(s, f) : rows[k].value # work[s].patch[f]}

NewRow(s, f) ==
    [field |-> f, value |-> work[s].patch[f], version |-> work[s].version + 1,
     source |-> work[s].source, current |-> TRUE, next |-> 0]

(* The new rows follow one another, and each standing row names its own.   *)
Written(s) ==
    LET order    == SetToSeq(Changed(s))
        place(f) == Len(rows) + (CHOOSE i \in 1..Len(order) : order[i] = f)
        kept(k)  == IF /\ rows[k].field \in Changed(s) /\ k \in Standing(s, rows[k].field)
                    THEN [rows[k] EXCEPT !.current = FALSE, !.next = place(rows[k].field)]
                    ELSE rows[k]
    IN  [k \in 1..(Len(rows) + Len(order)) |->
            IF k <= Len(rows) THEN kept(k) ELSE NewRow(s, order[k - Len(rows)])]

(* A session that will write a patch: a person's, or a backfill's.         *)
Open(e, op, patch, source, a) ==
    work' = [work EXCEPT ![e] = [op |-> op, patch |-> patch, source |-> source, app |-> a,
                                 version |-> profile.version, seen |-> Len(rows), held |-> FALSE]]

(* After its edit a backfill links the application, if it has no profile.  *)
Link(e, a, version) ==
    work' = [work EXCEPT ![e] = [op |-> "link", app |-> a, held |-> FALSE,
                                 version |-> version, found |-> app[a]]]

Finish(e, version) ==
    IF work[e].source = "backfill" THEN Link(e, work[e].app, version) ELSE Give(e)

(* create_profile: one profile per patient; the loser of a race meets the  *)
(* unique index.                                                           *)
CreateRead(e) ==
    /\ Begin(e) /\ ~profile.exists
    /\ \/ \E patch \in Patches : Open(e, "create", patch, "staff", None)
       \/ \E a \in Apps : Open(e, "create", Collected[a], "backfill", a)
    /\ UNCHANGED <<profile, rows, app, shared, stale>>

CreateCommit(e) ==
    /\ Doing(e, "create")
    /\ IF profile.exists THEN Give(e) /\ UNCHANGED <<profile, rows>>
       ELSE /\ profile' = [profile EXCEPT !.exists = TRUE, !.version = 1]
            /\ rows' = Written(e)
            /\ Finish(e, 1)
    /\ UNCHANGED <<app, shared, stale, begun>>

(* update_profile: refused if the profile read is locked or deleted.       *)
Editable == profile.exists /\ ~profile.locked /\ ~profile.deleted

EditRead(e) ==
    /\ Begin(e) /\ Editable
    /\ \E patch \in Patches : Open(e, "edit", patch, "staff", None)
    /\ UNCHANGED <<profile, rows, app, shared, stale>>

(* Mutant of Gaps: everything the application had.                         *)
Everything(a) == Collected[a]

(* backfill_profile_from_application: only what the profile lacks.         *)
Gaps(a) == [f \in Fields |-> IF ValuesOf(rows)[f] = None THEN Collected[a][f] ELSE None]

BackfillRead(e, a) ==
    /\ Begin(e) /\ profile.exists
    /\ IF Gaps(a) = Blank \/ profile.locked THEN Link(e, a, profile.version)
       ELSE ~profile.deleted /\ Open(e, "edit", Gaps(a), "backfill", a)
    /\ UNCHANGED <<profile, rows, app, shared, stale>>

BackfillLink(e) ==
    /\ Doing(e, "link")
    /\ LET w == work[e] IN
       IF w.found.version # 0 THEN UNCHANGED <<app, stale>>
       ELSE /\ app' = [app EXCEPT ![w.app].version = w.version]
            /\ stale' = IF app[w.app] = w.found THEN stale ELSE stale \cup {w.app}
    /\ Give(e)
    /\ UNCHANGED <<profile, rows, shared, begun>>

(* The counter's flush takes the row; another editor then waits.           *)
RowFree == \A e \in Editors : work[e] # Idle => ~work[e].held

EditFlush(e) ==
    /\ Doing(e, "edit") /\ ~work[e].held /\ RowFree
    /\ work' = [work EXCEPT ![e].held = TRUE]
    /\ UNCHANGED <<profile, rows, app, shared, stale, begun>>

(* Mutant of NewVersion: the counter stays.                                *)
SameVersion(e) == work[e].version

NewVersion(e) == work[e].version + 1

EditCommit(e) ==
    /\ Doing(e, "edit") /\ work[e].held
    /\ rows' = Written(e)
    /\ profile' = [profile EXCEPT !.version = NewVersion(e)]
    /\ shared' = IF profile.version # work[e].version THEN shared \cup {work[e].version + 1}
                 ELSE shared
    /\ stale' = stale \cup {work[s].app : s \in {t \in Attachers : Doing(t, "attach")}}
    /\ Finish(e, NewVersion(e))
    /\ UNCHANGED <<app, begun>>

----------------------------------------------------------------------------
(* lock_profile, unlock_profile, delete_profile, restore_profile.          *)
KeepRead(k, op) ==
    /\ Begin(k) /\ profile.exists
    /\ CASE op = "lock"    -> ~profile.locked /\ ~profile.deleted
         [] op = "unlock"  -> profile.locked /\ ~profile.deleted
         [] op = "delete"  -> ~profile.deleted
         [] op = "restore" -> profile.deleted
    /\ work' = [work EXCEPT ![k] = [op |-> op]]
    /\ UNCHANGED <<profile, rows, app, shared, stale>>

KeepCommit(k) ==
    /\ work[k] # Idle /\ RowFree
    /\ profile' = CASE Doing(k, "lock")    -> [profile EXCEPT !.locked = TRUE]
                    [] Doing(k, "unlock")  -> [profile EXCEPT !.locked = FALSE]
                    [] Doing(k, "delete")  -> [profile EXCEPT !.deleted = TRUE]
                    [] Doing(k, "restore") -> [profile EXCEPT !.deleted = FALSE]
    /\ Give(k)
    /\ UNCHANGED <<rows, app, shared, stale, begun>>

----------------------------------------------------------------------------
(* attach_profile_to_application: the version, then the values it freezes  *)
(* if asked to, then the values for the columns, in statements of their    *)
(* own; an application may be attached again.                              *)
AttachRead(s, a) ==
    /\ Begin(s)
    /\ profile.exists /\ ~profile.deleted
    /\ work' = [work EXCEPT ![s] = [op |-> "attach", app |-> a, frozen |-> FALSE,
                   version |-> profile.version, snapshot |-> None]]
    /\ UNCHANGED <<profile, rows, app, shared, stale>>

Freeze(s) ==
    /\ Doing(s, "attach") /\ ~work[s].frozen
    /\ work' = [work EXCEPT ![s].frozen = TRUE,
                   ![s].snapshot = [version |-> work[s].version, values |-> ValuesOf(rows)]]
    /\ UNCHANGED <<profile, rows, app, shared, stale, begun>>

(* apply_profile_to_application_columns clears nothing.                    *)
Columns(a) ==
    LET had == IF app[a].columns = None THEN Collected[a] ELSE app[a].columns
    IN  [f \in Fields |-> IF ValuesOf(rows)[f] = None THEN had[f] ELSE ValuesOf(rows)[f]]

AttachCommit(s) ==
    /\ Doing(s, "attach")
    /\ LET w == work[s] IN
       app' = [app EXCEPT ![w.app] =
                  [version  |-> w.version,
                   snapshot |-> IF w.frozen THEN w.snapshot ELSE app[w.app].snapshot,
                   columns  |-> Columns(w.app)]]
    /\ Give(s)
    /\ UNCHANGED <<profile, rows, shared, stale, begun>>

Next ==
    \/ \E e \in Editors :
        \/ CreateRead(e) \/ CreateCommit(e)
        \/ EditRead(e) \/ EditFlush(e) \/ EditCommit(e)
        \/ \E a \in Apps : BackfillRead(e, a)
        \/ BackfillLink(e)
    \/ \E k \in Keepers :
        \/ \E op \in {"lock", "unlock", "delete", "restore"} : KeepRead(k, op)
        \/ KeepCommit(k)
    \/ \E s \in Attachers :
        \/ \E a \in Apps : AttachRead(s, a)
        \/ Freeze(s) \/ AttachCommit(s)

Spec == Init /\ [][Next]_vars

----------------------------------------------------------------------------
TypeOK ==
    /\ DOMAIN profile = {"exists", "version", "locked", "deleted"}
    /\ \A k \in 1..Len(rows) : /\ rows[k].field \in Fields /\ rows[k].value \in Values
                               /\ rows[k].version \in Nat \ {0}
    /\ stale \subseteq Apps

(* The changelog is whole: of each field one row is current, the newest,   *)
(* and every earlier row names the row that replaced it, however edits,    *)
(* backfills, locks and deletions overlap (_write_values).                 *)
OneCurrentValue ==
    \A k \in 1..Len(rows) :
        LET later == {j \in (k + 1)..Len(rows) : rows[j].field = rows[k].field}
        IN  /\ rows[k].current <=> later = {}
            /\ later # {} => /\ rows[k].next \in later
                             /\ \A j \in later : rows[k].next <= j

(* What the profile said at version v: the newest row of each field that   *)
(* is not younger than v.                                                  *)
AsOf(v) ==
    [f \in Fields |->
        LET S == {k \in 1..Len(rows) : rows[k].field = f /\ rows[k].version <= v}
        IN  IF S = {} THEN None ELSE rows[CHOOSE k \in S : \A j \in S : j <= k].value]

(* A decision stays reproducible: the snapshot of an application is what   *)
(* the changelog says of the version in it, and the columns it is scored   *)
(* on what it says of the version the application names, however the       *)
(* profile is edited and the application attached again; unless an edit    *)
(* committed while it was linked, or two edits that overlapped share a     *)
(* version number (build_snapshot, attach_profile_to_application).         *)
SnapshotIsReproducible ==
    \A a \in Apps \ stale : shared = {} =>
        /\ app[a].snapshot # None => app[a].snapshot.values = AsOf(app[a].snapshot.version)
        /\ app[a].columns # None => \A f \in Fields :
               AsOf(app[a].version)[f] \in {None, app[a].columns[f]}

(* A backfill only fills gaps: it never replaces a value a person entered, *)
(* unless the two overlapped (backfill_profile_from_application).          *)
BackfillFillsGaps ==
    shared = {} =>
        \A k \in 1..Len(rows) : rows[k].next # 0 => rows[rows[k].next].source # "backfill"
=============================================================================
