--------------------------- MODULE RecordsProofs ---------------------------
(***************************************************************************)
(* For every value of the constants: no row of a migrated history is       *)
(* copied twice and a batch's status is true of the books; a profile has   *)
(* one current value of each field, and decisions stay reproducible from   *)
(* its changelog; fees and promises follow the books; the month-end        *)
(* buckets follow the plan and a past month's rating stands.  Each         *)
(* component has an inductive invariant, and the last part puts the lanes  *)
(* together.                                                               *)
(***************************************************************************)
EXTENDS Records, Sequences, FiniteSets, FiniteSetTheorems, SumLemmas, TLAPS

(* Imports: the account's history, its batches and its workbooks.           *)

(* What a file states of a row, and the references its rows may be kept     *)
(* under.                                                                   *)
SourceRows == [kind : Kinds, id : Nat, day : Nat, cents : Nat]
Refs ==
    {BookRef(i) : i \in Rows} \cup {CsvRef(i) : i \in Rows}
        \cup {<<"old", file[i].id>> : i \in Rows}

(* The rows of the three tables.                                            *)
ReceiptRows == [ref : Refs, src : Cash, by : Batches \cup Imports \cup {"before"}]
LedgerRows  == [src : 0..Len(file), by : Imports \cup {None}, cents : Nat, reverses : Nat,
                type : {"payment", "reversal", "adjustment"}]
BatchRows   == [entity : {None, "loans", "payments"}, rows : SUBSET Rows, report : SUBSET Rows,
                status : {"none", "validated", "confirmed", "applied", "failed", "cancelled"}]

(* What a request may hold.                                                 *)
Claiming == [op : {"claimed"}, batch : Batches]
Applying == [op : {"apply"}, batch : Batches, rows : SUBSET Rows, loan : BOOLEAN,
             refs : SUBSET Refs]
Closing  == [op : {"cancel"}, batch : Batches, status : {"validated", "failed"}]
Copying  == [op : {"import"}, loan : BOOLEAN, refs : SUBSET Refs, ledger : Seq(LedgerRows)]

(* The types of the migration.                                              *)
ImportsTyped ==
    /\ file \in Seq(SourceRows) /\ file # << >>
    /\ loan \in BOOLEAN /\ overtaken \in SUBSET Batches /\ faults \in 0..MaxFaults
    /\ receipts \in SUBSET ReceiptRows
    /\ ledger \in Seq(LedgerRows)
    /\ batch \in [Batches -> BatchRows]
    /\ work \in [Requests -> {Idle} \cup Claiming \cup Applying \cup Closing \cup Copying]

(* A receipt names the source row it is for, in one of its spellings; the   *)
(* old ones are of the rows kept before.                                    *)
ReceiptsNamed ==
    \A r \in receipts :
        /\ r.by = "before" => file[r.src].id # 0 /\ r.ref = <<"old", file[r.src].id>>
        /\ r.by # "before" => r.ref \in {BookRef(r.src), CsvRef(r.src)}

(* No reference is used twice, and no row is kept under both spellings.     *)
ReceiptsApart ==
    /\ \A r, s \in receipts : r.ref = s.ref => r = s
    /\ \A r, s \in receipts :
         r.by = "before" => s.ref # <<"id", file[r.src].id>>

(* What a request read of the receipts is still there, and it has read the  *)
(* old spellings.                                                           *)
RefsRead ==
    \A c \in Requests : work[c].op \in {"apply", "import"} =>
        /\ work[c].refs \subseteq RefsOf(receipts)
        /\ \A r \in receipts : r.by = "before" => r.ref \in work[c].refs

(* The rows of a clean file of payments have references of their own, and   *)
(* their account.                                                           *)
CleanFile(rs, kept) ==
    /\ rs \subseteq Cash
    /\ \A i, j \in rs : CsvRef(i) = CsvRef(j) => i = j
    /\ rs # {} => kept

(* So are those of a batch, and those a confirmation has loaded of it; a    *)
(* batch that may be confirmed has its entity.                              *)
BatchesClean ==
    /\ \A b \in Batches : batch[b].status = "validated" => batch[b].entity \in {"loans", "payments"}
    /\ \A b \in Batches : batch[b].entity = "payments" => CleanFile(batch[b].rows, loan)
    /\ \A c \in Requests : work[c].op = "apply" /\ batch[work[c].batch].entity = "payments" =>
         CleanFile(work[c].rows, work[c].loan) /\ work[c].loan

(* A confirmation holds its batch alone: nobody else claims it, and only a  *)
(* cancellation that overtakes it changes its status.                       *)
Holds(c, b) == work[c].op \in {"claimed", "apply"} /\ work[c].batch = b

(* What that claim is worth.                                                *)
ClaimsHold ==
    \A c \in Requests, b \in Batches : Holds(c, b) =>
        /\ batch[b].entity \in {"loans", "payments"}
        /\ batch[b].status \in {"confirmed", "cancelled"}
        /\ b \notin overtaken => batch[b].status = "confirmed"
        /\ \A d \in Requests : Holds(d, b) => d = c

(* The borrower's own payments are told from copied rows.                   *)
RowsTold(rs) ==
    \A k \in 1..Len(rs) :
        /\ rs[k].by = None => rs[k].src = 0 /\ rs[k].reverses = 0 /\ rs[k].type = "payment"
        /\ rs[k].by # None => rs[k].src # 0
        /\ rs[k].type = "reversal" => rs[k].reverses # 0

(* No row is copied and no payment undone twice.                            *)
RowsApart(rs) ==
    \A j, k \in 1..Len(rs) : j # k =>
        /\ rs[j].src # rs[k].src
        /\ {rs[j].by, rs[k].by} \subseteq Imports => rs[j].by = rs[k].by
        /\ rs[j].reverses # 0 => rs[j].reverses # rs[k].reverses

(* A row undoes an earlier payment of its amount.                           *)
RowsUndo(rs) ==
    \A k \in 1..Len(rs) : rs[k].reverses # 0 =>
        /\ rs[k].reverses \in 1..(k - 1)
        /\ rs[rs[k].reverses].type = "payment"
        /\ rs[rs[k].reverses].cents = rs[k].cents

SoundLedger(rs) == RowsTold(rs) /\ RowsApart(rs) /\ RowsUndo(rs)

(* A ledger that begins with another one.                                   *)
Continues(rs, old) ==
    Len(old) <= Len(rs) /\ \A k \in 1..Len(old) : rs[k] = old[k]

(* The ledger is sound, and only added to since an import has read it.      *)
LedgerKept ==
    /\ SoundLedger(ledger)
    /\ \A m \in Requests : work[m].op = "import" => Continues(ledger, work[m].ledger)

(* The inductive invariant of the migration.                                *)
ImportsInv ==
    /\ ImportsTyped /\ ReceiptsNamed /\ ReceiptsApart /\ RefsRead
    /\ BatchesClean /\ ClaimsHold /\ BatchKeepsItsWord /\ LedgerKept

(* References differ in their first part.                                   *)
LEMMA Spellings ==
    ASSUME NEW i \in Rows
    PROVE  /\ file[i].id # 0 => /\ BookRef(i) = <<"id", file[i].id>>
                                /\ CsvRef(i) = <<"id", file[i].id>>
                                /\ Variants(CsvRef(i)) = {<<"id", file[i].id>>, <<"old", file[i].id>>}
                                /\ Variants(BookRef(i)) = {<<"id", file[i].id>>, <<"old", file[i].id>>}
           /\ file[i].id = 0 => /\ Variants(CsvRef(i)) = {CsvRef(i)}
                                /\ Variants(BookRef(i)) = {BookRef(i)}
                                /\ \A n : BookRef(i) # <<"id", n>> /\ CsvRef(i) # <<"id", n>>
           /\ \A n : BookRef(i) # <<"old", n>> /\ CsvRef(i) # <<"old", n>>
<1>1. CASE file[i].id # 0
  BY <1>1 DEF BookRef, CsvRef, Variants
<1>2. CASE file[i].id = 0
  BY <1>2 DEF BookRef, CsvRef, Variants
<1> QED
  BY <1>1, <1>2

(* The invariant contains what is promised of histories.                    *)
LEMMA HistoriesOnce == ASSUME ImportsInv PROVE HistoryOnce /\ TypeOK
<1> USE DEF ImportsInv
<1>1. \A k \in 1..Len(ledger) : ledger[k] \in LedgerRows
  BY DEF ImportsTyped
<1>2. \A r, s \in receipts : r.src = s.src /\ file[r.src].id # 0 => r = s
  <2> SUFFICES ASSUME NEW r \in receipts, NEW s \in receipts, r.src = s.src, file[r.src].id # 0
               PROVE  r = s
    OBVIOUS
  <2>1. r.src \in Rows
    BY DEF ImportsTyped, ReceiptRows, Cash
  <2>2. \A x \in {r, s} : x.by # "before" => x.ref = <<"id", file[r.src].id>>
    BY <2>1, Spellings DEF ReceiptsNamed
  <2>3. \A x \in {r, s} : x.by = "before" => x.ref = <<"old", file[r.src].id>>
    BY DEF ReceiptsNamed
  <2> QED
    BY <2>2, <2>3 DEF ReceiptsApart
<1>3. HistoryOnce
  <2>1. \A k \in 1..Len(ledger) : ledger[k].type = "reversal" =>
          /\ ledger[k].reverses \in 1..(k - 1)
          /\ ledger[ledger[k].reverses].type = "payment"
          /\ ledger[ledger[k].reverses].cents = ledger[k].cents
    BY <1>1 DEF LedgerKept, SoundLedger, RowsTold, RowsApart, RowsUndo
  <2>2. \A j, k \in 1..Len(ledger) : j < k =>
          /\ ledger[j].src # ledger[k].src
          /\ {ledger[j].by, ledger[k].by} \subseteq Imports => ledger[j].by = ledger[k].by
          /\ ledger[j].reverses # 0 => ledger[j].reverses # ledger[k].reverses
    BY DEF LedgerKept, SoundLedger, RowsTold, RowsApart, RowsUndo
  <2> QED
    BY <1>2, <2>1, <2>2 DEF HistoryOnce, ReceiptsApart
<1>4. TypeOK
  BY <1>1 DEF TypeOK, ImportsTyped, ReceiptRows, LedgerRows, BatchRows
<1> QED
  BY <1>3, <1>4

(* A set of positions that is not empty has a greatest one.                 *)
LEMMA GreatestStands ==
    ASSUME NEW n \in Nat, NEW S \in SUBSET (1..n), S # {}
    PROVE  \E k \in S : \A j \in S : j <= k
<1> DEFINE D == {n - k : k \in S}
<1>1. D # {} /\ D \in SUBSET Nat
  <2>1. \A k \in S : k \in 1..n
    OBVIOUS
  <2>2. \A k \in S : n - k \in Nat
    BY <2>1
  <2> QED
    BY <2>2
<1>2. PICK d \in D : \A e \in D : d <= e
  BY <1>1, NatHasMin
<1>3. PICK k \in S : d = n - k
  OBVIOUS
<1>4. \A j \in S : n - k <= n - j
  BY <1>2, <1>3
<1>5. k \in Nat /\ \A j \in S : j \in Nat
  OBVIOUS
<1>6. \A j \in S : j <= k
  BY <1>4, <1>5
<1> QED
  BY <1>6

(* It is the newest.                                                        *)
LEMMA NewestStands ==
    ASSUME NEW n \in Nat, NEW S \in SUBSET (1..n)
    PROVE  /\ Newest(S) \in Nat
           /\ Newest(S) # 0 => Newest(S) \in S
<1>1. CASE S = {}
  BY <1>1 DEF Newest
<1>2. CASE S # {}
  <2>1. \E k \in S : \A j \in S : j <= k
    BY <1>2, GreatestStands
  <2>2. Newest(S) \in S
    BY <1>2, <2>1 DEF Newest
  <2>3. Newest(S) \in 1..n
    BY <2>2
  <2> QED
    BY <2>2, <2>3
<1> QED
  BY <1>1, <1>2

(* The recursion an import follows has a solution: every row is read once.  *)
LEMMA PassedRows ==
    ASSUME ImportsTyped, NEW m
    PROVE  /\ Passed(m)[0] = [ledger |-> work[m].ledger, refs |-> work[m].refs, new |-> {}]
           /\ \A i \in Rows : Passed(m)[i] = AddRow(m, Passed(m)[i - 1], i)
<1> DEFINE base == [ledger |-> work[m].ledger, refs |-> work[m].refs, new |-> {}]
           Follows(g, n) == g = [i \in 0..n |-> IF i = 0 THEN base ELSE AddRow(m, g[i - 1], i)]
           stuck == {n \in Nat : ~ \E g : Follows(g, n)}
<1>0. Len(file) \in Nat
  BY DEF ImportsTyped
<1>1. stuck = {}
  <2> SUFFICES ASSUME stuck # {} PROVE FALSE
    OBVIOUS
  <2>1. PICK n \in stuck : \A k \in stuck : n <= k
    BY NatHasMin
  <2>2. n # 0
    <3>1. Follows([i \in 0..0 |-> base], 0)
      OBVIOUS
    <3> QED
      BY <3>1
  <2>3. n - 1 \in Nat /\ n - 1 \notin stuck
    <3>1. n \in Nat
      OBVIOUS
    <3> HIDE DEF stuck
    <3> QED
      BY <2>1, <2>2, <3>1
  <2>4. PICK g : Follows(g, n - 1)
    BY <2>3
  <2> DEFINE h == [i \in 0..n |-> IF i = n THEN AddRow(m, g[n - 1], n) ELSE g[i]]
  <2>5. \A i \in 0..n : h[i] = IF i = 0 THEN base ELSE AddRow(m, h[i - 1], i)
    <3> SUFFICES ASSUME NEW i \in 0..n
                 PROVE  h[i] = IF i = 0 THEN base ELSE AddRow(m, h[i - 1], i)
      OBVIOUS
    <3> HIDE DEF base
    <3>1. CASE i = n
      BY <2>2, <3>1
    <3>2. CASE i # n /\ i # 0
      <4>1. i \in 0..(n - 1) /\ i - 1 \in 0..n /\ i - 1 # n
        BY <3>2
      <4>2. g[i] = AddRow(m, g[i - 1], i)
        BY <2>4, <3>2, <4>1
      <4> QED
        BY <3>2, <4>1, <4>2
    <3>3. CASE i # n /\ i = 0
      BY <2>3, <2>4, <3>3
    <3> QED
      BY <3>1, <3>2, <3>3
  <2>6. Follows(h, n)
    <3> HIDE DEF base
    <3> QED
      BY <2>5
  <2> QED
    BY <2>6
<1>2. \E g : Follows(g, Len(file))
  BY <1>0, <1>1
<1>3. Passed(m) = CHOOSE g : Follows(g, Len(file))
  BY DEF Passed
<1>4. Follows(Passed(m), Len(file))
  <2> HIDE DEF Follows
  <2> QED
    BY <1>2, <1>3
<1>5. \A i \in 0..Len(file) : Passed(m)[i] = IF i = 0 THEN base ELSE AddRow(m, Passed(m)[i - 1], i)
  <2> HIDE DEF base
  <2> QED
    BY <1>4
<1>6. Passed(m)[0] = base
  <2> HIDE DEF base
  <2> QED
    BY <1>0, <1>5
<1>7. \A i \in Rows : Passed(m)[i] = AddRow(m, Passed(m)[i - 1], i)
  <2> HIDE DEF base
  <2> QED
    BY <1>0, <1>5 DEF Rows
<1> QED
  BY <1>6, <1>7

(* What stands before a sound ledger's end is sound.                        *)
LEMMA SoundBefore ==
    ASSUME NEW rs \in Seq(LedgerRows), NEW old \in Seq(LedgerRows),
           SoundLedger(rs), Continues(rs, old)
    PROVE  SoundLedger(old)
<1>1. Len(old) \in Nat /\ Len(rs) \in Nat /\ Len(old) <= Len(rs)
  BY DEF Continues
<1>2. \A k \in 1..Len(old) : k \in 1..Len(rs) /\ rs[k] = old[k]
  BY <1>1 DEF Continues
<1>3. \A k \in 1..Len(old) : \A j \in 1..(k - 1) : j \in 1..Len(old)
  BY <1>1
<1>4. RowsTold(old)
  BY <1>2 DEF SoundLedger, RowsTold
<1>5. RowsApart(old)
  BY <1>2 DEF SoundLedger, RowsApart
<1>6. RowsUndo(old)
  BY <1>2, <1>3 DEF SoundLedger, RowsUndo
<1> QED
  BY <1>4, <1>5, <1>6 DEF SoundLedger

(* The row an import adds keeps a ledger sound.                             *)
LEMMA RowAdded ==
    ASSUME FilesAssumption, ImportsTyped, NEW m \in Imports, NEW i \in Mapped,
           NEW rs \in Seq(LedgerRows), SoundLedger(rs),
           \A k \in 1..Len(rs) : rs[k].src # i /\ rs[k].by \in {None, m}
    PROVE  /\ LedgerRow(m, i, rs) \in LedgerRows
           /\ SoundLedger(Append(rs, LedgerRow(m, i, rs)))
<1> DEFINE S == Undoable(rs, file[i].cents)
           row == LedgerRow(m, i, rs)
           more == Append(rs, row)
           n == Len(rs)
<1>1. n \in Nat /\ i \in 1..Len(file) /\ i # 0 /\ file[i] \in SourceRows /\ m # None
  BY DEF ImportsTyped, Mapped, Rows, FilesAssumption
<1>2. S \in SUBSET (1..n)
  BY DEF Undoable
<1>3. Newest(S) \in Nat /\ (Newest(S) # 0 => Newest(S) \in S)
  BY <1>1, <1>2, NewestStands
<1>4. /\ row.src = i /\ row.by = m /\ row.cents = file[i].cents
      /\ row.reverses = IF file[i].kind = "return" THEN Newest(S) ELSE 0
      /\ row.type = IF file[i].kind = "cash" THEN "payment"
                    ELSE IF row.reverses # 0 THEN "reversal" ELSE "adjustment"
  BY DEF LedgerRow
<1>5. row \in LedgerRows
  BY <1>1, <1>3 DEF LedgerRow, LedgerRows, SourceRows
<1>6. more \in Seq(LedgerRows) /\ Len(more) = n + 1 /\ more[n + 1] = row
  BY <1>1, <1>5
<1>7. \A k \in 1..n : more[k] = rs[k]
  BY <1>1, <1>5
<1>8. row.reverses # 0 => /\ row.reverses \in 1..n
                          /\ rs[row.reverses].type = "payment"
                          /\ rs[row.reverses].cents = row.cents
                          /\ \A j \in 1..n : rs[j].reverses # row.reverses
  BY <1>3, <1>4 DEF Undoable
<1> HIDE DEF S, row, more
<1>9. \A k \in 1..Len(more) : k \in 1..n \/ k = n + 1
  BY <1>1, <1>6
<1>10. RowsTold(more)
  BY <1>1, <1>4, <1>6, <1>7, <1>9 DEF SoundLedger, RowsTold
<1>11. RowsApart(more)
  <2> SUFFICES ASSUME NEW j \in 1..Len(more), NEW k \in 1..Len(more), j # k
               PROVE  /\ more[j].src # more[k].src
                      /\ {more[j].by, more[k].by} \subseteq Imports => more[j].by = more[k].by
                      /\ more[j].reverses # 0 => more[j].reverses # more[k].reverses
    BY DEF RowsApart
  <2>0. None \notin Imports
    BY DEF FilesAssumption
  <2>1. CASE j \in 1..n /\ k \in 1..n
    BY <1>7, <2>1 DEF SoundLedger, RowsApart
  <2>2. CASE j = n + 1 /\ k \in 1..n
    BY <1>4, <1>6, <1>7, <1>8, <2>0, <2>2
  <2>3. CASE k = n + 1 /\ j \in 1..n
    BY <1>4, <1>6, <1>7, <1>8, <2>0, <2>3
  <2> QED
    BY <1>9, <2>1, <2>2, <2>3
<1>12. RowsUndo(more)
  <2> SUFFICES ASSUME NEW k \in 1..Len(more), more[k].reverses # 0
               PROVE  /\ more[k].reverses \in 1..(k - 1)
                      /\ more[more[k].reverses].type = "payment"
                      /\ more[more[k].reverses].cents = more[k].cents
    BY DEF RowsUndo
  <2>1. CASE k \in 1..n
    <3>1. more[k].reverses \in 1..(k - 1) /\ rs[more[k].reverses].type = "payment"
             /\ rs[more[k].reverses].cents = more[k].cents
      BY <1>7, <2>1 DEF SoundLedger, RowsUndo
    <3>2. more[k].reverses \in 1..n
      BY <1>1, <2>1, <3>1
    <3> QED
      BY <1>7, <3>1, <3>2
  <2>2. CASE k = n + 1
    <3>1. k - 1 = n
      BY <1>1, <2>2
    <3> QED
      BY <1>6, <1>7, <1>8, <2>2, <3>1
  <2> QED
    BY <1>9, <2>1, <2>2
<1>13. SoundLedger(more)
  BY <1>10, <1>11, <1>12 DEF SoundLedger
<1> QED
  BY <1>5, <1>13 DEF row, more

(* What an import has read and added after n rows of the file.              *)
PassHolds(m, n, h) ==
    /\ h \in [ledger : Seq(LedgerRows), refs : SUBSET Refs, new : SUBSET ReceiptRows]
    /\ SoundLedger(h.ledger) /\ Continues(h.ledger, work[m].ledger)
    /\ \A k \in 1..Len(h.ledger) :
         h.ledger[k].by = None \/ (h.ledger[k].by = m /\ h.ledger[k].src \in 1..n)
    /\ work[m].refs \cup RefsOf(h.new) \subseteq h.refs
    /\ \A r \in h.new : r.by = m /\ r.ref = BookRef(r.src) /\ Variants(r.ref) \cap work[m].refs = {}
    /\ \A r, s \in h.new : r.ref = s.ref => r = s

LEMMA RowPassed ==
    ASSUME FilesAssumption, ImportsTyped, NEW m \in Imports, NEW i \in Rows, NEW h,
           PassHolds(m, i - 1, h)
    PROVE  PassHolds(m, i, AddRow(m, h, i))
<1>0. i \in Nat /\ i # 0 /\ Len(file) \in Nat /\ i \in 1..Len(file)
  BY DEF Rows, ImportsTyped
<1>1. CASE AddRow(m, h, i) = h
  <2>1. \A x \in 1..(i - 1) : x \in 1..i
    BY <1>0
  <2> QED
    BY <1>1, <2>1 DEF PassHolds
<1>2. CASE AddRow(m, h, i) # h
  <2> DEFINE row == LedgerRow(m, i, h.ledger)
             more == Append(h.ledger, row)
             kept == [ref |-> BookRef(i), src |-> i, by |-> m]
             g == AddRow(m, h, i)
  <2>1. i \in Mapped /\ Variants(BookRef(i)) \cap h.refs = {}
    BY <1>2 DEF AddRow
  <2>2. /\ g.ledger = more
        /\ g.refs = IF i \in Cash THEN h.refs \cup {BookRef(i)} ELSE h.refs
        /\ g.new = IF i \in Cash THEN h.new \cup {kept} ELSE h.new
        /\ g = [ledger |-> g.ledger, refs |-> g.refs, new |-> g.new]
    BY <2>1 DEF AddRow
  <2>3. h.ledger \in Seq(LedgerRows) /\ h.refs \subseteq Refs /\ h.new \subseteq ReceiptRows
    BY DEF PassHolds
  <2>4. \A k \in 1..Len(h.ledger) : h.ledger[k].src # i /\ h.ledger[k].by \in {None, m}
    BY <1>0 DEF PassHolds, SoundLedger, RowsTold
  <2>5. row \in LedgerRows /\ SoundLedger(more)
    BY <2>1, <2>3, <2>4, RowAdded DEF PassHolds
  <2>6. /\ more \in Seq(LedgerRows) /\ Len(more) = Len(h.ledger) + 1
        /\ more[Len(h.ledger) + 1] = row
        /\ \A k \in 1..Len(h.ledger) : more[k] = h.ledger[k]
    BY <2>3, <2>5
  <2>7. Continues(more, work[m].ledger)
    <3>1. Len(work[m].ledger) <= Len(h.ledger) /\ Len(h.ledger) \in Nat
             /\ \A k \in 1..Len(work[m].ledger) : h.ledger[k] = work[m].ledger[k]
      BY <2>3 DEF PassHolds, Continues
    <3>2. CASE Len(work[m].ledger) \in Int
      <4>1. \A k \in 1..Len(work[m].ledger) : k \in 1..Len(h.ledger)
        BY <3>1, <3>2
      <4> HIDE DEF more
      <4> QED
        BY <2>6, <3>1, <3>2, <4>1 DEF Continues
    <3> QED
      BY <3>2
  <2>8. \A k \in 1..Len(more) : more[k].by = None \/ (more[k].by = m /\ more[k].src \in 1..i)
    <3>1. row.by = m /\ row.src = i
      BY DEF LedgerRow
    <3>2. Len(h.ledger) \in Nat
      BY <2>3
    <3>3. \A k \in 1..Len(more) : k \in 1..Len(h.ledger) \/ k = Len(h.ledger) + 1
      BY <2>6, <3>2
    <3>4. \A x \in 1..(i - 1) : x \in 1..i
      BY <1>0
    <3> HIDE DEF more, row
    <3> QED
      BY <1>0, <2>6, <3>1, <3>3, <3>4 DEF PassHolds
  <2>9. BookRef(i) \in Refs /\ BookRef(i) \in Variants(BookRef(i))
    BY DEF Refs, Variants
  <2>10. kept \in ReceiptRows \/ i \notin Cash
    BY <2>9 DEF ReceiptRows
  <2>11. g \in [ledger : Seq(LedgerRows), refs : SUBSET Refs, new : SUBSET ReceiptRows]
    <3> HIDE DEF g, more, kept
    <3>1. g.refs \in SUBSET Refs /\ g.new \in SUBSET ReceiptRows /\ g.ledger \in Seq(LedgerRows)
      BY <2>2, <2>3, <2>6, <2>9, <2>10
    <3> QED
      BY <2>2, <3>1
  <2>12. work[m].refs \cup RefsOf(g.new) \subseteq g.refs
    <3>1. RefsOf(h.new \cup {kept}) = RefsOf(h.new) \cup {BookRef(i)}
      <4>1. kept.ref = BookRef(i)
        OBVIOUS
      <4> HIDE DEF kept
      <4> QED
        BY <4>1 DEF RefsOf
    <3> HIDE DEF g, kept
    <3> QED
      BY <2>2, <3>1 DEF PassHolds
  <2>13. \A r \in g.new : r.by = m /\ r.ref = BookRef(r.src) /\ Variants(r.ref) \cap work[m].refs = {}
    <3>1. kept.by = m /\ kept.ref = BookRef(kept.src) /\ Variants(kept.ref) \cap work[m].refs = {}
      BY <2>1 DEF PassHolds
    <3> HIDE DEF g, kept
    <3> QED
      BY <2>2, <3>1 DEF PassHolds
  <2>14. \A r, s \in g.new : r.ref = s.ref => r = s
    <3>1. \A r \in h.new : r.ref # kept.ref
      BY <2>1, <2>9 DEF PassHolds, RefsOf
    <3> HIDE DEF g, kept
    <3> QED
      BY <2>2, <3>1 DEF PassHolds
  <2> HIDE DEF g, more
  <2>15. SoundLedger(g.ledger) /\ Continues(g.ledger, work[m].ledger)
           /\ \A k \in 1..Len(g.ledger) :
                g.ledger[k].by = None \/ (g.ledger[k].by = m /\ g.ledger[k].src \in 1..i)
    BY <2>2, <2>5, <2>7, <2>8
  <2>16. PassHolds(m, i, g)
    BY <2>11, <2>12, <2>13, <2>14, <2>15 DEF PassHolds
  <2> QED
    BY <2>16 DEF g
<1> QED
  BY <1>1, <1>2

(* So the whole file is passed.                                             *)
LEMMA HistoryHolds ==
    ASSUME FilesAssumption, ImportsInv, NEW m \in Imports, work[m].op = "import"
    PROVE  \/ PassHolds(m, Len(file), History(m))
           \/ History(m) = [ledger |-> work[m].ledger, refs |-> work[m].refs, new |-> {}]
<1> DEFINE base == [ledger |-> work[m].ledger, refs |-> work[m].refs, new |-> {}]
           bad == {n \in Nat : n \in 0..Len(file) /\ ~ PassHolds(m, n, Passed(m)[n])}
<1>0. ImportsTyped /\ Len(file) \in Nat /\ m \in Requests /\ work[m] \in Copying
  BY DEF ImportsInv, ImportsTyped, Requests, Idle, Claiming, Applying, Closing
<1>1. Passed(m)[0] = base /\ \A i \in Rows : Passed(m)[i] = AddRow(m, Passed(m)[i - 1], i)
  BY <1>0, PassedRows
<1>2. CASE HasHistory(work[m].ledger)
  BY <1>1, <1>2 DEF History
<1>3. CASE ~HasHistory(work[m].ledger)
  <2>1. SoundLedger(work[m].ledger)
    BY <1>0, SoundBefore DEF ImportsInv, ImportsTyped, LedgerKept, Copying
  <2>2. PassHolds(m, 0, base)
    <3>1. base \in [ledger : Seq(LedgerRows), refs : SUBSET Refs, new : SUBSET ReceiptRows]
      BY <1>0 DEF Copying
    <3>2. \A k \in 1..Len(work[m].ledger) : work[m].ledger[k].by = None
      <4>1. \A k \in 1..Len(work[m].ledger) : work[m].ledger[k] \in LedgerRows
        BY <1>0 DEF Copying
      <4> QED
        BY <1>3, <4>1 DEF HasHistory, LedgerRows
    <3>3. Continues(work[m].ledger, work[m].ledger)
      BY <1>0 DEF Continues, Copying
    <3>4. RefsOf({}) = {}
      BY DEF RefsOf
    <3>5. base.ledger = work[m].ledger /\ base.refs = work[m].refs /\ base.new = {}
      OBVIOUS
    <3> HIDE DEF base
    <3>6. SoundLedger(base.ledger) /\ Continues(base.ledger, work[m].ledger)
      BY <2>1, <3>3, <3>5
    <3>7. \A k \in 1..Len(base.ledger) : base.ledger[k].by = None
      <4>1. base.ledger = work[m].ledger
        BY <3>5
      <4> QED
        BY <3>2, <4>1
    <3>8. work[m].refs \cup RefsOf(base.new) \subseteq base.refs
      BY <3>4, <3>5
    <3>9. \A r \in base.new : FALSE
      BY <3>5
    <3> QED
      BY ONLY <3>1, <3>6, <3>7, <3>8, <3>9 DEF PassHolds
  <2>3. bad = {}
    <3> SUFFICES ASSUME bad # {} PROVE FALSE
      OBVIOUS
    <3>1. PICK n \in bad : \A k \in bad : n <= k
      BY NatHasMin
    <3>2. n \in Nat /\ n \in 0..Len(file) /\ ~ PassHolds(m, n, Passed(m)[n])
      OBVIOUS
    <3>3. n # 0
      BY <1>1, <2>2, <3>2
    <3>4. n \in Rows /\ n - 1 \in Nat /\ n - 1 \in 0..Len(file) /\ ~ n <= n - 1
      BY <1>0, <3>2, <3>3 DEF Rows
    <3>5. PassHolds(m, n - 1, Passed(m)[n - 1])
      BY <3>1, <3>4
    <3>6. PassHolds(m, n, AddRow(m, Passed(m)[n - 1], n))
      BY <1>0, <3>4, <3>5, RowPassed
    <3> QED
      BY <1>1, <3>2, <3>4, <3>6
  <2>4. PassHolds(m, Len(file), Passed(m)[Len(file)])
    BY <1>0, <2>3
  <2> QED
    BY <1>3, <2>4 DEF History
<1> QED
  BY <1>2, <1>3

(* The history is what it is: nothing that is read from it changes.         *)
LEMMA FileStays ==
    ASSUME file' = file
    PROVE  /\ Rows' = Rows /\ Cash' = Cash /\ Refs' = Refs
           /\ \A i : BookRef(i)' = BookRef(i) /\ CsvRef(i)' = CsvRef(i)
           /\ ReceiptRows' = ReceiptRows /\ LedgerRows' = LedgerRows /\ BatchRows' = BatchRows
           /\ Applying' = Applying /\ Copying' = Copying
<1>1. Rows' = Rows /\ Cash' = Cash
  BY DEF Rows, Cash
<1>2. \A i : BookRef(i)' = BookRef(i) /\ CsvRef(i)' = CsvRef(i)
  BY DEF BookRef, CsvRef
<1>3. Refs' = Refs
  BY <1>1 DEF Refs, BookRef, CsvRef
<1>4. ReceiptRows' = ReceiptRows /\ LedgerRows' = LedgerRows /\ BatchRows' = BatchRows
  BY <1>1, <1>3 DEF ReceiptRows, LedgerRows, BatchRows
<1>5. Applying' = Applying /\ Copying' = Copying
  BY <1>1, <1>3, <1>4 DEF Applying, Copying
<1> QED
  BY <1>1, <1>2, <1>3, <1>4, <1>5

(* The invariant at the start.                                              *)
LEMMA ImportsInitHolds == ASSUME FilesAssumption, Init PROVE ImportsInv
<1> USE DEF Init, FilesAssumption
<1>1. file \in Seq(SourceRows) /\ file # << >>
  BY DEF SourceRows
<1>2. PICK S \in SUBSET {i \in Cash : file[i].id # 0} :
        /\ receipts = OldReceipts(S)
        /\ \A i, j \in S : file[i].id = file[j].id => i = j
  OBVIOUS
<1>3. \A r \in receipts : /\ r.src \in S /\ r.by = "before"
                          /\ r.ref = <<"old", file[r.src].id>>
                          /\ r = [ref |-> r.ref, src |-> r.src, by |-> r.by]
  BY <1>2 DEF OldReceipts
<1>4. \A r \in receipts : r \in ReceiptRows
  <2> SUFFICES ASSUME NEW r \in receipts PROVE r \in ReceiptRows
    OBVIOUS
  <2>1. r.src \in Cash /\ r.src \in Rows
    BY <1>3 DEF Cash
  <2>2. r.ref \in Refs
    BY <1>3, <2>1 DEF Refs
  <2>3. r = [ref |-> r.ref, src |-> r.src, by |-> r.by] /\ r.by = "before"
    BY <1>3
  <2> HIDE DEF Init, FilesAssumption
  <2> QED
    BY ONLY <2>1, <2>2, <2>3 DEF ReceiptRows
<1>5. \A b \in Batches : batch[b] = NoBatch
  OBVIOUS
<1>6. NoBatch \in BatchRows
  BY DEF NoBatch, BatchRows
<1>7. \A c \in Requests : work[c].op = "idle"
  BY DEF Idle
<1>8. ImportsTyped
  BY <1>1, <1>4, <1>5, <1>6 DEF ImportsTyped
<1>9. ReceiptsNamed
  BY <1>3 DEF ReceiptsNamed
<1>10. ReceiptsApart
  <2>1. ASSUME NEW r \in receipts, NEW s \in receipts, r.ref = s.ref PROVE r = s
    <3>1. file[r.src].id = file[s.src].id
      BY <1>3, <2>1
    <3> QED
      BY <1>2, <1>3, <2>1, <3>1
  <2>2. \A r, s \in receipts : s.ref # <<"id", file[r.src].id>>
    BY <1>3
  <2> QED
    BY <2>1, <2>2 DEF ReceiptsApart
<1>11. RefsRead /\ ClaimsHold
  BY <1>7 DEF RefsRead, ClaimsHold, Holds
<1>12. BatchesClean
  BY <1>5, <1>6, <1>7 DEF BatchesClean, CleanFile, NoBatch
<1>13. BatchKeepsItsWord
  BY <1>3, <1>5 DEF BatchKeepsItsWord, NoBatch
<1>14. LedgerKept
  <2>1. Len(ledger) = 0
    OBVIOUS
  <2> QED
    BY <1>7, <2>1 DEF LedgerKept, SoundLedger, RowsTold, RowsApart, RowsUndo
<1> QED
  BY <1>8, <1>9, <1>10, <1>11, <1>12, <1>13, <1>14 DEF ImportsInv

(* New receipts, if they are named, and apart from each other and from the  *)
(* ones that are kept, under either spelling.                               *)
Newcomers(N) ==
    /\ N \in SUBSET ReceiptRows
    /\ \A r \in N : /\ r.by # "before" /\ r.ref \in {BookRef(r.src), CsvRef(r.src)}
                    /\ r.ref \notin RefsOf(receipts)
                    /\ \A s \in receipts : s.by = "before" => r.ref # <<"id", file[s.src].id>>
    /\ \A r, s \in N : r.ref = s.ref => r = s

(* Receipts are only added.                                                 *)
ReceiptsGrow ==
    /\ file' = file
    /\ receipts \subseteq receipts' /\ RefsOf(receipts) \subseteq RefsOf(receipts)'
    /\ \A r \in receipts' : r.by = "before" => r \in receipts

LEMMA ReceiptsKept ==
    ASSUME ImportsInv, file' = file, NEW N, Newcomers(N), receipts' = receipts \cup N
    PROVE  /\ ReceiptsGrow /\ ReceiptsNamed' /\ ReceiptsApart'
           /\ receipts' \in SUBSET ReceiptRows'
<1>1. ReceiptsGrow
  BY DEF ReceiptsGrow, Newcomers, RefsOf
<1>2. receipts' \in SUBSET ReceiptRows'
  BY FileStays DEF Newcomers, ImportsInv, ImportsTyped
<1>3. ReceiptsNamed'
  BY FileStays DEF Newcomers, ImportsInv, ReceiptsNamed
<1>4. \A r, s \in receipts' : r.ref = s.ref => r = s
  BY DEF Newcomers, RefsOf, ImportsInv, ReceiptsApart
<1>5. ASSUME NEW r \in receipts', NEW s \in receipts', r.by = "before"
      PROVE  s.ref # <<"id", file[r.src].id>>
  <2>1. r \in receipts
    BY <1>1, <1>5 DEF ReceiptsGrow
  <2> QED
    BY <1>5, <2>1 DEF Newcomers, ImportsInv, ReceiptsApart
<1>6. ReceiptsApart'
  BY <1>4, <1>5 DEF ReceiptsApart
<1> QED
  BY <1>1, <1>2, <1>3, <1>6

(* When none is added.                                                      *)
LEMMA ReceiptsSame ==
    ASSUME ImportsInv, file' = file, receipts' = receipts
    PROVE  /\ ReceiptsGrow /\ ReceiptsNamed' /\ ReceiptsApart'
           /\ receipts' \in SUBSET ReceiptRows'
<1>1. Newcomers({}) /\ receipts' = receipts \cup {}
  BY DEF Newcomers
<1> QED
  BY <1>1, ReceiptsKept

(* What a request has just read.                                            *)
Fresh(v) ==
    /\ v.op \in {"apply", "import"} =>
         /\ v.refs \subseteq RefsOf(receipts)
         /\ \A r \in receipts : r.by = "before" => r.ref \in v.refs
    /\ v.op = "import" => Continues(ledger, v.ledger)
    /\ v.op = "apply" /\ batch[v.batch].entity = "payments" => CleanFile(v.rows, v.loan) /\ v.loan
    /\ v.op = "apply" => v.batch \in Batches /\ batch[v.batch].status # "none"

Work == {Idle} \cup Claiming \cup Applying \cup Closing \cup Copying

(* What has been read stays good.                                           *)
LEMMA RequestsKept ==
    ASSUME ImportsInv, ReceiptsGrow, ledger' \in Seq(LedgerRows), Continues(ledger', ledger),
           work' \in [Requests -> Work],
           \A d \in Requests : work'[d] = work[d] \/ Fresh(work'[d]),
           \A b \in Batches : batch'[b].entity = batch[b].entity \/ batch[b].status = "none"
    PROVE  /\ work' \in [Requests -> Work'] /\ RefsRead'
           /\ \A d \in Requests : (work[d].op = "import" => Continues(ledger, work[d].ledger))'
           /\ \A d \in Requests : (work[d].op = "apply" /\ batch[work[d].batch].entity = "payments" =>
                                     CleanFile(work[d].rows, work[d].loan) /\ work[d].loan)'
<1>1. \A d \in Requests : Fresh(work[d])
  <2> SUFFICES ASSUME NEW d \in Requests PROVE Fresh(work[d])
    OBVIOUS
  <2>1. work[d].op = "apply" => work[d].batch \in Batches
    BY DEF ImportsInv, ImportsTyped, Idle, Claiming, Applying, Closing, Copying
  <2>2. work[d].op = "apply" => batch[work[d].batch].status # "none"
    BY <2>1 DEF ImportsInv, ClaimsHold, Holds
  <2>3. work[d].op \in {"apply", "import"} =>
         /\ work[d].refs \subseteq RefsOf(receipts)
         /\ \A r \in receipts : r.by = "before" => r.ref \in work[d].refs
    BY DEF ImportsInv, RefsRead
  <2>4. work[d].op = "import" => Continues(ledger, work[d].ledger)
    BY DEF ImportsInv, LedgerKept
  <2>5. work[d].op = "apply" /\ batch[work[d].batch].entity = "payments" =>
           CleanFile(work[d].rows, work[d].loan) /\ work[d].loan
    BY DEF ImportsInv, BatchesClean
  <2> QED
    BY <2>1, <2>2, <2>3, <2>4, <2>5 DEF Fresh
<1>2. \A d \in Requests : Fresh(work'[d])
  BY <1>1
<1>3. work' \in [Requests -> Work']
  BY FileStays DEF Work, ReceiptsGrow, Claiming, Closing
<1>4. RefsRead'
  BY <1>2 DEF Fresh, RefsRead, ReceiptsGrow
<1>5. ASSUME NEW d \in Requests, work'[d].op = "import"
      PROVE  Continues(ledger', work'[d].ledger)
  <2>1. Continues(ledger, work'[d].ledger)
    BY <1>2, <1>5 DEF Fresh
  <2>2. work'[d].ledger \in Seq(LedgerRows) /\ ledger \in Seq(LedgerRows)
    BY <1>5 DEF Work, Idle, Claiming, Applying, Closing, Copying, ImportsInv, ImportsTyped
  <2> QED
    BY <2>1, <2>2 DEF Continues
<1>6. ASSUME NEW d \in Requests, work'[d].op = "apply", batch'[work'[d].batch].entity = "payments"
      PROVE  (CleanFile(work[d].rows, work[d].loan) /\ work[d].loan)'
  <2>1. work'[d].batch \in Batches /\ batch[work'[d].batch].status # "none"
    BY <1>2, <1>6 DEF Fresh
  <2>2. batch[work'[d].batch].entity = "payments"
    BY <1>6, <2>1
  <2>3. CleanFile(work'[d].rows, work'[d].loan) /\ work'[d].loan
    BY <1>2, <1>6, <2>2 DEF Fresh
  <2> QED
    BY <2>3, FileStays DEF CleanFile, ReceiptsGrow
<1> QED
  BY <1>3, <1>4, <1>5, <1>6

(* What is promised of one batch.                                           *)
BatchWord(b) ==
    /\ (\E r \in receipts : r.by = b) => batch[b].status = "applied"
    /\ batch[b].status = "applied" /\ batch[b].entity = "payments" =>
           \A i \in batch[b].report : Variants(CsvRef(i)) \cap RefsOf(receipts) # {}

(* A batch nobody touches keeps its word.                                   *)
LEMMA WordStays ==
    ASSUME ImportsInv, ReceiptsGrow, NEW b \in Batches, b \notin overtaken,
           batch'[b] = batch[b], \A r \in receipts' : r.by = b => r \in receipts
    PROVE  BatchWord(b)'
<1>1. (\E r \in receipts : r.by = b) => batch[b].status = "applied"
  BY DEF ImportsInv, BatchKeepsItsWord
<1>2. batch[b].status = "applied" /\ batch[b].entity = "payments" =>
          \A i \in batch[b].report : Variants(CsvRef(i)) \cap RefsOf(receipts) # {}
  BY DEF ImportsInv, BatchKeepsItsWord
<1>3. file' = file /\ RefsOf(receipts) \subseteq RefsOf(receipts)'
  BY DEF ReceiptsGrow
<1>4. \A i : CsvRef(i)' = CsvRef(i)
  BY <1>3, FileStays
<1> QED
  BY <1>1, <1>2, <1>3, <1>4 DEF BatchWord

(* So the promise is kept if the batch that is touched keeps it.            *)
LEMMA WordsTogether ==
    ASSUME \A b \in Batches : b \notin overtaken' => BatchWord(b)'
    PROVE  BatchKeepsItsWord'
BY DEF BatchWord, BatchKeepsItsWord

(* Some requests stop holding a batch; nothing happens to the batches.      *)
LEMMA BatchesQuiet ==
    ASSUME ImportsInv, ReceiptsGrow, batch' = batch, overtaken' = overtaken, loan => loan',
           \A r \in receipts' : r.by \in Batches => r \in receipts,
           \A d \in Requests, x \in Batches : Holds(d, x)' => Holds(d, x)
    PROVE  /\ batch' \in [Batches -> BatchRows'] /\ overtaken' \in SUBSET Batches
           /\ \A b \in Batches : (batch[b].status = "validated" => batch[b].entity \in {"loans", "payments"})'
           /\ \A b \in Batches : (batch[b].entity = "payments" => CleanFile(batch[b].rows, loan))'
           /\ ClaimsHold' /\ BatchKeepsItsWord'
<1>1. batch' \in [Batches -> BatchRows'] /\ overtaken' \in SUBSET Batches
  BY FileStays DEF ReceiptsGrow, ImportsInv, ImportsTyped
<1>2. \A b \in Batches : (batch[b].status = "validated" => batch[b].entity \in {"loans", "payments"})'
  BY DEF ImportsInv, BatchesClean
<1>3. \A b \in Batches : (batch[b].entity = "payments" => CleanFile(batch[b].rows, loan))'
  <2> SUFFICES ASSUME NEW b \in Batches, batch[b].entity = "payments"
               PROVE  CleanFile(batch[b].rows, loan)'
    OBVIOUS
  <2>1. CleanFile(batch[b].rows, loan)
    BY DEF ImportsInv, BatchesClean
  <2> QED
    BY <2>1, FileStays DEF CleanFile, ReceiptsGrow
<1>4. ClaimsHold'
  BY DEF ClaimsHold, ImportsInv
<1>5. BatchKeepsItsWord'
  BY WordStays, WordsTogether
<1> QED
  BY <1>1, <1>2, <1>3, <1>4, <1>5

(* One batch moves.                                                         *)
LEMMA BatchMoved ==
    ASSUME ImportsInv, ReceiptsGrow, NEW b \in Batches, loan => loan',
           batch' \in [Batches -> BatchRows], \A x \in Batches \ {b} : batch'[x] = batch[x],
           overtaken' \in {overtaken, overtaken \cup {b}},
           \A r \in receipts' : r.by \in Batches \ {b} => r \in receipts,
           \A d \in Requests, x \in Batches \ {b} : Holds(d, x)' => Holds(d, x),
           batch'[b].status = "validated" => batch'[b].entity \in {"loans", "payments"},
           batch'[b].entity = "payments" => CleanFile(batch'[b].rows, loan'),
           b \notin overtaken' => BatchWord(b)',
           \A d \in Requests : Holds(d, b)' =>
               /\ batch'[b].entity \in {"loans", "payments"}
               /\ batch'[b].status \in {"confirmed", "cancelled"}
               /\ b \notin overtaken' => batch'[b].status = "confirmed"
               /\ \A e \in Requests : Holds(e, b)' => e = d
    PROVE  /\ batch' \in [Batches -> BatchRows'] /\ overtaken' \in SUBSET Batches
           /\ \A x \in Batches : (batch[x].status = "validated" => batch[x].entity \in {"loans", "payments"})'
           /\ \A x \in Batches : (batch[x].entity = "payments" => CleanFile(batch[x].rows, loan))'
           /\ ClaimsHold' /\ BatchKeepsItsWord'
<1>1. batch' \in [Batches -> BatchRows'] /\ overtaken' \in SUBSET Batches
  BY FileStays DEF ReceiptsGrow, ImportsInv, ImportsTyped
<1>2. \A x \in Batches : (batch[x].status = "validated" => batch[x].entity \in {"loans", "payments"})'
  BY DEF ImportsInv, BatchesClean
<1>3. \A x \in Batches : (batch[x].entity = "payments" => CleanFile(batch[x].rows, loan))'
  <2> SUFFICES ASSUME NEW x \in Batches, batch'[x].entity = "payments"
               PROVE  CleanFile(batch[x].rows, loan)'
    OBVIOUS
  <2>1. CASE x = b
    BY <2>1, FileStays DEF CleanFile, ReceiptsGrow
  <2>2. CASE x # b
    <3>1. batch'[x] = batch[x]
      BY <2>2
    <3>2. CleanFile(batch[x].rows, loan)
      BY <3>1 DEF ImportsInv, BatchesClean
    <3> QED
      BY <3>1, <3>2, FileStays DEF CleanFile, ReceiptsGrow
  <2> QED
    BY <2>1, <2>2
<1>4. ClaimsHold'
  <2> SUFFICES ASSUME NEW d \in Requests, NEW x \in Batches, Holds(d, x)'
               PROVE  /\ batch'[x].entity \in {"loans", "payments"}
                      /\ batch'[x].status \in {"confirmed", "cancelled"}
                      /\ x \notin overtaken' => batch'[x].status = "confirmed"
                      /\ \A e \in Requests : Holds(e, x)' => e = d
    BY DEF ClaimsHold
  <2>1. CASE x = b
    BY <2>1
  <2>2. CASE x # b
    <3>1. Holds(d, x) /\ batch'[x] = batch[x] /\ (x \in overtaken => x \in overtaken')
      BY <2>2
    <3>2. \A e \in Requests : Holds(e, x)' => Holds(e, x)
      BY <2>2
    <3> QED
      BY <3>1, <3>2 DEF ClaimsHold, ImportsInv
  <2> QED
    BY <2>1, <2>2
<1>5. BatchKeepsItsWord'
  <2>1. ASSUME NEW x \in Batches, x # b, x \notin overtaken' PROVE BatchWord(x)'
    <3>1. batch'[x] = batch[x] /\ x \notin overtaken /\ \A r \in receipts' : r.by = x => r \in receipts
      BY <2>1
    <3> QED
      BY <3>1, WordStays
  <2> QED
    BY <2>1, WordsTogether
<1> QED
  BY <1>1, <1>2, <1>3, <1>4, <1>5

(* The parts of the invariant, put together.                                *)
LEMMA ImportsTogether ==
    ASSUME ImportsInv, file' = file, loan' \in BOOLEAN, faults' \in 0..MaxFaults,
           ReceiptsNamed', ReceiptsApart', receipts' \in SUBSET ReceiptRows',
           work' \in [Requests -> Work'], RefsRead',
           \A d \in Requests : (work[d].op = "import" => Continues(ledger, work[d].ledger))',
           \A d \in Requests : (work[d].op = "apply" /\ batch[work[d].batch].entity = "payments" =>
                                  CleanFile(work[d].rows, work[d].loan) /\ work[d].loan)',
           batch' \in [Batches -> BatchRows'], overtaken' \in SUBSET Batches,
           \A x \in Batches : (batch[x].status = "validated" => batch[x].entity \in {"loans", "payments"})',
           \A x \in Batches : (batch[x].entity = "payments" => CleanFile(batch[x].rows, loan))',
           ClaimsHold', BatchKeepsItsWord',
           ledger' \in Seq(LedgerRows), SoundLedger(ledger')
    PROVE  ImportsInv'
<1>1. ImportsTyped'
  BY FileStays DEF ImportsInv, ImportsTyped, Work
<1>2. BatchesClean'
  BY DEF BatchesClean
<1>3. LedgerKept'
  BY DEF LedgerKept
<1> QED
  BY <1>1, <1>2, <1>3 DEF ImportsInv

(* A ledger nobody adds to.                                                 *)
LEMMA LedgerSame ==
    ASSUME ImportsInv, ledger' = ledger
    PROVE  ledger' \in Seq(LedgerRows) /\ SoundLedger(ledger') /\ Continues(ledger', ledger)
BY DEF ImportsInv, ImportsTyped, LedgerKept, Continues

(* One request moves on, or none does; if it no longer holds a batch, no    *)
(* batch is held that was not.                                              *)
LEMMA RequestMoved ==
    ASSUME ImportsInv, NEW c \in Requests, NEW v \in Work, work' = [work EXCEPT ![c] = v]
    PROVE  /\ work' \in [Requests -> Work] /\ work'[c] = v
           /\ \A d \in Requests : d # c => work'[d] = work[d]
           /\ Fresh(v) => \A d \in Requests : work'[d] = work[d] \/ Fresh(work'[d])
           /\ v.op \notin {"claimed", "apply"} =>
                \A d \in Requests, x \in Batches : Holds(d, x)' => Holds(d, x)
<1>1. work \in [Requests -> Work]
  BY DEF ImportsInv, ImportsTyped, Work
<1>2. work' \in [Requests -> Work] /\ work'[c] = v /\ \A d \in Requests : d # c => work'[d] = work[d]
  BY <1>1
<1>3. \A d \in Requests, x \in Batches : d # c => (Holds(d, x)' <=> Holds(d, x))
  BY <1>2 DEF Holds
<1>4. v.op \notin {"claimed", "apply"} => \A x \in Batches : ~ Holds(c, x)'
  BY <1>2 DEF Holds
<1> QED
  BY <1>2, <1>3, <1>4

(* A request that ends.                                                     *)
LEMMA Given ==
    ASSUME ImportsInv, NEW c \in Requests, Give(c)
    PROVE  /\ work' \in [Requests -> Work] /\ work'[c] = Idle
           /\ \A d \in Requests : d # c => work'[d] = work[d]
           /\ \A d \in Requests : work'[d] = work[d] \/ Fresh(work'[d])
           /\ \A d \in Requests, x \in Batches : Holds(d, x)' => Holds(d, x)
<1>1. Idle \in Work /\ Fresh(Idle) /\ Idle.op \notin {"claimed", "apply"}
  BY DEF Work, Fresh, Idle
<1> QED
  BY <1>1, RequestMoved DEF Give

(* A request that holds a batch holds what it was claimed for.              *)
LEMMA Held ==
    ASSUME ImportsInv, NEW c \in Requests, work[c].op \in {"claimed", "apply"}
    PROVE  /\ work[c].batch \in Batches /\ Holds(c, work[c].batch)
           /\ batch[work[c].batch] \in BatchRows
           /\ batch[work[c].batch].status \in {"confirmed", "cancelled"}
           /\ work[c].batch \notin overtaken => batch[work[c].batch].status = "confirmed"
           /\ batch[work[c].batch].entity \in {"loans", "payments"}
           /\ \A d \in Requests : Holds(d, work[c].batch) => d = c
           /\ work[c].op = "apply" => work[c] \in Applying
           /\ \A r \in receipts : r.by = work[c].batch => work[c].batch \in overtaken
<1>1. work[c] \in Claiming \cup Applying
  BY DEF ImportsInv, ImportsTyped, Idle, Claiming, Applying, Closing, Copying
<1>2. work[c].batch \in Batches /\ Holds(c, work[c].batch)
  BY <1>1 DEF Claiming, Applying, Holds
<1>3. batch[work[c].batch] \in BatchRows
  BY <1>2 DEF ImportsInv, ImportsTyped
<1>4. /\ batch[work[c].batch].status \in {"confirmed", "cancelled"}
      /\ work[c].batch \notin overtaken => batch[work[c].batch].status = "confirmed"
      /\ \A d \in Requests : Holds(d, work[c].batch) => d = c
  BY <1>2 DEF ImportsInv, ClaimsHold
<1>5. batch[work[c].batch].entity \in {"loans", "payments"}
  BY <1>2 DEF ImportsInv, ClaimsHold
<1>6. work[c].op = "apply" => work[c] \in Applying
  BY <1>1 DEF Claiming
<1>7. \A r \in receipts : r.by = work[c].batch => work[c].batch \in overtaken
  BY <1>2, <1>4 DEF ImportsInv, BatchKeepsItsWord
<1> QED
  BY <1>2, <1>3, <1>4, <1>5, <1>6, <1>7

(* An upload.                                                               *)
LEMMA UploadKeeps == ASSUME ImportsInv, NEW b \in Batches, Upload(b) PROVE ImportsInv'
<1>0. file' = file /\ loan' = loan /\ receipts' = receipts /\ ledger' = ledger /\ overtaken' = overtaken
         /\ work' = work /\ faults' = faults
  BY DEF Upload
<1>1. PICK entity \in {"loans", "payments"} :
        batch' = [batch EXCEPT ![b] = [NoBatch EXCEPT !.entity = entity,
                     !.status = "validated", !.rows = CleanRows(entity)]]
  BY DEF Upload
<1> DEFINE new == [entity |-> entity, status |-> "validated", rows |-> CleanRows(entity), report |-> {}]
<1>2. batch[b] = NoBatch /\ batch \in [Batches -> BatchRows]
  BY DEF Upload, ImportsInv, ImportsTyped
<1>3. batch' = [batch EXCEPT ![b] = new]
  <2>1. \A R : [NoBatch EXCEPT !.entity = entity, !.status = "validated", !.rows = R]
                 = [entity |-> entity, status |-> "validated", rows |-> R, report |-> {}]
    <3> SUFFICES ASSUME NEW R
                 PROVE  [NoBatch EXCEPT !.entity = entity, !.status = "validated", !.rows = R]
                            = [entity |-> entity, status |-> "validated", rows |-> R, report |-> {}]
      OBVIOUS
    <3>1. [NoBatch EXCEPT !.entity = entity]
              = [entity |-> entity, status |-> "none", rows |-> {}, report |-> {}]
      BY DEF NoBatch
    <3>2. [[entity |-> entity, status |-> "none", rows |-> {}, report |-> {}]
              EXCEPT !.status = "validated"]
              = [entity |-> entity, status |-> "validated", rows |-> {}, report |-> {}]
      OBVIOUS
    <3>3. [[entity |-> entity, status |-> "validated", rows |-> {}, report |-> {}] EXCEPT !.rows = R]
              = [entity |-> entity, status |-> "validated", rows |-> R, report |-> {}]
      OBVIOUS
    <3> QED
      BY <3>1, <3>2, <3>3
  <2> QED
    BY <1>1, <2>1
<1>4. CleanRows(entity) \in SUBSET Rows
  <2>1. 1 \in Rows
    <3>1. file \in Seq(SourceRows) /\ file # << >>
      BY DEF ImportsInv, ImportsTyped
    <3> QED
      BY <3>1 DEF Rows
  <2> QED
    BY <2>1 DEF CleanRows, Cash
<1>5. new \in BatchRows
  BY <1>4 DEF BatchRows
<1>6. entity = "payments" => CleanFile(CleanRows(entity), loan)
  <2> SUFFICES ASSUME entity = "payments" PROVE CleanFile(CleanRows(entity), loan)
    OBVIOUS
  <2>1. CleanRows(entity) = {i \in Cash : loan /\ \A j \in Cash : j < i => CsvRef(j) # CsvRef(i)}
    BY DEF CleanRows
  <2>2. ASSUME NEW i \in CleanRows(entity), NEW j \in CleanRows(entity), CsvRef(i) = CsvRef(j)
        PROVE  i = j
    <3>1. i \in Nat /\ j \in Nat /\ i \in Cash /\ j \in Cash
      BY <2>1 DEF Cash, Rows
    <3>2. ~ i < j /\ ~ j < i
      BY <2>1, <2>2, <3>1
    <3> QED
      BY <3>1, <3>2
  <2> QED
    BY <2>1, <2>2 DEF CleanFile
<1>7. batch' \in [Batches -> BatchRows] /\ batch'[b] = new /\ \A x \in Batches \ {b} : batch'[x] = batch[x]
  BY <1>2, <1>3, <1>5
<1>8. b \notin overtaken => \A r \in receipts : r.by # b
  BY <1>2 DEF ImportsInv, BatchKeepsItsWord, NoBatch
<1>9. \A d \in Requests : ~ Holds(d, b)
  BY <1>2 DEF ImportsInv, ClaimsHold, NoBatch
<1>10. ReceiptsGrow /\ ReceiptsNamed' /\ ReceiptsApart' /\ receipts' \in SUBSET ReceiptRows'
  BY <1>0, ReceiptsSame
<1>11. ledger' \in Seq(LedgerRows) /\ SoundLedger(ledger') /\ Continues(ledger', ledger)
  BY <1>0, LedgerSame
<1>12. \A x \in Batches : batch'[x].entity = batch[x].entity \/ batch[x].status = "none"
  BY <1>2, <1>7 DEF NoBatch
<1>13. work' \in [Requests -> Work]
  BY <1>0 DEF ImportsInv, ImportsTyped, Work
<1>14. /\ work' \in [Requests -> Work'] /\ RefsRead'
       /\ \A d \in Requests : (work[d].op = "import" => Continues(ledger, work[d].ledger))'
       /\ \A d \in Requests : (work[d].op = "apply" /\ batch[work[d].batch].entity = "payments" =>
                                    CleanFile(work[d].rows, work[d].loan) /\ work[d].loan)'
  BY <1>0, <1>10, <1>11, <1>12, <1>13, RequestsKept
<1>15. b \notin overtaken' => BatchWord(b)'
  BY <1>0, <1>7, <1>8 DEF BatchWord
<1>16. \A d \in Requests, x \in Batches : Holds(d, x)' <=> Holds(d, x)
  BY <1>0 DEF Holds
<1>17. /\ batch' \in [Batches -> BatchRows'] /\ overtaken' \in SUBSET Batches
       /\ \A x \in Batches : (batch[x].status = "validated" => batch[x].entity \in {"loans", "payments"})'
       /\ \A x \in Batches : (batch[x].entity = "payments" => CleanFile(batch[x].rows, loan))'
       /\ ClaimsHold' /\ BatchKeepsItsWord'
  <2>1. batch'[b].entity \in {"loans", "payments"}
    BY <1>7
  <2> QED
    BY <1>0, <1>6, <1>7, <1>9, <1>10, <1>15, <1>16, <2>1, BatchMoved
<1>18. loan' \in BOOLEAN /\ faults' \in 0..MaxFaults
  BY <1>0 DEF ImportsInv, ImportsTyped
<1> QED
  BY <1>0, <1>10, <1>11, <1>14, <1>17, <1>18, ImportsTogether

(* A confirmation's claim.                                                  *)
LEMMA ClaimKeeps ==
    ASSUME ImportsInv, NEW c \in Confirms, NEW b \in Batches, Claim(c, b) PROVE ImportsInv'
<1> DEFINE v == [op |-> "claimed", batch |-> b]
<1>0. /\ file' = file /\ loan' = loan /\ receipts' = receipts /\ ledger' = ledger
      /\ overtaken' = overtaken /\ faults' = faults
      /\ c \in Requests /\ work' = [work EXCEPT ![c] = v]
      /\ batch' = [batch EXCEPT ![b].status = "confirmed"] /\ batch[b].status = "validated"
  BY DEF Claim, Claimable, Requests
<1>1. v \in Work /\ Fresh(v)
  BY DEF Work, Claiming, Fresh
<1>2. /\ work' \in [Requests -> Work] /\ work'[c] = v
      /\ \A d \in Requests : d # c => work'[d] = work[d]
      /\ \A d \in Requests : work'[d] = work[d] \/ Fresh(work'[d])
  BY <1>0, <1>1, RequestMoved
<1>3. batch \in [Batches -> BatchRows] /\ batch[b] \in BatchRows
  BY DEF ImportsInv, ImportsTyped
<1>4. /\ batch' \in [Batches -> BatchRows] /\ \A x \in Batches \ {b} : batch'[x] = batch[x]
      /\ batch'[b].status = "confirmed" /\ batch'[b].entity = batch[b].entity
      /\ batch'[b].rows = batch[b].rows
  <2> DEFINE new == [batch[b] EXCEPT !.status = "confirmed"]
  <2>1. new \in BatchRows /\ new.status = "confirmed" /\ new.entity = batch[b].entity
           /\ new.rows = batch[b].rows
    BY <1>3 DEF BatchRows
  <2>2. batch' = [batch EXCEPT ![b] = new]
    BY <1>0
  <2> HIDE DEF new
  <2> QED
    BY <1>3, <2>1, <2>2
<1>5. b \notin overtaken => \A r \in receipts : r.by # b
  BY <1>0 DEF ImportsInv, BatchKeepsItsWord
<1>6. \A d \in Requests : ~ Holds(d, b)
  BY <1>0 DEF ImportsInv, ClaimsHold
<1>7. ReceiptsGrow /\ ReceiptsNamed' /\ ReceiptsApart' /\ receipts' \in SUBSET ReceiptRows'
  BY <1>0, ReceiptsSame
<1>8. ledger' \in Seq(LedgerRows) /\ SoundLedger(ledger') /\ Continues(ledger', ledger)
  BY <1>0, LedgerSame
<1>9. \A x \in Batches : batch'[x].entity = batch[x].entity
  BY <1>4
<1>10. /\ work' \in [Requests -> Work'] /\ RefsRead'
       /\ \A d \in Requests : (work[d].op = "import" => Continues(ledger, work[d].ledger))'
       /\ \A d \in Requests : (work[d].op = "apply" /\ batch[work[d].batch].entity = "payments" =>
                                    CleanFile(work[d].rows, work[d].loan) /\ work[d].loan)'
  BY <1>2, <1>7, <1>8, <1>9, RequestsKept
<1>11. b \notin overtaken' => BatchWord(b)'
  BY <1>0, <1>4, <1>5 DEF BatchWord
<1>12. \A d \in Requests : Holds(d, b)' => d = c
  BY <1>2, <1>6 DEF Holds
<1>13. \A d \in Requests, x \in Batches \ {b} : Holds(d, x)' => Holds(d, x)
  BY <1>2 DEF Holds
<1>14. /\ batch'[b].entity \in {"loans", "payments"}
       /\ batch'[b].entity = "payments" => CleanFile(batch'[b].rows, loan')
  BY <1>0, <1>4 DEF ImportsInv, BatchesClean
<1>15. /\ batch' \in [Batches -> BatchRows'] /\ overtaken' \in SUBSET Batches
       /\ \A x \in Batches : (batch[x].status = "validated" => batch[x].entity \in {"loans", "payments"})'
       /\ \A x \in Batches : (batch[x].entity = "payments" => CleanFile(batch[x].rows, loan))'
       /\ ClaimsHold' /\ BatchKeepsItsWord'
  BY <1>0, <1>4, <1>7, <1>11, <1>12, <1>13, <1>14, BatchMoved
<1>16. loan' \in BOOLEAN /\ faults' \in 0..MaxFaults
  BY <1>0 DEF ImportsInv, ImportsTyped
<1> QED
  BY <1>0, <1>7, <1>8, <1>10, <1>15, <1>16, ImportsTogether

(* A confirmation that ends with its batch in a status of its own.          *)
LEMMA BatchEnded ==
    ASSUME ImportsInv, NEW c \in Requests, work[c].op \in {"claimed", "apply"}, Give(c),
           NEW b \in Batches, b = work[c].batch, loan => loan', ReceiptsGrow,
           batch' \in [Batches -> BatchRows], \A x \in Batches \ {b} : batch'[x] = batch[x],
           batch'[b].entity = batch[b].entity, batch'[b].rows = batch[b].rows,
           \A r \in receipts' : r.by \in Batches \ {b} => r \in receipts,
           overtaken' = overtaken, b \notin overtaken => BatchWord(b)'
    PROVE  /\ batch' \in [Batches -> BatchRows'] /\ overtaken' \in SUBSET Batches
           /\ \A x \in Batches : (batch[x].status = "validated" => batch[x].entity \in {"loans", "payments"})'
           /\ \A x \in Batches : (batch[x].entity = "payments" => CleanFile(batch[x].rows, loan))'
           /\ ClaimsHold' /\ BatchKeepsItsWord'
<1>1. /\ batch[b].entity \in {"loans", "payments"}
      /\ \A d \in Requests : Holds(d, b) => d = c
  BY Held
<1>2. /\ work'[c] = Idle
      /\ \A d \in Requests, x \in Batches : Holds(d, x)' => Holds(d, x)
  BY Given
<1>3. \A d \in Requests : ~ Holds(d, b)'
  BY <1>1, <1>2 DEF Holds, Idle
<1>4. batch'[b].entity = "payments" => CleanFile(batch'[b].rows, loan')
  BY DEF ImportsInv, BatchesClean, CleanFile
<1> QED
  BY <1>1, <1>2, <1>3, <1>4, BatchMoved

(* The batch is read again.                                                 *)
LEMMA LoadKeeps == ASSUME ImportsInv, NEW c \in Confirms, Load(c) PROVE ImportsInv'
<1>b. PICK b \in Batches : b = work[c].batch
  BY Held DEF Load, Requests
<1> DEFINE v == [op |-> "apply", batch |-> b, rows |-> batch[b].rows, loan |-> loan,
                 refs |-> RefsOf(receipts)]
<1>0. /\ file' = file /\ loan' = loan /\ receipts' = receipts /\ ledger' = ledger
      /\ overtaken' = overtaken /\ faults' = faults
      /\ c \in Requests /\ work[c].op = "claimed"
  BY DEF Load, Requests
<1>1. /\ b \in Batches /\ Holds(c, b) /\ batch[b] \in BatchRows
      /\ batch[b].status \in {"confirmed", "cancelled"}
      /\ \A r \in receipts : r.by = b => b \in overtaken
      /\ batch \in [Batches -> BatchRows]
  BY <1>b, <1>0, Held DEF ImportsInv, ImportsTyped
<1>2. ReceiptsGrow /\ ReceiptsNamed' /\ ReceiptsApart' /\ receipts' \in SUBSET ReceiptRows'
  BY <1>0, ReceiptsSame
<1>3. ledger' \in Seq(LedgerRows) /\ SoundLedger(ledger') /\ Continues(ledger', ledger)
  BY <1>0, LedgerSame
<1>4. loan' \in BOOLEAN /\ faults' \in 0..MaxFaults
  BY <1>0 DEF ImportsInv, ImportsTyped
<1>5. CASE batch[b].rows = {}
  <2>1. batch' = [batch EXCEPT ![b].status = "failed"] /\ Give(c)
    BY <1>5, <1>b DEF Load
  <2>2. /\ batch' \in [Batches -> BatchRows] /\ \A x \in Batches \ {b} : batch'[x] = batch[x]
        /\ batch'[b].status = "failed" /\ batch'[b].entity = batch[b].entity
        /\ batch'[b].rows = batch[b].rows
    <3> DEFINE new == [batch[b] EXCEPT !.status = "failed"]
    <3>1. new \in BatchRows /\ new.status = "failed" /\ new.entity = batch[b].entity
             /\ new.rows = batch[b].rows
      BY <1>1 DEF BatchRows
    <3>2. batch' = [batch EXCEPT ![b] = new]
      BY <2>1
    <3> HIDE DEF new
    <3> QED
      BY <1>1, <3>1, <3>2
  <2>3. b \notin overtaken => BatchWord(b)'
    BY <1>0, <1>1, <2>2 DEF BatchWord
  <2>4. /\ batch' \in [Batches -> BatchRows'] /\ overtaken' \in SUBSET Batches
        /\ \A x \in Batches : (batch[x].status = "validated" => batch[x].entity \in {"loans", "payments"})'
        /\ \A x \in Batches : (batch[x].entity = "payments" => CleanFile(batch[x].rows, loan))'
        /\ ClaimsHold' /\ BatchKeepsItsWord'
    BY <1>0, <1>1, <1>2, <2>1, <2>2, <2>3, <1>b, BatchEnded
  <2>5. /\ work' \in [Requests -> Work'] /\ RefsRead'
        /\ \A d \in Requests : (work[d].op = "import" => Continues(ledger, work[d].ledger))'
        /\ \A d \in Requests : (work[d].op = "apply" /\ batch[work[d].batch].entity = "payments" =>
                                     CleanFile(work[d].rows, work[d].loan) /\ work[d].loan)'
    <3>1. \A x \in Batches : batch'[x].entity = batch[x].entity
      BY <2>2
    <3> QED
      BY <1>0, <1>2, <1>3, <2>1, <3>1, Given, RequestsKept
  <2> QED
    BY <1>0, <1>2, <1>3, <1>4, <2>4, <2>5, ImportsTogether
<1>6. CASE batch[b].rows # {}
  <2>1. work' = [work EXCEPT ![c] = v] /\ batch' = batch
    BY <1>6, <1>b DEF Load
  <2>2. v \in Work
    <3>1. RefsOf(receipts) \in SUBSET Refs /\ loan \in BOOLEAN /\ batch[b].rows \in SUBSET Rows
      BY <1>1 DEF RefsOf, ImportsInv, ImportsTyped, ReceiptRows, BatchRows
    <3>2. v \in Applying
      BY <1>1, <3>1 DEF Applying
    <3> QED
      BY <3>2 DEF Work
  <2>3. Fresh(v)
    <3>1. batch[b].entity = "payments" => CleanFile(batch[b].rows, loan) /\ loan
      BY <1>1, <1>6 DEF ImportsInv, BatchesClean, CleanFile
    <3>2. \A r \in receipts : r.ref \in RefsOf(receipts)
      BY DEF RefsOf
    <3> QED
      BY <1>1, <3>1, <3>2 DEF Fresh
  <2> HIDE DEF v
  <2>4. /\ work' \in [Requests -> Work] /\ work'[c] = v
        /\ \A d \in Requests : d # c => work'[d] = work[d]
        /\ \A d \in Requests : work'[d] = work[d] \/ Fresh(work'[d])
    BY <1>0, <2>1, <2>2, <2>3, RequestMoved
  <2>5. \A d \in Requests, x \in Batches : Holds(d, x)' => Holds(d, x)
    <3>1. v.batch = b
      BY DEF v
    <3> QED
      BY <1>b, <1>1, <2>4, <3>1 DEF Holds
  <2>6. /\ batch' \in [Batches -> BatchRows'] /\ overtaken' \in SUBSET Batches
        /\ \A x \in Batches : (batch[x].status = "validated" => batch[x].entity \in {"loans", "payments"})'
        /\ \A x \in Batches : (batch[x].entity = "payments" => CleanFile(batch[x].rows, loan))'
        /\ ClaimsHold' /\ BatchKeepsItsWord'
    BY <1>0, <1>2, <2>1, <2>5, BatchesQuiet
  <2>7. /\ work' \in [Requests -> Work'] /\ RefsRead'
        /\ \A d \in Requests : (work[d].op = "import" => Continues(ledger, work[d].ledger))'
        /\ \A d \in Requests : (work[d].op = "apply" /\ batch[work[d].batch].entity = "payments" =>
                                     CleanFile(work[d].rows, work[d].loan) /\ work[d].loan)'
    BY <1>2, <1>3, <2>1, <2>4, RequestsKept
  <2> QED
    BY <1>0, <1>2, <1>3, <1>4, <2>6, <2>7, ImportsTogether
<1> QED
  BY <1>5, <1>6

(* The pass over a batch.                                                   *)
LEMMA ApplyKeeps ==
    ASSUME FilesAssumption, ImportsInv, NEW c \in Confirms, ApplyBatch(c) PROVE ImportsInv'
<1>b. PICK b \in Batches : b = work[c].batch
  BY Held DEF ApplyBatch, Requests
<1> DEFINE w == work[c]
           pays == batch[b].entity = "payments" /\ w.loan
           N == {[ref |-> CsvRef(i), src |-> i, by |-> b] : i \in Inserted(w)}
           new == [batch[b] EXCEPT !.status = "applied", !.report = Skipped(w) \cup Inserted(w)]
<1>0. /\ file' = file /\ ledger' = ledger /\ overtaken' = overtaken /\ faults' = faults
      /\ c \in Requests /\ w.op = "apply" /\ Give(c) /\ (loan' = loan \/ loan' = TRUE)
      /\ batch' = [batch EXCEPT ![b].status = "applied", ![b].report = Skipped(w) \cup Inserted(w)]
  BY <1>b DEF ApplyBatch, Requests
<1>1. /\ Holds(c, b) /\ batch[b] \in BatchRows /\ batch[b].entity \in {"loans", "payments"}
      /\ \A r \in receipts : r.by = b => b \in overtaken
      /\ batch \in [Batches -> BatchRows] /\ w \in Applying
  BY <1>b, <1>0, Held DEF ImportsInv, ImportsTyped
<1>2. w.rows \in SUBSET Rows /\ Skipped(w) \subseteq w.rows /\ Inserted(w) \subseteq w.rows
  BY <1>1 DEF Applying, Skipped, Inserted
<1>3. batch[b].entity = "payments" => CleanFile(w.rows, w.loan) /\ w.loan
  BY <1>b, <1>0 DEF ImportsInv, BatchesClean
<1>4. receipts' = IF batch[b].entity = "payments" THEN receipts \cup N ELSE receipts
  BY <1>b, <1>1, <1>3 DEF ApplyBatch
<1>5. batch[b].entity = "payments" => Newcomers(N)
  <2> SUFFICES ASSUME batch[b].entity = "payments" PROVE Newcomers(N)
    OBVIOUS
  <2>1. w.rows \subseteq Cash /\ \A i, j \in w.rows : CsvRef(i) = CsvRef(j) => i = j
    BY <1>3 DEF CleanFile
  <2>2. \A r \in N : /\ r.src \in Inserted(w) /\ r.by = b /\ r.ref = CsvRef(r.src)
                     /\ r = [ref |-> r.ref, src |-> r.src, by |-> r.by]
    OBVIOUS
  <2>3. b # "before"
    BY DEF FilesAssumption
  <2>4. \A i \in Inserted(w) : i \in Cash /\ i \in Rows /\ CsvRef(i) \in Refs
    BY <1>2, <2>1 DEF Refs
  <2>5. N \in SUBSET ReceiptRows
    <3> HIDE DEF N
    <3> QED
      BY <2>2, <2>4 DEF ReceiptRows
  <2>6. \A r, s \in N : r.ref = s.ref => r = s
    <3> HIDE DEF N
    <3> QED
      BY <1>2, <2>1, <2>2
  <2>7. ASSUME NEW r \in N, NEW s \in receipts, s.by = "before" PROVE r.ref # <<"id", file[s.src].id>>
    <3>1. s.ref = <<"old", file[s.src].id>>
      BY <2>7 DEF ImportsInv, ReceiptsNamed
    <3>2. s.ref \in w.refs
      BY <1>0, <2>7 DEF ImportsInv, RefsRead
    <3>3. Variants(r.ref) \cap w.refs = {}
      BY <2>2 DEF Inserted, Skipped
    <3>4. r.ref = <<"id", file[s.src].id>> => <<"old", file[s.src].id>> \in Variants(r.ref)
      BY DEF Variants
    <3> QED
      BY <3>1, <3>2, <3>3, <3>4
  <2>8. \A r \in N : r.ref \notin RefsOf(receipts)
    BY <2>2 DEF Inserted
  <2> HIDE DEF N
  <2> QED
    BY <2>2, <2>3, <2>5, <2>6, <2>7, <2>8 DEF Newcomers
<1> HIDE DEF N
<1>6. ReceiptsGrow /\ ReceiptsNamed' /\ ReceiptsApart' /\ receipts' \in SUBSET ReceiptRows'
  BY <1>0, <1>4, <1>5, ReceiptsKept, ReceiptsSame
<1>7. ledger' \in Seq(LedgerRows) /\ SoundLedger(ledger') /\ Continues(ledger', ledger)
  BY <1>0, LedgerSame
<1>8. loan' \in BOOLEAN /\ faults' \in 0..MaxFaults /\ (loan => loan')
  <2>1. loan \in BOOLEAN /\ faults' \in 0..MaxFaults
    BY <1>0 DEF ImportsInv, ImportsTyped
  <2>2. CASE loan' = loan
    BY <2>1, <2>2
  <2>3. CASE loan' = TRUE
    BY <2>1, <2>3
  <2> QED
    BY <1>0, <2>2, <2>3
<1>9. /\ new \in BatchRows /\ new.status = "applied" /\ new.entity = batch[b].entity
      /\ new.rows = batch[b].rows /\ new.report = Skipped(w) \cup Inserted(w)
      /\ batch' = [batch EXCEPT ![b] = new]
  <2>1. Skipped(w) \cup Inserted(w) \in SUBSET Rows
    BY <1>2
  <2> QED
    BY <1>0, <1>1, <2>1 DEF BatchRows
<1> HIDE DEF new
<1>10. batch' \in [Batches -> BatchRows] /\ (\A x \in Batches \ {b} : batch'[x] = batch[x]) /\ batch'[b] = new
  BY <1>1, <1>9
<1>11. ASSUME NEW i \in new.report, batch[b].entity = "payments"
       PROVE  Variants(CsvRef(i)) \cap RefsOf(receipts)' # {}
  <2>1. CASE i \in Skipped(w)
    <3>1. Variants(CsvRef(i)) \cap w.refs # {}
      BY <2>1 DEF Skipped
    <3>2. w.refs \subseteq RefsOf(receipts)
      BY <1>0 DEF ImportsInv, RefsRead
    <3> QED
      BY <1>6, <3>1, <3>2 DEF ReceiptsGrow
  <2>2. CASE i \in Inserted(w)
    <3>1. [ref |-> CsvRef(i), src |-> i, by |-> b] \in receipts'
      BY <1>4, <1>11, <2>2 DEF N
    <3>2. CsvRef(i) \in {r.ref : r \in receipts'}
      BY <3>1
    <3>3. CsvRef(i) \in RefsOf(receipts)'
      BY <3>2 DEF RefsOf
    <3>4. CsvRef(i) \in Variants(CsvRef(i))
      BY DEF Variants
    <3> QED
      BY <3>3, <3>4
  <2> QED
    BY <1>9, <1>11, <2>1, <2>2
<1>12. BatchWord(b)'
  BY <1>0, <1>9, <1>10, <1>11, FileStays DEF BatchWord
<1>13. \A r \in receipts' : r.by \in Batches \ {b} => r \in receipts
  BY <1>4 DEF N
<1>14. /\ batch' \in [Batches -> BatchRows'] /\ overtaken' \in SUBSET Batches
       /\ \A x \in Batches : (batch[x].status = "validated" => batch[x].entity \in {"loans", "payments"})'
       /\ \A x \in Batches : (batch[x].entity = "payments" => CleanFile(batch[x].rows, loan))'
       /\ ClaimsHold' /\ BatchKeepsItsWord'
  BY <1>b, <1>0, <1>6, <1>8, <1>9, <1>10, <1>12, <1>13, BatchEnded
<1>15. /\ work' \in [Requests -> Work'] /\ RefsRead'
       /\ \A d \in Requests : (work[d].op = "import" => Continues(ledger, work[d].ledger))'
       /\ \A d \in Requests : (work[d].op = "apply" /\ batch[work[d].batch].entity = "payments" =>
                                    CleanFile(work[d].rows, work[d].loan) /\ work[d].loan)'
  <2>1. \A x \in Batches : batch'[x].entity = batch[x].entity
    BY <1>9, <1>10
  <2> QED
    BY <1>0, <1>6, <1>7, <2>1, Given, RequestsKept
<1> QED
  BY <1>0, <1>6, <1>7, <1>8, <1>14, <1>15, ImportsTogether

(* An exception in the pass.                                                *)
LEMMA FailKeeps ==
    ASSUME FilesAssumption, ImportsInv, NEW c \in Confirms, FailBatch(c) PROVE ImportsInv'
<1>b. PICK b \in Batches : b = work[c].batch
  BY Held DEF FailBatch, Requests
<1> DEFINE new == [batch[b] EXCEPT !.status = "failed"]
<1>0. /\ file' = file /\ ledger' = ledger /\ overtaken' = overtaken
      /\ loan' = loan /\ receipts' = receipts
      /\ c \in Requests /\ work[c].op = "apply" /\ Give(c)
      /\ batch' = [batch EXCEPT ![b].status = "failed"]
  BY <1>b DEF FailBatch, Requests, Undone
<1>1. /\ batch[b] \in BatchRows /\ batch \in [Batches -> BatchRows]
      /\ \A r \in receipts : r.by = b => b \in overtaken
  BY <1>b, <1>0, Held DEF ImportsInv, ImportsTyped
<1>2. ReceiptsGrow /\ ReceiptsNamed' /\ ReceiptsApart' /\ receipts' \in SUBSET ReceiptRows'
  BY <1>0, ReceiptsSame
<1>3. ledger' \in Seq(LedgerRows) /\ SoundLedger(ledger') /\ Continues(ledger', ledger)
  BY <1>0, LedgerSame
<1>4. loan' \in BOOLEAN /\ faults' \in 0..MaxFaults
  BY <1>0 DEF ImportsInv, ImportsTyped, FailBatch, FilesAssumption
<1>5. /\ new \in BatchRows /\ new.status = "failed" /\ new.entity = batch[b].entity
      /\ new.rows = batch[b].rows /\ batch' = [batch EXCEPT ![b] = new]
  BY <1>0, <1>1 DEF BatchRows
<1> HIDE DEF new
<1>6. batch' \in [Batches -> BatchRows] /\ (\A x \in Batches \ {b} : batch'[x] = batch[x]) /\ batch'[b] = new
  BY <1>1, <1>5
<1>7. b \notin overtaken => BatchWord(b)'
  BY <1>0, <1>1, <1>5, <1>6 DEF BatchWord
<1>8. /\ batch' \in [Batches -> BatchRows'] /\ overtaken' \in SUBSET Batches
      /\ \A x \in Batches : (batch[x].status = "validated" => batch[x].entity \in {"loans", "payments"})'
      /\ \A x \in Batches : (batch[x].entity = "payments" => CleanFile(batch[x].rows, loan))'
      /\ ClaimsHold' /\ BatchKeepsItsWord'
  BY <1>b, <1>0, <1>2, <1>5, <1>6, <1>7, BatchEnded
<1>9. /\ work' \in [Requests -> Work'] /\ RefsRead'
      /\ \A d \in Requests : (work[d].op = "import" => Continues(ledger, work[d].ledger))'
      /\ \A d \in Requests : (work[d].op = "apply" /\ batch[work[d].batch].entity = "payments" =>
                                    CleanFile(work[d].rows, work[d].loan) /\ work[d].loan)'
  <2>1. \A x \in Batches : batch'[x].entity = batch[x].entity
    BY <1>5, <1>6
  <2> QED
    BY <1>0, <1>2, <1>3, <2>1, Given, RequestsKept
<1> QED
  BY <1>0, <1>2, <1>3, <1>4, <1>8, <1>9, ImportsTogether

(* A request that touches neither the tables nor the batches.               *)
LEMMA QuietKeeps ==
    ASSUME ImportsInv, UNCHANGED <<file, loan, receipts, ledger, batch, overtaken>>,
           faults' \in 0..MaxFaults, work' \in [Requests -> Work],
           \A d \in Requests : work'[d] = work[d] \/ Fresh(work'[d]),
           \A d \in Requests, x \in Batches : Holds(d, x)' => Holds(d, x)
    PROVE  ImportsInv'
<1>1. ReceiptsGrow /\ ReceiptsNamed' /\ ReceiptsApart' /\ receipts' \in SUBSET ReceiptRows'
  BY ReceiptsSame
<1>2. ledger' \in Seq(LedgerRows) /\ SoundLedger(ledger') /\ Continues(ledger', ledger)
  BY LedgerSame
<1>3. loan' \in BOOLEAN
  BY DEF ImportsInv, ImportsTyped
<1>4. /\ batch' \in [Batches -> BatchRows'] /\ overtaken' \in SUBSET Batches
      /\ \A x \in Batches : (batch[x].status = "validated" => batch[x].entity \in {"loans", "payments"})'
      /\ \A x \in Batches : (batch[x].entity = "payments" => CleanFile(batch[x].rows, loan))'
      /\ ClaimsHold' /\ BatchKeepsItsWord'
  BY <1>1, BatchesQuiet
<1>5. /\ work' \in [Requests -> Work'] /\ RefsRead'
      /\ \A d \in Requests : (work[d].op = "import" => Continues(ledger, work[d].ledger))'
      /\ \A d \in Requests : (work[d].op = "apply" /\ batch[work[d].batch].entity = "payments" =>
                                    CleanFile(work[d].rows, work[d].loan) /\ work[d].loan)'
  BY <1>1, <1>2, RequestsKept
<1> QED
  BY <1>1, <1>2, <1>3, <1>4, <1>5, ImportsTogether

(* A cancellation.                                                          *)
LEMMA CancelReadKeeps ==
    ASSUME ImportsInv, NEW k \in Cancels, NEW b \in Batches, CancelRead(k, b) PROVE ImportsInv'
<1> DEFINE v == [op |-> "cancel", batch |-> b, status |-> batch[b].status]
<1>1. k \in Requests /\ work' = [work EXCEPT ![k] = v] /\ batch[b].status \in {"validated", "failed"}
  BY DEF CancelRead, Requests
<1>2. v \in Work /\ Fresh(v) /\ v.op \notin {"claimed", "apply"}
  BY <1>1 DEF Work, Closing, Fresh
<1> HIDE DEF v
<1>3. /\ work' \in [Requests -> Work]
      /\ \A d \in Requests : work'[d] = work[d] \/ Fresh(work'[d])
      /\ \A d \in Requests, x \in Batches : Holds(d, x)' => Holds(d, x)
  BY <1>1, <1>2, RequestMoved
<1>4. UNCHANGED <<file, loan, receipts, ledger, batch, overtaken>> /\ faults' \in 0..MaxFaults
  BY DEF CancelRead, ImportsInv, ImportsTyped
<1> QED
  BY <1>3, <1>4, QuietKeeps

LEMMA CancelWriteKeeps == ASSUME ImportsInv, NEW k \in Cancels, CancelWrite(k) PROVE ImportsInv'
<1>0. /\ file' = file /\ ledger' = ledger /\ loan' = loan /\ receipts' = receipts /\ faults' = faults
      /\ k \in Requests /\ work[k].op = "cancel" /\ Give(k)
  BY DEF CancelWrite, Requests
<1>1. work[k] \in Closing
  BY <1>0 DEF ImportsInv, ImportsTyped, Idle, Claiming, Applying, Closing, Copying
<1>b. PICK b \in Batches : b = work[k].batch
  BY <1>1 DEF Closing
<1> DEFINE new == [batch[b] EXCEPT !.status = "cancelled", !.rows = {}]
<1>2. /\ batch' = [batch EXCEPT ![b].status = "cancelled", ![b].rows = {}]
      /\ overtaken' = IF batch[b].status = work[k].status THEN overtaken ELSE overtaken \cup {b}
      /\ work[k].status \in {"validated", "failed"}
  BY <1>b, <1>1 DEF CancelWrite, Closing
<1>3. batch[b] \in BatchRows /\ batch \in [Batches -> BatchRows]
  BY DEF ImportsInv, ImportsTyped
<1>4. /\ new \in BatchRows /\ new.status = "cancelled" /\ new.entity = batch[b].entity
      /\ new.rows = {} /\ batch' = [batch EXCEPT ![b] = new]
  BY <1>2, <1>3 DEF BatchRows
<1> HIDE DEF new
<1>5. batch' \in [Batches -> BatchRows] /\ (\A x \in Batches \ {b} : batch'[x] = batch[x]) /\ batch'[b] = new
  BY <1>3, <1>4
<1>6. b \notin overtaken' => batch[b].status \in {"validated", "failed"} /\ b \notin overtaken
  BY <1>2
<1>7. ReceiptsGrow /\ ReceiptsNamed' /\ ReceiptsApart' /\ receipts' \in SUBSET ReceiptRows'
  BY <1>0, ReceiptsSame
<1>8. ledger' \in Seq(LedgerRows) /\ SoundLedger(ledger') /\ Continues(ledger', ledger)
  BY <1>0, LedgerSame
<1>9. loan' \in BOOLEAN /\ faults' \in 0..MaxFaults
  BY <1>0 DEF ImportsInv, ImportsTyped
<1>11. b \notin overtaken' => BatchWord(b)'
  <2>1. b \notin overtaken' => \A r \in receipts : r.by # b
    BY <1>6 DEF ImportsInv, BatchKeepsItsWord
  <2> QED
    BY <1>0, <1>4, <1>5, <2>1 DEF BatchWord
<1>12. \A d \in Requests, x \in Batches : Holds(d, x)' => Holds(d, x)
  BY <1>0, Given
<1>13. \A d \in Requests : Holds(d, b)' =>
           /\ batch'[b].entity \in {"loans", "payments"}
           /\ batch'[b].status \in {"confirmed", "cancelled"}
           /\ b \notin overtaken' => batch'[b].status = "confirmed"
           /\ \A e \in Requests : Holds(e, b)' => e = d
  <2> SUFFICES ASSUME NEW d \in Requests, Holds(d, b)'
               PROVE  /\ b \in overtaken' /\ batch[b].entity \in {"loans", "payments"}
                      /\ \A e \in Requests : Holds(e, b)' => e = d
    BY <1>4, <1>5
  <2>1. /\ batch[b].status \in {"confirmed", "cancelled"} /\ batch[b].entity \in {"loans", "payments"}
        /\ \A e \in Requests : Holds(e, b) => e = d
    BY <1>12 DEF ImportsInv, ClaimsHold
  <2> QED
    BY <1>6, <1>12, <2>1
<1>14. /\ batch' \in [Batches -> BatchRows'] /\ overtaken' \in SUBSET Batches
       /\ \A x \in Batches : (batch[x].status = "validated" => batch[x].entity \in {"loans", "payments"})'
       /\ \A x \in Batches : (batch[x].entity = "payments" => CleanFile(batch[x].rows, loan))'
       /\ ClaimsHold' /\ BatchKeepsItsWord'
  <2>1. CleanFile({}, loan')
    BY DEF CleanFile
  <2>2. overtaken' \in {overtaken, overtaken \cup {b}}
    BY <1>2
  <2> QED
    BY <1>0, <1>4, <1>5, <1>7, <1>11, <1>12, <1>13, <2>1, <2>2, BatchMoved
<1>15. /\ work' \in [Requests -> Work'] /\ RefsRead'
       /\ \A d \in Requests : (work[d].op = "import" => Continues(ledger, work[d].ledger))'
       /\ \A d \in Requests : (work[d].op = "apply" /\ batch[work[d].batch].entity = "payments" =>
                                    CleanFile(work[d].rows, work[d].loan) /\ work[d].loan)'
  <2>1. \A x \in Batches : batch'[x].entity = batch[x].entity
    BY <1>4, <1>5
  <2> QED
    BY <1>0, <1>7, <1>8, <2>1, Given, RequestsKept
<1> QED
  BY <1>0, <1>7, <1>8, <1>9, <1>14, <1>15, ImportsTogether

(* A workbook import.                                                       *)
LEMMA ImportLoadKeeps == ASSUME ImportsInv, NEW m \in Imports, ImportLoad(m) PROVE ImportsInv'
<1> DEFINE v == [op |-> "import", loan |-> loan, refs |-> RefsOf(receipts), ledger |-> ledger]
<1>1. m \in Requests /\ work' = [work EXCEPT ![m] = v]
  BY DEF ImportLoad, Requests
<1>2. RefsOf(receipts) \in SUBSET Refs /\ ledger \in Seq(LedgerRows) /\ loan \in BOOLEAN
  BY DEF RefsOf, ImportsInv, ImportsTyped, ReceiptRows
<1>3. v \in Work /\ Fresh(v) /\ v.op \notin {"claimed", "apply"}
  <2>1. v \in Copying
    BY <1>2 DEF Copying
  <2>2. Continues(ledger, ledger)
    BY <1>2 DEF Continues
  <2>3. \A r \in receipts : r.ref \in RefsOf(receipts)
    BY DEF RefsOf
  <2> QED
    BY <2>1, <2>2, <2>3 DEF Work, Fresh
<1> HIDE DEF v
<1>4. /\ work' \in [Requests -> Work]
      /\ \A d \in Requests : work'[d] = work[d] \/ Fresh(work'[d])
      /\ \A d \in Requests, x \in Batches : Holds(d, x)' => Holds(d, x)
  BY <1>1, <1>3, RequestMoved
<1>5. UNCHANGED <<file, loan, receipts, ledger, batch, overtaken>> /\ faults' \in 0..MaxFaults
  BY DEF ImportLoad, ImportsInv, ImportsTyped
<1> QED
  BY <1>4, <1>5, QuietKeeps

LEMMA ImportCommitKeeps ==
    ASSUME FilesAssumption, ImportsInv, NEW m \in Imports, ImportCommit(m) PROVE ImportsInv'
<1> DEFINE h == History(m)
           w == work[m]
<1>0. /\ file' = file /\ batch' = batch /\ overtaken' = overtaken /\ faults' = faults
      /\ m \in Requests /\ w.op = "import" /\ Give(m) /\ loan' = TRUE
      /\ ~Conflict(m, h)
      /\ ledger' = IF Len(h.ledger) > Len(w.ledger) THEN h.ledger ELSE ledger
      /\ receipts' = receipts \cup h.new
  BY DEF ImportCommit, Requests
<1>1. /\ w \in Copying /\ ledger \in Seq(LedgerRows) /\ SoundLedger(ledger)
      /\ Continues(ledger, w.ledger)
  BY <1>0 DEF ImportsInv, ImportsTyped, LedgerKept, Idle, Claiming, Applying, Closing, Copying
<1>2. PassHolds(m, Len(file), h) \/ h = [ledger |-> w.ledger, refs |-> w.refs, new |-> {}]
  BY <1>0, HistoryHolds
<1> HIDE DEF h
<1>3. Newcomers(h.new)
  <2>1. CASE h.new = {}
    BY <2>1 DEF Newcomers
  <2>2. CASE PassHolds(m, Len(file), h)
    <3>1. m # "before"
      BY DEF FilesAssumption
    <3>2. \A r \in h.new : r.ref \notin RefsOf(receipts)
      BY <1>0 DEF Conflict
    <3>3. ASSUME NEW r \in h.new, NEW s \in receipts, s.by = "before"
          PROVE  r.ref # <<"id", file[s.src].id>>
      <4>1. s.ref = <<"old", file[s.src].id>>
        BY <3>3 DEF ImportsInv, ReceiptsNamed
      <4>2. s.ref \in w.refs
        BY <1>0, <3>3 DEF ImportsInv, RefsRead
      <4>3. Variants(r.ref) \cap w.refs = {}
        BY <2>2 DEF PassHolds
      <4>4. r.ref = <<"id", file[s.src].id>> => <<"old", file[s.src].id>> \in Variants(r.ref)
        BY DEF Variants
      <4> QED
        BY <4>1, <4>2, <4>3, <4>4
    <3> QED
      BY <2>2, <3>1, <3>2, <3>3 DEF PassHolds, Newcomers
  <2> QED
    BY <1>2, <2>1, <2>2
<1>4. ReceiptsGrow /\ ReceiptsNamed' /\ ReceiptsApart' /\ receipts' \in SUBSET ReceiptRows'
  BY <1>0, <1>3, ReceiptsKept
<1>5. ledger' \in Seq(LedgerRows) /\ SoundLedger(ledger') /\ Continues(ledger', ledger)
  <2>1. CASE ledger' = ledger
    BY <2>1, LedgerSame
  <2>2. CASE Len(h.ledger) > Len(w.ledger) /\ ledger' = h.ledger
    <3>1. PassHolds(m, Len(file), h)
      <4>1. w.ledger \in Seq(LedgerRows)
        BY <1>1 DEF Copying
      <4>2. ~ Len(w.ledger) > Len(w.ledger)
        BY <4>1
      <4> QED
        BY <1>2, <2>2, <4>2
    <3>2. Len(ledger) = Len(w.ledger)
      <4>1. w.ledger \in Seq(LedgerRows) /\ Len(w.ledger) \in Nat /\ Len(ledger) \in Nat
        BY <1>1 DEF Copying
      <4>2. ~ Len(ledger) > Len(w.ledger)
        BY <1>0, <2>2 DEF Conflict
      <4>3. Len(w.ledger) <= Len(ledger)
        BY <1>1 DEF Continues
      <4> QED
        BY <4>1, <4>2, <4>3
    <3>3. h.ledger \in Seq(LedgerRows) /\ SoundLedger(h.ledger) /\ Continues(h.ledger, w.ledger)
      BY <3>1 DEF PassHolds
    <3>4. Continues(h.ledger, ledger)
      BY <1>1, <3>2, <3>3 DEF Continues
    <3> QED
      BY <2>2, <3>3, <3>4
  <2> QED
    BY <1>0, <2>1, <2>2
<1>6. loan' \in BOOLEAN /\ faults' \in 0..MaxFaults
  BY <1>0 DEF ImportsInv, ImportsTyped
<1>7. \A r \in receipts' : r.by \in Batches => r \in receipts
  <2>1. \A r \in h.new : r.by = m
    BY <1>2 DEF PassHolds
  <2>2. m \notin Batches
    BY DEF FilesAssumption
  <2> QED
    BY <1>0, <2>1, <2>2
<1>8. /\ work' \in [Requests -> Work]
      /\ \A d \in Requests : work'[d] = work[d] \/ Fresh(work'[d])
      /\ \A d \in Requests, x \in Batches : Holds(d, x)' => Holds(d, x)
  BY <1>0, Given
<1>9. /\ batch' \in [Batches -> BatchRows'] /\ overtaken' \in SUBSET Batches
      /\ \A x \in Batches : (batch[x].status = "validated" => batch[x].entity \in {"loans", "payments"})'
      /\ \A x \in Batches : (batch[x].entity = "payments" => CleanFile(batch[x].rows, loan))'
      /\ ClaimsHold' /\ BatchKeepsItsWord'
  BY <1>0, <1>4, <1>7, <1>8, BatchesQuiet
<1>10. /\ work' \in [Requests -> Work'] /\ RefsRead'
       /\ \A d \in Requests : (work[d].op = "import" => Continues(ledger, work[d].ledger))'
       /\ \A d \in Requests : (work[d].op = "apply" /\ batch[work[d].batch].entity = "payments" =>
                                    CleanFile(work[d].rows, work[d].loan) /\ work[d].loan)'
  BY <1>0, <1>4, <1>5, <1>8, RequestsKept
<1> QED
  BY <1>0, <1>4, <1>5, <1>6, <1>9, <1>10, ImportsTogether

(* A request that is rolled back or dies.                                   *)
LEMMA EndKeeps ==
    ASSUME ImportsInv, NEW c \in Requests, Give(c), faults' \in 0..MaxFaults,
           UNCHANGED <<file, loan, receipts, ledger, batch, overtaken>>
    PROVE  ImportsInv'
BY Given, QuietKeeps

(* A payment of the borrower's own.                                         *)
LEMMA LivePaymentKeeps == ASSUME FilesAssumption, ImportsInv, LivePayment PROVE ImportsInv'
<1>0. UNCHANGED <<file, loan, receipts, batch, overtaken, work, faults>>
  BY DEF LivePayment
<1>1. PICK cents \in {file[i].cents : i \in Rows} :
        ledger' = Append(ledger, [src |-> 0, by |-> None, cents |-> cents,
                                  reverses |-> 0, type |-> "payment"])
  BY DEF LivePayment
<1> DEFINE row == [src |-> 0, by |-> None, cents |-> cents, reverses |-> 0, type |-> "payment"]
           n == Len(ledger)
<1>2. ledger \in Seq(LedgerRows) /\ n \in Nat /\ SoundLedger(ledger)
  BY DEF ImportsInv, ImportsTyped, LedgerKept
<1>3. cents \in Nat
  <2>1. PICK i \in Rows : cents = file[i].cents
    OBVIOUS
  <2>2. file[i] \in SourceRows
    BY DEF ImportsInv, ImportsTyped, Rows
  <2> QED
    BY <2>1, <2>2 DEF SourceRows
<1>4. row \in LedgerRows
  <2>1. Len(file) \in Nat
    BY DEF ImportsInv, ImportsTyped
  <2> QED
    BY <1>3, <2>1 DEF LedgerRows
<1>5. /\ row.src = 0 /\ row.by = None /\ row.reverses = 0 /\ row.type = "payment"
      /\ ledger' = Append(ledger, row)
  BY <1>1
<1> HIDE DEF row
<1>6. /\ ledger' \in Seq(LedgerRows) /\ Len(ledger') = n + 1 /\ ledger'[n + 1] = row
      /\ \A k \in 1..n : ledger'[k] = ledger[k]
      /\ \A k \in 1..Len(ledger') : k \in 1..n \/ k = n + 1
  BY <1>2, <1>4, <1>5
<1>7. \A k \in 1..n : ledger[k].src # 0
  BY DEF LivePayment
<1>8. RowsTold(ledger')
  BY <1>2, <1>5, <1>6 DEF SoundLedger, RowsTold
<1>9. RowsApart(ledger')
  <2> SUFFICES ASSUME NEW j \in 1..Len(ledger'), NEW k \in 1..Len(ledger'), j # k
               PROVE  /\ ledger'[j].src # ledger'[k].src
                      /\ {ledger'[j].by, ledger'[k].by} \subseteq Imports => ledger'[j].by = ledger'[k].by
                      /\ ledger'[j].reverses # 0 => ledger'[j].reverses # ledger'[k].reverses
    BY DEF RowsApart
  <2>0. None \notin Imports
    BY DEF FilesAssumption
  <2>1. CASE j \in 1..n /\ k \in 1..n
    BY <1>2, <1>6, <2>1 DEF SoundLedger, RowsApart
  <2>2. CASE j = n + 1 /\ k \in 1..n
    BY <1>5, <1>6, <1>7, <2>0, <2>2
  <2>3. CASE k = n + 1 /\ j \in 1..n
    BY <1>5, <1>6, <1>7, <2>0, <2>3
  <2> QED
    BY <1>6, <2>1, <2>2, <2>3
<1>10. RowsUndo(ledger')
  <2> SUFFICES ASSUME NEW k \in 1..Len(ledger'), ledger'[k].reverses # 0
               PROVE  /\ ledger'[k].reverses \in 1..(k - 1)
                      /\ ledger'[ledger'[k].reverses].type = "payment"
                      /\ ledger'[ledger'[k].reverses].cents = ledger'[k].cents
    BY DEF RowsUndo
  <2>1. k \in 1..n /\ ledger'[k] = ledger[k]
    BY <1>5, <1>6
  <2>2. ledger[k].reverses \in 1..(k - 1) /\ ledger[ledger[k].reverses].type = "payment"
           /\ ledger[ledger[k].reverses].cents = ledger[k].cents
    BY <1>2, <2>1 DEF SoundLedger, RowsUndo
  <2>3. ledger[k].reverses \in 1..n
    BY <1>2, <2>1, <2>2
  <2> QED
    BY <1>6, <2>1, <2>2, <2>3
<1>11. SoundLedger(ledger') /\ Continues(ledger', ledger) /\ ledger' \in Seq(LedgerRows)
  BY <1>2, <1>6, <1>8, <1>9, <1>10 DEF SoundLedger, Continues
<1>12. ReceiptsGrow /\ ReceiptsNamed' /\ ReceiptsApart' /\ receipts' \in SUBSET ReceiptRows'
  BY <1>0, ReceiptsSame
<1>13. /\ work' \in [Requests -> Work] /\ (\A d \in Requests : work'[d] = work[d])
       /\ \A d \in Requests, x \in Batches : Holds(d, x)' => Holds(d, x)
  BY <1>0 DEF ImportsInv, ImportsTyped, Work, Holds
<1>14. /\ batch' \in [Batches -> BatchRows'] /\ overtaken' \in SUBSET Batches
       /\ \A x \in Batches : (batch[x].status = "validated" => batch[x].entity \in {"loans", "payments"})'
       /\ \A x \in Batches : (batch[x].entity = "payments" => CleanFile(batch[x].rows, loan))'
       /\ ClaimsHold' /\ BatchKeepsItsWord'
  BY <1>0, <1>12, <1>13, BatchesQuiet
<1>15. /\ work' \in [Requests -> Work'] /\ RefsRead'
       /\ \A d \in Requests : (work[d].op = "import" => Continues(ledger, work[d].ledger))'
       /\ \A d \in Requests : (work[d].op = "apply" /\ batch[work[d].batch].entity = "payments" =>
                                    CleanFile(work[d].rows, work[d].loan) /\ work[d].loan)'
  BY <1>0, <1>11, <1>12, <1>13, RequestsKept
<1>16. loan' \in BOOLEAN /\ faults' \in 0..MaxFaults
  BY <1>0 DEF ImportsInv, ImportsTyped
<1> QED
  BY <1>0, <1>11, <1>12, <1>14, <1>15, <1>16, ImportsTogether

(* Every step of the migration keeps the invariant.                         *)
LEMMA ImportsStepKeeps == ASSUME FilesAssumption, ImportsInv, Next PROVE ImportsInv'
<1>1. ASSUME NEW b \in Batches, Upload(b) PROVE ImportsInv'
  BY <1>1, UploadKeeps
<1>2. ASSUME NEW b \in Batches, NEW c \in Confirms, Claim(c, b) PROVE ImportsInv'
  BY <1>2, ClaimKeeps
<1>3. ASSUME NEW b \in Batches, NEW k \in Cancels, CancelRead(k, b) PROVE ImportsInv'
  BY <1>3, CancelReadKeeps
<1>4. ASSUME NEW c \in Confirms, Load(c) \/ ApplyBatch(c) \/ FailBatch(c) PROVE ImportsInv'
  BY <1>4, LoadKeeps, ApplyKeeps, FailKeeps
<1>5. ASSUME NEW k \in Cancels, CancelWrite(k) PROVE ImportsInv'
  BY <1>5, CancelWriteKeeps
<1>6. ASSUME NEW m \in Imports, ImportLoad(m) \/ ImportCommit(m) PROVE ImportsInv'
  BY <1>6, ImportLoadKeeps, ImportCommitKeeps
<1>7. ASSUME NEW m \in Imports, ImportRollback(m) PROVE ImportsInv'
  <2>1. m \in Requests /\ faults' \in 0..MaxFaults
    BY <1>7 DEF Requests, ImportRollback, ImportsInv, ImportsTyped
  <2> QED
    BY <1>7, <2>1, EndKeeps DEF ImportRollback
<1>8. ASSUME LivePayment PROVE ImportsInv'
  BY <1>8, LivePaymentKeeps
<1>9. ASSUME NEW r \in Requests, Crash(r) PROVE ImportsInv'
  <2>1. faults' \in 0..MaxFaults
    BY <1>9 DEF Crash, ImportsInv, ImportsTyped, FilesAssumption
  <2> QED
    BY <1>9, <2>1, EndKeeps DEF Crash
<1> QED
  BY <1>1, <1>2, <1>3, <1>4, <1>5, <1>6, <1>7, <1>8, <1>9 DEF Next
----------------------------------------------------------------------------
(* Profiles: the changelog of a borrower's values.                          *)

ProfileRows ==
    [field : Fields, value : Values, version : Nat \ {0}, source : {"staff", "backfill"},
     current : BOOLEAN, next : Nat]

(* The changelog rs is whole, as OneCurrentValue says of the rows, and a    *)
(* current row names no other.                                              *)
Later(rs, k) == {j \in (k + 1)..Len(rs) : rs[j].field = rs[k].field}

Whole(rs) ==
    \A k \in 1..Len(rs) :
        /\ rs[k].current <=> Later(rs, k) = {}
        /\ rs[k].current => rs[k].next = 0
        /\ ~rs[k].current => /\ rs[k].next \in Later(rs, k)
                             /\ \A j \in Later(rs, k) : rs[k].next <= j

(* What a write of the fields C at version v makes of the rows rs.          *)
Appended(rs, ws, C, v, source) ==
    /\ ws \in Seq(ProfileRows) /\ Len(rs) <= Len(ws)
    /\ \A k \in 1..Len(rs) : /\ ws[k].field = rs[k].field /\ ws[k].value = rs[k].value
                             /\ ws[k].version = rs[k].version /\ ws[k].source = rs[k].source
    /\ \A k \in 1..Len(rs) : rs[k].field \notin C \/ ~rs[k].current => ws[k] = rs[k]
    /\ \A k \in 1..Len(rs) : rs[k].field \in C /\ rs[k].current =>
           /\ ~ws[k].current /\ ws[k].next \in (Len(rs) + 1)..Len(ws)
           /\ ws[ws[k].next].field = rs[k].field
    /\ \A k \in (Len(rs) + 1)..Len(ws) :
           /\ ws[k].field \in C /\ ws[k].version = v /\ ws[k].source = source
           /\ ws[k].current /\ ws[k].next = 0
    /\ \A j, k \in (Len(rs) + 1)..Len(ws) : ws[j].field = ws[k].field => j = k

(* The order in which the changed fields are written names each once.       *)
LEMMA OrderOfFields ==
  ASSUME NEW C, IsFiniteSet(C)
  PROVE  /\ Profiles!SetToSeq(C) \in Seq(C)
         /\ \A i, j \in 1..Len(Profiles!SetToSeq(C)) :
              Profiles!SetToSeq(C)[i] = Profiles!SetToSeq(C)[j] => i = j
         /\ \A f \in C : \E i \in 1..Len(Profiles!SetToSeq(C)) : Profiles!SetToSeq(C)[i] = f
<1> DEFINE n == Cardinality(C)
           order == Profiles!SetToSeq(C)
<1>1. \A S : Profiles!Cardinality(S) = Cardinality(S)
  BY DEF Profiles!Cardinality, Cardinality, Profiles!IsFiniteSet, IsFiniteSet
<1>2. n \in Nat /\ ExistsBijection(1..n, C)
  BY FS_CardinalityType
<1>3. PICK b \in Bijection(1..n, C) : TRUE
  BY <1>2 DEF ExistsBijection
<1>4. b \in [1..n -> C] /\ \A i, j \in 1..n : b[i] = b[j] => i = j
  BY <1>3 DEF Bijection, Injection, IsInjective
<1>5. order = CHOOSE f \in [1..n -> C] : Profiles!IsInjective(f)
  BY <1>1 DEF Profiles!SetToSeq
<1>6. Profiles!IsInjective(b)
  BY <1>4 DEF Profiles!IsInjective
<1>7. order \in [1..n -> C] /\ Profiles!IsInjective(order)
  BY <1>4, <1>5, <1>6
<1> HIDE DEF order
<1>8. \A i, j \in 1..n : order[i] = order[j] => i = j
  BY <1>7 DEF Profiles!IsInjective
<1>9. order \in Injection(1..n, C)
  BY <1>7, <1>8 DEF Injection, IsInjective
<1>10. Cardinality(1..n) = n
  BY <1>2, FS_Interval
<1>11. order \in Surjection(1..n, C)
  BY <1>9, <1>10, FS_Injection
<1>12. \A f \in C : \E i \in 1..n : order[i] = f
  BY <1>11 DEF Surjection
<1>13. order \in Seq(C) /\ Len(order) = n
  BY <1>2, <1>7
<1> QED
  BY <1>8, <1>12, <1>13 DEF order

EditRows ==
    [op : {"create", "edit"}, patch : [Fields -> Values \cup {None}],
     source : {"staff", "backfill"}, app : Apps \cup {None}, version : Nat, seen : Nat,
     held : BOOLEAN]

(* A write of a session appends a row for every field that changes, and     *)
(* retires the rows they replace.                                           *)
LEMMA WrittenRows ==
  ASSUME Profiles!ProfileAssumption, rows \in Seq(ProfileRows),
         NEW e, editing[e] \in EditRows
  PROVE  Appended(rows, Profiles!Written(e), Profiles!Changed(e),
                 editing[e].version + 1, editing[e].source)
<1> DEFINE C == Profiles!Changed(e)
           n == Len(rows)
           order == Profiles!SetToSeq(C)
           place(f) == n + (CHOOSE i \in 1..Len(order) : order[i] = f)
           ws == Profiles!Written(e)
<1>1. C \subseteq Fields /\ \A f \in C : editing[e].patch[f] \in Values
  BY DEF Profiles!Changed, EditRows
<1>2. IsFiniteSet(C)
  BY <1>1, FS_Subset DEF Profiles!ProfileAssumption, Profiles!IsFiniteSet, IsFiniteSet
<1>3. /\ order \in Seq(C)
      /\ \A i, j \in 1..Len(order) : order[i] = order[j] => i = j
      /\ \A f \in C : \E i \in 1..Len(order) : order[i] = f
  BY <1>2, OrderOfFields
<1>4. ws = [k \in 1..(n + Len(order)) |->
              IF k <= n
              THEN IF /\ rows[k].field \in C /\ k \in Profiles!Standing(e, rows[k].field)
                   THEN [rows[k] EXCEPT !.current = FALSE, !.next = place(rows[k].field)]
                   ELSE rows[k]
              ELSE Profiles!NewRow(e, order[k - n])]
  BY DEF Profiles!Written
<1> HIDE DEF ws, order, C
<1>5. n \in Nat /\ Len(order) \in Nat /\ \A k \in 1..n : rows[k] \in ProfileRows
  BY <1>3
<1>6. \A f \in C : place(f) \in (n + 1)..(n + Len(order)) /\ order[place(f) - n] = f
  <2> SUFFICES ASSUME NEW f \in C
               PROVE  place(f) \in (n + 1)..(n + Len(order)) /\ order[place(f) - n] = f
    OBVIOUS
  <2>1. PICK i \in 1..Len(order) : order[i] = f /\ place(f) = n + i
    BY <1>3
  <2> QED
    BY <1>5, <2>1
<1> HIDE DEF place
<1>0. /\ \A k \in 1..n : k \in 1..(n + Len(order)) /\ k <= n
      /\ \A k \in (n + 1)..(n + Len(order)) : k \in 1..(n + Len(order)) /\ ~(k <= n)
  BY <1>5
<1>7. \A k \in 1..n : k \in Profiles!Standing(e, rows[k].field) <=> rows[k].current
  BY <1>5 DEF Profiles!Standing, Profiles!CurrentIds
<1>8. \A k \in 1..n : ws[k] =
         IF rows[k].field \in C /\ rows[k].current
         THEN [rows[k] EXCEPT !.current = FALSE, !.next = place(rows[k].field)] ELSE rows[k]
  <2> SUFFICES ASSUME NEW k \in 1..n
               PROVE  ws[k] = IF rows[k].field \in C /\ rows[k].current
                              THEN [rows[k] EXCEPT !.current = FALSE,
                                                   !.next = place(rows[k].field)]
                              ELSE rows[k]
    OBVIOUS
  <2>1. ws[k] = IF /\ rows[k].field \in C /\ k \in Profiles!Standing(e, rows[k].field)
                THEN [rows[k] EXCEPT !.current = FALSE, !.next = place(rows[k].field)]
                ELSE rows[k]
    BY <1>0, <1>4, Zenon
  <2> QED
    BY <1>7, <2>1, Zenon
<1>9. \A k \in (n + 1)..(n + Len(order)) : ws[k] = Profiles!NewRow(e, order[k - n])
  BY <1>0, <1>4, Zenon
<1>10. \A k \in (n + 1)..(n + Len(order)) :
          /\ ws[k] \in ProfileRows /\ ws[k].field = order[k - n] /\ order[k - n] \in C
          /\ ws[k].version = editing[e].version + 1 /\ ws[k].source = editing[e].source
          /\ ws[k].current /\ ws[k].next = 0
  <2> SUFFICES ASSUME NEW k \in (n + 1)..(n + Len(order))
               PROVE  /\ ws[k] \in ProfileRows /\ ws[k].field = order[k - n] /\ order[k - n] \in C
                      /\ ws[k].version = editing[e].version + 1 /\ ws[k].source = editing[e].source
                      /\ ws[k].current /\ ws[k].next = 0
    OBVIOUS
  <2>1. k - n \in 1..Len(order)
    BY <1>5
  <2>2. order[k - n] \in C
    BY <1>3, <2>1
  <2>3. ws[k] = [field |-> order[k - n], value |-> editing[e].patch[order[k - n]],
                 version |-> editing[e].version + 1, source |-> editing[e].source,
                 current |-> TRUE, next |-> 0]
    BY <1>9 DEF Profiles!NewRow
  <2>4. /\ editing[e].version \in Nat /\ editing[e].source \in {"staff", "backfill"}
        /\ editing[e].patch[order[k - n]] \in Values /\ order[k - n] \in Fields
    BY <1>1, <2>2 DEF EditRows
  <2>5. editing[e].version + 1 \in Nat \ {0}
    BY <2>4
  <2> QED
    BY <2>2, <2>3, <2>4, <2>5 DEF ProfileRows
<1>11. \A k \in 1..n : rows[k].field \in C /\ rows[k].current =>
          /\ ws[k] \in ProfileRows /\ ws[k].field = rows[k].field /\ ws[k].value = rows[k].value
          /\ ws[k].version = rows[k].version /\ ws[k].source = rows[k].source
          /\ ws[k].current = FALSE /\ ws[k].next = place(rows[k].field)
  <2> SUFFICES ASSUME NEW k \in 1..n, rows[k].field \in C, rows[k].current
               PROVE  /\ ws[k] \in ProfileRows /\ ws[k].field = rows[k].field
                      /\ ws[k].value = rows[k].value
                      /\ ws[k].version = rows[k].version /\ ws[k].source = rows[k].source
                      /\ ws[k].current = FALSE /\ ws[k].next = place(rows[k].field)
    OBVIOUS
  <2>1. rows[k] \in ProfileRows
    BY <1>5
  <2> DEFINE r == [rows[k] EXCEPT !.current = FALSE]
  <2>2. /\ r \in ProfileRows /\ r.field = rows[k].field /\ r.value = rows[k].value
        /\ r.version = rows[k].version /\ r.source = rows[k].source /\ r.current = FALSE
    BY <2>1 DEF ProfileRows
  <2>3. ws[k] = [r EXCEPT !.next = place(rows[k].field)]
    BY <1>8
  <2>4. place(rows[k].field) \in Nat
    BY <1>5, <1>6
  <2> HIDE DEF r
  <2> QED
    BY <2>2, <2>3, <2>4 DEF ProfileRows
<1>12. \A k \in 1..n : ~(rows[k].field \in C /\ rows[k].current) => ws[k] = rows[k]
  BY <1>8
<1>13. Len(ws) = n + Len(order)
  <2>1. DOMAIN ws = 1..(n + Len(order))
    BY <1>4, Zenon
  <2>2. ws \in Seq({ws[k] : k \in 1..(n + Len(order))})
    <3>1. ws = [k \in 1..(n + Len(order)) |-> ws[k]]
      BY <1>4, Zenon
    <3> QED
      BY <1>5, <3>1
  <2> QED
    BY <1>5, <2>1, <2>2
<1>14. ws \in Seq(ProfileRows)
  <2>1. \A k \in 1..(n + Len(order)) : ws[k] \in ProfileRows
    BY <1>5, <1>10, <1>11, <1>12
  <2>2. DOMAIN ws = 1..(n + Len(order)) /\ ws = [k \in 1..(n + Len(order)) |-> ws[k]]
    BY <1>4
  <2> QED
    BY <1>5, <2>1, <2>2
<1>15. \A j, k \in (n + 1)..(n + Len(order)) : ws[j].field = ws[k].field => j = k
  <2> SUFFICES ASSUME NEW j \in (n + 1)..(n + Len(order)), NEW k \in (n + 1)..(n + Len(order)),
                      ws[j].field = ws[k].field
               PROVE  j = k
    OBVIOUS
  <2>1. order[j - n] = order[k - n] /\ j - n \in 1..Len(order) /\ k - n \in 1..Len(order)
    BY <1>5, <1>10
  <2>2. j - n = k - n
    BY <1>3, <2>1
  <2> QED
    BY <1>5, <2>2
<1>16. \A k \in 1..n : rows[k].field \in C /\ rows[k].current => ws[ws[k].next].field = rows[k].field
  <2> SUFFICES ASSUME NEW k \in 1..n, rows[k].field \in C, rows[k].current
               PROVE  ws[ws[k].next].field = rows[k].field
    OBVIOUS
  <2>1. ws[k].next = place(rows[k].field)
    BY <1>11
  <2>2. ws[place(rows[k].field)].field = order[place(rows[k].field) - n]
    BY <1>6, <1>10
  <2> QED
    BY <1>6, <2>1, <2>2
<1>17. \A k \in 1..n : rows[k].field \in C /\ rows[k].current =>
          ~ws[k].current /\ ws[k].next \in (n + 1)..Len(ws)
  BY <1>6, <1>11, <1>13
<1> HIDE DEF n
<1>18. \A k \in 1..n : /\ ws[k].field = rows[k].field /\ ws[k].value = rows[k].value
                       /\ ws[k].version = rows[k].version /\ ws[k].source = rows[k].source
  BY <1>11, <1>12
<1>19. \A k \in (n + 1)..Len(ws) :
          /\ ws[k].field \in C /\ ws[k].version = editing[e].version + 1
          /\ ws[k].source = editing[e].source /\ ws[k].current /\ ws[k].next = 0
  BY <1>10, <1>13
<1>20. n = Len(rows) /\ Len(rows) <= Len(ws)
  BY <1>5, <1>13 DEF n
<1>21. \A k \in 1..n : rows[k].field \notin C \/ ~rows[k].current => ws[k] = rows[k]
  BY <1>12
<1>22. \A j, k \in (n + 1)..Len(ws) : ws[j].field = ws[k].field => j = k
  BY <1>13, <1>15
<1>23. Appended(rows, ws, C, editing[e].version + 1, editing[e].source)
  BY <1>14, <1>16, <1>17, <1>18, <1>19, <1>20, <1>21, <1>22 DEF Appended
<1> QED
  BY <1>23 DEF ws, C

(* A write keeps the changelog whole.                                       *)
LEMMA WholeStays ==
  ASSUME NEW rs \in Seq(ProfileRows), NEW ws, NEW C, NEW v, NEW source,
         Appended(rs, ws, C, v, source), Whole(rs)
  PROVE  Whole(ws)
<1>1. /\ Len(rs) \in Nat /\ Len(ws) \in Nat /\ Len(rs) <= Len(ws)
      /\ \A k \in 1..Len(rs) : rs[k] \in ProfileRows
      /\ \A k \in 1..Len(ws) : ws[k] \in ProfileRows
  BY DEF Appended
<1> SUFFICES ASSUME NEW k \in 1..Len(ws)
             PROVE  /\ ws[k].current <=> Later(ws, k) = {}
                    /\ ws[k].current => ws[k].next = 0
                    /\ ~ws[k].current => /\ ws[k].next \in Later(ws, k)
                                         /\ \A j \in Later(ws, k) : ws[k].next <= j
  BY DEF Whole
<1>2. CASE k \in (Len(rs) + 1)..Len(ws)
  <2>1. ws[k].current /\ ws[k].next = 0
    BY <1>2 DEF Appended
  <2>2. Later(ws, k) = {}
    BY <1>1, <1>2 DEF Appended, Later
  <2> QED
    BY <2>1, <2>2
<1>3. CASE k \in 1..Len(rs) /\ rs[k].field \in C /\ rs[k].current
  <2>1. Later(rs, k) = {}
    BY <1>3 DEF Whole
  <2>2. /\ ~ws[k].current /\ ws[k].next \in (Len(rs) + 1)..Len(ws)
        /\ ws[ws[k].next].field = rs[k].field /\ ws[k].field = rs[k].field
    BY <1>3 DEF Appended
  <2>3. ws[k].next \in Later(ws, k)
    BY <1>1, <1>3, <2>2 DEF Later
  <2>4. \A j \in Later(ws, k) : j = ws[k].next
    <3> SUFFICES ASSUME NEW j \in (k + 1)..Len(ws), ws[j].field = ws[k].field
                 PROVE  j = ws[k].next
      BY DEF Later
    <3>1. CASE j <= Len(rs)
      <4>1. j \in (k + 1)..Len(rs) /\ rs[j].field = rs[k].field
        BY <1>1, <1>3, <2>2, <3>1 DEF Appended
      <4> QED
        BY <2>1, <4>1 DEF Later
    <3>2. CASE j > Len(rs)
      <4>1. j \in (Len(rs) + 1)..Len(ws)
        BY <1>1, <3>2
      <4> QED
        BY <2>2, <4>1 DEF Appended
    <3> QED
      BY <1>1, <3>1, <3>2
  <2> QED
    BY <1>1, <1>3, <2>2, <2>3, <2>4
<1>4. CASE k \in 1..Len(rs) /\ rs[k].field \notin C
  <2>1. ws[k] = rs[k]
    BY <1>4 DEF Appended
  <2>2. Later(ws, k) = Later(rs, k)
    <3>1. \A j \in (k + 1)..Len(ws) : ws[j].field = ws[k].field => j \in (k + 1)..Len(rs)
      BY <1>1, <1>4, <2>1 DEF Appended
    <3>2. \A j \in (k + 1)..Len(rs) : ws[j].field = rs[j].field
      BY <1>1, <1>4 DEF Appended
    <3> QED
      BY <1>1, <1>4, <2>1, <3>1, <3>2 DEF Later
  <2> QED
    BY <1>4, <2>1, <2>2 DEF Whole
<1>5. CASE k \in 1..Len(rs) /\ rs[k].field \in C /\ ~rs[k].current
  <2>1. ws[k] = rs[k]
    BY <1>5 DEF Appended
  <2>2. rs[k].next \in Later(rs, k) /\ \A j \in Later(rs, k) : rs[k].next <= j
    BY <1>5 DEF Whole
  <2>3. \A j \in Later(ws, k) : j \in Later(rs, k) \/ j > Len(rs)
    <3> SUFFICES ASSUME NEW j \in (k + 1)..Len(ws), ws[j].field = ws[k].field, j <= Len(rs)
                 PROVE  j \in Later(rs, k)
      BY <1>1 DEF Later
    <3> QED
      BY <1>1, <1>5, <2>1 DEF Appended, Later
  <2>4. Later(rs, k) \subseteq Later(ws, k)
    BY <1>1, <1>5, <2>1 DEF Appended, Later
  <2>5. rs[k].next \in Later(ws, k)
    BY <2>2, <2>4
  <2>6. rs[k].next \in 1..Len(rs)
    BY <1>1, <1>5, <2>2 DEF Later
  <2>7. \A j \in Later(ws, k) : j \in Nat
    BY <1>1 DEF Later
  <2>8. \A j \in Later(ws, k) : rs[k].next <= j
    BY <1>1, <2>2, <2>3, <2>6, <2>7
  <2> QED
    BY <1>5, <2>1, <2>5, <2>8
<1> QED
  BY <1>1, <1>2, <1>3, <1>4, <1>5

(* What the rows rs say of version v, as AsOf of the changelog.             *)
Until(rs, f, v) == {k \in 1..Len(rs) : rs[k].field = f /\ rs[k].version <= v}

ValueAt(rs, f, v) ==
    IF Until(rs, f, v) = {} THEN None
    ELSE rs[CHOOSE k \in Until(rs, f, v) : \A j \in Until(rs, f, v) : j <= k].value

ValuesAt(rs, v) == [f \in Fields |-> ValueAt(rs, f, v)]

(* A later write does not touch what the rows said of an earlier version.   *)
LEMMA PastStands ==
  ASSUME NEW rs \in Seq(ProfileRows), NEW ws, NEW C, NEW v \in Nat, NEW source,
         Appended(rs, ws, C, v, source), NEW u \in Nat, u < v
  PROVE  ValuesAt(ws, u) = ValuesAt(rs, u)
<1>1. Len(rs) \in Nat /\ Len(ws) \in Nat /\ Len(rs) <= Len(ws)
  BY DEF Appended
<1>2. \A k \in (Len(rs) + 1)..Len(ws) : ~(ws[k].version <= u)
  BY DEF Appended
<1>3. ASSUME NEW f PROVE Until(ws, f, u) = Until(rs, f, u)
  <2>1. \A k \in 1..Len(ws) : ws[k].version <= u => k \in 1..Len(rs)
    BY <1>1, <1>2
  <2>2. \A k \in 1..Len(rs) : /\ k \in 1..Len(ws) /\ ws[k].field = rs[k].field
                              /\ ws[k].version = rs[k].version
    BY <1>1 DEF Appended
  <2> QED
    BY <2>1, <2>2 DEF Until
<1>4. ASSUME NEW f, Until(rs, f, u) # {}
      PROVE  (CHOOSE k \in Until(rs, f, u) : \A j \in Until(rs, f, u) : j <= k) \in 1..Len(rs)
  <2>1. \E k \in Until(rs, f, u) : \A j \in Until(rs, f, u) : j <= k
    BY <1>1, <1>4, GreatestStands DEF Until
  <2>2. (CHOOSE k \in Until(rs, f, u) : \A j \in Until(rs, f, u) : j <= k) \in Until(rs, f, u)
    BY <2>1
  <2> QED
    BY <2>2 DEF Until
<1>5. \A k \in 1..Len(rs) : ws[k].value = rs[k].value
  BY DEF Appended
<1>6. ASSUME NEW f PROVE ValueAt(ws, f, u) = ValueAt(rs, f, u)
  <2>1. Until(ws, f, u) = Until(rs, f, u)
    BY <1>3
  <2>2. CASE Until(rs, f, u) = {}
    BY <2>1, <2>2 DEF ValueAt
  <2>3. CASE Until(rs, f, u) # {}
    <3> DEFINE m == CHOOSE k \in Until(rs, f, u) : \A j \in Until(rs, f, u) : j <= k
    <3>1. m \in 1..Len(rs)
      BY <1>4, <2>3
    <3>2. ValueAt(rs, f, u) = rs[m].value
      BY <2>3 DEF ValueAt
    <3>3. ValueAt(ws, f, u) = ws[m].value
      BY <2>1, <2>3 DEF ValueAt
    <3> HIDE DEF m
    <3> QED
      BY <1>5, <3>1, <3>2, <3>3
  <2> QED
    BY <2>2, <2>3
<1> QED
  BY <1>6 DEF ValuesAt

(* The current rows are what the changelog says of the newest version.      *)
LEMMA PresentStands ==
  ASSUME NEW rs \in Seq(ProfileRows), Whole(rs), NEW v, \A k \in 1..Len(rs) : rs[k].version <= v
  PROVE  ValuesAt(rs, v) = Profiles!ValuesOf(rs)
<1>1. ASSUME NEW f
      PROVE  /\ Until(rs, f, v) = {} <=> Profiles!CurrentIds(rs, f) = {}
             /\ Until(rs, f, v) # {} =>
                  (CHOOSE k \in Until(rs, f, v) : \A j \in Until(rs, f, v) : j <= k)
                      = CHOOSE k \in Profiles!CurrentIds(rs, f) : TRUE
  <2>1. Profiles!CurrentIds(rs, f) \subseteq Until(rs, f, v)
    BY DEF Until, Profiles!CurrentIds
  <2>2. ASSUME Until(rs, f, v) # {}
        PROVE  /\ Profiles!CurrentIds(rs, f) # {}
               /\ (CHOOSE k \in Until(rs, f, v) : \A j \in Until(rs, f, v) : j <= k)
                      = CHOOSE k \in Profiles!CurrentIds(rs, f) : TRUE
    <3> DEFINE m == CHOOSE k \in Until(rs, f, v) : \A j \in Until(rs, f, v) : j <= k
    <3>1. m \in Until(rs, f, v) /\ \A j \in Until(rs, f, v) : j <= m
      <4>1. \E k \in Until(rs, f, v) : \A j \in Until(rs, f, v) : j <= k
          <5>1. Len(rs) \in Nat /\ Until(rs, f, v) \in SUBSET (1..Len(rs))
          BY DEF Until
        <5> QED
          BY <2>2, <5>1, GreatestStands
      <4> QED
        BY <4>1
    <3> HIDE DEF m
    <3>2. m \in 1..Len(rs) /\ rs[m].field = f
      BY <3>1 DEF Until
    <3>3. Later(rs, m) = {}
      BY <3>1, <3>2 DEF Until, Later
    <3>4. rs[m].current
      BY <3>2, <3>3 DEF Whole
    <3>5. m \in Profiles!CurrentIds(rs, f)
      BY <3>2, <3>4 DEF Profiles!CurrentIds
    <3>6. ASSUME NEW k \in Profiles!CurrentIds(rs, f) PROVE k = m
      <4>1. k \in 1..Len(rs) /\ rs[k].field = f /\ Later(rs, k) = {} /\ k <= m
        BY <2>1, <3>1 DEF Profiles!CurrentIds, Whole
      <4>2. ~(k < m)
        BY <3>2, <4>1 DEF Later
      <4> QED
        BY <3>2, <4>1, <4>2
    <3>7. m = CHOOSE k \in Profiles!CurrentIds(rs, f) : TRUE
      BY <3>5, <3>6
    <3> QED
      BY <3>5, <3>7 DEF m
  <2> QED
    BY <2>1, <2>2
<1>2. ASSUME NEW f \in Fields PROVE ValueAt(rs, f, v) = Profiles!ValuesOf(rs)[f]
  <2>1. Profiles!ValuesOf(rs)[f] = IF Profiles!CurrentIds(rs, f) = {} THEN None
                                   ELSE rs[CHOOSE k \in Profiles!CurrentIds(rs, f) : TRUE].value
    BY DEF Profiles!ValuesOf
  <2>2. CASE Until(rs, f, v) = {}
    BY <1>1, <2>1, <2>2 DEF ValueAt
  <2>3. CASE Until(rs, f, v) # {}
    <3> DEFINE m == CHOOSE k \in Until(rs, f, v) : \A j \in Until(rs, f, v) : j <= k
    <3>1. ValueAt(rs, f, v) = rs[m].value
      BY <2>3 DEF ValueAt
    <3>2. m = CHOOSE k \in Profiles!CurrentIds(rs, f) : TRUE
      BY <1>1, <2>3
    <3>3. Profiles!CurrentIds(rs, f) # {}
      BY <1>1, <2>3
    <3> HIDE DEF m
    <3> QED
      BY <2>1, <3>1, <3>2, <3>3
  <2> QED
    BY <2>2, <2>3
<1> QED
  BY <1>2 DEF ValuesAt, Profiles!ValuesOf

(* Of a field nothing is known exactly if no row of it is current.          *)
LEMMA KnownValues ==
  ASSUME Profiles!ProfileAssumption, NEW rs \in Seq(ProfileRows)
  PROVE  /\ Profiles!ValuesOf(rs) \in [Fields -> Values \cup {None}]
         /\ \A f \in Fields : Profiles!ValuesOf(rs)[f] = None <=> Profiles!CurrentIds(rs, f) = {}
<1>1. \A k \in 1..Len(rs) : rs[k] \in ProfileRows
  OBVIOUS
<1>2. ASSUME NEW f \in Fields, Profiles!CurrentIds(rs, f) # {}
      PROVE  rs[CHOOSE k \in Profiles!CurrentIds(rs, f) : TRUE].value \in Values
  <2>1. (CHOOSE k \in Profiles!CurrentIds(rs, f) : TRUE) \in 1..Len(rs)
    BY <1>2 DEF Profiles!CurrentIds
  <2> QED
    BY <1>1, <2>1 DEF ProfileRows
<1> QED
  BY <1>2 DEF Profiles!ProfileAssumption, Profiles!ValuesOf

(* What an application and a session hold.                                  *)
Stored   == [Fields -> Values \cup {None}]
Frozen   == [version : Nat, values : Stored]
AppRows  == [version : Nat, snapshot : Frozen \cup {None}, columns : Stored \cup {None}]
LinkRows == [op : {"link"}, app : Apps, held : BOOLEAN, version : Nat \ {0}, found : AppRows]
AttachRows ==
    [op : {"attach"}, app : Apps, frozen : BOOLEAN, version : Nat \ {0},
     snapshot : Frozen \cup {None}]

SessionTyped(e, w) ==
    /\ w.op \in {"idle", "create", "edit", "link", "attach", "lock", "unlock", "delete", "restore"}
    /\ e \in Keepers => w.op \in {"idle", "lock", "unlock", "delete", "restore"}
    /\ w.op = "idle" => w = Profiles!Idle
    /\ w.op \in {"create", "edit"} => w \in EditRows /\ (w.source = "backfill" => w.app \in Apps)
    /\ w.op = "create" => w.version = 0
    /\ w.op = "link" => w \in LinkRows
    /\ w.op = "attach" => w \in AttachRows /\ e \in Attachers

ProfilesTyped ==
    /\ profile \in [exists : BOOLEAN, version : Nat, locked : BOOLEAN, deleted : BOOLEAN]
    /\ IF profile.exists THEN profile.version # 0 ELSE profile.version = 0 /\ rows = << >>
    /\ rows \in Seq(ProfileRows)
    /\ app \in [Apps -> AppRows]
    /\ \A a \in Apps : app[a].version = 0 => app[a].columns = None
    /\ DOMAIN editing = Profiles!Sessions
    /\ \A e \in Profiles!Sessions : SessionTyped(e, editing[e])
    /\ \A e \in Profiles!Sessions : editing[e].op = "edit" => profile.exists

(* No row is younger than the counter v, and no backfill replaced a value.  *)
RowsSound(rs, v) ==
    /\ \A k \in 1..Len(rs) : rs[k].version <= v
    /\ \A k \in 1..Len(rs) : rs[k].next # 0 => rs[rs[k].next].source # "backfill"

(* A session knows no version that is to come; a link that no edit overtook *)
(* knows the newest and has frozen its values; a backfill that is not       *)
(* overtaken fills what is still a gap.                                     *)
SessionSound(w, rs, v, old) ==
    /\ w.op \in {"edit", "link", "attach"} => w.version <= v
    /\ w.op = "attach" /\ w.app \notin old =>
         /\ w.version = v
         /\ w.snapshot # None => /\ w.snapshot.version = v
                                 /\ w.snapshot.values = ValuesAt(rs, v)
    /\ w.op = "edit" /\ w.source = "backfill" /\ w.version = v =>
         \A f \in Fields : w.patch[f] # None => Profiles!CurrentIds(rs, f) = {}

(* A decision is what the changelog says of the versions it names.          *)
AppSound(r, rs, v) ==
    /\ r.version <= v
    /\ r.snapshot # None => /\ r.snapshot.version <= v
                            /\ r.snapshot.values = ValuesAt(rs, r.snapshot.version)
    /\ r.columns # None =>
         \A f \in Fields : ValuesAt(rs, r.version)[f] \in {None, r.columns[f]}

Explained ==
    shared = {} =>
        /\ RowsSound(rows, profile.version)
        /\ \A e \in Profiles!Sessions : SessionSound(editing[e], rows, profile.version, stale)
        /\ \A a \in Apps \ stale : AppSound(app[a], rows, profile.version)

ProfilesInv == ProfilesTyped /\ Whole(rows) /\ Explained

LEMMA ProfilesSound ==
  ASSUME ProfilesInv
  PROVE  /\ Profiles!OneCurrentValue
         /\ Profiles!SnapshotIsReproducible /\ Profiles!BackfillFillsGaps
<1>1. \A v : Profiles!AsOf(v) = ValuesAt(rows, v)
  BY DEF Profiles!AsOf, ValuesAt, ValueAt, Until
<1>2. Profiles!OneCurrentValue
  <2> SUFFICES ASSUME NEW k \in 1..Len(rows)
               PROVE  /\ rows[k].current <=> Later(rows, k) = {}
                      /\ Later(rows, k) # {} => /\ rows[k].next \in Later(rows, k)
                                                /\ \A j \in Later(rows, k) : rows[k].next <= j
    BY DEF Profiles!OneCurrentValue, Later
  <2> QED
    BY DEF ProfilesInv, Whole
<1>3. Profiles!SnapshotIsReproducible
  BY <1>1 DEF Profiles!SnapshotIsReproducible, ProfilesInv, Explained, AppSound
<1>4. Profiles!BackfillFillsGaps
  BY DEF Profiles!BackfillFillsGaps, ProfilesInv, Explained, RowsSound
<1> QED
  BY <1>2, <1>3, <1>4

LEMMA ProfilesInitHolds == ASSUME Profiles!Init PROVE ProfilesInv
<1>1. /\ profile = [exists |-> FALSE, version |-> 0, locked |-> FALSE, deleted |-> FALSE]
      /\ rows = << >> /\ app = [a \in Apps |-> Profiles!Unlinked]
      /\ shared = {} /\ stale = {} /\ editing = [s \in Profiles!Sessions |-> Profiles!Idle]
  BY DEF Profiles!Init
<1>2. \A a \in Apps : app[a] = [version |-> 0, snapshot |-> None, columns |-> None]
  BY <1>1 DEF Profiles!Unlinked
<1>3. \A e \in Profiles!Sessions : editing[e] = Profiles!Idle /\ editing[e].op = "idle"
  BY <1>1 DEF Profiles!Idle
<1>4. ProfilesTyped
  <2>1. app \in [Apps -> AppRows]
    BY <1>1, <1>2 DEF AppRows
  <2>2. \A e \in Profiles!Sessions : SessionTyped(e, editing[e])
    BY <1>3 DEF SessionTyped
  <2> QED
    BY <1>1, <1>2, <1>3, <2>1, <2>2 DEF ProfilesTyped
<1>5. Whole(rows)
  BY <1>1 DEF Whole
<1>6. Explained
  <2>1. RowsSound(rows, profile.version)
    BY <1>1 DEF RowsSound
  <2>2. \A e \in Profiles!Sessions : SessionSound(editing[e], rows, profile.version, stale)
    BY <1>3 DEF SessionSound
  <2>3. \A a \in Apps \ stale : AppSound(app[a], rows, profile.version)
    BY <1>1, <1>2 DEF AppSound
  <2> QED
    BY <2>1, <2>2, <2>3 DEF Explained
<1> QED
  BY <1>4, <1>5, <1>6 DEF ProfilesInv

(* A step in which one session goes on to hold w, and nothing it shares     *)
(* with the others changes but the lock and the deletion mark.              *)
LEMMA SessionMoves ==
  ASSUME ProfilesInv, NEW e \in Profiles!Sessions, NEW w,
         editing' = [editing EXCEPT ![e] = w], SessionTyped(e, w), w.op = "edit" => profile.exists,
         shared = {} => SessionSound(w, rows, profile.version, stale),
         profile' \in [exists : BOOLEAN, version : Nat, locked : BOOLEAN, deleted : BOOLEAN],
         profile'.exists = profile.exists, profile'.version = profile.version,
         UNCHANGED <<rows, app, shared, stale>>
  PROVE  ProfilesInv'
<1>1. /\ DOMAIN editing' = Profiles!Sessions /\ editing'[e] = w
      /\ \A t \in Profiles!Sessions : t # e => editing'[t] = editing[t]
  BY DEF ProfilesInv, ProfilesTyped
<1>2. \A t \in Profiles!Sessions : /\ SessionTyped(t, editing'[t])
                                   /\ editing'[t].op = "edit" => profile'.exists
  BY <1>1 DEF ProfilesInv, ProfilesTyped
<1>3. ProfilesTyped'
  BY <1>1, <1>2 DEF ProfilesInv, ProfilesTyped
<1>4. shared = {} => \A t \in Profiles!Sessions : SessionSound(editing'[t], rows, profile.version, stale)
  BY <1>1 DEF ProfilesInv, Explained
<1>5. Explained'
  BY <1>4 DEF ProfilesInv, Explained
<1> QED
  BY <1>3, <1>5 DEF ProfilesInv

LEMMA IdleIsFine ==
  ASSUME NEW e, NEW rs, NEW v, NEW old
  PROVE  /\ SessionTyped(e, Profiles!Idle) /\ SessionSound(Profiles!Idle, rs, v, old)
         /\ Profiles!Idle.op # "edit"
  BY DEF SessionTyped, SessionSound, Profiles!Idle

(* A session that reads: an edit, a backfill, a link or a lock begins.      *)
LEMMA ReadsKeep ==
  ASSUME Profiles!ProfileAssumption, ProfilesInv,
         \/ \E e \in Editors : \/ Profiles!CreateRead(e) \/ Profiles!EditRead(e)
                               \/ Profiles!EditFlush(e)
                               \/ \E a \in Apps : Profiles!BackfillRead(e, a)
         \/ \E k \in Keepers, op \in {"lock", "unlock", "delete", "restore"} : Profiles!KeepRead(k, op)
         \/ \E s \in Attachers : \/ \E a \in Apps : Profiles!AttachRead(s, a)
                                 \/ Profiles!Freeze(s)
  PROVE  ProfilesInv'
<1> USE DEF ProfilesInv
<1>0. /\ profile \in [exists : BOOLEAN, version : Nat, locked : BOOLEAN, deleted : BOOLEAN]
      /\ profile.version \in Nat /\ Len(rows) \in Nat /\ rows \in Seq(ProfileRows)
      /\ Profiles!Sessions = Editors \cup Attachers \cup Keepers
      /\ DOMAIN editing = Profiles!Sessions
      /\ \A e \in Profiles!Sessions : SessionTyped(e, editing[e])
      /\ \A e \in Editors : e \notin Keepers
      /\ \A s \in Attachers : s \notin Keepers
  BY DEF ProfilesTyped, Profiles!Sessions, Profiles!ProfileAssumption
<1>1. ASSUME NEW e \in Editors, Profiles!CreateRead(e) PROVE ProfilesInv'
  <2>1. /\ UNCHANGED <<profile, rows, app, shared, stale>> /\ profile.version = 0
        /\ \/ \E patch \in Patches : Profiles!Open(e, "create", patch, "staff", None)
           \/ \E a \in Apps : Profiles!Open(e, "create", Collected[a], "backfill", a)
    BY <1>1 DEF Profiles!CreateRead, ProfilesTyped
  <2>2. PICK patch, source, a :
          /\ patch \in Stored /\ \/ source = "staff" /\ a = None
                                 \/ source = "backfill" /\ a \in Apps
          /\ editing' = [editing EXCEPT ![e] = [op |-> "create", patch |-> patch, source |-> source,
                           app |-> a, version |-> profile.version, seen |-> Len(rows),
                           held |-> FALSE]]
    BY <2>1 DEF Profiles!Open, Profiles!ProfileAssumption, Stored
  <2> DEFINE w == [op |-> "create", patch |-> patch, source |-> source, app |-> a,
                   version |-> profile.version, seen |-> Len(rows), held |-> FALSE]
  <2>3. SessionTyped(e, w)
    BY <1>0, <2>1, <2>2 DEF SessionTyped, EditRows, Stored
  <2>4. SessionSound(w, rows, profile.version, stale)
    BY DEF SessionSound
  <2>5. PICK x : x = w
    OBVIOUS
  <2> QED
    BY <1>0, <2>1, <2>2, <2>3, <2>4, <2>5, SessionMoves
<1>2. ASSUME NEW e \in Editors, Profiles!EditRead(e) PROVE ProfilesInv'
  <2>1. /\ UNCHANGED <<profile, rows, app, shared, stale>> /\ profile.exists
        /\ \E patch \in Patches : Profiles!Open(e, "edit", patch, "staff", None)
    BY <1>2 DEF Profiles!EditRead, Profiles!Editable
  <2>2. PICK patch \in Stored :
          editing' = [editing EXCEPT ![e] = [op |-> "edit", patch |-> patch, source |-> "staff",
                        app |-> None, version |-> profile.version, seen |-> Len(rows),
                        held |-> FALSE]]
    BY <2>1 DEF Profiles!Open, Profiles!ProfileAssumption, Stored
  <2> DEFINE w == [op |-> "edit", patch |-> patch, source |-> "staff", app |-> None,
                   version |-> profile.version, seen |-> Len(rows), held |-> FALSE]
  <2>3. SessionTyped(e, w)
    BY <1>0, <2>2 DEF SessionTyped, EditRows, Stored
  <2>4. SessionSound(w, rows, profile.version, stale)
    BY <1>0 DEF SessionSound
  <2>5. PICK x : x = w
    OBVIOUS
  <2> QED
    BY <1>0, <2>1, <2>2, <2>3, <2>4, <2>5, SessionMoves
<1>3. ASSUME NEW e \in Editors, Profiles!EditFlush(e) PROVE ProfilesInv'
  <2>1. /\ UNCHANGED <<profile, rows, app, shared, stale>> /\ editing[e].op = "edit"
        /\ editing' = [editing EXCEPT ![e].held = TRUE]
    BY <1>3 DEF Profiles!EditFlush, Profiles!Doing
  <2>2. editing[e] \in EditRows /\ SessionTyped(e, editing[e])
    BY <1>0, <2>1 DEF SessionTyped
  <2>3. PICK w : w = [editing[e] EXCEPT !.held = TRUE]
    OBVIOUS
  <2>4. /\ w \in EditRows /\ w.op = "edit" /\ w.patch = editing[e].patch
        /\ w.source = editing[e].source /\ w.app = editing[e].app /\ w.version = editing[e].version
    BY <2>1, <2>2, <2>3 DEF EditRows
  <2>5. SessionTyped(e, w) /\ profile.exists
    BY <1>0, <2>1, <2>2, <2>4 DEF SessionTyped, ProfilesTyped
  <2>6. shared = {} => SessionSound(w, rows, profile.version, stale)
    <3>1. shared = {} => SessionSound(editing[e], rows, profile.version, stale)
      BY <1>0 DEF Explained
    <3> QED
      BY <2>1, <2>4, <3>1 DEF SessionSound
  <2>7. editing' = [editing EXCEPT ![e] = w]
    BY <2>1, <2>3
  <2> QED
    BY <1>0, <2>1, <2>5, <2>6, <2>7, SessionMoves
<1>4. ASSUME NEW e \in Editors, NEW a \in Apps, Profiles!BackfillRead(e, a) PROVE ProfilesInv'
  <2>1. UNCHANGED <<profile, rows, app, shared, stale>> /\ profile.exists
    BY <1>4 DEF Profiles!BackfillRead
  <2>2. CASE Profiles!Link(e, a, profile.version)
    <3>1. PICK w : w = [op |-> "link", app |-> a, held |-> FALSE,
                        version |-> profile.version, found |-> app[a]]
      OBVIOUS
    <3>2. editing' = [editing EXCEPT ![e] = w]
      BY <2>2, <3>1 DEF Profiles!Link
    <3>3. profile.version # 0 /\ app[a] \in AppRows
      BY <2>1 DEF ProfilesTyped
    <3>4. SessionTyped(e, w)
      BY <1>0, <3>1, <3>3 DEF SessionTyped, LinkRows
    <3>5. SessionSound(w, rows, profile.version, stale)
      BY <1>0, <3>1 DEF SessionSound
    <3> QED
      BY <1>0, <2>1, <3>1, <3>2, <3>4, <3>5, SessionMoves
  <2>3. CASE Profiles!Open(e, "edit", Profiles!Gaps(a), "backfill", a)
    <3>1. PICK w : w = [op |-> "edit", patch |-> Profiles!Gaps(a), source |-> "backfill", app |-> a,
                        version |-> profile.version, seen |-> Len(rows), held |-> FALSE]
      OBVIOUS
    <3>2. editing' = [editing EXCEPT ![e] = w]
      BY <2>3, <3>1 DEF Profiles!Open
    <3>3. Collected[a] \in Stored
      BY DEF Profiles!ProfileAssumption, Stored
    <3>4. Profiles!Gaps(a) \in [Fields -> Values \cup {None}]
      BY <3>3 DEF Profiles!Gaps, Stored
    <3>5. \A f \in Fields : Profiles!Gaps(a)[f] # None => Profiles!CurrentIds(rows, f) = {}
      BY <1>0, KnownValues DEF Profiles!Gaps
    <3>6. SessionTyped(e, w)
      BY <1>0, <3>1, <3>4 DEF SessionTyped, EditRows
    <3>7. SessionSound(w, rows, profile.version, stale)
      BY <1>0, <3>1, <3>5 DEF SessionSound
    <3> QED
      BY <1>0, <2>1, <3>2, <3>6, <3>7, SessionMoves
  <2> QED
    BY <1>4, <2>2, <2>3 DEF Profiles!BackfillRead
<1>5. ASSUME NEW k \in Keepers, NEW op \in {"lock", "unlock", "delete", "restore"},
             Profiles!KeepRead(k, op)
      PROVE  ProfilesInv'
  <2>1. PICK w : w = [op |-> op]
    OBVIOUS
  <2>2. UNCHANGED <<profile, rows, app, shared, stale>> /\ editing' = [editing EXCEPT ![k] = w]
    BY <1>5, <2>1 DEF Profiles!KeepRead
  <2>3. SessionTyped(k, w) /\ w.op # "edit" /\ SessionSound(w, rows, profile.version, stale)
    BY <2>1 DEF SessionTyped, SessionSound
  <2> QED
    BY <1>0, <2>2, <2>3, SessionMoves
<1>6. ASSUME NEW s \in Attachers, NEW a \in Apps, Profiles!AttachRead(s, a) PROVE ProfilesInv'
  <2>1. PICK w : w = [op |-> "attach", app |-> a, frozen |-> FALSE,
                      version |-> profile.version, snapshot |-> None]
    OBVIOUS
  <2>2. UNCHANGED <<profile, rows, app, shared, stale>> /\ editing' = [editing EXCEPT ![s] = w]
        /\ profile.exists
    BY <1>6, <2>1 DEF Profiles!AttachRead
  <2>3. profile.version # 0
    BY <2>2 DEF ProfilesTyped
  <2>4. SessionTyped(s, w)
    BY <1>0, <2>1, <2>3 DEF SessionTyped, AttachRows
  <2>5. SessionSound(w, rows, profile.version, stale)
    BY <1>0, <2>1 DEF SessionSound
  <2> QED
    BY <1>0, <2>1, <2>2, <2>4, <2>5, SessionMoves
<1>7. ASSUME NEW s \in Attachers, Profiles!Freeze(s) PROVE ProfilesInv'
  <2> DEFINE old == editing[s]
  <2>1. PICK snap : snap = [version |-> old.version, values |-> Profiles!ValuesOf(rows)]
    OBVIOUS
  <2>2. PICK w : w = [[old EXCEPT !.frozen = TRUE] EXCEPT !.snapshot = snap]
    OBVIOUS
  <2>3. /\ UNCHANGED <<profile, rows, app, shared, stale>> /\ old.op = "attach"
        /\ editing' = [editing EXCEPT ![s].frozen = TRUE, ![s].snapshot = snap]
    BY <1>7, <2>1 DEF Profiles!Freeze, Profiles!Doing
  <2>4. old \in AttachRows /\ SessionTyped(s, old)
    BY <1>0, <2>3 DEF SessionTyped
  <2>5. snap \in Frozen
    BY <1>0, <2>1, <2>4, KnownValues DEF Frozen, Stored, AttachRows
  <2>6. w = [op |-> "attach", app |-> old.app, frozen |-> TRUE, version |-> old.version,
             snapshot |-> snap]
    BY <2>2, <2>4 DEF AttachRows
  <2>7. editing' = [editing EXCEPT ![s] = w]
    BY <1>0, <2>2, <2>3
  <2>8. SessionTyped(s, w) /\ w.op # "edit"
    BY <1>0, <2>4, <2>5, <2>6 DEF SessionTyped, AttachRows
  <2>9. shared = {} => SessionSound(w, rows, profile.version, stale)
    <3> SUFFICES ASSUME shared = {} PROVE SessionSound(w, rows, profile.version, stale)
      OBVIOUS
    <3>1. SessionSound(old, rows, profile.version, stale)
      BY <1>0 DEF Explained
    <3>2. ValuesAt(rows, profile.version) = Profiles!ValuesOf(rows)
      BY <1>0, PresentStands DEF Explained, RowsSound
    <3>3. /\ w.op = "attach" /\ w.app = old.app /\ w.version = old.version
          /\ w.snapshot = snap /\ snap.version = old.version
          /\ snap.values = Profiles!ValuesOf(rows)
      BY <2>1, <2>6
    <3> QED
      BY <2>3, <3>1, <3>2, <3>3 DEF SessionSound
  <2> QED
    BY <1>0, <2>3, <2>7, <2>8, <2>9, SessionMoves
<1> QED
  BY <1>1, <1>2, <1>3, <1>4, <1>5, <1>6, <1>7

(* A commit of a write: new rows at the version after the one it read.      *)
Commits(e, w) ==
    /\ editing[e].op \in {"create", "edit"} /\ e \notin Keepers
    /\ editing' = [editing EXCEPT ![e] = w]
    /\ \/ w = Profiles!Idle
       \/ w \in LinkRows /\ w.version = editing[e].version + 1
    /\ rows' = Profiles!Written(e) /\ app' = app
    /\ profile' \in [exists : BOOLEAN, version : Nat, locked : BOOLEAN, deleted : BOOLEAN]
    /\ profile'.exists /\ profile'.version = editing[e].version + 1
    /\ shared' = {} =>
         /\ shared = {} /\ profile.version = editing[e].version
         /\ \A t \in Profiles!Sessions :
              editing[t].op = "attach" => editing[t].app \in stale'
    /\ stale \subseteq stale'

LEMMA CommitKeeps ==
  ASSUME Profiles!ProfileAssumption, ProfilesInv, NEW e \in Profiles!Sessions, NEW w,
         Commits(e, w)
  PROVE  ProfilesInv'
<1> USE DEF ProfilesInv, Commits
<1> DEFINE old == editing[e]
           v == old.version
<1>0. /\ editing[e] \in EditRows /\ SessionTyped(e, editing[e]) /\ v \in Nat
      /\ rows \in Seq(ProfileRows) /\ Whole(rows) /\ Len(rows) \in Nat
  BY DEF ProfilesTyped, SessionTyped, EditRows
<1>1. Appended(rows, rows', Profiles!Changed(e), v + 1, old.source)
  BY <1>0, WrittenRows
<1>2. PICK C : C = Profiles!Changed(e)
  OBVIOUS
<1>3. PICK source : source = old.source
  OBVIOUS
<1>4. PICK ws : ws = rows'
  OBVIOUS
<1>5. /\ ws \in Seq(ProfileRows) /\ Len(ws) \in Nat /\ Len(rows) <= Len(ws)
      /\ Appended(rows, ws, C, v + 1, source)
  BY <1>1, <1>2, <1>3, <1>4 DEF Appended
<1>6. Whole(ws)
  BY <1>0, <1>5, WholeStays
<1>7. /\ DOMAIN editing' = Profiles!Sessions /\ editing'[e] = w
      /\ \A t \in Profiles!Sessions : t # e => editing'[t] = editing[t]
  BY DEF ProfilesTyped
<1>8. SessionTyped(e, w)
  <2>1. CASE w = Profiles!Idle
    BY <2>1, IdleIsFine
  <2>2. CASE w \in LinkRows
    BY <2>2 DEF LinkRows, SessionTyped
  <2> QED
    BY <2>1, <2>2
<1>9. ProfilesTyped'
  <2>1. \A t \in Profiles!Sessions : SessionTyped(t, editing'[t])
    BY <1>7, <1>8 DEF ProfilesTyped
  <2>2. profile'.version # 0
    BY <1>0
  <2> QED
    BY <1>4, <1>5, <1>7, <2>1, <2>2 DEF ProfilesTyped
<1>10. Explained'
  <2> SUFFICES ASSUME shared' = {}
               PROVE  /\ RowsSound(ws, v + 1)
                      /\ \A t \in Profiles!Sessions : SessionSound(editing'[t], ws, v + 1, stale')
                      /\ \A a \in Apps \ stale' : AppSound(app[a], ws, v + 1)
    BY <1>4 DEF Explained
  <2>1. /\ profile.version = v
        /\ RowsSound(rows, v)
        /\ \A t \in Profiles!Sessions : SessionSound(editing[t], rows, v, stale)
        /\ \A a \in Apps \ stale : AppSound(app[a], rows, v)
    BY DEF Explained
  <2>2. RowsSound(ws, v + 1)
    <3>0. \A k \in 1..Len(ws) : k \in 1..Len(rows) \/ k \in (Len(rows) + 1)..Len(ws)
      BY <1>0, <1>5
    <3>1. ASSUME NEW k \in 1..Len(rows)
          PROVE  ws[k].version <= v + 1
      <4>1. rows[k] \in ProfileRows /\ rows[k].version <= v /\ ws[k].version = rows[k].version
        BY <1>0, <1>5, <2>1 DEF RowsSound, Appended
      <4> QED
        BY <1>0, <4>1 DEF ProfileRows
    <3>2. ASSUME NEW k \in (Len(rows) + 1)..Len(ws)
          PROVE  ws[k].version <= v + 1 /\ ws[k].next = 0
      BY <1>0, <1>5 DEF Appended
    <3>3. ASSUME NEW k \in 1..Len(rows), ws[k].next # 0
          PROVE  ws[ws[k].next].source # "backfill"
      <4>1. CASE rows[k].field \notin C \/ ~rows[k].current
        <5>1. ws[k] = rows[k]
          BY <1>5, <4>1 DEF Appended
        <5>2. rows[k].next \in Later(rows, k)
          BY <1>0, <3>3, <5>1 DEF Whole
        <5>3. rows[k].next \in 1..Len(rows)
          BY <1>0, <5>2 DEF Later
        <5>4. rows[rows[k].next].source # "backfill"
          BY <2>1, <3>3, <5>1 DEF RowsSound
        <5> QED
          BY <1>5, <5>1, <5>3, <5>4 DEF Appended
      <4>2. CASE rows[k].field \in C /\ rows[k].current
        <5>1. ws[ws[k].next].source = source
          BY <1>5, <4>2 DEF Appended
        <5>2. ASSUME source = "backfill" PROVE FALSE
          <6>1. CASE old.op = "create"
            <7>1. v = 0
              BY <1>0, <6>1 DEF SessionTyped
            <7>2. rows = << >>
              BY <2>1, <7>1 DEF ProfilesTyped
            <7> QED
              BY <7>2
          <6>2. CASE old.op = "edit"
            <7>1. rows[k].field \in Fields /\ old.patch[rows[k].field] # None
              BY <1>2, <4>2 DEF Profiles!Changed
            <7>2. SessionSound(old, rows, v, stale)
              BY <2>1
            <7>3. Profiles!CurrentIds(rows, rows[k].field) = {}
              BY <1>3, <5>2, <6>2, <7>1, <7>2 DEF SessionSound
            <7> QED
              BY <4>2, <7>3 DEF Profiles!CurrentIds
          <6> QED
            BY <6>1, <6>2
        <5> QED
          BY <5>1, <5>2
      <4> QED
        BY <4>1, <4>2
    <3> QED
      BY <3>0, <3>1, <3>2, <3>3 DEF RowsSound
  <2>3. ASSUME NEW t \in Profiles!Sessions
        PROVE  SessionSound(editing'[t], ws, v + 1, stale')
    <3>1. CASE t = e /\ w = Profiles!Idle
      BY <1>7, <3>1, IdleIsFine
    <3>2. CASE t = e /\ w \in LinkRows /\ w.version = v + 1
      <4>1. w.op = "link" /\ v + 1 <= v + 1
        BY <1>0, <3>2 DEF LinkRows
      <4> QED
        BY <1>7, <3>2, <4>1 DEF SessionSound
    <3>3. CASE t # e
      <4>1. SessionSound(editing[t], rows, v, stale) /\ SessionTyped(t, editing[t])
        BY <2>1 DEF ProfilesTyped
      <4>2. editing[t].op \in {"edit", "link", "attach"} => editing[t].version \in Nat
        BY <4>1 DEF SessionTyped, EditRows, LinkRows, AttachRows
      <4>3. editing[t].op \in {"edit", "link", "attach"} =>
              editing[t].version <= v + 1 /\ editing[t].version # v + 1
        BY <1>0, <4>1, <4>2 DEF SessionSound
      <4> QED
        BY <1>7, <3>3, <4>3 DEF SessionSound
    <3> QED
      BY <3>1, <3>2, <3>3
  <2>4. ASSUME NEW a \in Apps \ stale'
        PROVE  AppSound(app[a], ws, v + 1)
    <3>1. AppSound(app[a], rows, v) /\ app[a] \in AppRows
      BY <2>1 DEF ProfilesTyped
    <3>2. app[a].version \in Nat /\ app[a].version <= v /\ app[a].version < v + 1
      BY <1>0, <3>1 DEF AppSound, AppRows
    <3>3. ValuesAt(ws, app[a].version) = ValuesAt(rows, app[a].version)
      BY <1>0, <1>5, <3>2, PastStands
    <3>4. app[a].snapshot # None =>
            /\ app[a].snapshot.version <= v + 1
            /\ ValuesAt(ws, app[a].snapshot.version) = ValuesAt(rows, app[a].snapshot.version)
      <4> SUFFICES ASSUME app[a].snapshot # None
                   PROVE  /\ app[a].snapshot.version <= v + 1
                          /\ ValuesAt(ws, app[a].snapshot.version)
                               = ValuesAt(rows, app[a].snapshot.version)
        OBVIOUS
      <4>1. app[a].snapshot.version \in Nat /\ app[a].snapshot.version <= v
        BY <3>1 DEF AppSound, AppRows, Frozen
      <4>2. app[a].snapshot.version < v + 1 /\ app[a].snapshot.version <= v + 1 /\ v + 1 \in Nat
        BY <1>0, <4>1
      <4> QED
        BY <1>0, <1>5, <4>1, <4>2, PastStands
    <3>5. app[a].version <= v + 1
      BY <1>0, <3>2
    <3> QED
      BY <3>1, <3>3, <3>4, <3>5 DEF AppSound
  <2> QED
    BY <2>2, <2>3, <2>4
<1> QED
  BY <1>4, <1>6, <1>9, <1>10

(* Every step of the profiles keeps their invariant.                        *)
LEMMA ProfilesStepKeeps ==
  ASSUME Profiles!ProfileAssumption, ProfilesInv, Profiles!Next
  PROVE  ProfilesInv'
<1> USE DEF ProfilesInv
<1>0. /\ profile \in [exists : BOOLEAN, version : Nat, locked : BOOLEAN, deleted : BOOLEAN]
      /\ rows \in Seq(ProfileRows) /\ Whole(rows)
      /\ Profiles!Sessions = Editors \cup Attachers \cup Keepers
      /\ DOMAIN editing = Profiles!Sessions
      /\ \A e \in Profiles!Sessions : SessionTyped(e, editing[e])
      /\ \A e \in Editors : e \notin Keepers
  BY DEF ProfilesTyped, Profiles!Sessions, Profiles!ProfileAssumption
<1>1. ASSUME NEW e \in Editors, NEW version, Profiles!Finish(e, version),
             editing[e].op \in {"create", "edit"}, version = editing[e].version + 1
      PROVE  \E w : /\ editing' = [editing EXCEPT ![e] = w]
                    /\ w = Profiles!Idle \/ (w \in LinkRows /\ w.version = editing[e].version + 1)
  <2>1. editing[e] \in EditRows /\ SessionTyped(e, editing[e]) /\ editing[e].version \in Nat
    BY <1>0, <1>1 DEF SessionTyped, EditRows
  <2>2. CASE editing[e].source = "backfill"
    <3> DEFINE a == editing[e].app
               w == [op |-> "link", app |-> a, held |-> FALSE, version |-> version,
                     found |-> app[a]]
    <3>1. editing' = [editing EXCEPT ![e] = w]
      BY <1>1, <2>2 DEF Profiles!Finish, Profiles!Link
    <3>2. a \in Apps /\ app[a] \in AppRows
      BY <1>1, <2>1, <2>2 DEF SessionTyped, ProfilesTyped
    <3>3. w \in LinkRows /\ w.version = editing[e].version + 1
      BY <1>1, <2>1, <3>2 DEF LinkRows
    <3> QED
      BY <3>1, <3>3
  <2>3. CASE editing[e].source # "backfill"
    BY <1>1, <2>3 DEF Profiles!Finish, Profiles!Give
  <2> QED
    BY <2>2, <2>3
<1>2. ASSUME NEW e \in Editors, Profiles!CreateCommit(e) PROVE ProfilesInv'
  <2>0. editing[e].op = "create" /\ UNCHANGED <<app, shared, stale>>
    BY <1>2 DEF Profiles!CreateCommit, Profiles!Doing
  <2>1. CASE profile.exists
    <3>1. editing' = [editing EXCEPT ![e] = Profiles!Idle] /\ UNCHANGED <<profile, rows>>
      BY <1>2, <2>1 DEF Profiles!CreateCommit, Profiles!Give
    <3> QED
      BY <1>0, <2>0, <3>1, IdleIsFine, SessionMoves
  <2>2. CASE ~profile.exists
    <3>1. /\ profile' = [profile EXCEPT !.exists = TRUE, !.version = 1]
          /\ rows' = Profiles!Written(e) /\ Profiles!Finish(e, 1)
      BY <1>2, <2>2 DEF Profiles!CreateCommit
    <3>2. editing[e].version = 0
      BY <1>0, <2>0 DEF SessionTyped
    <3>3. PICK w : /\ editing' = [editing EXCEPT ![e] = w]
                   /\ w = Profiles!Idle \/ (w \in LinkRows /\ w.version = editing[e].version + 1)
      BY <1>1, <2>0, <3>1, <3>2
    <3>4. profile.version = 0
      BY <2>2 DEF ProfilesTyped
    <3>5. shared = {} => \A t \in Profiles!Sessions : editing[t].op # "attach"
      <4> SUFFICES ASSUME shared = {}, NEW t \in Profiles!Sessions, editing[t].op = "attach"
                   PROVE  FALSE
        OBVIOUS
      <4>1. SessionSound(editing[t], rows, profile.version, stale) /\ SessionTyped(t, editing[t])
        BY <1>0 DEF Explained
      <4>2. editing[t].version \in Nat \ {0} /\ editing[t].version <= 0
        BY <3>4, <4>1 DEF SessionSound, SessionTyped, AttachRows
      <4> QED
        BY <4>2
    <3>6. /\ profile' \in [exists : BOOLEAN, version : Nat, locked : BOOLEAN, deleted : BOOLEAN]
          /\ profile'.exists /\ profile'.version = editing[e].version + 1
      <4>1. PICK p : p = [profile EXCEPT !.exists = TRUE]
        OBVIOUS
      <4>2. profile' = [p EXCEPT !.version = 1]
        BY <1>0, <3>1, <4>1
      <4>3. /\ p \in [exists : BOOLEAN, version : Nat, locked : BOOLEAN, deleted : BOOLEAN]
            /\ p.exists = TRUE
        BY <1>0, <4>1
      <4> QED
        BY <3>2, <4>2, <4>3
    <3>7. e \in Profiles!Sessions /\ e \notin Keepers
      BY <1>0
    <3>8. shared' = {} => /\ shared = {} /\ profile.version = editing[e].version
                         /\ \A t \in Profiles!Sessions : editing[t].op = "attach" =>
                                editing[t].app \in stale'
      BY <2>0, <3>2, <3>4, <3>5
    <3>9. /\ app' = app /\ stale \subseteq stale' /\ editing[e].op \in {"create", "edit"}
          /\ rows' = Profiles!Written(e)
      BY <2>0, <3>1
    <3>10. Commits(e, w)
      BY <3>3, <3>6, <3>7, <3>8, <3>9 DEF Commits
    <3> QED
      BY <3>7, <3>10, CommitKeeps
  <2> QED
    BY <2>1, <2>2
<1>3. ASSUME NEW e \in Editors, Profiles!EditCommit(e) PROVE ProfilesInv'
  <2>1. /\ editing[e].op = "edit" /\ UNCHANGED app
        /\ rows' = Profiles!Written(e)
        /\ profile' = [profile EXCEPT !.version = editing[e].version + 1]
        /\ shared' = (IF profile.version # editing[e].version
                      THEN shared \cup {editing[e].version + 1} ELSE shared)
        /\ stale' = stale \cup {editing[t].app : t \in {u \in Attachers : Profiles!Doing(u, "attach")}}
        /\ Profiles!Finish(e, editing[e].version + 1)
    BY <1>3 DEF Profiles!EditCommit, Profiles!Doing, Profiles!NewVersion
  <2>2. PICK w : /\ editing' = [editing EXCEPT ![e] = w]
                 /\ w = Profiles!Idle \/ (w \in LinkRows /\ w.version = editing[e].version + 1)
    BY <1>1, <2>1
  <2>3. \A t \in Profiles!Sessions : editing[t].op = "attach" => editing[t].app \in stale'
    BY <1>0, <2>1 DEF SessionTyped, Profiles!Doing
  <2>4. shared' = {} => shared = {} /\ profile.version = editing[e].version
    BY <2>1
  <2>5. profile.exists
    BY <1>0, <2>1 DEF ProfilesTyped
  <2>6. /\ profile' \in [exists : BOOLEAN, version : Nat, locked : BOOLEAN, deleted : BOOLEAN]
        /\ profile'.exists /\ profile'.version = editing[e].version + 1
    <3>1. editing[e].version \in Nat
      BY <1>0, <2>1 DEF SessionTyped, EditRows
    <3> QED
      BY <1>0, <2>1, <2>5, <3>1
  <2>7. e \in Profiles!Sessions /\ e \notin Keepers
    BY <1>0
  <2>8. shared' = {} => /\ shared = {} /\ profile.version = editing[e].version
                       /\ \A t \in Profiles!Sessions : editing[t].op = "attach" =>
                              editing[t].app \in stale'
    BY <2>3, <2>4
  <2>9. /\ app' = app /\ stale \subseteq stale' /\ editing[e].op \in {"create", "edit"}
        /\ rows' = Profiles!Written(e)
    BY <2>1
  <2>10. Commits(e, w)
    BY <2>2, <2>6, <2>7, <2>8, <2>9 DEF Commits
  <2> QED
    BY <2>7, <2>10, CommitKeeps
<1>4. ASSUME NEW e \in Editors, Profiles!BackfillLink(e) PROVE ProfilesInv'
  <2> DEFINE w == editing[e]
  <2>1. /\ w.op = "link" /\ UNCHANGED <<profile, rows, shared>>
        /\ editing' = [editing EXCEPT ![e] = Profiles!Idle]
        /\ IF w.found.version # 0 THEN UNCHANGED <<app, stale>>
           ELSE /\ app' = [app EXCEPT ![w.app].version = w.version]
                /\ stale' = IF app[w.app] = w.found THEN stale ELSE stale \cup {w.app}
    BY <1>4 DEF Profiles!BackfillLink, Profiles!Doing, Profiles!Give
  <2>2. w \in LinkRows /\ SessionTyped(e, w)
    BY <1>0, <2>1 DEF SessionTyped
  <2>3. CASE w.found.version # 0
    BY <1>0, <2>1, <2>3, IdleIsFine, SessionMoves
  <2>4. CASE w.found.version = 0
    <3>1. PICK a, n : a = w.app /\ n = w.version
      OBVIOUS
    <3>2. a \in Apps /\ n \in Nat \ {0} /\ app[a] \in AppRows
      BY <2>2, <3>1 DEF LinkRows, ProfilesTyped
    <3>3. PICK r : r = [app[a] EXCEPT !.version = n]
      OBVIOUS
    <3>4. r \in AppRows /\ r.version = n /\ r.snapshot = app[a].snapshot /\ r.columns = app[a].columns
      BY <3>2, <3>3 DEF AppRows
    <3>5. /\ app' \in [Apps -> AppRows] /\ app'[a] = r
          /\ \A b \in Apps : b # a => app'[b] = app[b]
      BY <2>1, <2>4, <3>1, <3>2, <3>3, <3>4 DEF ProfilesTyped
    <3>6. stale' = IF app[a] = w.found THEN stale ELSE stale \cup {a}
      BY <2>1, <2>4, <3>1
    <3>7. /\ DOMAIN editing' = Profiles!Sessions /\ editing'[e] = Profiles!Idle
          /\ \A t \in Profiles!Sessions : t # e => editing'[t] = editing[t]
      BY <1>0, <2>1
    <3> HIDE DEF w
    <3>8. ProfilesTyped'
      <4>1. \A t \in Profiles!Sessions : /\ SessionTyped(t, editing'[t])
                                         /\ editing'[t].op = "edit" => profile.exists
        BY <1>0, <3>7, IdleIsFine DEF ProfilesTyped
      <4>2. \A b \in Apps : app'[b].version = 0 => app'[b].columns = None
        BY <3>2, <3>4, <3>5 DEF ProfilesTyped
      <4> QED
        BY <2>1, <3>5, <3>7, <4>1, <4>2 DEF ProfilesTyped
    <3>9. Explained'
      <4> SUFFICES ASSUME shared = {}
                   PROVE  /\ RowsSound(rows, profile.version)
                          /\ \A t \in Profiles!Sessions :
                               SessionSound(editing'[t], rows, profile.version, stale')
                          /\ \A b \in Apps \ stale' : AppSound(app'[b], rows, profile.version)
        BY <2>1 DEF Explained
      <4>1. /\ RowsSound(rows, profile.version)
            /\ \A t \in Profiles!Sessions : SessionSound(editing[t], rows, profile.version, stale)
            /\ \A b \in Apps \ stale : AppSound(app[b], rows, profile.version)
        BY DEF Explained
      <4>2. stale \subseteq stale'
        BY <3>6
      <4>3. ASSUME NEW t \in Profiles!Sessions
            PROVE  SessionSound(editing'[t], rows, profile.version, stale')
        <5>1. CASE t = e
          BY <3>7, <5>1, IdleIsFine
        <5>2. CASE t # e
          <6>1. SessionSound(editing[t], rows, profile.version, stale)
            BY <4>1
          <6> QED
            BY <3>7, <4>2, <5>2, <6>1 DEF SessionSound
        <5> QED
          BY <5>1, <5>2
      <4>4. ASSUME NEW b \in Apps \ stale' PROVE AppSound(app'[b], rows, profile.version)
        <5>1. AppSound(app[b], rows, profile.version)
          BY <4>1, <4>2
        <5>2. CASE b # a
          BY <3>5, <5>1, <5>2
        <5>3. CASE b = a
          <6>1. app[a].version = 0
            BY <2>4, <3>6, <5>3 DEF w
          <6>2. r.columns = None
            BY <3>2, <3>4, <6>1 DEF ProfilesTyped
          <6>3. n <= profile.version
            BY <2>1, <3>1, <1>0, <4>1 DEF SessionSound, w
          <6> QED
            BY <3>4, <3>5, <5>1, <5>3, <6>2, <6>3 DEF AppSound
        <5> QED
          BY <5>2, <5>3
      <4> QED
        BY <4>1, <4>3, <4>4
    <3> QED
      BY <2>1, <3>8, <3>9
  <2> QED
    BY <2>3, <2>4
<1>5. ASSUME NEW k \in Keepers, Profiles!KeepCommit(k) PROVE ProfilesInv'
  <2>1. /\ editing[k] # Profiles!Idle /\ UNCHANGED <<rows, app, shared, stale>>
        /\ editing' = [editing EXCEPT ![k] = Profiles!Idle]
        /\ profile' = CASE editing[k].op = "lock"    -> [profile EXCEPT !.locked = TRUE]
                        [] editing[k].op = "unlock"  -> [profile EXCEPT !.locked = FALSE]
                        [] editing[k].op = "delete"  -> [profile EXCEPT !.deleted = TRUE]
                        [] editing[k].op = "restore" -> [profile EXCEPT !.deleted = FALSE]
    BY <1>5 DEF Profiles!KeepCommit, Profiles!Doing, Profiles!Give
  <2> QED
    BY <1>0, <2>1, IdleIsFine, SessionMoves DEF SessionTyped
<1>6. ASSUME NEW s \in Attachers, Profiles!AttachCommit(s) PROVE ProfilesInv'
  <2> DEFINE w == editing[s]
  <2>1. PICK a : a = w.app
    OBVIOUS
  <2>2. PICK r : r = [version  |-> w.version,
                      snapshot |-> IF w.frozen THEN w.snapshot ELSE app[a].snapshot,
                      columns  |-> Profiles!Columns(a)]
    OBVIOUS
  <2>3. /\ w.op = "attach" /\ UNCHANGED <<profile, rows, shared, stale>>
        /\ app' = [app EXCEPT ![a] = r]
        /\ editing' = [editing EXCEPT ![s] = Profiles!Idle]
    BY <1>6, <2>1, <2>2 DEF Profiles!AttachCommit, Profiles!Doing, Profiles!Give
  <2>4. w \in AttachRows /\ a \in Apps /\ app[a] \in AppRows
    BY <1>0, <2>1, <2>3 DEF SessionTyped, AttachRows, ProfilesTyped
  <2>5. /\ Profiles!Columns(a) \in Stored
        /\ \A f \in Fields : Profiles!ValuesOf(rows)[f] \in {None, Profiles!Columns(a)[f]}
    <3>1. PICK had : had = IF app[a].columns = None THEN Collected[a] ELSE app[a].columns
      OBVIOUS
    <3>2. had \in Stored
      BY <2>4, <3>1 DEF Profiles!ProfileAssumption, AppRows, Stored
    <3>3. Profiles!Columns(a) = [f \in Fields |->
             IF Profiles!ValuesOf(rows)[f] = None THEN had[f] ELSE Profiles!ValuesOf(rows)[f]]
      BY <3>1 DEF Profiles!Columns
    <3>4. Profiles!ValuesOf(rows) \in Stored
      BY <1>0, KnownValues DEF Stored
    <3> QED
      BY <3>2, <3>3, <3>4 DEF Stored
  <2>6. /\ r \in AppRows /\ r.version = w.version /\ r.version # 0
        /\ r.snapshot \in {w.snapshot, app[a].snapshot} /\ r.columns = Profiles!Columns(a)
    BY <2>2, <2>4, <2>5 DEF AttachRows, AppRows
  <2>7. /\ app' \in [Apps -> AppRows] /\ app'[a] = r
        /\ \A b \in Apps : b # a => app'[b] = app[b]
    BY <2>3, <2>4, <2>6 DEF ProfilesTyped
  <2>8. /\ DOMAIN editing' = Profiles!Sessions /\ editing'[s] = Profiles!Idle
        /\ \A t \in Profiles!Sessions : t # s => editing'[t] = editing[t]
    BY <1>0, <2>3
  <2> HIDE DEF w
  <2>9. ProfilesTyped'
    <3>1. \A t \in Profiles!Sessions : /\ SessionTyped(t, editing'[t])
                                       /\ editing'[t].op = "edit" => profile.exists
      BY <1>0, <2>8, IdleIsFine DEF ProfilesTyped
    <3>2. \A b \in Apps : app'[b].version = 0 => app'[b].columns = None
      BY <2>4, <2>6, <2>7 DEF ProfilesTyped
    <3> QED
      BY <2>3, <2>7, <2>8, <3>1, <3>2 DEF ProfilesTyped
  <2>10. Explained'
    <3> SUFFICES ASSUME shared = {}
                 PROVE  /\ RowsSound(rows, profile.version)
                        /\ \A t \in Profiles!Sessions :
                             SessionSound(editing'[t], rows, profile.version, stale)
                        /\ \A b \in Apps \ stale : AppSound(app'[b], rows, profile.version)
      BY <2>3 DEF Explained
    <3>1. /\ RowsSound(rows, profile.version)
          /\ \A t \in Profiles!Sessions : SessionSound(editing[t], rows, profile.version, stale)
          /\ \A b \in Apps \ stale : AppSound(app[b], rows, profile.version)
      BY DEF Explained
    <3>2. ASSUME NEW t \in Profiles!Sessions
          PROVE  SessionSound(editing'[t], rows, profile.version, stale)
      BY <2>8, <3>1, IdleIsFine
    <3>3. ASSUME NEW b \in Apps \ stale PROVE AppSound(app'[b], rows, profile.version)
      <4>1. CASE b # a
        BY <2>7, <3>1, <4>1
      <4>2. CASE b = a
        <5>1. SessionSound(w, rows, profile.version, stale) /\ AppSound(app[a], rows, profile.version)
          BY <1>0, <3>1, <4>2 DEF w
        <5>2. /\ w.version = profile.version
              /\ w.snapshot # None => /\ w.snapshot.version = profile.version
                                      /\ w.snapshot.values = ValuesAt(rows, profile.version)
          BY <2>1, <2>3, <4>2, <5>1 DEF SessionSound, w
        <5>3. ValuesAt(rows, profile.version) = Profiles!ValuesOf(rows)
          BY <1>0, <3>1, PresentStands DEF RowsSound
        <5>4. profile.version <= profile.version
          BY <1>0
        <5>5. \A f \in Fields : ValuesAt(rows, r.version)[f] \in {None, r.columns[f]}
          BY <2>5, <2>6, <5>2, <5>3
        <5>6. r.snapshot # None => /\ r.snapshot.version <= profile.version
                                   /\ r.snapshot.values = ValuesAt(rows, r.snapshot.version)
          BY <2>6, <5>1, <5>2, <5>4 DEF AppSound
        <5> QED
          BY <2>6, <2>7, <4>2, <5>2, <5>4, <5>5, <5>6 DEF AppSound
      <4> QED
        BY <4>1, <4>2
    <3> QED
      BY <3>1, <3>2, <3>3
  <2> QED
    BY <2>3, <2>9, <2>10
<1> QED
  BY <1>2, <1>3, <1>4, <1>5, <1>6, ReadsKeep DEF Profiles!Next

----------------------------------------------------------------------------
(* Maintenance fees: markers and rows of one loan and one month.              *)

(* Rows of a loan's ledger, as the desk sees them.                          *)
BookRows == [kind : {"payment"}, cents : Paid, day : Nat] \cup [kind : {"fee"}, month : Int]

(* The types of the fees: what a charge holds are loans and their month.    *)
FeesTyped ==
    /\ deskDay \in Nat /\ insolvent \subseteq Loans
    /\ books \in [Loans -> Seq(BookRows)]
    /\ markers \subseteq Loans \X Int
    /\ DOMAIN desk = Clerks
    /\ \A s \in Clerks : desk[s].op = "fee" => desk[s].loans \subseteq Loans /\ desk[s].month \in Int

(* The fees among the first n rows of a loan are the markers it has.        *)
MonthsCharged(rs, l, M) ==
    /\ \A k \in 1..Len(rs) : rs[k].kind = "fee" => <<l, rs[k].month>> \in M
    /\ \A x \in Int : <<l, x>> \in M => \E k \in 1..Len(rs) : rs[k].kind = "fee" /\ rs[k].month = x
    /\ \A j, k \in 1..Len(rs) :
         rs[j].kind = "fee" /\ rs[k].kind = "fee" /\ rs[j].month = rs[k].month => j = k

(* The inductive invariant of the fees.                                     *)
FeesInv == FeesTyped /\ \A l \in Loans : MonthsCharged(books[l], l, markers)

(* The invariant contains what is promised of fees.                         *)
LEMMA FeesSound == ASSUME FeesInv PROVE Fees!FeeOncePerMonth
<1> SUFFICES ASSUME NEW l \in Loans
             PROVE  LET fees == {k \in 1..Len(books[l]) : books[l][k].kind = "fee"}
                    IN  /\ {<<l, books[l][k].month>> : k \in fees} = {m \in markers : m[1] = l}
                        /\ \A j, k \in fees : books[l][j].month = books[l][k].month => j = k
  BY DEF Fees!FeeOncePerMonth
<1> DEFINE fees == {k \in 1..Len(books[l]) : books[l][k].kind = "fee"}
<1>1. MonthsCharged(books[l], l, markers) /\ markers \subseteq Loans \X Int
  BY DEF FeesInv, FeesTyped
<1>2. \A m \in markers : m[1] = l => m = <<l, m[2]>> /\ m[2] \in Int
  BY <1>1
<1>3. \A k \in fees : <<l, books[l][k].month>> \in markers
  BY <1>1 DEF MonthsCharged
<1>4. \A m \in markers : m[1] = l => \E k \in fees : m = <<l, books[l][k].month>>
  BY <1>1, <1>2 DEF MonthsCharged
<1>5. \A j, k \in fees : books[l][j].month = books[l][k].month => j = k
  BY <1>1 DEF MonthsCharged
<1> HIDE DEF fees
<1>6. {<<l, books[l][k].month>> : k \in fees} = {m \in markers : m[1] = l}
  <2>1. \A k \in fees : <<l, books[l][k].month>> \in {m \in markers : m[1] = l}
    BY <1>3
  <2> QED
    BY <1>4, <2>1
<1> QED
  BY <1>5, <1>6 DEF fees

(* A fee is added with its marker, or another row without one.              *)
LEMMA RowCharged ==
    ASSUME NEW l, NEW M, NEW rs \in Seq(BookRows), MonthsCharged(rs, l, M), NEW row \in BookRows,
           NEW more, row.kind = "fee" => <<l, row.month>> \notin M,
           \A x \in Int : <<l, x>> \in more <=>
               (<<l, x>> \in M \/ (row.kind = "fee" /\ x = row.month))
    PROVE  MonthsCharged(Append(rs, row), l, more) /\ Append(rs, row) \in Seq(BookRows)
<1> DEFINE new == Append(rs, row)
           n == Len(rs)
<1>1. /\ new \in Seq(BookRows) /\ Len(new) = n + 1 /\ new[n + 1] = row /\ n \in Nat
      /\ \A k \in 1..n : new[k] = rs[k]
      /\ \A k \in 1..Len(new) : k \in 1..n \/ k = n + 1
      /\ \A k \in 1..n : k \in 1..Len(new)
      /\ n + 1 \in 1..Len(new)
  OBVIOUS
<1>2. \A k \in 1..Len(new) : new[k].kind = "fee" => new[k].month \in Int
  BY <1>1 DEF BookRows
<1> HIDE DEF new
<1>3. \A k \in 1..Len(new) : new[k].kind = "fee" => <<l, new[k].month>> \in more
  <2> SUFFICES ASSUME NEW k \in 1..Len(new), new[k].kind = "fee" PROVE <<l, new[k].month>> \in more
    OBVIOUS
  <2>1. new[k].month \in Int
    BY <1>2
  <2>2. CASE k \in 1..n
    BY <1>1, <2>1, <2>2 DEF MonthsCharged
  <2>3. CASE k = n + 1
    BY <1>1, <2>1, <2>3
  <2> QED
    BY <1>1, <2>2, <2>3
<1>4. \A x \in Int : <<l, x>> \in more =>
        \E k \in 1..Len(new) : new[k].kind = "fee" /\ new[k].month = x
  BY <1>1 DEF MonthsCharged
<1>5. \A j, k \in 1..Len(new) :
        new[j].kind = "fee" /\ new[k].kind = "fee" /\ new[j].month = new[k].month => j = k
  <2> SUFFICES ASSUME NEW j \in 1..Len(new), NEW k \in 1..Len(new), new[j].kind = "fee",
                      new[k].kind = "fee", new[j].month = new[k].month
               PROVE  j = k
    OBVIOUS
  <2>1. CASE j \in 1..n /\ k \in 1..n
    BY <1>1, <2>1 DEF MonthsCharged
  <2>2. CASE j = n + 1 /\ k \in 1..n
    BY <1>1, <2>2 DEF MonthsCharged
  <2>3. CASE k = n + 1 /\ j \in 1..n
    BY <1>1, <2>3 DEF MonthsCharged
  <2> QED
    BY <1>1, <2>1, <2>2, <2>3
<1> QED
  BY <1>1, <1>3, <1>4, <1>5 DEF MonthsCharged, new

LEMMA FeesInitHolds == ASSUME Fees!Init PROVE FeesInv
<1> USE DEF Fees!Init
<1>1. FeesTyped
  BY DEF FeesTyped, Fees!Idle
<1>2. \A l \in Loans : MonthsCharged(books[l], l, markers)
  BY DEF MonthsCharged
<1> QED
  BY <1>1, <1>2 DEF FeesInv

(* Every step of the desk keeps the fees' invariant.                        *)
LEMMA FeesStepKeeps == ASSUME Fees!WorkAssumption, FeesInv, Fees!Next PROVE FeesInv'
<1> USE DEF FeesInv, FeesTyped
<1>1. ASSUME UNCHANGED <<insolvent, books, markers, desk>>, deskDay' \in Nat PROVE FeesInv'
  BY <1>1
<1>2. CASE Fees!Tick
  BY <1>1, <1>2 DEF Fees!Tick
<1>3. ASSUME NEW l \in Loans, Fees!SetInsolvency(l) PROVE FeesInv'
  BY <1>3 DEF Fees!SetInsolvency
<1>4. ASSUME NEW l \in Loans, Fees!Pay(l) PROVE FeesInv'
  <2>1. PICK cents \in Paid, day \in {deskDay} \cup {d \in Fees!Days : d + 1 = deskDay} :
          books' = [books EXCEPT ![l] = Append(@, [kind |-> "payment", cents |-> cents, day |-> day])]
    BY <1>4 DEF Fees!Pay
  <2> DEFINE row == [kind |-> "payment", cents |-> cents, day |-> day]
  <2>2. row \in BookRows /\ row.kind # "fee"
    BY DEF BookRows, Fees!Days
  <2> HIDE DEF row
  <2>3. books' = [books EXCEPT ![l] = Append(books[l], row)]
    BY <2>1 DEF row
  <2>4. MonthsCharged(Append(books[l], row), l, markers) /\ Append(books[l], row) \in Seq(BookRows)
    BY <2>2, RowCharged
  <2>5. UNCHANGED <<deskDay, insolvent, markers, promises, doubled, desk>>
    BY <1>4 DEF Fees!Pay
  <2>6. \A x \in Loans : MonthsCharged(books'[x], x, markers)
    BY <2>3, <2>4
  <2> QED
    BY <2>3, <2>4, <2>5, <2>6
<1>5. ASSUME NEW s \in Clerks, NEW v, desk' = [desk EXCEPT ![s] = v],
             v.op = "fee" => v.loans \subseteq Loans /\ v.month \in Int,
             UNCHANGED <<deskDay, insolvent, books, markers>>
      PROVE  FeesInv'
  BY <1>5
<1>6. ASSUME NEW s \in Clerks, Fees!ReadFee(s) PROVE FeesInv'
  <2>1. PICK day \in Fees!Days, chosen \in {insolvent} \cup {{l} : l \in insolvent} :
          Fees!FeeOpen(s, chosen, Fees!MonthOf(day))
    BY <1>6 DEF Fees!ReadFee
  <2> DEFINE v == [op |-> "fee", month |-> Fees!MonthOf(day),
                   loans |-> {l \in chosen : <<l, Fees!MonthOf(day)>> \notin markers},
                   next |-> [l \in Loans |-> Len(books[l]) + 1]]
  <2>2. desk' = [desk EXCEPT ![s] = v]
    BY <2>1 DEF Fees!FeeOpen
  <2>3. Fees!MonthOf(day) \in Int
    BY DEF Fees!MonthOf, Fees!Days, Fees!WorkAssumption
  <2>4. v.loans \subseteq Loans /\ v.month \in Int
    BY <2>3
  <2> HIDE DEF v
  <2>5. UNCHANGED <<deskDay, insolvent, books, markers>>
    BY <1>6 DEF Fees!ReadFee
  <2> QED
    BY <1>5, <2>2, <2>4, <2>5
<1>7. ASSUME NEW s \in Clerks, Fees!ChargeFees(s) PROVE FeesInv'
  <2> DEFINE due == desk[s].loans
             month == desk[s].month
             row == [kind |-> "fee", month |-> month]
  <2>0. /\ desk[s].op = "fee" /\ due \subseteq Loans /\ month \in Int
        /\ UNCHANGED <<deskDay, insolvent>> /\ desk' = [desk EXCEPT ![s] = Fees!Idle]
    BY <1>7 DEF Fees!ChargeFees, Fees!Give
  <2>1. /\ DOMAIN desk' = Clerks
        /\ \A c \in Clerks : desk'[c].op = "fee" => desk'[c].loans \subseteq Loans /\ desk'[c].month \in Int
    BY <2>0 DEF Fees!Idle
  <2>2. CASE UNCHANGED <<books, markers>>
    BY <2>0, <2>1, <2>2
  <2>3. CASE /\ \A l \in due : ~ Fees!Refused(s, l)
             /\ markers' = markers \cup {<<l, month>> : l \in due}
             /\ books' = [l \in Loans |-> IF l \notin due THEN books[l] ELSE Append(books[l], row)]
    <3>1. row \in BookRows /\ row.kind = "fee" /\ row.month = month
      BY <2>0 DEF BookRows
    <3> HIDE DEF row
    <3>2. markers' \subseteq Loans \X Int
      BY <2>0, <2>3
    <3>3. ASSUME NEW l \in Loans
          PROVE  MonthsCharged(books'[l], l, markers') /\ books'[l] \in Seq(BookRows)
      <4>1. CASE l \notin due
        <5>1. books'[l] = books[l] /\ \A x \in Int : <<l, x>> \in markers' <=> <<l, x>> \in markers
          BY <2>3, <4>1
        <5>2. \A k \in 1..Len(books[l]) : books[l][k].kind = "fee" => books[l][k].month \in Int
          BY DEF BookRows
        <5> QED
          BY <5>1, <5>2 DEF MonthsCharged
      <4>2. CASE l \in due
        <5>1. books'[l] = Append(books[l], row) /\ <<l, month>> \notin markers
          BY <2>3, <4>2 DEF Fees!Refused
        <5>2. \A x \in Int : <<l, x>> \in markers' <=>
                (<<l, x>> \in markers \/ (row.kind = "fee" /\ x = row.month))
          BY <2>3, <3>1, <4>2
        <5>3. row.kind = "fee" => <<l, row.month>> \notin markers
          BY <3>1, <5>1
        <5>4. books[l] \in Seq(BookRows) /\ MonthsCharged(books[l], l, markers)
          OBVIOUS
        <5>5. MonthsCharged(Append(books[l], row), l, markers') /\ Append(books[l], row) \in Seq(BookRows)
          BY <3>1, <5>2, <5>3, <5>4, RowCharged
        <5> QED
          BY <5>1, <5>5
      <4> QED
        BY <4>1, <4>2
    <3>4. books' \in [Loans -> Seq(BookRows)]
      BY <2>3, <3>3
    <3> QED
      BY <2>0, <2>1, <3>2, <3>3, <3>4
  <2> QED
    BY <1>7, <2>2, <2>3 DEF Fees!ChargeFees
<1>8. ASSUME NEW s \in Clerks, \/ Fees!ReadPromise(s) \/ Fees!AddPromise(s)
                               \/ Fees!ReadPromises(s) \/ Fees!WritePromises(s)
      PROVE  FeesInv'
  <2>1. UNCHANGED <<deskDay, insolvent, books, markers>>
    BY <1>8 DEF Fees!ReadPromise, Fees!AddPromise, Fees!ReadPromises, Fees!WritePromises
  <2>2. CASE Fees!ReadPromise(s)
    <3>1. PICK cents, due : desk' = [desk EXCEPT ![s] = [op |-> "promise", cents |-> cents, due |-> due]]
      BY <2>2 DEF Fees!ReadPromise
    <3> QED
      BY <1>5, <2>1, <3>1
  <2>3. CASE Fees!AddPromise(s) \/ Fees!WritePromises(s)
    <3>1. desk' = [desk EXCEPT ![s] = Fees!Idle]
      BY <2>3 DEF Fees!AddPromise, Fees!WritePromises, Fees!Give
    <3>2. Fees!Idle.op # "fee"
      BY DEF Fees!Idle
    <3> QED
      BY <1>5, <2>1, <3>1, <3>2
  <2>4. CASE Fees!ReadPromises(s)
    <3>1. PICK rs : desk' = [desk EXCEPT ![s] = [op |-> "judge", rows |-> rs]]
      BY <2>4 DEF Fees!ReadPromises
    <3> QED
      BY <1>5, <2>1, <3>1
  <2> QED
    BY <1>8, <2>2, <2>3, <2>4
<1> QED
  BY <1>2, <1>3, <1>4, <1>6, <1>7, <1>8 DEF Fees!Next

----------------------------------------------------------------------------
(* Promises to pay: one debtor's, judged by the cash on its ledger.         *)

(* The rows a promise counts, and their cents.                              *)
Window(p, rs) == {k \in 1..Len(rs) : rs[k].kind = "payment" /\ rs[k].day \in p.made..p.due}
Cents(rs)     == [k \in 1..Len(rs) |-> rs[k].cents]
Received(p, rs) == SumOf(Cents(rs), Window(p, rs))

(* They are finitely many, of natural numbers of cents.                     *)
LEMMA WindowFinite ==
    ASSUME Promises!WorkAssumption, NEW p, NEW rs \in Seq(BookRows)
    PROVE  /\ IsFiniteSet(Window(p, rs))
           /\ \A k \in Window(p, rs) : Cents(rs)[k] = rs[k].cents /\ Cents(rs)[k] \in Nat
<1>1. Len(rs) \in Nat /\ Window(p, rs) \in SUBSET (1..Len(rs))
  BY DEF Window
<1>2. IsFiniteSet(1..Len(rs))
  BY <1>1, FS_Interval
<1>3. IsFiniteSet(Window(p, rs))
  BY <1>1, <1>2, FS_Subset
<1>4. ASSUME NEW k \in Window(p, rs) PROVE Cents(rs)[k] = rs[k].cents /\ Cents(rs)[k] \in Nat
  <2>1. k \in 1..Len(rs) /\ rs[k] \in BookRows /\ rs[k].kind = "payment"
    BY DEF Window
  <2>2. rs[k].cents \in Paid
    BY <2>1 DEF BookRows
  <2> QED
    BY <2>1, <2>2 DEF Cents, Promises!WorkAssumption
<1> QED
  BY <1>3, <1>4

(* The fold of evaluate_promise is their sum.                               *)
LEMMA CoveredIsReceived ==
    ASSUME Promises!WorkAssumption, NEW p, NEW rs \in Seq(BookRows)
    PROVE  Promises!Covered(p, rs) = Received(p, rs)
<1> DEFINE S == Window(p, rs)
           w == Cents(rs)
           Fits(i) == i = [s \in SUBSET S |->
                        IF s = {} THEN 0 ELSE rs[Pick(s)].cents + i[s \ {Pick(s)}]]
           iter == CHOOSE i : Fits(i)
<1>1. Promises!Covered(p, rs) = iter[S]
  BY DEF Promises!Covered, Promises!MapThenSumSet, Promises!MapThenFoldSet, Pick, Window
<1>2. IsFiniteSet(S) /\ \A y \in S : w[y] \in Nat /\ w[y] = rs[y].cents
  BY WindowFinite
<1>3. \A s \in SUBSET S : s # {} => Pick(s) \in S
  BY DEF Pick
<1> HIDE DEF S, w
<1>4. \A i : Fits(i) <=> Adds(i, w, S)
  BY <1>2, <1>3 DEF Adds
<1>5. Adds(iter, w, S)
  BY <1>2, <1>4, SumAdds
<1> HIDE DEF iter
<1> QED
  BY <1>1, <1>2, <1>5, AddsIsSum DEF Received, S, w

(* Cash that comes in later does not take any away.                         *)
LEMMA ReceivedGrows ==
    ASSUME Promises!WorkAssumption, NEW p, NEW rs \in Seq(BookRows), NEW row \in BookRows
    PROVE  /\ Received(p, rs) \in Nat /\ Received(p, Append(rs, row)) \in Nat
           /\ Received(p, rs) <= Received(p, Append(rs, row))
<1> DEFINE new == Append(rs, row)
<1>1. /\ new \in Seq(BookRows) /\ Len(new) = Len(rs) + 1 /\ Len(rs) \in Nat
      /\ \A k \in 1..Len(rs) : new[k] = rs[k] /\ k \in 1..Len(new)
  OBVIOUS
<1> HIDE DEF new
<1>2. Window(p, rs) \in SUBSET Window(p, new)
  BY <1>1 DEF Window
<1>3. \A k \in Window(p, rs) : Cents(rs)[k] = Cents(new)[k]
  BY <1>1 DEF Cents, Window
<1>4. SumOf(Cents(rs), Window(p, rs)) = SumOf(Cents(new), Window(p, rs))
  BY <1>3, SumSame
<1>5. IsFiniteSet(Window(p, new)) /\ \A k \in Window(p, new) : Cents(new)[k] \in Nat
  BY <1>1, WindowFinite
<1>6. /\ SumOf(Cents(new), Window(p, rs)) \in Nat /\ SumOf(Cents(new), Window(p, new)) \in Nat
      /\ SumOf(Cents(new), Window(p, rs)) <= SumOf(Cents(new), Window(p, new))
  BY <1>2, <1>5, SumShrinks
<1> QED
  BY <1>4, <1>6 DEF Received, new

(* A promise, and what its status says of the cash.                         *)
PromiseRows == [cents : Promised, due : Nat, made : Nat, seen : Nat,
                status : {"open", "kept", "broken", "cancelled"}]

JudgedRight(p, rs, day) ==
    /\ p.status = "kept" => Promises!Covered(p, rs) >= p.cents
    /\ p.status = "broken" => /\ p.due < day /\ p.seen <= Len(rs)
                              /\ Promises!Covered(p, SubSeq(rs, 1, p.seen)) < p.cents

(* A judgement stands when cash comes in and days pass.                     *)
LEMMA JudgementStands ==
    ASSUME Promises!WorkAssumption, NEW p \in PromiseRows, NEW rs \in Seq(BookRows),
           NEW day \in Nat, NEW next \in Nat, day <= next, JudgedRight(p, rs, day)
    PROVE  /\ JudgedRight(p, rs, next)
           /\ \A row \in BookRows : JudgedRight(p, Append(rs, row), next)
<1>1. p.cents \in Nat /\ p.due \in Nat /\ p.seen \in Nat /\ Len(rs) \in Nat
  <2>1. p.cents \in Promised /\ p.due \in Nat /\ p.seen \in Nat
    BY DEF PromiseRows
  <2>2. Promised \subseteq Nat
    BY DEF Promises!WorkAssumption
  <2>3. p.cents \in Nat
    BY <2>1, <2>2
  <2> QED
    BY <2>1, <2>3
<1>2. JudgedRight(p, rs, next)
  BY <1>1 DEF JudgedRight
<1>3. ASSUME NEW row \in BookRows PROVE JudgedRight(p, Append(rs, row), next)
  <2> DEFINE new == Append(rs, row)
  <2>1. new \in Seq(BookRows) /\ Len(new) = Len(rs) + 1
    OBVIOUS
  <2>2. p.seen <= Len(rs) => SubSeq(new, 1, p.seen) = SubSeq(rs, 1, p.seen)
    BY <1>1
  <2>3. Promises!Covered(p, rs) = Received(p, rs) /\ Promises!Covered(p, new) = Received(p, new)
    BY <2>1, CoveredIsReceived
  <2>4. Received(p, rs) \in Nat /\ Received(p, new) \in Nat /\ Received(p, rs) <= Received(p, new)
    BY ReceivedGrows
  <2> HIDE DEF new
  <2>5. p.status = "kept" => Promises!Covered(p, new) >= p.cents
    <3> SUFFICES ASSUME p.status = "kept" PROVE Promises!Covered(p, new) >= p.cents
      OBVIOUS
    <3>1. Received(p, rs) >= p.cents
      BY <2>3 DEF JudgedRight
    <3>2. Received(p, new) >= p.cents
      BY <1>1, <2>4, <3>1
    <3> QED
      BY <2>3, <3>2
  <2>6. p.status = "broken" => /\ p.due < next /\ p.seen <= Len(new)
                               /\ Promises!Covered(p, SubSeq(new, 1, p.seen)) < p.cents
    <3> SUFFICES ASSUME p.status = "broken"
                 PROVE  /\ p.due < next /\ p.seen <= Len(new)
                        /\ Promises!Covered(p, SubSeq(new, 1, p.seen)) < p.cents
      OBVIOUS
    <3>1. /\ p.due < next /\ p.seen <= Len(rs)
          /\ Promises!Covered(p, SubSeq(rs, 1, p.seen)) < p.cents
      BY <1>2 DEF JudgedRight
    <3>2. p.seen <= Len(new)
      BY <1>1, <2>1, <3>1
    <3> QED
      BY <2>2, <3>1, <3>2
  <2>7. JudgedRight(p, new, next)
    BY <2>5, <2>6 DEF JudgedRight
  <2> QED
    BY <2>7 DEF new
<1> QED
  BY <1>2, <1>3

(* The types of the promises.                                               *)
PromisesTyped ==
    /\ deskDay \in Nat /\ insolvent = {}
    /\ books \in [{Debtor} -> Seq(BookRows)]
    /\ promises \in Seq(PromiseRows) /\ doubled \in BOOLEAN
    /\ DOMAIN desk = Clerks
    /\ \A s \in Clerks : /\ desk[s].op # "fee"
                         /\ desk[s].op = "promise" => desk[s].cents \in Promised /\ desk[s].due \in Nat
                         /\ desk[s].op = "judge" => \A k \in DOMAIN desk[s].rows :
                              desk[s].rows[k] \in PromiseRows /\ desk[s].rows[k].status # "open"

(* Every judgement, stored or about to be, is right.                        *)
JudgementsRight ==
    /\ \A k \in 1..Len(promises) : JudgedRight(promises[k], books[Debtor], deskDay)
    /\ \A s \in Clerks : desk[s].op = "judge" => \A k \in DOMAIN desk[s].rows :
         JudgedRight(desk[s].rows[k], books[Debtor], deskDay)

(* One promise is open, and none while another is being made.               *)
OneOpen ==
    ~doubled =>
        /\ \A j, k \in 1..Len(promises) :
             promises[j].status = "open" /\ promises[k].status = "open" => j = k
        /\ \A s \in Clerks : desk[s].op = "promise" => Promises!NoneOpen

(* The inductive invariant of the promises.                                 *)
PromisesInv == PromisesTyped /\ JudgementsRight /\ OneOpen

(* The invariant contains what is promised of promises.                     *)
LEMMA PromisesSound == ASSUME PromisesInv PROVE Promises!PromisesAreJudgedByCash
<1> DEFINE open == {k \in 1..Len(promises) : promises[k].status = "open"}
<1>1. ASSUME ~doubled PROVE Cardinality(open) <= 1
  <2>1. \A j, k \in open : j = k
    BY <1>1 DEF PromisesInv, OneOpen
  <2>2. CASE open = {}
    BY <2>2, FS_EmptySet
  <2>3. CASE open # {}
    <3>1. PICK k \in open : open = {k}
      BY <2>1, <2>3
    <3>2. Cardinality({k}) = 1
      BY FS_Singleton
    <3>3. Cardinality(open) = 1
      BY <3>1, <3>2
    <3> HIDE DEF open
    <3> QED
      BY <3>3
  <2> QED
    BY <2>2, <2>3
<1>2. ASSUME NEW k \in 1..Len(promises)
      PROVE  /\ promises[k].status = "kept" =>
                  Promises!Covered(promises[k], books[Debtor]) >= promises[k].cents
             /\ promises[k].status = "broken" =>
                  /\ promises[k].due < deskDay
                  /\ Promises!Covered(promises[k], SubSeq(books[Debtor], 1, promises[k].seen))
                       < promises[k].cents
  BY DEF PromisesInv, JudgementsRight, JudgedRight
<1>3. \A k \in 1..Len(promises) : LET p == promises[k] IN
        /\ p.status = "kept" => Promises!Covered(p, books[Debtor]) >= p.cents
        /\ p.status = "broken" =>
               /\ p.due < deskDay
               /\ Promises!Covered(p, SubSeq(books[Debtor], 1, p.seen)) < p.cents
  BY <1>2
<1> QED
  <2>1. ~doubled => Cardinality({k \in 1..Len(promises) : promises[k].status = "open"}) <= 1
    BY <1>1
  <2>2. \A S : Promises!Cardinality(S) = Cardinality(S)
    BY DEF Promises!Cardinality, Cardinality, Promises!IsFiniteSet, IsFiniteSet
  <2> QED
    BY ONLY <1>3, <2>1, <2>2 DEF Promises!PromisesAreJudgedByCash

LEMMA PromisesInitHolds == ASSUME Promises!Init PROVE PromisesInv
<1> USE DEF Promises!Init
<1>1. PromisesTyped
  <2>1. insolvent = {} /\ deskDay \in Nat /\ doubled \in BOOLEAN /\ promises \in Seq(PromiseRows)
    <3>1. insolvent \in SUBSET {}
      BY ONLY Promises!Init DEF Promises!Init
    <3>2. deskDay = 0 /\ doubled = FALSE /\ promises = << >>
      BY ONLY Promises!Init DEF Promises!Init
    <3> HIDE DEF Promises!Init
    <3>3. insolvent = {}
      BY <3>1
    <3>4. << >> \in Seq(PromiseRows)
      OBVIOUS
    <3> QED
      BY <3>2, <3>3, <3>4
  <2>2. books \in [{Debtor} -> Seq(BookRows)]
    OBVIOUS
  <2>3. DOMAIN desk = Clerks /\ \A s \in Clerks : desk[s].op = "idle"
    BY DEF Promises!Idle
  <2> HIDE DEF Promises!Init
  <2> QED
    BY <2>1, <2>2, <2>3 DEF PromisesTyped
<1>2. JudgementsRight /\ OneOpen
  BY DEF JudgementsRight, OneOpen, Promises!Idle
<1> QED
  BY <1>1, <1>2 DEF PromisesInv

(* What a judge writes down is right.                                       *)
LEMMA VerdictRight ==
    ASSUME Promises!WorkAssumption, deskDay \in Nat, NEW p \in PromiseRows,
           NEW rs \in Seq(BookRows), Promises!Verdict(p, rs) # "open", NEW q,
           q = [p EXCEPT !.status = Promises!Verdict(p, rs), !.seen = Len(rs)]
    PROVE  q \in PromiseRows /\ q.status # "open" /\ JudgedRight(q, rs, deskDay)
<1>1. Promises!Verdict(p, rs) \in {"kept", "broken"} /\ Len(rs) \in Nat
  BY DEF Promises!Verdict
<1>2. /\ q \in PromiseRows /\ q.status = Promises!Verdict(p, rs) /\ q.seen = Len(rs)
      /\ q.made = p.made /\ q.due = p.due /\ q.cents = p.cents
  BY <1>1 DEF PromiseRows
<1>3. Promises!Covered(q, rs) = Received(q, rs) /\ Promises!Covered(p, rs) = Received(p, rs)
  BY CoveredIsReceived
<1>4. Window(q, rs) = Window(p, rs)
  BY <1>2 DEF Window
<1>5. Promises!Covered(q, rs) = Promises!Covered(p, rs)
  BY <1>3, <1>4 DEF Received
<1>6. Promises!Covered(p, rs) \in Nat
  BY <1>3, WindowFinite, SumShrinks DEF Received
<1>7. p.cents \in Nat /\ p.due \in Nat
  <2>1. p.cents \in Promised /\ p.due \in Nat
    BY DEF PromiseRows
  <2>2. Promised \subseteq Nat
    BY DEF Promises!WorkAssumption
  <2> QED
    BY <2>1, <2>2
<1>8. SubSeq(rs, 1, Len(rs)) = rs
  OBVIOUS
<1>9. q.status = "kept" => Promises!Covered(q, rs) >= q.cents
  BY <1>2, <1>5 DEF Promises!Verdict
<1>10. q.status = "broken" => /\ q.due < deskDay /\ q.seen <= Len(rs)
                              /\ Promises!Covered(q, SubSeq(rs, 1, q.seen)) < q.cents
  <2> SUFFICES ASSUME q.status = "broken"
               PROVE  /\ q.due < deskDay /\ q.seen <= Len(rs)
                      /\ Promises!Covered(q, SubSeq(rs, 1, q.seen)) < q.cents
    OBVIOUS
  <2>1. ~ Promises!Covered(p, rs) >= p.cents /\ Promises!IsPast(p)
    BY <1>2 DEF Promises!Verdict
  <2>2. p.due < deskDay
    BY <2>1 DEF Promises!IsPast
  <2>3. Promises!Covered(p, rs) < p.cents
    BY <1>6, <1>7, <2>1
  <2>4. q.seen <= Len(rs) /\ SubSeq(rs, 1, q.seen) = rs
    BY <1>1, <1>2, <1>8
  <2> QED
    BY <1>2, <1>5, <2>2, <2>3, <2>4
<1> QED
  BY <1>1, <1>2, <1>9, <1>10 DEF JudgedRight

(* Every step of the desk keeps the promises' invariant.                    *)
LEMMA PromisesStepKeeps == ASSUME Promises!WorkAssumption, PromisesInv, Promises!Next PROVE PromisesInv'
<1> USE DEF PromisesInv
<1>0. books[Debtor] \in Seq(BookRows) /\ deskDay \in Nat
  BY DEF PromisesTyped
<1>1. CASE Promises!Tick
  <2>1. /\ deskDay' = deskDay + 1 /\ (\A s \in Clerks : desk[s] = Promises!Idle)
        /\ UNCHANGED <<insolvent, books, markers, promises, doubled, desk>>
    BY <1>1 DEF Promises!Tick
  <2>2. PromisesTyped'
    BY <2>1 DEF PromisesTyped
  <2>3. \A k \in 1..Len(promises) : JudgedRight(promises[k], books[Debtor], deskDay')
    <3> SUFFICES ASSUME NEW k \in 1..Len(promises)
                 PROVE  JudgedRight(promises[k], books[Debtor], deskDay')
      OBVIOUS
    <3>1. promises[k] \in PromiseRows /\ JudgedRight(promises[k], books[Debtor], deskDay)
      BY DEF PromisesTyped, JudgementsRight
    <3>2. deskDay' \in Nat /\ deskDay <= deskDay'
      BY <1>0, <2>1
    <3> QED
      BY <1>0, <3>1, <3>2, JudgementStands
  <2>4. JudgementsRight'
    BY <2>1, <2>3 DEF JudgementsRight, Promises!Idle
  <2>5. OneOpen'
    BY <2>1 DEF OneOpen, Promises!NoneOpen
  <2> QED
    BY <2>2, <2>4, <2>5
<1>2. ASSUME NEW l \in {}, Promises!SetInsolvency(l) PROVE PromisesInv'
  BY <1>2
<1>3. ASSUME NEW l \in {Debtor}, Promises!Pay(l) PROVE PromisesInv'
  <2>1. PICK cents \in Paid, day \in {deskDay} \cup {d \in Promises!Days : d + 1 = deskDay} :
          books' = [books EXCEPT ![l] = Append(@, [kind |-> "payment", cents |-> cents, day |-> day])]
    BY <1>3 DEF Promises!Pay
  <2> DEFINE row == [kind |-> "payment", cents |-> cents, day |-> day]
  <2>2. row \in BookRows
    BY <1>0 DEF BookRows, Promises!Days
  <2> HIDE DEF row
  <2>3. books' = [books EXCEPT ![Debtor] = Append(books[Debtor], row)] /\ books \in [{Debtor} -> Seq(BookRows)]
    BY <2>1 DEF row, PromisesTyped
  <2>4. books'[Debtor] = Append(books[Debtor], row) /\ books' \in [{Debtor} -> Seq(BookRows)]
    BY <2>2, <2>3
  <2>5. UNCHANGED <<deskDay, insolvent, markers, promises, doubled, desk>>
    BY <1>3 DEF Promises!Pay
  <2>6. PromisesTyped'
    BY <2>4, <2>5 DEF PromisesTyped
  <2>7. \A k \in 1..Len(promises) : JudgedRight(promises[k], books'[Debtor], deskDay)
    <3> SUFFICES ASSUME NEW k \in 1..Len(promises)
                 PROVE  JudgedRight(promises[k], books'[Debtor], deskDay)
      OBVIOUS
    <3>1. promises[k] \in PromiseRows /\ JudgedRight(promises[k], books[Debtor], deskDay)
      BY DEF PromisesTyped, JudgementsRight
    <3>2. deskDay <= deskDay
      BY <1>0
    <3> QED
      BY <1>0, <2>2, <2>4, <3>1, <3>2, JudgementStands
  <2>8. \A s \in Clerks : desk[s].op = "judge" => \A k \in DOMAIN desk[s].rows :
          JudgedRight(desk[s].rows[k], books'[Debtor], deskDay)
    <3> SUFFICES ASSUME NEW s \in Clerks, desk[s].op = "judge", NEW k \in DOMAIN desk[s].rows
                 PROVE  JudgedRight(desk[s].rows[k], books'[Debtor], deskDay)
      OBVIOUS
    <3>1. desk[s].rows[k] \in PromiseRows /\ JudgedRight(desk[s].rows[k], books[Debtor], deskDay)
      BY DEF PromisesTyped, JudgementsRight
    <3>2. deskDay <= deskDay
      BY <1>0
    <3> QED
      BY <1>0, <2>2, <2>4, <3>1, <3>2, JudgementStands
  <2>9. JudgementsRight'
    BY <2>5, <2>7, <2>8 DEF JudgementsRight
  <2>10. OneOpen'
    BY <2>5 DEF OneOpen, Promises!NoneOpen
  <2> QED
    BY <2>6, <2>9, <2>10
<1>4. ASSUME NEW s \in Clerks, Promises!ReadFee(s) \/ Promises!ChargeFees(s) PROVE PromisesInv'
  BY <1>4 DEF Promises!ReadFee, Promises!ChargeFees, PromisesTyped
<1>5. ASSUME NEW s \in Clerks, Promises!ReadPromise(s) PROVE PromisesInv'
  <2>0. Promises!ReadPromise(s)
    BY <1>5
  <2>1. PICK cents \in Promised, due \in deskDay..PromiseHorizon :
          desk' = [desk EXCEPT ![s] = [op |-> "promise", cents |-> cents, due |-> due]]
    BY ONLY <2>0 DEF Promises!ReadPromise
  <2>2. UNCHANGED <<deskDay, insolvent, books, markers, promises, doubled>> /\ Promises!NoneOpen
    BY <1>5 DEF Promises!ReadPromise
  <2>3. due \in Nat
    BY <1>0
  <2>4. PromisesTyped'
    BY <2>1, <2>2, <2>3 DEF PromisesTyped
  <2>5. JudgementsRight'
    BY <2>1, <2>2 DEF PromisesTyped, JudgementsRight
  <2>6. OneOpen'
    BY <2>2 DEF OneOpen, Promises!NoneOpen
  <2> QED
    BY <2>4, <2>5, <2>6
<1>6. ASSUME NEW s \in Clerks, Promises!AddPromise(s) PROVE PromisesInv'
  <2> DEFINE new == [cents |-> desk[s].cents, due |-> desk[s].due, made |-> deskDay,
                     status |-> "open", seen |-> 0]
             n == Len(promises)
  <2>1. /\ desk[s].op = "promise" /\ promises' = Append(promises, new)
        /\ doubled' = (doubled \/ \E t \in Clerks \ {s} : desk[t].op = "promise")
        /\ desk' = [desk EXCEPT ![s] = Promises!Idle]
        /\ UNCHANGED <<deskDay, insolvent, books, markers>>
    BY <1>6 DEF Promises!AddPromise, Promises!Give
  <2>2. new \in PromiseRows /\ new.status = "open"
    BY <1>0, <2>1 DEF PromisesTyped, PromiseRows
  <2> HIDE DEF new
  <2>3. /\ promises' \in Seq(PromiseRows) /\ Len(promises') = n + 1 /\ promises'[n + 1] = new
        /\ n \in Nat /\ \A k \in 1..n : promises'[k] = promises[k]
        /\ \A k \in 1..Len(promises') : k \in 1..n \/ k = n + 1
    BY <2>1, <2>2 DEF PromisesTyped
  <2>4. DOMAIN desk' = Clerks /\ desk'[s].op = "idle" /\ \A t \in Clerks : t # s => desk'[t] = desk[t]
    BY <2>1 DEF PromisesTyped, Promises!Idle
  <2>5. PromisesTyped'
    BY <2>1, <2>3, <2>4 DEF PromisesTyped
  <2>6. JudgementsRight'
    <3>1. JudgedRight(new, books[Debtor], deskDay)
      BY <2>2 DEF JudgedRight
    <3> QED
      BY <2>1, <2>3, <2>4, <3>1 DEF JudgementsRight
  <2>7. OneOpen'
    <3> SUFFICES ASSUME ~doubled'
                 PROVE  /\ \A j, k \in 1..Len(promises') :
                             promises'[j].status = "open" /\ promises'[k].status = "open" => j = k
                        /\ \A t \in Clerks : desk'[t].op = "promise" => Promises!NoneOpen'
      BY DEF OneOpen
    <3>1. ~doubled /\ \A t \in Clerks : t # s => desk[t].op # "promise"
      BY <2>1
    <3>2. \A k \in 1..n : promises[k].status # "open"
      BY <2>1, <3>1 DEF OneOpen, Promises!NoneOpen
    <3>3. \A k \in 1..n : promises'[k].status # "open"
      BY <2>3, <3>2
    <3> QED
      BY <2>3, <2>4, <3>1, <3>3
  <2> QED
    BY <2>5, <2>6, <2>7
<1>7. ASSUME NEW s \in Clerks, Promises!ReadPromises(s) PROVE PromisesInv'
  <2>1. UNCHANGED <<deskDay, insolvent, books, markers, promises, doubled>>
    BY <1>7 DEF Promises!ReadPromises
  <2>2. \E rs : /\ desk' = [desk EXCEPT ![s] = [op |-> "judge", rows |-> rs]]
                /\ \A k \in DOMAIN rs : /\ rs[k] \in PromiseRows /\ rs[k].status # "open"
                                        /\ JudgedRight(rs[k], books[Debtor], deskDay)
    <3>1. CASE desk' = [desk EXCEPT ![s] = [op |-> "judge", rows |-> Promises!Judged(books[Debtor])]]
      <4> DEFINE rs == Promises!Judged(books[Debtor])
      <4>1. ASSUME NEW k \in DOMAIN rs
            PROVE  rs[k] \in PromiseRows /\ rs[k].status # "open" /\ JudgedRight(rs[k], books[Debtor], deskDay)
        <5>1. /\ k \in 1..Len(promises) /\ Promises!Verdict(promises[k], books[Debtor]) # "open"
              /\ rs[k] = [promises[k] EXCEPT !.status = Promises!Verdict(promises[k], books[Debtor]),
                             !.seen = Len(books[Debtor])]
          BY <4>1 DEF Promises!Judged
        <5>2. promises[k] \in PromiseRows
          BY <5>1 DEF PromisesTyped
        <5> HIDE DEF rs
        <5> QED
          BY <1>0, <5>1, <5>2, VerdictRight
      <4> HIDE DEF rs
      <4> QED
        BY <3>1, <4>1 DEF rs
    <3>2. ASSUME NEW k \in 1..Len(promises),
                 desk' = [desk EXCEPT ![s] = [op |-> "judge", rows |->
                            [j \in {k} |-> [promises[k] EXCEPT !.status = "cancelled"]]]]
          PROVE  \E rs : /\ desk' = [desk EXCEPT ![s] = [op |-> "judge", rows |-> rs]]
                         /\ \A j \in DOMAIN rs : /\ rs[j] \in PromiseRows /\ rs[j].status # "open"
                                                 /\ JudgedRight(rs[j], books[Debtor], deskDay)
      <4> DEFINE q == [promises[k] EXCEPT !.status = "cancelled"]
                 rs == [j \in {k} |-> q]
      <4>1. promises[k] \in PromiseRows
        BY DEF PromisesTyped
      <4>2. q \in PromiseRows /\ q.status = "cancelled"
        BY <4>1 DEF PromiseRows
      <4> HIDE DEF q
      <4>3. JudgedRight(q, books[Debtor], deskDay)
        BY <4>2 DEF JudgedRight
      <4>4. \A j \in DOMAIN rs : rs[j] = q
        OBVIOUS
      <4>5. desk' = [desk EXCEPT ![s] = [op |-> "judge", rows |-> rs]]
        BY <3>2 DEF q
      <4> HIDE DEF rs
      <4> QED
        BY <4>2, <4>3, <4>4, <4>5
    <3> QED
      BY <1>7, <3>1, <3>2 DEF Promises!ReadPromises
  <2>3. PICK rs : /\ desk' = [desk EXCEPT ![s] = [op |-> "judge", rows |-> rs]]
                  /\ \A k \in DOMAIN rs : /\ rs[k] \in PromiseRows /\ rs[k].status # "open"
                                          /\ JudgedRight(rs[k], books[Debtor], deskDay)
    BY <2>2
  <2>4. /\ DOMAIN desk' = Clerks /\ desk'[s] = [op |-> "judge", rows |-> rs]
        /\ \A t \in Clerks : t # s => desk'[t] = desk[t]
    BY <2>3 DEF PromisesTyped
  <2>5. PromisesTyped'
    BY <2>1, <2>3, <2>4 DEF PromisesTyped
  <2>6. JudgementsRight'
    BY <2>1, <2>3, <2>4 DEF JudgementsRight
  <2>7. OneOpen'
    BY <2>1, <2>4 DEF OneOpen, Promises!NoneOpen
  <2> QED
    BY <2>5, <2>6, <2>7
<1>8. ASSUME NEW s \in Clerks, Promises!WritePromises(s) PROVE PromisesInv'
  <2> DEFINE judged == desk[s].rows
  <2>1. /\ desk[s].op = "judge" /\ desk' = [desk EXCEPT ![s] = Promises!Idle]
        /\ promises' = [k \in 1..Len(promises) |-> IF k \in DOMAIN judged THEN judged[k] ELSE promises[k]]
        /\ UNCHANGED <<deskDay, insolvent, books, markers, doubled>>
    BY <1>8 DEF Promises!WritePromises, Promises!Give
  <2>2. \A k \in DOMAIN judged : /\ judged[k] \in PromiseRows /\ judged[k].status # "open"
                                 /\ JudgedRight(judged[k], books[Debtor], deskDay)
    BY <2>1 DEF PromisesTyped, JudgementsRight
  <2>3. /\ promises' \in Seq(PromiseRows) /\ Len(promises') = Len(promises)
        /\ \A k \in 1..Len(promises) : promises'[k] = IF k \in DOMAIN judged THEN judged[k] ELSE promises[k]
    <3>1. Len(promises) \in Nat /\ \A k \in 1..Len(promises) : promises[k] \in PromiseRows
      BY DEF PromisesTyped
    <3> QED
      BY <2>1, <2>2, <3>1
  <2>4. DOMAIN desk' = Clerks /\ desk'[s].op = "idle" /\ \A t \in Clerks : t # s => desk'[t] = desk[t]
    BY <2>1 DEF PromisesTyped, Promises!Idle
  <2> HIDE DEF judged
  <2>5. PromisesTyped'
    BY <2>1, <2>3, <2>4 DEF PromisesTyped
  <2>6. JudgementsRight'
    BY <2>1, <2>2, <2>3, <2>4 DEF JudgementsRight
  <2>7. \A k \in 1..Len(promises) : promises'[k].status = "open" => promises[k].status = "open"
    BY <2>2, <2>3
  <2>8. OneOpen'
    BY <2>1, <2>3, <2>4, <2>7 DEF OneOpen, Promises!NoneOpen
  <2> QED
    BY <2>5, <2>6, <2>8
<1> QED
  BY <1>1, <1>2, <1>3, <1>4, <1>5, <1>6, <1>7, <1>8 DEF Promises!Next


----------------------------------------------------------------------------
(* Month-end buckets: the fillings of a plan and the receipts of a day, the *)
(* same for the two lanes.                                                  *)

Plan     == 1..Len(Due)
PlanDays == [i \in Plan |-> i]
Marks    == {"open", "paid", "suspended"}
ItemRows == [paid : 0..Total, status : Marks]
Least(a, b) == IF a < b THEN a ELSE b

(* The fold of Fill, over sets of installments.                             *)
FillStep(rs, skip, acc, i) ==
    LET room == IF rs[i].status \in skip \/ acc.left = 0 THEN 0 ELSE Total - acc.paid[i]
        part == Least(room, acc.left)
    IN  [left |-> acc.left - part, paid |-> [acc.paid EXCEPT ![i] = @ + part]]
FillBase(rs, cents) == [left |-> cents, paid |-> [i \in Plan |-> rs[i].paid]]
IsFill(iter, rs, cents, skip) ==
    iter = [s \in SUBSET DOMAIN PlanDays |->
              IF s = {} THEN FillBase(rs, cents)
              ELSE FillStep(rs, skip, iter[s \ {Top(s)}], PlanDays[Top(s)])]
FillOf(rs, cents, skip) == CHOOSE iter : IsFill(iter, rs, cents, skip)
FilledPlan(rs, cents, skip) == FillOf(rs, cents, skip)[Plan].paid

(* Both lanes fill the plan by that fold.                                   *)
LEMMA FillIs ==
    ASSUME NEW rs, NEW cents, NEW skip
    PROVE  /\ Estates!Fill(rs, cents, skip) = FilledPlan(rs, cents, skip)
           /\ Plans!Fill(rs, cents, skip) = FilledPlan(rs, cents, skip)
<1>1. DOMAIN PlanDays = Plan
  BY DEF PlanDays
<1>2. Estates!Fill(rs, cents, skip) = FillOf(rs, cents, skip)[DOMAIN PlanDays].paid
  BY DEF Estates!Fill, Estates!FoldLeft, Estates!MapThenFoldSet, Estates!Max, Estates!Items,
         Estates!Minimum, FillOf, IsFill, FillStep, FillBase, PlanDays, Plan, Top, Least
<1>3. Plans!Fill(rs, cents, skip) = FillOf(rs, cents, skip)[DOMAIN PlanDays].paid
  BY DEF Plans!Fill, Plans!FoldLeft, Plans!MapThenFoldSet, Plans!Max, Plans!Items,
         Plans!Minimum, FillOf, IsFill, FillStep, FillBase, PlanDays, Plan, Top, Least
<1> QED
  BY <1>1, <1>2, <1>3 DEF FilledPlan

(* What an installment takes of what is left.                               *)
Takes(row, skip, left, paid) == IF row.status \in skip THEN 0 ELSE Least(Total - paid, left)
Accs == [left : Nat, paid : [Plan -> 0..Total]]
Took(acc, i, p) == [left |-> acc.left - p, paid |-> [acc.paid EXCEPT ![i] = acc.paid[i] + p]]

LEMMA FillStepIs ==
    ASSUME Total \in Nat, NEW rs, NEW skip, NEW acc \in Accs, NEW i \in Plan,
           NEW p, p = Takes(rs[i], skip, acc.left, acc.paid[i])
    PROVE  /\ p \in Nat /\ acc.left - p \in Nat /\ acc.paid[i] + p \in 0..Total
           /\ FillStep(rs, skip, acc, i) = Took(acc, i, p)
           /\ FillStep(rs, skip, acc, i) \in Accs
<1>1. PICK l \in Nat, d \in [Plan -> 0..Total] : l = acc.left /\ d = acc.paid
  BY DEF Accs
<1>2. PICK x \in 0..Total : x = d[i]
  OBVIOUS
<1>3. p \in Nat /\ l - p \in Nat /\ x + p \in 0..Total
  BY <1>1, <1>2 DEF Takes, Least
<1>4. p = Least(IF rs[i].status \in skip \/ acc.left = 0 THEN 0 ELSE Total - acc.paid[i], acc.left)
  BY <1>1, <1>2 DEF Takes, Least
<1>5. FillStep(rs, skip, acc, i) = Took(acc, i, p)
  BY <1>4 DEF FillStep, Took
<1>6. [d EXCEPT ![i] = x + p] \in [Plan -> 0..Total]
  BY <1>3
<1> QED
  BY <1>1, <1>2, <1>3, <1>5, <1>6 DEF Accs, Took

(* The filling, one installment after the other: left[i] is what is left of *)
(* the cents after installment i.                                           *)
Leaves(left, rs, cents, skip) ==
    /\ left[0] = cents
    /\ \A i \in Plan :
         LET p == Takes(rs[i], skip, left[i - 1], rs[i].paid)
         IN  /\ left[i] = left[i - 1] - p /\ p \in Nat
             /\ FilledPlan(rs, cents, skip)[i] = rs[i].paid + p
Fills(rs, cents, skip, n) ==
    /\ FilledPlan(rs, cents, skip) \in [Plan -> 0..Total]
    /\ \E left \in [0..n -> Nat] : Leaves(left, rs, cents, skip)

LEMMA FillByLeft ==
    ASSUME Total \in Nat, NEW n \in Nat, n = Len(Due), NEW rs, NEW cents \in Nat, NEW skip,
           \A i \in Plan : rs[i].paid \in 0..Total
    PROVE  Fills(rs, cents, skip, n)
<1> DEFINE base == FillBase(rs, cents)
           g == [x \in Accs \X Plan |-> FillStep(rs, skip, x[1], x[2])]
           iter == FillOf(rs, cents, skip)
<1>1. Plan = 1..n /\ DOMAIN PlanDays = Plan /\ \A i \in Plan : PlanDays[i] = i
  BY DEF Plan, PlanDays
<1>2. base \in Accs
  BY DEF FillBase, Accs
<1>3. \A w \in Accs, k \in 1..n : g[<<w, k>>] = FillStep(rs, skip, w, k)
  BY <1>1
<1>4. \A w \in Accs, k \in 1..n : g[<<w, k>>] \in Accs
  BY <1>1, <1>3, FillStepIs
<1>5. \E f : IsFill(f, rs, cents, skip)
  <2> HIDE DEF base, g
  <2>1. PICK f \in [SUBSET (1..n) -> Accs] : Folds(f, base, g, n)
    BY <1>2, <1>4, FoldExists
  <2>2. ASSUME NEW s \in SUBSET (1..n)
        PROVE  f[s] = IF s = {} THEN FillBase(rs, cents)
                      ELSE FillStep(rs, skip, f[s \ {Top(s)}], PlanDays[Top(s)])
    <3>1. f[s] = IF s = {} THEN base ELSE g[<<f[s \ {Top(s)}], Top(s)>>]
      BY <2>1 DEF Folds
    <3>2. CASE s = {}
      BY <3>1, <3>2 DEF base
    <3>3. CASE s # {}
      <4>1. Top(s) \in 1..n
        <5>1. PICK x \in s : \A y \in s : y <= x
          BY <3>3, GreatestStands
        <5>2. \A y \in s : x >= y
          BY <5>1
        <5> QED
          BY <5>2 DEF Top
      <4>2. f[s \ {Top(s)}] \in Accs
        OBVIOUS
      <4>3. f[s] = FillStep(rs, skip, f[s \ {Top(s)}], Top(s))
        BY <1>3, <3>1, <3>3, <4>1, <4>2
      <4> QED
        BY <1>1, <3>3, <4>1, <4>3
    <3> QED
      BY <3>2, <3>3
  <2>3. f = [s \in SUBSET (1..n) |-> f[s]]
    OBVIOUS
  <2>4. IsFill(f, rs, cents, skip)
    BY <1>1, <2>2, <2>3 DEF IsFill
  <2> QED
    BY <2>4
<1>6. IsFill(iter, rs, cents, skip)
  BY <1>5 DEF FillOf
<1> HIDE DEF iter
<1> DEFINE acc == [k \in 0..n |-> iter[1..k]]
<1>7. \A s \in SUBSET (1..n) :
        iter[s] = IF s = {} THEN base ELSE FillStep(rs, skip, iter[s \ {Top(s)}], PlanDays[Top(s)])
  BY <1>1, <1>6 DEF IsFill
<1> HIDE DEF base, g
<1>8. acc[0] = base
  <2>1. 1..0 = {} /\ {} \in SUBSET (1..n) /\ 0 \in 0..n
    OBVIOUS
  <2> QED
    BY <1>7, <2>1
<1>9. \A k \in 1..n : acc[k] = FillStep(rs, skip, acc[k - 1], k)
  <2> TAKE k \in 1..n
  <2>1. k \in Nat \ {0} /\ 1..k \in SUBSET (1..n) /\ k - 1 \in 0..n /\ k \in 0..n
    OBVIOUS
  <2>2. iter[1..k] = FillStep(rs, skip, iter[1..(k - 1)], PlanDays[k])
    BY <1>7, <2>1, TopOfInterval
  <2> QED
    BY <1>1, <2>1, <2>2
<1> HIDE DEF acc
<1> DEFINE Fit(k) ==
             /\ acc[k] \in Accs
             /\ \A i \in Plan : i > k => acc[k].paid[i] = rs[i].paid
           Done(k) == \A i \in Plan : i <= k => acc[k].paid[i] = acc[i].paid[i]
           Fits  == {k \in Nat : Fit(k)}
           Dones == {k \in Nat : Done(k)}
<1>10. \A k \in 0..n : Fit(k)
  <2>1. 0 \in Fits
    BY <1>1, <1>2, <1>8 DEF base, FillBase
  <2>2. ASSUME NEW k \in 1..n, k - 1 \in Fits PROVE k \in Fits
    <3>1. PICK w \in Accs : w = acc[k - 1]
      BY <2>2
    <3>2. PICK p : p = Takes(rs[k], skip, w.left, w.paid[k])
      OBVIOUS
    <3>3. acc[k] = Took(w, k, p) /\ acc[k] \in Accs
      <4>1. acc[k] = FillStep(rs, skip, w, k) /\ k \in Plan
        BY <1>1, <1>9, <3>1
      <4>2. FillStep(rs, skip, w, k) = Took(w, k, p) /\ FillStep(rs, skip, w, k) \in Accs
        BY <3>2, <4>1, FillStepIs
      <4> QED
        BY <4>1, <4>2
    <3>4. w.paid \in [Plan -> 0..Total]
      BY DEF Accs
    <3>5. \A i \in Plan : i > k => acc[k].paid[i] = rs[i].paid
      <4> SUFFICES ASSUME NEW i \in Plan, i > k PROVE acc[k].paid[i] = rs[i].paid
        OBVIOUS
      <4>1. i > k - 1 /\ i # k
        BY <1>1
      <4>2. acc[k].paid[i] = w.paid[i]
        BY <3>3, <3>4, <4>1 DEF Took
      <4> QED
        BY <2>2, <3>1, <4>1, <4>2
    <3>6. Fit(k)
      BY <3>3, <3>5
    <3>7. k \in Nat
      OBVIOUS
    <3> QED
      BY <3>6, <3>7
  <2> HIDE DEF Fits
  <2>3. \A k \in 0..n : k \in Fits
    BY <2>1, <2>2, UpFromZero
  <2> QED
    BY <2>3 DEF Fits
<1>11. \A k \in 1..n : LET p == Takes(rs[k], skip, acc[k - 1].left, rs[k].paid)
                       IN  /\ p \in Nat
                           /\ acc[k] = Took(acc[k - 1], k, p)
                           /\ acc[k - 1].paid[k] = rs[k].paid
  <2> TAKE k \in 1..n
  <2>1. PICK w \in Accs : w = acc[k - 1] /\ w.paid[k] = rs[k].paid
    BY <1>1, <1>10
  <2>2. PICK p : p = Takes(rs[k], skip, w.left, w.paid[k])
    OBVIOUS
  <2>3. acc[k] = Took(w, k, p) /\ p \in Nat
    <3>1. acc[k] = FillStep(rs, skip, w, k) /\ k \in Plan
      BY <1>1, <1>9, <2>1
    <3>2. FillStep(rs, skip, w, k) = Took(w, k, p) /\ p \in Nat
      BY <2>2, <3>1, FillStepIs
    <3> QED
      BY <3>1, <3>2
  <2> QED
    BY <2>1, <2>2, <2>3
<1>12. \A k \in 0..n : Done(k)
  <2>1. 0 \in Dones
    BY <1>1
  <2>2. ASSUME NEW k \in 1..n, k - 1 \in Dones PROVE k \in Dones
    <3>1. acc[k].paid \in [Plan -> 0..Total] /\ acc[k - 1].paid \in [Plan -> 0..Total]
      <4>1. k \in 0..n /\ k - 1 \in 0..n
        OBVIOUS
      <4> QED
        BY <1>10, <4>1 DEF Accs
    <3>2. \A i \in Plan : i # k => acc[k].paid[i] = acc[k - 1].paid[i]
      <4>1. PICK p : acc[k] = Took(acc[k - 1], k, p)
        BY <1>11
      <4> QED
        BY <3>1, <4>1 DEF Took
    <3>3. \A i \in Plan : i <= k /\ i # k => i <= k - 1
      BY <1>1
    <3>4. Done(k - 1)
      BY <2>2
    <3>5. Done(k)
      BY <3>2, <3>3, <3>4
    <3> QED
      BY <3>5
  <2> HIDE DEF Dones
  <2>3. \A k \in 0..n : k \in Dones
    BY <2>1, <2>2, UpFromZero
  <2> QED
    BY <2>3 DEF Dones
<1>13. FilledPlan(rs, cents, skip) = acc[n].paid
  BY <1>1 DEF FilledPlan, acc, iter
<1>14. \A i \in Plan : FilledPlan(rs, cents, skip)[i] = acc[i].paid[i]
  BY <1>1, <1>12, <1>13
<1> DEFINE left == [k \in 0..n |-> acc[k].left]
<1>15. left \in [0..n -> Nat] /\ left[0] = cents
  BY <1>8, <1>10 DEF Accs, base, FillBase
<1>16. ASSUME NEW i \in Plan
       PROVE  LET p == Takes(rs[i], skip, left[i - 1], rs[i].paid)
              IN  /\ left[i] = left[i - 1] - p /\ p \in Nat
                  /\ FilledPlan(rs, cents, skip)[i] = rs[i].paid + p
  <2>1. i \in 1..n /\ i \in 0..n /\ i - 1 \in 0..n
    BY <1>1
  <2>2. PICK p : p = Takes(rs[i], skip, acc[i - 1].left, rs[i].paid)
    OBVIOUS
  <2>3. /\ p \in Nat /\ acc[i] = Took(acc[i - 1], i, p)
        /\ acc[i - 1].paid[i] = rs[i].paid
    BY <1>11, <2>1, <2>2
  <2>4. acc[i - 1].paid \in [Plan -> 0..Total]
    BY <1>10, <2>1 DEF Accs
  <2>5. acc[i].left = acc[i - 1].left - p /\ acc[i].paid[i] = rs[i].paid + p
    BY <2>3, <2>4 DEF Took
  <2> QED
    BY <1>14, <2>1, <2>2, <2>3, <2>5
<1>17. FilledPlan(rs, cents, skip) \in [Plan -> 0..Total]
  BY <1>10, <1>13 DEF Accs
<1> HIDE DEF left
<1>18. Leaves(left, rs, cents, skip)
  BY <1>15, <1>16 DEF Leaves
<1> QED
  BY <1>15, <1>17, <1>18 DEF Fills

(* The receipts up to a day, as the two lanes fold them.                    *)
PayRows(Mds) == [cents : Nat, day : Nat, mode : Mds]
IsCount(iter, ps, day) ==
    iter = [s \in SUBSET DOMAIN ps |->
              IF s = {} THEN 0
              ELSE IF ps[Top(s)].day <= day THEN iter[s \ {Top(s)}] + ps[Top(s)].cents
                   ELSE iter[s \ {Top(s)}]]
CountOf(ps, day) == CHOOSE iter : IsCount(iter, ps, day)
Got(ps, day)     == CountOf(ps, day)[DOMAIN ps]
Brings(p, day)   == IF p.day <= day THEN p.cents ELSE 0

LEMMA GotIs ==
    ASSUME NEW day
    PROVE  Estates!Received(day) = Got(payments, day) /\ Plans!Received(day) = Got(payments, day)
  BY DEF Estates!Received, Estates!FoldLeft, Estates!MapThenFoldSet, Estates!Max,
         Plans!Received, Plans!FoldLeft, Plans!MapThenFoldSet, Plans!Max,
         Got, CountOf, IsCount, Top

(* The count goes up row by row.                                            *)
Counts(w, ps, day, n) ==
    /\ w[1..0] = 0 /\ Got(ps, day) = w[1..n]
    /\ \A k \in 1..n : w[1..k] = w[1..(k - 1)] + Brings(ps[k], day)
    /\ \A k \in 0..n : w[1..k] \in Nat

LEMMA CountLaw ==
    ASSUME NEW Mds, NEW ps \in Seq(PayRows(Mds)), NEW day \in Nat, NEW n \in Nat, n = Len(ps)
    PROVE  Counts(CountOf(ps, day), ps, day, n)
<1> DEFINE w == CountOf(ps, day)
<1>1. DOMAIN ps = 1..n /\ \A k \in 1..n : ps[k] \in PayRows(Mds)
  OBVIOUS
<1>2. \A k \in 1..n : Brings(ps[k], day) \in Nat /\ ps[k].cents \in Nat
  BY <1>1 DEF Brings, PayRows
<1> DEFINE g == [x \in Nat \X (1..n) |-> x[1] + Brings(ps[x[2]], day)]
<1>3. \A v \in Nat, k \in 1..n : g[<<v, k>>] = v + Brings(ps[k], day)
  OBVIOUS
<1>4. \A v \in Nat, k \in 1..n : g[<<v, k>>] \in Nat
  <2> TAKE v \in Nat, k \in 1..n
  <2>1. PICK b \in Nat : b = Brings(ps[k], day)
    BY <1>2
  <2>2. g[<<v, k>>] = v + b
    BY <1>3, <2>1
  <2> QED
    BY <2>2
<1> HIDE DEF g
<1>5. \E f : IsCount(f, ps, day)
  <2>1. PICK f \in [SUBSET (1..n) -> Nat] : Folds(f, 0, g, n)
    BY <1>4, FoldExists
  <2>2. ASSUME NEW s \in SUBSET (1..n)
        PROVE  f[s] = IF s = {} THEN 0
                      ELSE IF ps[Top(s)].day <= day THEN f[s \ {Top(s)}] + ps[Top(s)].cents
                           ELSE f[s \ {Top(s)}]
    <3>1. f[s] = IF s = {} THEN 0 ELSE g[<<f[s \ {Top(s)}], Top(s)>>]
      BY <2>1 DEF Folds
    <3>2. CASE s # {}
      <4>1. Top(s) \in 1..n
        <5>1. PICK x \in s : \A y \in s : y <= x
          BY <3>2, GreatestStands
        <5>2. \A y \in s : x >= y
          BY <5>1
        <5> QED
          BY <5>2 DEF Top
      <4>2. f[s \ {Top(s)}] \in Nat
        OBVIOUS
      <4>3. f[s] = f[s \ {Top(s)}] + Brings(ps[Top(s)], day)
        BY <1>3, <3>1, <3>2, <4>1, <4>2
      <4>4. f[s \ {Top(s)}] + 0 = f[s \ {Top(s)}]
        BY <4>2
      <4>5. f[s] = IF ps[Top(s)].day <= day THEN f[s \ {Top(s)}] + ps[Top(s)].cents
                   ELSE f[s \ {Top(s)}]
        BY <4>3, <4>4 DEF Brings
      <4> QED
        BY <3>2, <4>5
    <3> QED
      BY <3>1, <3>2
  <2>3. f = [s \in SUBSET (1..n) |-> f[s]]
    OBVIOUS
  <2>4. IsCount(f, ps, day)
    BY <1>1, <2>2, <2>3 DEF IsCount
  <2> QED
    BY <2>4
<1>6. IsCount(w, ps, day)
  BY <1>5 DEF CountOf
<1> HIDE DEF w
<1>7. \A s \in SUBSET (1..n) :
        w[s] = IF s = {} THEN 0
               ELSE IF ps[Top(s)].day <= day THEN w[s \ {Top(s)}] + ps[Top(s)].cents
                    ELSE w[s \ {Top(s)}]
  BY <1>1, <1>6 DEF IsCount
<1>8. w[1..0] = 0
  <2>1. 1..0 = {} /\ {} \in SUBSET (1..n)
    OBVIOUS
  <2> QED
    BY <1>7, <2>1
<1>9. \A k \in 1..n : /\ ps[k].day <= day => w[1..k] = w[1..(k - 1)] + ps[k].cents
                      /\ ~(ps[k].day <= day) => w[1..k] = w[1..(k - 1)]
  <2> TAKE k \in 1..n
  <2>1. k \in Nat \ {0} /\ 1..k \in SUBSET (1..n)
    OBVIOUS
  <2> QED
    BY <1>7, <2>1, TopOfInterval
<1> DEFINE S == {k \in Nat : w[1..k] \in Nat}
<1>10. \A k \in 0..n : w[1..k] \in Nat
  <2>1. 0 \in S
    BY <1>8
  <2>2. ASSUME NEW k \in 1..n, k - 1 \in S PROVE k \in S
    <3>1. w[1..(k - 1)] \in Nat /\ ps[k].cents \in Nat
      BY <1>2, <2>2
    <3>2. w[1..k] \in Nat
      BY <1>9, <3>1
    <3> QED
      BY <3>2
  <2> HIDE DEF S
  <2>3. \A k \in 0..n : k \in S
    BY <2>1, <2>2, UpFromZero
  <2> QED
    BY <2>3 DEF S
<1>11. \A k \in 1..n : w[1..k] = w[1..(k - 1)] + Brings(ps[k], day)
  <2> TAKE k \in 1..n
  <2>1. w[1..(k - 1)] \in Nat
    BY <1>10
  <2> QED
    BY <1>9, <2>1 DEF Brings
<1> QED
  BY <1>1, <1>8, <1>10, <1>11 DEF Got, w, Counts

LEMMA GotNothing ==
    ASSUME NEW Mds, NEW ps \in Seq(PayRows(Mds)), Len(ps) = 0, NEW day \in Nat
    PROVE  Got(ps, day) = 0
<1>1. PICK n \in Nat : n = Len(ps) /\ n = 0
  OBVIOUS
<1>2. Counts(CountOf(ps, day), ps, day, n)
  BY <1>1, CountLaw
<1> QED
  BY <1>1, <1>2 DEF Counts

(* A row more brings what it brings.                                        *)
LEMMA GotMore ==
    ASSUME NEW Mds, NEW ps \in Seq(PayRows(Mds)), NEW p \in PayRows(Mds), NEW day \in Nat
    PROVE  /\ Got(ps, day) \in Nat
           /\ Got(Append(ps, p), day) = Got(ps, day) + Brings(p, day)
<1>1. PICK more : more = Append(ps, p)
  OBVIOUS
<1>2. PICK n \in Nat : n = Len(ps)
  OBVIOUS
<1>3. /\ more \in Seq(PayRows(Mds)) /\ Len(more) = n + 1 /\ more[n + 1] = p
      /\ \A k \in 1..n : more[k] = ps[k]
  BY <1>1, <1>2
<1>4. PICK w, v : w = CountOf(ps, day) /\ v = CountOf(more, day)
  OBVIOUS
<1>5. /\ w[1..0] = 0 /\ Got(ps, day) = w[1..n]
      /\ \A k \in 1..n : w[1..k] = w[1..(k - 1)] + Brings(ps[k], day)
      /\ \A k \in 0..n : w[1..k] \in Nat
  <2>1. Counts(w, ps, day, n)
    BY <1>2, <1>4, CountLaw
  <2> QED
    BY <2>1 DEF Counts
<1>6. PICK m \in Nat : m = n + 1 /\ m = Len(more)
  BY <1>3
<1>7. /\ v[1..0] = 0 /\ Got(more, day) = v[1..m]
      /\ \A k \in 1..m : v[1..k] = v[1..(k - 1)] + Brings(more[k], day)
  <2>1. Counts(v, more, day, m)
    BY <1>3, <1>4, <1>6, CountLaw
  <2> QED
    BY <2>1 DEF Counts
<1> DEFINE S == {k \in Nat : v[1..k] = w[1..k]}
<1>8. 0 \in S
  BY <1>5, <1>7
<1>9. ASSUME NEW k \in 1..n, k - 1 \in S PROVE k \in S
  <2>1. k \in 1..m /\ more[k] = ps[k] /\ v[1..(k - 1)] = w[1..(k - 1)]
    BY <1>3, <1>6, <1>9
  <2>2. v[1..k] = w[1..k]
    BY <1>5, <1>7, <2>1
  <2> QED
    BY <2>2
<1> HIDE DEF S
<1>10. \A k \in 0..n : k \in S
  BY <1>8, <1>9, UpFromZero
<1>11. v[1..n] = w[1..n]
  BY <1>10 DEF S
<1>12. v[1..m] = v[1..n] + Brings(p, day)
  <2>1. m \in 1..m /\ m - 1 = n /\ more[m] = p
    BY <1>3, <1>6
  <2> QED
    BY <1>7, <2>1
<1> QED
  BY <1>1, <1>5, <1>7, <1>11, <1>12

(* Days after the last receipt have received the same.                      *)
LEMMA GotAll ==
    ASSUME NEW Mds, NEW ps \in Seq(PayRows(Mds)), NEW d \in Nat, NEW e \in Nat,
           \A k \in 1..Len(ps) : ps[k].day <= d /\ ps[k].day <= e
    PROVE  Got(ps, d) = Got(ps, e)
<1>1. PICK n \in Nat : n = Len(ps)
  OBVIOUS
<1>2. PICK w, v : w = CountOf(ps, d) /\ v = CountOf(ps, e)
  OBVIOUS
<1>3. /\ w[1..0] = 0 /\ Got(ps, d) = w[1..n]
      /\ \A k \in 1..n : w[1..k] = w[1..(k - 1)] + Brings(ps[k], d)
  <2>1. Counts(w, ps, d, n)
    BY <1>1, <1>2, CountLaw
  <2> QED
    BY <2>1 DEF Counts
<1>4. /\ v[1..0] = 0 /\ Got(ps, e) = v[1..n]
      /\ \A k \in 1..n : v[1..k] = v[1..(k - 1)] + Brings(ps[k], e)
  <2>1. Counts(v, ps, e, n)
    BY <1>1, <1>2, CountLaw
  <2> QED
    BY <2>1 DEF Counts
<1> DEFINE S == {k \in Nat : v[1..k] = w[1..k]}
<1>5. 0 \in S
  BY <1>3, <1>4
<1>6. ASSUME NEW k \in 1..n, k - 1 \in S PROVE k \in S
  <2>1. Brings(ps[k], d) = Brings(ps[k], e) /\ v[1..(k - 1)] = w[1..(k - 1)]
    BY <1>1, <1>6 DEF Brings
  <2>2. v[1..k] = w[1..k]
    BY <1>3, <1>4, <2>1
  <2> QED
    BY <2>2
<1> HIDE DEF S
<1>7. \A k \in 0..n : k \in S
  BY <1>5, <1>6, UpFromZero
<1>8. v[1..n] = w[1..n]
  BY <1>7 DEF S
<1> QED
  BY <1>3, <1>4, <1>8

(* Two plans that hold the same and skip the same installments fill alike.  *)
SamePlans(rs, rt, skip) ==
    \A i \in Plan : /\ rs[i].paid \in 0..Total /\ rt[i].paid = rs[i].paid
                    /\ rs[i].status \in skip <=> rt[i].status \in skip

LEMMA FillSame ==
    ASSUME Total \in Nat, NEW n \in Nat, n = Len(Due), NEW rs, NEW rt, NEW cents \in Nat, NEW skip,
           SamePlans(rs, rt, skip)
    PROVE  FilledPlan(rs, cents, skip) = FilledPlan(rt, cents, skip)
<1> DEFINE A == FilledPlan(rs, cents, skip)
           B == FilledPlan(rt, cents, skip)
<1>1. \A i \in Plan : rs[i].paid \in 0..Total /\ rt[i].paid \in 0..Total
  BY DEF SamePlans
<1>2. Fills(rs, cents, skip, n)
  BY <1>1, FillByLeft
<1>3. Fills(rt, cents, skip, n)
  BY <1>1, FillByLeft
<1>4. PICK left \in [0..n -> Nat] :
        /\ left[0] = cents
        /\ \A i \in Plan :
             LET p == Takes(rs[i], skip, left[i - 1], rs[i].paid)
             IN  left[i] = left[i - 1] - p /\ p \in Nat /\ A[i] = rs[i].paid + p
  BY <1>2 DEF Fills, Leaves
<1>5. PICK rest \in [0..n -> Nat] :
        /\ rest[0] = cents
        /\ \A i \in Plan :
             LET p == Takes(rt[i], skip, rest[i - 1], rt[i].paid)
             IN  rest[i] = rest[i - 1] - p /\ p \in Nat /\ B[i] = rt[i].paid + p
  BY <1>3 DEF Fills, Leaves
<1> HIDE DEF A, B
<1>6. \A i \in Plan : rest[i - 1] = left[i - 1] => rest[i] = left[i] /\ A[i] = B[i]
  <2> TAKE i \in Plan
  <2>1. Takes(rt[i], skip, left[i - 1], rt[i].paid) = Takes(rs[i], skip, left[i - 1], rs[i].paid)
    BY DEF Takes, SamePlans
  <2> QED
    BY <1>4, <1>5, <2>1 DEF SamePlans
<1> DEFINE S == {k \in Nat : rest[k] = left[k]}
<1>7. Plan = 1..n /\ \A k \in 1..n : k \in Nat /\ k - 1 \in Nat
  BY DEF Plan
<1>8. 0 \in S /\ \A k \in 1..n : k - 1 \in S => k \in S
  BY <1>4, <1>5, <1>6, <1>7
<1> HIDE DEF S
<1>9. \A k \in 0..n : k \in S
  BY <1>8, UpFromZero
<1>10. \A i \in Plan : A[i] = B[i]
  <2> TAKE i \in Plan
  <2>1. i - 1 \in 0..n
    BY <1>7
  <2> QED
    BY <1>6, <1>9, <2>1 DEF S
<1>11. A = B
  BY <1>2, <1>3, <1>10 DEF Fills, A, B
<1> QED
  BY <1>11 DEF A, B

(* What an installment holds of cash c when a plan is filled in order: the  *)
(* part of it above a, what the installments before it take.                *)
ShareAt(c, a) == IF c <= a THEN 0 ELSE IF c - a <= Total THEN c - a ELSE Total
Share(c, i)   == ShareAt(c, (i - 1) * Total)
LeftAbove(c, x, b) == IF c >= b THEN x ELSE IF c + x >= b THEN c + x - b ELSE 0

(* The arithmetic of one installment when x comes on top of c.              *)
LEMMA OneShare ==
    ASSUME Total \in Nat, NEW c \in Nat, NEW x \in Nat, NEW a \in Nat, NEW b \in Nat, b = a + Total,
           NEW l, l = LeftAbove(c, x, a), NEW p, p = Least(Total - ShareAt(c, a), l)
    PROVE  l - p = LeftAbove(c, x, b) /\ ShareAt(c, a) + p = ShareAt(c + x, a)
  BY DEF LeftAbove, Least, ShareAt

LEMMA Befores ==
    ASSUME Total \in Nat, NEW i \in Nat \ {0}
    PROVE  /\ (i - 1) * Total \in Nat /\ i * Total \in Nat /\ 0 * Total = 0
           /\ i * Total = (i - 1) * Total + Total
<1>1. \A x, y \in Nat : x * y \in Nat
  OBVIOUS
<1>2. i - 1 \in Nat
  OBVIOUS
<1> QED
  BY <1>1, <1>2

(* A payment on a plan filled in order leaves it filled in order.           *)
InOrder(rs, c) ==
    \A i \in Plan : /\ rs[i].paid \in 0..Total /\ rs[i].paid = Share(c, i)
                    /\ rs[i].status = "paid" => rs[i].paid = Total

LEMMA PayFills ==
    ASSUME Total \in Nat, NEW n \in Nat, n = Len(Due), NEW rs, NEW c \in Nat, NEW x \in Nat,
           InOrder(rs, c)
    PROVE  \A i \in Plan : FilledPlan(rs, x, {"paid"})[i] = Share(c + x, i)
<1> DEFINE A == FilledPlan(rs, x, {"paid"})
<1>1. PICK left \in [0..n -> Nat] :
        /\ left[0] = x
        /\ \A i \in Plan :
             LET p == Takes(rs[i], {"paid"}, left[i - 1], rs[i].paid)
             IN  left[i] = left[i - 1] - p /\ p \in Nat /\ A[i] = rs[i].paid + p
  <2>1. \A i \in Plan : rs[i].paid \in 0..Total
    BY DEF InOrder
  <2>2. Fills(rs, x, {"paid"}, n)
    BY <2>1, FillByLeft
  <2> QED
    BY <2>2 DEF Fills, Leaves
<1> HIDE DEF A
<1>2. Plan = 1..n /\ \A k \in 1..n : k \in Nat \ {0} /\ k - 1 \in Nat
  BY DEF Plan
<1>3. ASSUME NEW i \in Plan, left[i - 1] = LeftAbove(c, x, (i - 1) * Total)
      PROVE  left[i] = LeftAbove(c, x, i * Total) /\ A[i] = Share(c + x, i)
  <2>1. PICK a \in Nat, b \in Nat : a = (i - 1) * Total /\ b = i * Total /\ b = a + Total
    BY <1>2, Befores
  <2>2. PICK l \in Nat : l = left[i - 1] /\ l = LeftAbove(c, x, a)
    <3>1. i - 1 \in 0..n
      BY <1>2
    <3> QED
      BY <1>3, <2>1, <3>1
  <2>3. rs[i].paid = ShareAt(c, a) /\ rs[i].paid \in 0..Total
    BY <2>1 DEF Share, InOrder
  <2>4. Takes(rs[i], {"paid"}, l, rs[i].paid) = Least(Total - ShareAt(c, a), l)
    BY <2>2, <2>3 DEF Takes, Least, InOrder
  <2>5. /\ l - Least(Total - ShareAt(c, a), l) = LeftAbove(c, x, b)
        /\ ShareAt(c, a) + Least(Total - ShareAt(c, a), l) = ShareAt(c + x, a)
    BY <2>1, <2>2, OneShare
  <2>6. left[i] = LeftAbove(c, x, b) /\ A[i] = ShareAt(c + x, a)
    BY <1>1, <2>2, <2>3, <2>4, <2>5
  <2> QED
    BY <2>1, <2>6 DEF Share
<1> DEFINE S == {k \in Nat : left[k] = LeftAbove(c, x, k * Total)}
<1>4. 0 \in S
  <2>1. 0 * Total = 0
    OBVIOUS
  <2>2. left[0] = LeftAbove(c, x, 0)
    BY <1>1 DEF LeftAbove
  <2> QED
    BY <2>1, <2>2
<1>5. \A k \in 1..n : k - 1 \in S => k \in S
  BY <1>2, <1>3
<1> HIDE DEF S
<1>6. \A k \in 0..n : k \in S
  BY <1>4, <1>5, UpFromZero
<1>7. \A i \in Plan : A[i] = Share(c + x, i)
  <2> TAKE i \in Plan
  <2>1. i - 1 \in 0..n
    BY <1>2
  <2> QED
    BY <1>3, <1>6, <2>1 DEF S
<1> QED
  BY <1>7 DEF A

(* Filling an empty plan gives the same, when what it skips had nothing.    *)
Unfilled(rs, c, skip) ==
    \A i \in Plan : rs[i].paid = 0 /\ (rs[i].status \in skip => Share(c, i) = 0)

LEMMA ReplayFills ==
    ASSUME Total \in Nat, NEW n \in Nat, n = Len(Due), NEW rs, NEW c \in Nat, NEW skip,
           Unfilled(rs, c, skip)
    PROVE  \A i \in Plan : FilledPlan(rs, c, skip)[i] = Share(c, i)
<1> DEFINE A == FilledPlan(rs, c, skip)
<1>1. PICK left \in [0..n -> Nat] :
        /\ left[0] = c
        /\ \A i \in Plan :
             LET p == Takes(rs[i], skip, left[i - 1], rs[i].paid)
             IN  left[i] = left[i - 1] - p /\ p \in Nat /\ A[i] = rs[i].paid + p
  <2>1. \A i \in Plan : rs[i].paid \in 0..Total
    BY DEF Unfilled
  <2>2. Fills(rs, c, skip, n)
    BY <2>1, FillByLeft
  <2> QED
    BY <2>2 DEF Fills, Leaves
<1> HIDE DEF A
<1>2. Plan = 1..n /\ \A k \in 1..n : k \in Nat \ {0} /\ k - 1 \in Nat
  BY DEF Plan
<1>3. ASSUME NEW i \in Plan, left[i - 1] = LeftAbove(0, c, (i - 1) * Total)
      PROVE  left[i] = LeftAbove(0, c, i * Total) /\ A[i] = Share(c, i)
  <2>1. PICK a \in Nat, b \in Nat : a = (i - 1) * Total /\ b = i * Total /\ b = a + Total
    BY <1>2, Befores
  <2>2. PICK l \in Nat : l = left[i - 1] /\ l = LeftAbove(0, c, a)
    <3>1. i - 1 \in 0..n
      BY <1>2
    <3> QED
      BY <1>3, <2>1, <3>1
  <2>3. PICK p \in Nat : p = Takes(rs[i], skip, l, 0) /\ left[i] = l - p /\ A[i] = 0 + p
    BY <1>1, <2>2 DEF Unfilled
  <2>4. CASE rs[i].status \notin skip
    <3>0. ShareAt(0, a) = 0
      BY <2>1 DEF ShareAt
    <3>1. p = Least(Total - ShareAt(0, a), l)
      BY <2>3, <2>4, <3>0 DEF Takes
    <3>2. l - p = LeftAbove(0, c, b) /\ ShareAt(0, a) + p = ShareAt(0 + c, a)
      BY <2>1, <2>2, <3>1, OneShare
    <3> QED
      BY <2>1, <2>3, <3>0, <3>2 DEF Share
  <2>5. CASE rs[i].status \in skip
    <3>1. p = 0 /\ ShareAt(c, a) = 0
      BY <2>1, <2>3, <2>5 DEF Takes, Share, Unfilled
    <3>2. l = LeftAbove(0, c, b)
      BY <2>1, <2>2, <3>1 DEF LeftAbove, ShareAt
    <3> QED
      BY <2>1, <2>2, <2>3, <3>1, <3>2 DEF Share
  <2> QED
    BY <2>4, <2>5
<1> DEFINE S == {k \in Nat : left[k] = LeftAbove(0, c, k * Total)}
<1>4. 0 \in S
  <2>1. 0 * Total = 0
    OBVIOUS
  <2>2. left[0] = LeftAbove(0, c, 0)
    BY <1>1 DEF LeftAbove
  <2> QED
    BY <2>1, <2>2
<1>5. \A k \in 1..n : k - 1 \in S => k \in S
  BY <1>2, <1>3
<1> HIDE DEF S
<1>6. \A k \in 0..n : k \in S
  BY <1>4, <1>5, UpFromZero
<1>7. \A i \in Plan : A[i] = Share(c, i)
  <2> TAKE i \in Plan
  <2>1. i - 1 \in 0..n
    BY <1>2
  <2> QED
    BY <1>3, <1>6, <2>1 DEF S
<1> QED
  BY <1>7 DEF A

(* The two lanes' moves, said once: J are the runs of the snapshot job, A   *)
(* the amounts, Mds the repayment modes, Sts the kinds of insolvency.       *)
Resting     == [op |-> "idle"]
Bankrupt      == "insolvency"
RungOrder    == <<"current", "current_month_late", "pot_30", "pot_60", "pot_90", "default">>
RungNames  == {RungOrder[k] : k \in 1..(Len(Cuts) + 1)}
Portfolios == RungNames \cup {Bankrupt}
MonthSet == 1..Len(MonthEnds)

LateItems(its, paid, day) ==
    {i \in Plan : its[i].status \notin {"suspended"} /\ paid[i] < Total /\ Due[i] < day}
DaysSince(late, day) ==
    IF late = {} THEN 0
    ELSE day - Due[CHOOSE i \in late : \A j \in late : Due[i] <= Due[j]]
DaysLate(its, paid, day) == DaysSince(LateItems(its, paid, day), day)
StepAt(dpd) == RungOrder[1 + Cardinality({k \in 1..Len(Cuts) : Cuts[k] <= dpd})]
RateFor(its, ins, paid, day) == IF ins # None THEN Bankrupt ELSE StepAt(DaysLate(its, paid, day))
Emptied(its) == [i \in Plan |-> [its[i] EXCEPT !.paid = 0]]
ReplayOf(its, ps, day) == FilledPlan(Emptied(its), Got(ps, day), {"suspended"})
RateOf(its, ps, ins, m) ==
    RateFor(its, ins, ReplayOf(its, ps, MonthEnds[m]), MonthEnds[m])
Saved(read, value, stored) == IF value = read THEN stored ELSE value

ReadMonths(J, day) ==
    {m \in MonthSet : /\ day <= MonthEnds[m]
                      /\ \/ snapshots[m] # None
                         \/ \E j \in J : rating[j] # Resting /\ rating[j].month = m}
Unheld == \E i \in Plan : items[i].status = "suspended" /\ items'[i].status # "suspended"
AfterPay(its, cents) ==
    [i \in Plan |->
        [paid   |-> FilledPlan(its, cents, {"paid"})[i],
         status |-> IF FilledPlan(its, cents, {"paid"})[i] = Total THEN "paid"
                    ELSE IF FilledPlan(its, cents, {"paid"})[i] # its[i].paid THEN "open"
                    ELSE its[i].status]]
Missed(s) ==
    misses' = IF <<rating[s].insolvency, rating[s].bucket>> # <<insolvency, bucket>>
              THEN Least(2, misses + 1) ELSE misses

DayPasses(J) ==
    /\ today < Horizon /\ today' = today + 1
    /\ \A j \in J : rating[j] = Resting
    /\ UNCHANGED <<items, payments, insolvency, bucket, snapshots, revised, misses, rating>>
PaymentComes(J, A, Mds) ==
    /\ \E cents \in A, mode \in Mds, day \in Nat :
        /\ day <= today
        /\ payments' = Append(payments, [cents |-> cents, day |-> day, mode |-> mode])
        /\ items' = IF mode # "regular" THEN items ELSE AfterPay(items, cents)
        /\ revised' = revised \cup ReadMonths(J, IF Unheld THEN 0 ELSE day)
    /\ UNCHANGED <<today, insolvency, bucket, snapshots, misses, rating>>
RunStarts(j, m) ==
    /\ rating[j] = Resting /\ MonthEnds[m] <= today
    /\ \E latest \in BOOLEAN :
        /\ latest => \A n \in MonthSet : n > m => today < MonthEnds[n]
        /\ rating' = [rating EXCEPT ![j] = [op |-> "started", month |-> m, latest |-> latest,
                                            insolvency |-> insolvency, bucket |-> bucket]]
    /\ UNCHANGED <<today, items, payments, insolvency, bucket, snapshots, revised, misses>>
RunRates(j) ==
    /\ rating[j].op = "started"
    /\ rating' = [rating EXCEPT ![j] =
          [op |-> "rated", month |-> rating[j].month, latest |-> rating[j].latest,
           insolvency |-> rating[j].insolvency, bucket |-> rating[j].bucket,
           rate |-> RateOf(items, payments, rating[j].insolvency, rating[j].month),
           row |-> snapshots[rating[j].month]]]
    /\ UNCHANGED <<today, items, payments, insolvency, bucket, snapshots, revised, misses>>
RunCommits(j) ==
    /\ rating[j].op = "rated"
    /\ \/ UNCHANGED <<bucket, snapshots, misses>>
       \/ /\ snapshots' = [snapshots EXCEPT ![rating[j].month] =
                Saved(rating[j].row, rating[j].rate, snapshots[rating[j].month])]
          /\ bucket' = IF rating[j].latest THEN Saved(rating[j].bucket, rating[j].rate, bucket)
                       ELSE bucket
          /\ Missed(j)
    /\ rating' = [rating EXCEPT ![j] = Resting]
    /\ UNCHANGED <<today, items, payments, insolvency, revised>>
Opens(d, op, arg) ==
    /\ rating[d] = Resting
    /\ rating' = [rating EXCEPT ![d] =
          [op |-> op, arg |-> arg, insolvency |-> insolvency, bucket |-> bucket,
           rate |-> StepAt(DaysLate(items, [i \in Plan |-> items[i].paid], today))]]
    /\ UNCHANGED <<today, items, payments, insolvency, bucket, snapshots, revised, misses>>
MarkSet(J, d) ==
    /\ rating[d].op = "insolvency"
    /\ insolvency' = Saved(rating[d].insolvency, rating[d].arg, insolvency)
    /\ bucket' = Saved(rating[d].bucket, IF rating[d].arg = None THEN rating[d].rate ELSE Bankrupt, bucket)
    /\ revised' = IF insolvency' = insolvency THEN revised ELSE revised \cup ReadMonths(J, 0)
    /\ Missed(d)
    /\ rating' = [rating EXCEPT ![d] = Resting]
    /\ UNCHANGED <<today, items, payments, snapshots>>
ItemSet(J, d) ==
    /\ rating[d].op \in {"suspend", "unsuspend"}
    /\ \E status \in {"open", "suspended"} :
        items' = [items EXCEPT ![rating[d].arg].status = status]
    /\ revised' = revised \cup ReadMonths(J, 0)
    /\ rating' = [rating EXCEPT ![d] = Resting]
    /\ UNCHANGED <<today, payments, insolvency, bucket, snapshots, misses>>

BucketStep(J, A, Mds, Sts) ==
    \/ DayPasses(J) \/ PaymentComes(J, A, Mds)
    \/ \E j \in J : (\E m \in MonthSet : RunStarts(j, m)) \/ RunRates(j) \/ RunCommits(j)
    \/ \E d \in Desks : \/ \E arg \in Sts \cup {None} : Opens(d, "insolvency", arg)
                        \/ \E i \in Plan, op \in {"suspend", "unsuspend"} : Opens(d, op, i)
                        \/ MarkSet(J, d) \/ ItemSet(J, d)

LEMMA SameNames ==
    /\ Estates!Items = Plan /\ Plans!Items = Plan
    /\ Estates!Months = MonthSet /\ Plans!Months = MonthSet
    /\ Estates!Idle = Resting /\ Plans!Idle = Resting
    /\ Estates!Insolvent = Bankrupt /\ Plans!Insolvent = Bankrupt
    /\ Estates!Rungs = RungNames /\ Plans!Rungs = RungNames
    /\ \A a, b : Estates!Minimum(a, b) = Least(a, b) /\ Plans!Minimum(a, b) = Least(a, b)
    /\ \A a, b, c : Estates!Save(a, b, c) = Saved(a, b, c) /\ Plans!Save(a, b, c) = Saved(a, b, c)
    /\ \A s, p, d : /\ Estates!BucketFor(s, p, d) = RateFor(items, s, p, d)
                    /\ Plans!BucketFor(s, p, d) = RateFor(items, s, p, d)
    /\ \A d : /\ Estates!Replayed(d) = ReplayOf(items, payments, d)
              /\ Plans!Replayed(d) = ReplayOf(items, payments, d)
    /\ \A d : /\ Estates!ReadSince(d) = ReadMonths(EstateJobs, d)
              /\ Plans!ReadSince(d) = ReadMonths(Jobs, d)
    /\ (Estates!Lifted <=> Unheld) /\ (Plans!Lifted <=> Unheld)
    /\ Estates!Live = [i \in Plan |-> items[i].paid]
    /\ Plans!Live = [i \in Plan |-> items[i].paid]
<1>1. Estates!Items = Plan /\ Plans!Items = Plan
  BY DEF Estates!Items, Plans!Items, Plan
<1>2. Estates!Months = MonthSet /\ Plans!Months = MonthSet /\ Estates!Idle = Resting /\ Plans!Idle = Resting
  BY DEF Estates!Months, Plans!Months, MonthSet, Estates!Idle, Plans!Idle, Resting
<1>3. /\ Estates!Insolvent = Bankrupt /\ Plans!Insolvent = Bankrupt
      /\ Estates!Rungs = RungNames /\ Plans!Rungs = RungNames
  BY DEF Estates!Insolvent, Plans!Insolvent, Bankrupt, Estates!Rungs, Plans!Rungs, Estates!Ladder,
         Plans!Ladder, RungNames, RungOrder
<1>4. \A a, b : Estates!Minimum(a, b) = Least(a, b) /\ Plans!Minimum(a, b) = Least(a, b)
  BY DEF Estates!Minimum, Plans!Minimum, Least
<1>5. \A a, b, c : Estates!Save(a, b, c) = Saved(a, b, c) /\ Plans!Save(a, b, c) = Saved(a, b, c)
  BY DEF Estates!Save, Plans!Save, Saved
<1>6. \A p, d : Estates!PastDue(p, d) = LateItems(items, p, d) /\ Plans!PastDue(p, d) = LateItems(items, p, d)
  BY DEF Estates!PastDue, Plans!PastDue, LateItems, Estates!NotOwed, Plans!NotOwed, Estates!Items,
         Plans!Items, Plan
<1>7. \A p, d : Estates!DaysPastDue(p, d) = DaysLate(items, p, d) /\ Plans!DaysPastDue(p, d) = DaysLate(items, p, d)
  <2> TAKE p, d
  <2>1. /\ Estates!DaysPastDue(p, d) = DaysSince(Estates!PastDue(p, d), d)
        /\ Plans!DaysPastDue(p, d) = DaysSince(Plans!PastDue(p, d), d)
    BY DEF Estates!DaysPastDue, Plans!DaysPastDue, DaysSince
  <2>2. Estates!PastDue(p, d) = LateItems(items, p, d) /\ Plans!PastDue(p, d) = LateItems(items, p, d)
    BY <1>6
  <2> QED
    BY <2>1, <2>2 DEF DaysLate
<1>8. \A d : Estates!Rung(d) = StepAt(d) /\ Plans!Rung(d) = StepAt(d)
  BY DEF Estates!Rung, Plans!Rung, StepAt, Estates!Ladder, Plans!Ladder, RungOrder, Cardinality,
         Estates!Cardinality, Plans!Cardinality
<1>9. \A s, p, d : /\ Estates!BucketFor(s, p, d) = RateFor(items, s, p, d)
                   /\ Plans!BucketFor(s, p, d) = RateFor(items, s, p, d)
  BY <1>3, <1>7, <1>8 DEF Estates!BucketFor, Plans!BucketFor, RateFor
<1>10. \A d : /\ Estates!Replayed(d) = ReplayOf(items, payments, d)
              /\ Plans!Replayed(d) = ReplayOf(items, payments, d)
  <2> TAKE d
  <2>1. Estates!Received(d) = Got(payments, d) /\ Plans!Received(d) = Got(payments, d)
    BY GotIs
  <2> QED
    BY <1>1, <2>1, FillIs DEF Estates!Replayed, Plans!Replayed, ReplayOf, Emptied, Estates!NotOwed,
       Plans!NotOwed
<1>11. \A d : /\ Estates!ReadSince(d) = ReadMonths(EstateJobs, d)
              /\ Plans!ReadSince(d) = ReadMonths(Jobs, d)
  BY <1>2 DEF Estates!ReadSince, Plans!ReadSince, ReadMonths
<1>12. (Estates!Lifted <=> Unheld) /\ (Plans!Lifted <=> Unheld)
  BY <1>1 DEF Estates!Lifted, Plans!Lifted, Unheld
<1>13. /\ Estates!Live = [i \in Plan |-> items[i].paid]
       /\ Plans!Live = [i \in Plan |-> items[i].paid]
  BY <1>1 DEF Estates!Live, Plans!Live
<1> QED
  BY <1>1, <1>2, <1>3, <1>4, <1>5, <1>9, <1>10, <1>11, <1>12, <1>13

(* Each step of a lane is one of these moves.                               *)
LEMMA EstatesMoves == ASSUME today \in Nat, Estates!Next PROVE BucketStep(EstateJobs, EstateAmounts, {"regular"}, Statuses)
<1>1. CASE Estates!Tick
  <2>1. DayPasses(EstateJobs)
    BY <1>1, SameNames DEF Estates!Tick, DayPasses
  <2> QED
    BY <2>1 DEF BucketStep
<1>2. CASE Estates!Pay
  <2>1. PICK cents \in EstateAmounts, mode \in {"regular"}, day \in {today} \cup {d \in Estates!Days : d + 1 = today} :
          /\ payments' = Append(payments, [cents |-> cents, day |-> day, mode |-> mode])
          /\ items' = IF mode # "regular" THEN items
                      ELSE LET paid == Estates!Fill(items, cents, {"paid"})
                           IN  [i \in Estates!Items |->
                                  [paid |-> paid[i],
                                   status |-> IF paid[i] = Total THEN "paid"
                                              ELSE IF paid[i] # items[i].paid THEN "open"
                                              ELSE items[i].status]]
          /\ revised' = revised \cup Estates!ReadSince(IF Estates!Lifted THEN 0 ELSE day)
    BY <1>2 DEF Estates!Pay
  <2>2. day \in Nat /\ day <= today
    BY <2>1 DEF Estates!Days
  <2>3. items' = IF mode # "regular" THEN items ELSE AfterPay(items, cents)
    <3>1. Estates!Fill(items, cents, {"paid"}) = FilledPlan(items, cents, {"paid"})
      BY FillIs
    <3>2. Estates!Items = Plan
      BY SameNames
    <3> QED
      BY <2>1, <3>1, <3>2 DEF AfterPay
  <2>4. revised' = revised \cup ReadMonths(EstateJobs, IF Unheld THEN 0 ELSE day)
    BY <2>1, SameNames
  <2>5. UNCHANGED <<today, insolvency, bucket, snapshots, misses, rating>>
    BY <1>2 DEF Estates!Pay
  <2>6. PaymentComes(EstateJobs, EstateAmounts, {"regular"})
    BY <2>1, <2>2, <2>3, <2>4, <2>5 DEF PaymentComes
  <2> QED
    BY <2>6 DEF BucketStep
<1>3. ASSUME NEW j \in EstateJobs, NEW m \in Estates!Months, Estates!JobStart(j, m)
      PROVE  BucketStep(EstateJobs, EstateAmounts, {"regular"}, Statuses)
  <2>1. PICK latest \in BOOLEAN : latest = Estates!IsLatest(m)
    BY DEF Estates!IsLatest
  <2>2. latest => \A n \in MonthSet : n > m => today < MonthEnds[n]
    BY <2>1, SameNames DEF Estates!IsLatest
  <2>3. m \in MonthSet /\ rating[j] = Resting /\ MonthEnds[m] <= today
    BY <1>3, SameNames DEF Estates!JobStart
  <2>4. rating' = [rating EXCEPT ![j] = [op |-> "started", month |-> m, latest |-> latest,
                                         insolvency |-> insolvency, bucket |-> bucket]]
    BY <1>3, <2>1 DEF Estates!JobStart
  <2>5. UNCHANGED <<today, items, payments, insolvency, bucket, snapshots, revised, misses>>
    BY <1>3 DEF Estates!JobStart
  <2>6. RunStarts(j, m)
    BY <2>2, <2>3, <2>4, <2>5 DEF RunStarts
  <2> QED
    BY <2>3, <2>6 DEF BucketStep
<1>4. ASSUME NEW j \in EstateJobs, Estates!JobRate(j) PROVE BucketStep(EstateJobs, EstateAmounts, {"regular"}, Statuses)
  <2> DEFINE m == rating[j].month
  <2>1. Estates!BucketFor(rating[j].insolvency, Estates!Replayed(MonthEnds[m]), MonthEnds[m])
          = RateOf(items, payments, rating[j].insolvency, m)
    BY SameNames DEF RateOf
  <2>2. RunRates(j)
    BY <1>4, <2>1 DEF Estates!JobRate, RunRates
  <2> QED
    BY <2>2 DEF BucketStep
<1>5. ASSUME NEW j \in EstateJobs, Estates!JobCommit(j) PROVE BucketStep(EstateJobs, EstateAmounts, {"regular"}, Statuses)
  <2>1. RunCommits(j)
    BY <1>5, SameNames DEF Estates!JobCommit, RunCommits, Estates!Overtaken, Missed, Estates!Give
  <2> QED
    BY <2>1 DEF BucketStep
<1>6. ASSUME NEW d \in Desks, NEW op, NEW arg, rating[d] = Resting, Estates!DeskOpen(d, op, arg),
             UNCHANGED <<today, items, payments, insolvency, bucket, snapshots, revised, misses>>
      PROVE  Opens(d, op, arg)
  <2>1. Estates!BucketFor(None, Estates!Live, today) = StepAt(DaysLate(items, [i \in Plan |-> items[i].paid], today))
    BY SameNames DEF RateFor
  <2> QED
    BY <1>6, <2>1 DEF Estates!DeskOpen, Opens
<1>7. ASSUME NEW d \in Desks, Estates!ReadLoan(d) PROVE BucketStep(EstateJobs, EstateAmounts, {"regular"}, Statuses)
  <2>1. PICK arg \in Statuses \cup {None} : Estates!DeskOpen(d, "insolvency", arg)
    BY <1>7 DEF Estates!ReadLoan
  <2>2. Opens(d, "insolvency", arg)
    BY <1>6, <1>7, <2>1, SameNames DEF Estates!ReadLoan
  <2> QED
    BY <2>2 DEF BucketStep
<1>8. ASSUME NEW d \in Desks, Estates!ReadItem(d) PROVE BucketStep(EstateJobs, EstateAmounts, {"regular"}, Statuses)
  <2>1. PICK i \in Plan, op \in {"suspend", "unsuspend"} : Estates!DeskOpen(d, op, i)
    BY <1>8, SameNames DEF Estates!ReadItem
  <2>2. Opens(d, op, i)
    BY <1>6, <1>8, <2>1, SameNames DEF Estates!ReadItem
  <2> QED
    BY <2>2 DEF BucketStep
<1>9. ASSUME NEW d \in Desks, Estates!SetInsolvency(d) PROVE BucketStep(EstateJobs, EstateAmounts, {"regular"}, Statuses)
  <2>1. MarkSet(EstateJobs, d)
    BY <1>9, SameNames DEF Estates!SetInsolvency, MarkSet, Estates!NewBucket, Estates!Overtaken, Missed, Estates!Give
  <2> QED
    BY <2>1 DEF BucketStep
<1>10. ASSUME NEW d \in Desks, Estates!SetItem(d) PROVE BucketStep(EstateJobs, EstateAmounts, {"regular"}, Statuses)
  <2>1. ItemSet(EstateJobs, d)
    BY <1>10, SameNames DEF Estates!SetItem, ItemSet, Estates!Give
  <2> QED
    BY <2>1 DEF BucketStep
<1> QED
  BY <1>1, <1>2, <1>3, <1>4, <1>5, <1>7, <1>8, <1>9, <1>10 DEF Estates!Next

LEMMA PlansMoves == ASSUME today \in Nat, Plans!Next PROVE BucketStep(Jobs, Amounts, Modes, {})
<1>1. CASE Plans!Tick
  <2>1. DayPasses(Jobs)
    BY <1>1, SameNames DEF Plans!Tick, DayPasses
  <2> QED
    BY <2>1 DEF BucketStep
<1>2. CASE Plans!Pay
  <2>1. PICK cents \in Amounts, mode \in Modes, day \in {today} \cup {d \in Plans!Days : d + 1 = today} :
          /\ payments' = Append(payments, [cents |-> cents, day |-> day, mode |-> mode])
          /\ items' = IF mode # "regular" THEN items
                      ELSE LET paid == Plans!Fill(items, cents, {"paid"})
                           IN  [i \in Plans!Items |->
                                  [paid |-> paid[i],
                                   status |-> IF paid[i] = Total THEN "paid"
                                              ELSE IF paid[i] # items[i].paid THEN "open"
                                              ELSE items[i].status]]
          /\ revised' = revised \cup Plans!ReadSince(IF Plans!Lifted THEN 0 ELSE day)
    BY <1>2 DEF Plans!Pay
  <2>2. day \in Nat /\ day <= today
    BY <2>1 DEF Plans!Days
  <2>3. items' = IF mode # "regular" THEN items ELSE AfterPay(items, cents)
    <3>1. Plans!Fill(items, cents, {"paid"}) = FilledPlan(items, cents, {"paid"})
      BY FillIs
    <3>2. Plans!Items = Plan
      BY SameNames
    <3> QED
      BY <2>1, <3>1, <3>2 DEF AfterPay
  <2>4. revised' = revised \cup ReadMonths(Jobs, IF Unheld THEN 0 ELSE day)
    BY <2>1, SameNames
  <2>5. UNCHANGED <<today, insolvency, bucket, snapshots, misses, rating>>
    BY <1>2 DEF Plans!Pay
  <2>6. PaymentComes(Jobs, Amounts, Modes)
    BY <2>1, <2>2, <2>3, <2>4, <2>5 DEF PaymentComes
  <2> QED
    BY <2>6 DEF BucketStep
<1>3. ASSUME NEW j \in Jobs, NEW m \in Plans!Months, Plans!JobStart(j, m)
      PROVE  BucketStep(Jobs, Amounts, Modes, {})
  <2>1. PICK latest \in BOOLEAN : latest = Plans!IsLatest(m)
    BY DEF Plans!IsLatest
  <2>2. latest => \A n \in MonthSet : n > m => today < MonthEnds[n]
    BY <2>1, SameNames DEF Plans!IsLatest
  <2>3. m \in MonthSet /\ rating[j] = Resting /\ MonthEnds[m] <= today
    BY <1>3, SameNames DEF Plans!JobStart
  <2>4. rating' = [rating EXCEPT ![j] = [op |-> "started", month |-> m, latest |-> latest,
                                         insolvency |-> insolvency, bucket |-> bucket]]
    BY <1>3, <2>1 DEF Plans!JobStart
  <2>5. UNCHANGED <<today, items, payments, insolvency, bucket, snapshots, revised, misses>>
    BY <1>3 DEF Plans!JobStart
  <2>6. RunStarts(j, m)
    BY <2>2, <2>3, <2>4, <2>5 DEF RunStarts
  <2> QED
    BY <2>3, <2>6 DEF BucketStep
<1>4. ASSUME NEW j \in Jobs, Plans!JobRate(j) PROVE BucketStep(Jobs, Amounts, Modes, {})
  <2> DEFINE m == rating[j].month
  <2>1. Plans!BucketFor(rating[j].insolvency, Plans!Replayed(MonthEnds[m]), MonthEnds[m])
          = RateOf(items, payments, rating[j].insolvency, m)
    BY SameNames DEF RateOf
  <2>2. RunRates(j)
    BY <1>4, <2>1 DEF Plans!JobRate, RunRates
  <2> QED
    BY <2>2 DEF BucketStep
<1>5. ASSUME NEW j \in Jobs, Plans!JobCommit(j) PROVE BucketStep(Jobs, Amounts, Modes, {})
  <2>1. RunCommits(j)
    BY <1>5, SameNames DEF Plans!JobCommit, RunCommits, Plans!Overtaken, Missed, Plans!Give
  <2> QED
    BY <2>1 DEF BucketStep
<1>6. ASSUME NEW d \in Desks, NEW op, NEW arg, rating[d] = Resting, Plans!DeskOpen(d, op, arg),
             UNCHANGED <<today, items, payments, insolvency, bucket, snapshots, revised, misses>>
      PROVE  Opens(d, op, arg)
  <2>1. Plans!BucketFor(None, Plans!Live, today) = StepAt(DaysLate(items, [i \in Plan |-> items[i].paid], today))
    BY SameNames DEF RateFor
  <2> QED
    BY <1>6, <2>1 DEF Plans!DeskOpen, Opens
<1>7. ASSUME NEW d \in Desks, Plans!ReadLoan(d) PROVE BucketStep(Jobs, Amounts, Modes, {})
  <2>1. PICK arg \in {} \cup {None} : Plans!DeskOpen(d, "insolvency", arg)
    BY <1>7 DEF Plans!ReadLoan
  <2>2. Opens(d, "insolvency", arg)
    BY <1>6, <1>7, <2>1, SameNames DEF Plans!ReadLoan
  <2> QED
    BY <2>2 DEF BucketStep
<1>8. ASSUME NEW d \in Desks, Plans!ReadItem(d) PROVE BucketStep(Jobs, Amounts, Modes, {})
  <2>1. PICK i \in Plan, op \in {"suspend", "unsuspend"} : Plans!DeskOpen(d, op, i)
    BY <1>8, SameNames DEF Plans!ReadItem
  <2>2. Opens(d, op, i)
    BY <1>6, <1>8, <2>1, SameNames DEF Plans!ReadItem
  <2> QED
    BY <2>2 DEF BucketStep
<1>9. ASSUME NEW d \in Desks, Plans!SetInsolvency(d) PROVE BucketStep(Jobs, Amounts, Modes, {})
  <2>1. MarkSet(Jobs, d)
    BY <1>9, SameNames DEF Plans!SetInsolvency, MarkSet, Plans!NewBucket, Plans!Overtaken, Missed, Plans!Give
  <2> QED
    BY <2>1 DEF BucketStep
<1>10. ASSUME NEW d \in Desks, Plans!SetItem(d) PROVE BucketStep(Jobs, Amounts, Modes, {})
  <2>1. ItemSet(Jobs, d)
    BY <1>10, SameNames DEF Plans!SetItem, ItemSet, Plans!Give
  <2> QED
    BY <2>1 DEF BucketStep
<1> QED
  BY <1>1, <1>2, <1>3, <1>4, <1>5, <1>7, <1>8, <1>9, <1>10 DEF Plans!Next

(* What the sessions may hold.                                              *)
StartedRuns(Sts) == [op : {"started"}, month : MonthSet, latest : BOOLEAN,
                     insolvency : Sts \cup {None}, bucket : Portfolios]
RatedRuns(Sts)   == [op : {"rated"}, month : MonthSet, latest : BOOLEAN,
                     insolvency : Sts \cup {None}, bucket : Portfolios,
                     rate : Portfolios, row : Portfolios \cup {None}]
MarkDesks(Sts)   == [op : {"insolvency"}, arg : Sts \cup {None},
                     insolvency : Sts \cup {None}, bucket : Portfolios, rate : RungNames]
ItemDesks(Sts)   == [op : {"suspend", "unsuspend"}, arg : Plan,
                     insolvency : Sts \cup {None}, bucket : Portfolios, rate : RungNames]
RunHolds(Sts)    == {Resting} \cup StartedRuns(Sts) \cup RatedRuns(Sts)
DeskHolds(Sts)   == {Resting} \cup MarkDesks(Sts) \cup ItemDesks(Sts)

PlanFits(J) ==
    /\ Total \in Nat /\ Horizon \in Nat /\ J \cap Desks = {}
    /\ Due \in Seq(Nat) /\ Cuts \in Seq(Nat \ {0}) /\ Len(Cuts) <= 5
    /\ MonthEnds \in Seq(Nat \ {0})

(* A plan has a number of installments.                                     *)
LEMMA PlanHasLength == ASSUME NEW J, PlanFits(J) PROVE Len(Due) \in Nat
<1>1. Due \in Seq(Nat)
  BY DEF PlanFits
<1> QED
  BY <1>1

PlanTyped ==
    /\ items \in [Plan -> ItemRows]
    /\ \A i \in Plan : items[i].status = "paid" => items[i].paid = Total
PaymentsTyped(Mds) ==
    /\ today \in 0..Horizon /\ payments \in Seq(PayRows(Mds))
    /\ \A k \in 1..Len(payments) : payments[k].day <= today
LoanTyped(Sts) ==
    /\ insolvency \in Sts \cup {None} /\ bucket \in Portfolios
    /\ snapshots \in [MonthSet -> Portfolios \cup {None}]
    /\ revised \subseteq MonthSet /\ misses \in 0..2
SessionsTyped(J, Sts) ==
    /\ DOMAIN rating = J \cup Desks
    /\ \A j \in J : rating[j] \in RunHolds(Sts)
    /\ \A d \in Desks : rating[d] \in DeskHolds(Sts)
BucketsTyped(J, Mds, Sts) ==
    PlanTyped /\ PaymentsTyped(Mds) /\ LoanTyped(Sts) /\ SessionsTyped(J, Sts)

(* A month read has ended; a run that took its month for the newest is right.*)
LatestStands(J) ==
    /\ \A m \in MonthSet : snapshots[m] # None => MonthEnds[m] <= today
    /\ \A j \in J : rating[j] # Resting =>
         /\ MonthEnds[rating[j].month] <= today
         /\ rating[j].latest => \A n \in MonthSet : n > rating[j].month => today < MonthEnds[n]

(* A month whose facts did not move is rated, and is being rated, as it     *)
(* would be now.                                                            *)
RatedAs(J, m, rate) ==
    /\ snapshots[m] # None => snapshots[m] = rate
    /\ \A j \in J : rating[j] # Resting /\ rating[j].month = m =>
         /\ rating[j].insolvency = insolvency
         /\ rating[j].op = "rated" => rating[j].rate = rate
RatesStand(J) ==
    \A m \in MonthSet : m \notin revised => RatedAs(J, m, RateOf(items, payments, insolvency, m))

(* Status and bucket agree, stored and as read, until a commit is overtaken;*)
(* one overtaken commit alone does not strand a cleared loan.               *)
Alike(ins, b) == ins = None <=> b # Bankrupt
MarksStand(J) ==
    /\ misses = 0 => /\ Alike(insolvency, bucket)
                     /\ \A s \in J \cup Desks : rating[s] # Resting =>
                          Alike(rating[s].insolvency, rating[s].bucket)
    /\ misses <= 1 => ~(insolvency = None /\ bucket = Bankrupt)
    /\ \A j \in J : rating[j].op = "rated" =>
         (rating[j].rate = Bankrupt <=> rating[j].insolvency # None)

(* The plan is filled in order by what was received.                        *)
PlanFilled ==
    (\A k \in 1..Len(payments) : payments[k].mode = "regular") =>
        \A i \in Plan : items[i].paid = Share(Got(payments, Horizon), i)

BucketsInv(J, Mds, Sts) ==
    BucketsTyped(J, Mds, Sts) /\ LatestStands(J) /\ RatesStand(J) /\ MarksStand(J) /\ PlanFilled

(* A rating is a rung of the ladder.                                        *)
LEMMA RungStands ==
    ASSUME NEW J, PlanFits(J)
    PROVE  /\ \A dpd : StepAt(dpd) \in RungNames
           /\ Bankrupt \notin RungNames
<1>1. PICK c \in Nat : c = Len(Cuts) /\ c <= 5
  BY DEF PlanFits
<1>2. ASSUME NEW dpd PROVE StepAt(dpd) \in RungNames
  <2> DEFINE T == {k \in 1..c : Cuts[k] <= dpd}
  <2>1. IsFiniteSet(1..c) /\ Cardinality(1..c) = c
    BY FS_Interval
  <2>2. Cardinality(T) \in Nat /\ Cardinality(T) <= c
    <3>1. T \subseteq 1..c
      OBVIOUS
    <3> HIDE DEF T
    <3> QED
      BY <2>1, <3>1, FS_Subset, FS_CardinalityType
  <2>3. StepAt(dpd) = RungOrder[1 + Cardinality(T)]
    BY <1>1 DEF StepAt
  <2> HIDE DEF T
  <2>4. 1 + Cardinality(T) \in 1..(Len(Cuts) + 1)
    BY <1>1, <2>2
  <2> QED
    BY <2>3, <2>4 DEF RungNames
<1>3. Bankrupt \notin RungNames
  <2>1. \A k \in 1..6 : RungOrder[k] # Bankrupt
    BY DEF RungOrder, Bankrupt
  <2>2. \A k \in 1..(Len(Cuts) + 1) : k \in 1..6
    BY <1>1
  <2> QED
    BY <2>1, <2>2 DEF RungNames
<1> QED
  BY <1>2, <1>3

LEMMA RateStands ==
    ASSUME NEW J, PlanFits(J), NEW its, NEW ps, NEW ins, NEW m
    PROVE  /\ RateOf(its, ps, ins, m) \in Portfolios
           /\ RateOf(its, ps, ins, m) = Bankrupt <=> ins # None
  BY RungStands DEF RateOf, RateFor, Portfolios

(* A month is rated alike when the same installments are suspended, the     *)
(* same was received by its end and the loan is as insolvent.               *)
LEMMA RateSame ==
    ASSUME NEW J, PlanFits(J), NEW its \in [Plan -> ItemRows], NEW jts \in [Plan -> ItemRows],
           \A i \in Plan : its[i].status = "suspended" <=> jts[i].status = "suspended",
           NEW ps, NEW qs, NEW ins, NEW m,
           Got(ps, MonthEnds[m]) \in Nat, Got(qs, MonthEnds[m]) = Got(ps, MonthEnds[m])
    PROVE  RateOf(jts, qs, ins, m) = RateOf(its, ps, ins, m)
<1> DEFINE c == Got(ps, MonthEnds[m])
           rs == Emptied(its)
           rt == Emptied(jts)
<1>1. \A i \in Plan : rs[i].paid = 0 /\ rs[i].status = its[i].status
                      /\ rt[i].paid = 0 /\ rt[i].status = jts[i].status
  BY DEF Emptied, ItemRows
<1>2. c \in Nat /\ Total \in Nat
  BY DEF PlanFits
<1> HIDE DEF c, rs, rt
<1>3. PICK n \in Nat : n = Len(Due)
  BY DEF PlanFits
<1>4. FilledPlan(rs, c, {"suspended"}) = FilledPlan(rt, c, {"suspended"})
  <2>1. SamePlans(rs, rt, {"suspended"})
    BY <1>1, <1>2 DEF SamePlans
  <2> QED
    BY <1>2, <1>3, <2>1, FillSame
<1>5. ReplayOf(jts, qs, MonthEnds[m]) = ReplayOf(its, ps, MonthEnds[m])
  BY <1>4 DEF ReplayOf, c, rs, rt
<1>6. \A paid, day : LateItems(jts, paid, day) = LateItems(its, paid, day)
  BY DEF LateItems
<1> QED
  BY <1>5, <1>6 DEF RateOf, RateFor, DaysLate

(* One session moves, the others stand.                                     *)
Turned(s, v, S) ==
    DOMAIN rating' = S /\ rating'[s] = v /\ \A t \in S : t # s => rating'[t] = rating[t]

LEMMA SessionTurns ==
    ASSUME NEW J, NEW Sts, SessionsTyped(J, Sts), NEW s \in J \cup Desks, NEW v,
           rating' = [rating EXCEPT ![s] = v]
    PROVE  Turned(s, v, J \cup Desks)
  BY DEF SessionsTyped, Turned

LEMMA SessionsKept ==
    ASSUME NEW J, PlanFits(J), NEW Sts, SessionsTyped(J, Sts), NEW s \in J \cup Desks, NEW v,
           rating' = [rating EXCEPT ![s] = v],
           s \in J => v \in RunHolds(Sts), s \in Desks => v \in DeskHolds(Sts)
    PROVE  SessionsTyped(J, Sts)'
<1>1. Turned(s, v, J \cup Desks)
  BY SessionTurns
<1> QED
  BY <1>1 DEF Turned, SessionsTyped

LEMMA PaymentTyped ==
    ASSUME Total \in Nat, Len(Due) \in Nat, NEW its \in [Plan -> ItemRows], NEW cents \in Nat,
           \A i \in Plan : its[i].status = "paid" => its[i].paid = Total
    PROVE  /\ AfterPay(its, cents) \in [Plan -> ItemRows]
           /\ \A i \in Plan : AfterPay(its, cents)[i].status = "paid" =>
                AfterPay(its, cents)[i].paid = Total
           /\ \A i \in Plan : AfterPay(its, cents)[i].status = "suspended" =>
                its[i].status = "suspended"
<1> DEFINE F == FilledPlan(its, cents, {"paid"})
<1>1. F \in [Plan -> 0..Total]
  <2>1. \A i \in Plan : its[i].paid \in 0..Total
    BY DEF ItemRows
  <2>2. PICK n \in Nat : n = Len(Due)
    OBVIOUS
  <2>3. Fills(its, cents, {"paid"}, n)
    BY <2>1, <2>2, FillByLeft
  <2> QED
    BY <2>3 DEF Fills
<1> HIDE DEF F
<1>2. \A i \in Plan : /\ AfterPay(its, cents)[i].paid = F[i]
                      /\ AfterPay(its, cents)[i].status =
                           IF F[i] = Total THEN "paid"
                           ELSE IF F[i] # its[i].paid THEN "open" ELSE its[i].status
  BY DEF AfterPay, F
<1>3. AfterPay(its, cents) = [i \in Plan |-> [paid   |-> F[i],
                                             status |-> IF F[i] = Total THEN "paid"
                                                        ELSE IF F[i] # its[i].paid THEN "open"
                                                        ELSE its[i].status]]
  BY DEF AfterPay, F
<1>4. \A i \in Plan : F[i] \in 0..Total /\ its[i].status \in Marks
  BY <1>1 DEF ItemRows
<1> QED
  BY <1>2, <1>3, <1>4 DEF ItemRows, Marks

(* The types are kept by every move.                                        *)
LEMMA BucketsStayTyped ==
    ASSUME NEW J, NEW A, NEW Mds, NEW Sts, PlanFits(J), A \subseteq Nat,
           BucketsTyped(J, Mds, Sts), BucketStep(J, A, Mds, Sts)
    PROVE  BucketsTyped(J, Mds, Sts)'
<1>0. Total \in Nat /\ Len(Due) \in Nat /\ Horizon \in Nat /\ today \in Nat
  BY DEF PlanFits, BucketsTyped, PaymentsTyped
<1>1. CASE DayPasses(J)
  <2>1. PaymentsTyped(Mds)'
    <3>1. \A k \in 1..Len(payments) : payments[k].day \in Nat /\ payments[k].day <= today
      <4>1. \A k \in 1..Len(payments) : payments[k] \in PayRows(Mds)
        BY DEF BucketsTyped, PaymentsTyped
      <4>2. \A k \in 1..Len(payments) : payments[k].day \in Nat
        BY <4>1 DEF PayRows
      <4> QED
        BY <4>2 DEF BucketsTyped, PaymentsTyped
    <3> QED
      BY <1>0, <1>1, <3>1 DEF DayPasses, BucketsTyped, PaymentsTyped
  <2> QED
    BY <1>1, <2>1 DEF DayPasses, BucketsTyped, PlanTyped, LoanTyped, SessionsTyped
<1>2. CASE PaymentComes(J, A, Mds)
  <2>1. PICK cents \in A, mode \in Mds, day \in Nat :
          /\ day <= today
          /\ payments' = Append(payments, [cents |-> cents, day |-> day, mode |-> mode])
          /\ items' = IF mode # "regular" THEN items ELSE AfterPay(items, cents)
          /\ revised' = revised \cup ReadMonths(J, IF Unheld THEN 0 ELSE day)
    BY <1>2 DEF PaymentComes
  <2>2. UNCHANGED <<today, insolvency, bucket, snapshots, misses, rating>>
    BY <1>2 DEF PaymentComes
  <2>3. PlanTyped'
    <3>1. items \in [Plan -> ItemRows] /\ cents \in Nat
      BY DEF BucketsTyped, PlanTyped
    <3> QED
      BY <1>0, <2>1, <3>1, PaymentTyped DEF BucketsTyped, PlanTyped
  <2>4. PaymentsTyped(Mds)'
    <3> DEFINE p == [cents |-> cents, day |-> day, mode |-> mode]
    <3>1. p \in PayRows(Mds) /\ p.day <= today
      BY <2>1 DEF PayRows
    <3> HIDE DEF p
    <3>2. payments' = Append(payments, p) /\ payments \in Seq(PayRows(Mds))
      BY <2>1 DEF p, BucketsTyped, PaymentsTyped
    <3>3. /\ payments' \in Seq(PayRows(Mds)) /\ Len(payments') = Len(payments) + 1
          /\ payments'[Len(payments) + 1] = p
          /\ \A k \in 1..Len(payments) : payments'[k] = payments[k]
      BY <3>1, <3>2
    <3>4. \A k \in 1..Len(payments') : k \in 1..Len(payments) \/ k = Len(payments) + 1
      BY <3>2, <3>3
    <3> QED
      BY <2>2, <3>1, <3>3, <3>4 DEF BucketsTyped, PaymentsTyped
  <2>5. LoanTyped(Sts)'
    <3>1. ReadMonths(J, IF Unheld THEN 0 ELSE day) \subseteq MonthSet
      BY DEF ReadMonths
    <3> QED
      BY <2>1, <2>2, <3>1 DEF BucketsTyped, LoanTyped
  <2> QED
    BY <2>2, <2>3, <2>4, <2>5 DEF BucketsTyped, SessionsTyped
<1>3. ASSUME UNCHANGED <<today, items, payments, insolvency, bucket, snapshots, revised, misses>>
      PROVE  PlanTyped' /\ PaymentsTyped(Mds)' /\ LoanTyped(Sts)'
  BY <1>3 DEF BucketsTyped, PlanTyped, PaymentsTyped, LoanTyped
<1>4. ASSUME NEW j \in J, NEW m \in MonthSet, RunStarts(j, m) PROVE BucketsTyped(J, Mds, Sts)'
  <2>1. PICK latest \in BOOLEAN :
          rating' = [rating EXCEPT ![j] = [op |-> "started", month |-> m, latest |-> latest,
                                           insolvency |-> insolvency, bucket |-> bucket]]
    BY <1>4 DEF RunStarts
  <2> DEFINE v == [op |-> "started", month |-> m, latest |-> latest,
                   insolvency |-> insolvency, bucket |-> bucket]
  <2>2. v \in RunHolds(Sts) /\ j \notin Desks
    BY DEF RunHolds, StartedRuns, BucketsTyped, LoanTyped, PlanFits
  <2> HIDE DEF v
  <2>3. SessionsTyped(J, Sts)'
    <3>1. rating' = [rating EXCEPT ![j] = v]
      BY <2>1 DEF v
    <3> QED
      BY <2>2, <3>1, SessionsKept DEF BucketsTyped
  <2> QED
    BY <1>3, <1>4, <2>3 DEF BucketsTyped, RunStarts
<1>5. ASSUME NEW j \in J, rating[j].op = "started" PROVE rating[j] \in StartedRuns(Sts)
  BY <1>5 DEF BucketsTyped, SessionsTyped, RunHolds, RatedRuns, Resting
<1>6. ASSUME NEW j \in J, rating[j].op = "rated" PROVE rating[j] \in RatedRuns(Sts)
  BY <1>6 DEF BucketsTyped, SessionsTyped, RunHolds, StartedRuns, Resting
<1>7. ASSUME NEW j \in J, RunRates(j) PROVE BucketsTyped(J, Mds, Sts)'
  <2> DEFINE w == rating[j]
             v == [op |-> "rated", month |-> rating[j].month, latest |-> rating[j].latest,
                   insolvency |-> rating[j].insolvency, bucket |-> rating[j].bucket,
                   rate |-> RateOf(items, payments, rating[j].insolvency, rating[j].month),
                   row |-> snapshots[rating[j].month]]
  <2>1. w \in StartedRuns(Sts)
    BY <1>5, <1>7 DEF RunRates
  <2>2. v \in RunHolds(Sts) /\ j \notin Desks
    <3>1. RateOf(items, payments, w.insolvency, w.month) \in Portfolios
      BY RateStands
    <3>2. /\ w.month \in MonthSet /\ w.latest \in BOOLEAN /\ w.insolvency \in Sts \cup {None}
          /\ w.bucket \in Portfolios
      BY <2>1 DEF StartedRuns
    <3>3. snapshots[w.month] \in Portfolios \cup {None}
      BY <3>2 DEF BucketsTyped, LoanTyped
    <3> QED
      BY <3>1, <3>2, <3>3 DEF RunHolds, RatedRuns, PlanFits
  <2>3. rating' = [rating EXCEPT ![j] = v]
    BY <1>7 DEF RunRates
  <2> HIDE DEF v, w
  <2>4. SessionsTyped(J, Sts)'
    BY <2>2, <2>3, SessionsKept DEF BucketsTyped
  <2> QED
    BY <1>3, <1>7, <2>4 DEF BucketsTyped, RunRates
<1>8. ASSUME NEW s \in J \cup Desks, rating' = [rating EXCEPT ![s] = Resting]
      PROVE  SessionsTyped(J, Sts)'
  BY <1>8, SessionsKept DEF BucketsTyped, RunHolds, DeskHolds
<1>9. ASSUME NEW s, Missed(s) PROVE misses' \in 0..2
  BY <1>9 DEF Missed, Least, BucketsTyped, LoanTyped
<1>10. ASSUME NEW j \in J, RunCommits(j) PROVE BucketsTyped(J, Mds, Sts)'
  <2>1. rating[j] \in RatedRuns(Sts) /\ SessionsTyped(J, Sts)'
    BY <1>6, <1>8, <1>10 DEF RunCommits
  <2>2. PICK w \in RatedRuns(Sts) : w = rating[j]
    BY <2>1
  <2>3. LoanTyped(Sts)'
    <3>1. CASE UNCHANGED <<bucket, snapshots, misses>>
      BY <1>10, <3>1 DEF RunCommits, BucketsTyped, LoanTyped
    <3>2. CASE /\ snapshots' = [snapshots EXCEPT ![w.month] = Saved(w.row, w.rate, snapshots[w.month])]
               /\ bucket' = IF w.latest THEN Saved(w.bucket, w.rate, bucket) ELSE bucket
               /\ Missed(j)
      <4>1. Saved(w.row, w.rate, snapshots[w.month]) \in Portfolios \cup {None} /\ w.month \in MonthSet
        BY DEF Saved, RatedRuns, BucketsTyped, LoanTyped
      <4>2. bucket' \in Portfolios
        BY <3>2 DEF Saved, RatedRuns, BucketsTyped, LoanTyped
      <4>3. snapshots' \in [MonthSet -> Portfolios \cup {None}]
        BY <3>2, <4>1 DEF BucketsTyped, LoanTyped
      <4> QED
        BY <1>9, <1>10, <3>2, <4>2, <4>3 DEF RunCommits, BucketsTyped, LoanTyped
    <3> QED
      BY <1>10, <2>2, <3>1, <3>2 DEF RunCommits
  <2> QED
    BY <1>10, <2>1, <2>3 DEF RunCommits, BucketsTyped, PlanTyped, PaymentsTyped
<1>11. ASSUME NEW d \in Desks, NEW op, NEW arg, Opens(d, op, arg),
              (op = "insolvency" /\ arg \in Sts \cup {None}) \/ (op \in {"suspend", "unsuspend"} /\ arg \in Plan)
       PROVE  BucketsTyped(J, Mds, Sts)'
  <2> DEFINE r == StepAt(DaysLate(items, [i \in Plan |-> items[i].paid], today))
             v == [op |-> op, arg |-> arg, insolvency |-> insolvency, bucket |-> bucket, rate |-> r]
  <2>1. r \in RungNames
    BY RungStands
  <2>2. rating' = [rating EXCEPT ![d] = v]
    BY <1>11 DEF Opens
  <2> HIDE DEF r
  <2>3. v \in DeskHolds(Sts) /\ d \notin J
    BY <1>11, <2>1 DEF DeskHolds, MarkDesks, ItemDesks, BucketsTyped, LoanTyped, PlanFits
  <2> HIDE DEF v
  <2>4. SessionsTyped(J, Sts)'
    BY <2>2, <2>3, SessionsKept DEF BucketsTyped
  <2> QED
    BY <1>3, <1>11, <2>4 DEF BucketsTyped, Opens
<1>12. ASSUME NEW d \in Desks, rating[d].op = "insolvency" PROVE rating[d] \in MarkDesks(Sts)
  BY <1>12 DEF BucketsTyped, SessionsTyped, DeskHolds, ItemDesks, Resting
<1>13. ASSUME NEW d \in Desks, rating[d].op \in {"suspend", "unsuspend"} PROVE rating[d] \in ItemDesks(Sts)
  BY <1>13 DEF BucketsTyped, SessionsTyped, DeskHolds, MarkDesks, Resting
<1>14. ReadMonths(J, 0) \subseteq MonthSet
  BY DEF ReadMonths
<1>15. ASSUME NEW d \in Desks, MarkSet(J, d) PROVE BucketsTyped(J, Mds, Sts)'
  <2>1. SessionsTyped(J, Sts)'
    BY <1>8, <1>15 DEF MarkSet
  <2>2. PICK w \in MarkDesks(Sts) : w = rating[d]
    BY <1>12, <1>15 DEF MarkSet
  <2>3. insolvency' \in Sts \cup {None}
    BY <1>15, <2>2 DEF MarkSet, Saved, MarkDesks, BucketsTyped, LoanTyped
  <2>4. bucket' \in Portfolios
    BY <1>15, <2>2 DEF MarkSet, Saved, MarkDesks, Portfolios, BucketsTyped, LoanTyped
  <2>5. revised' \subseteq MonthSet
    BY <1>14, <1>15 DEF MarkSet, BucketsTyped, LoanTyped
  <2>6. LoanTyped(Sts)'
    BY <1>9, <1>15, <2>3, <2>4, <2>5 DEF MarkSet, BucketsTyped, LoanTyped
  <2> QED
    BY <1>15, <2>1, <2>6 DEF MarkSet, BucketsTyped, PlanTyped, PaymentsTyped
<1>16. ASSUME NEW d \in Desks, ItemSet(J, d) PROVE BucketsTyped(J, Mds, Sts)'
  <2>1. SessionsTyped(J, Sts)'
    BY <1>8, <1>16 DEF ItemSet
  <2>2. rating[d].arg \in Plan
    BY <1>13, <1>16 DEF ItemSet, ItemDesks
  <2>3. PICK i \in Plan, status \in {"open", "suspended"} : items' = [items EXCEPT ![i].status = status]
    BY <1>16, <2>2 DEF ItemSet
  <2>4. PlanTyped'
    <3>1. items \in [Plan -> ItemRows]
      BY DEF BucketsTyped, PlanTyped
    <3>2. items'[i] = [items[i] EXCEPT !.status = status] /\ \A k \in Plan : k # i => items'[k] = items[k]
      BY <2>3, <3>1
    <3>3. items'[i] \in ItemRows /\ items'[i].status # "paid"
      BY <3>1, <3>2 DEF ItemRows, Marks
    <3>4. items' \in [Plan -> ItemRows]
      BY <2>3, <3>1, <3>2, <3>3
    <3> QED
      BY <3>2, <3>3, <3>4 DEF BucketsTyped, PlanTyped
  <2>5. LoanTyped(Sts)'
    BY <1>14, <1>16 DEF ItemSet, BucketsTyped, LoanTyped
  <2> QED
    BY <1>16, <2>1, <2>4, <2>5 DEF ItemSet, BucketsTyped, PaymentsTyped
<1> QED
  BY <1>1, <1>2, <1>4, <1>7, <1>10, <1>11, <1>15, <1>16 DEF BucketStep

(* What a move does to the sessions.                                        *)
StartedNow(m, latest) ==
    [op |-> "started", month |-> m, latest |-> latest, insolvency |-> insolvency, bucket |-> bucket]
RatedNow(w) ==
    [op |-> "rated", month |-> w.month, latest |-> w.latest, insolvency |-> w.insolvency,
     bucket |-> w.bucket, rate |-> RateOf(items, payments, w.insolvency, w.month),
     row |-> snapshots[w.month]]
OpenedNow(op, arg) ==
    [op |-> op, arg |-> arg, insolvency |-> insolvency, bucket |-> bucket,
     rate |-> StepAt(DaysLate(items, [i \in Plan |-> items[i].paid], today))]

LEMMA StartTurns ==
    ASSUME NEW J, NEW Sts, SessionsTyped(J, Sts), NEW j \in J, NEW m, RunStarts(j, m)
    PROVE  \E latest \in BOOLEAN :
             /\ latest => \A n \in MonthSet : n > m => today < MonthEnds[n]
             /\ Turned(j, StartedNow(m, latest), J \cup Desks)
<1>1. PICK latest \in BOOLEAN :
        /\ latest => \A n \in MonthSet : n > m => today < MonthEnds[n]
        /\ rating' = [rating EXCEPT ![j] = StartedNow(m, latest)]
  BY DEF RunStarts, StartedNow
<1>2. Turned(j, StartedNow(m, latest), J \cup Desks)
  BY <1>1, SessionTurns
<1> QED
  BY <1>1, <1>2

LEMMA RateTurns ==
    ASSUME NEW J, NEW Sts, SessionsTyped(J, Sts), NEW j \in J, RunRates(j)
    PROVE  rating[j] \in StartedRuns(Sts) /\ Turned(j, RatedNow(rating[j]), J \cup Desks)
<1>1. rating[j] \in StartedRuns(Sts)
  BY DEF RunRates, SessionsTyped, RunHolds, RatedRuns, Resting
<1>2. rating' = [rating EXCEPT ![j] = RatedNow(rating[j])]
  BY DEF RunRates, RatedNow
<1> QED
  BY <1>1, <1>2, SessionTurns

LEMMA CommitTurns ==
    ASSUME NEW J, NEW Sts, SessionsTyped(J, Sts), NEW j \in J, RunCommits(j)
    PROVE  rating[j] \in RatedRuns(Sts) /\ Turned(j, Resting, J \cup Desks)
<1>1. rating[j] \in RatedRuns(Sts)
  BY DEF RunCommits, SessionsTyped, RunHolds, StartedRuns, Resting
<1>2. rating' = [rating EXCEPT ![j] = Resting]
  BY DEF RunCommits
<1> QED
  BY <1>1, <1>2, SessionTurns

LEMMA OpenTurns ==
    ASSUME NEW J, NEW Sts, SessionsTyped(J, Sts), NEW d \in Desks, NEW op, NEW arg, Opens(d, op, arg)
    PROVE  Turned(d, OpenedNow(op, arg), J \cup Desks)
<1>1. rating' = [rating EXCEPT ![d] = OpenedNow(op, arg)]
  BY DEF Opens, OpenedNow
<1> QED
  BY <1>1, SessionTurns

LEMMA MarkTurns ==
    ASSUME NEW J, NEW Sts, SessionsTyped(J, Sts), NEW d \in Desks, MarkSet(J, d)
    PROVE  rating[d] \in MarkDesks(Sts) /\ Turned(d, Resting, J \cup Desks)
<1>1. rating[d] \in MarkDesks(Sts)
  BY DEF MarkSet, SessionsTyped, DeskHolds, ItemDesks, Resting
<1>2. rating' = [rating EXCEPT ![d] = Resting]
  BY DEF MarkSet
<1> QED
  BY <1>1, <1>2, SessionTurns

LEMMA ItemTurns ==
    ASSUME NEW J, NEW Sts, SessionsTyped(J, Sts), NEW d \in Desks, ItemSet(J, d)
    PROVE  rating[d] \in ItemDesks(Sts) /\ Turned(d, Resting, J \cup Desks)
<1>1. rating[d] \in ItemDesks(Sts)
  BY DEF ItemSet, SessionsTyped, DeskHolds, MarkDesks, Resting
<1>2. rating' = [rating EXCEPT ![d] = Resting]
  BY DEF ItemSet
<1> QED
  BY <1>1, <1>2, SessionTurns

(* A desk's move leaves the runs of the job alone.                          *)
LEMMA DesksApart ==
    ASSUME NEW J, PlanFits(J), NEW d \in Desks, NEW v, Turned(d, v, J \cup Desks)
    PROVE  \A j \in J : rating'[j] = rating[j]
  BY DEF PlanFits, Turned

(* Only months that ended are read, and the newest is known for the day.    *)
LEMMA LatestKept ==
    ASSUME NEW J, NEW A, NEW Mds, NEW Sts, PlanFits(J),
           BucketsTyped(J, Mds, Sts), LatestStands(J), BucketStep(J, A, Mds, Sts)
    PROVE  LatestStands(J)'
<1>0. SessionsTyped(J, Sts) /\ today \in Nat /\ \A m \in MonthSet : MonthEnds[m] \in Nat
  BY DEF BucketsTyped, PaymentsTyped, PlanFits, MonthSet
<1>1. CASE DayPasses(J)
  BY <1>0, <1>1 DEF DayPasses, LatestStands
<1>2. CASE PaymentComes(J, A, Mds)
  BY <1>2 DEF PaymentComes, LatestStands
<1>3. ASSUME NEW j \in J, NEW m \in MonthSet, RunStarts(j, m) PROVE LatestStands(J)'
  <2>1. PICK latest \in BOOLEAN :
          /\ latest => \A n \in MonthSet : n > m => today < MonthEnds[n]
          /\ Turned(j, StartedNow(m, latest), J \cup Desks)
    BY <1>0, <1>3, StartTurns
  <2>2. MonthEnds[m] <= today /\ UNCHANGED <<snapshots, today>>
    BY <1>3 DEF RunStarts
  <2> QED
    BY <2>1, <2>2 DEF LatestStands, Turned, StartedNow
<1>4. ASSUME NEW j \in J, RunRates(j) PROVE LatestStands(J)'
  <2>1. /\ rating'[j].month = rating[j].month /\ rating'[j].latest = rating[j].latest
        /\ \A t \in J : t # j => rating'[t] = rating[t]
    <3>1. Turned(j, RatedNow(rating[j]), J \cup Desks)
      BY <1>0, <1>4, RateTurns
    <3> QED
      BY <3>1 DEF Turned, RatedNow
  <2>2. rating[j] # Resting /\ UNCHANGED <<snapshots, today>>
    BY <1>4 DEF RunRates, Resting
  <2> QED
    BY <2>1, <2>2 DEF LatestStands
<1>5. ASSUME NEW j \in J, RunCommits(j) PROVE LatestStands(J)'
  <2>1. /\ rating[j] \in RatedRuns(Sts) /\ rating'[j] = Resting
        /\ \A t \in J : t # j => rating'[t] = rating[t]
    BY <1>0, <1>5, CommitTurns DEF Turned
  <2>2. today' = today /\ rating[j].month \in MonthSet /\ rating[j] # Resting
    BY <1>5, <2>1 DEF RunCommits, RatedRuns, Resting
  <2>3. MonthEnds[rating[j].month] <= today
    BY <2>2 DEF LatestStands
  <2>4. \A m \in MonthSet : m # rating[j].month => snapshots'[m] = snapshots[m]
    BY <1>5 DEF RunCommits, BucketsTyped, LoanTyped
  <2> QED
    BY <2>1, <2>2, <2>3, <2>4 DEF LatestStands
<1>6. ASSUME UNCHANGED <<today, snapshots>>, \A j \in J : rating'[j] = rating[j] PROVE LatestStands(J)'
  BY <1>6 DEF LatestStands
<1>7. ASSUME NEW d \in Desks, NEW op, NEW arg, Opens(d, op, arg) PROVE LatestStands(J)'
  BY <1>0, <1>6, <1>7, OpenTurns, DesksApart DEF Opens
<1>8. ASSUME NEW d \in Desks, MarkSet(J, d) PROVE LatestStands(J)'
  BY <1>0, <1>6, <1>8, MarkTurns, DesksApart DEF MarkSet
<1>9. ASSUME NEW d \in Desks, ItemSet(J, d) PROVE LatestStands(J)'
  BY <1>0, <1>6, <1>9, ItemTurns, DesksApart DEF ItemSet
<1> QED
  BY <1>1, <1>2, <1>3, <1>4, <1>5, <1>7, <1>8, <1>9 DEF BucketStep

(* The plan stays filled in order.                                          *)
LEMMA FilledKept ==
    ASSUME NEW J, NEW A, NEW Mds, NEW Sts, PlanFits(J), A \subseteq Nat,
           BucketsTyped(J, Mds, Sts), PlanFilled, BucketStep(J, A, Mds, Sts)
    PROVE  PlanFilled'
<1>0. /\ SessionsTyped(J, Sts) /\ today \in Nat /\ today <= Horizon /\ Horizon \in Nat
      /\ Total \in Nat /\ payments \in Seq(PayRows(Mds)) /\ items \in [Plan -> ItemRows]
  BY DEF BucketsTyped, PaymentsTyped, PlanTyped, PlanFits
<1>1. CASE PaymentComes(J, A, Mds)
  <2>1. PICK cents \in A, mode \in Mds, day \in Nat :
          /\ day <= today
          /\ payments' = Append(payments, [cents |-> cents, day |-> day, mode |-> mode])
          /\ items' = IF mode # "regular" THEN items ELSE AfterPay(items, cents)
    BY <1>1 DEF PaymentComes
  <2> DEFINE p == [cents |-> cents, day |-> day, mode |-> mode]
             c == Got(payments, Horizon)
  <2>2. p \in PayRows(Mds) /\ cents \in Nat
    BY DEF PayRows
  <2>3. Brings(p, Horizon) = cents
    BY <1>0, <2>1 DEF Brings
  <2> HIDE DEF p
  <2>4. c \in Nat /\ Got(payments', Horizon) = c + cents
    <3>1. payments' = Append(payments, p)
      BY <2>1 DEF p
    <3>2. Got(payments, Horizon) \in Nat /\ Got(Append(payments, p), Horizon) = Got(payments, Horizon) + Brings(p, Horizon)
      BY <1>0, <2>2, GotMore
    <3> QED
      BY <2>3, <3>1, <3>2
  <2> HIDE DEF c
  <2> SUFFICES ASSUME \A k \in 1..Len(payments') : payments'[k].mode = "regular"
               PROVE  \A i \in Plan : items'[i].paid = Share(Got(payments', Horizon), i)
    BY DEF PlanFilled
  <2>5. mode = "regular" /\ \A k \in 1..Len(payments) : payments[k].mode = "regular"
    <3>1. payments' = Append(payments, p) /\ p.mode = mode
      BY <2>1 DEF p
    <3>2. /\ Len(payments') = Len(payments) + 1 /\ payments'[Len(payments) + 1] = p
          /\ \A k \in 1..Len(payments) : payments'[k] = payments[k]
      BY <1>0, <2>2, <3>1
    <3>3. Len(payments) \in Nat
      BY <1>0
    <3>4. Len(payments) + 1 \in 1..Len(payments') /\ \A k \in 1..Len(payments) : k \in 1..Len(payments')
      BY <3>2, <3>3
    <3> QED
      BY <3>1, <3>2, <3>4
  <2>6. \A i \in Plan : items[i].paid = Share(c, i)
    BY <2>5 DEF PlanFilled, c
  <2>7. \A i \in Plan : FilledPlan(items, cents, {"paid"})[i] = Share(c + cents, i)
    <3>1. InOrder(items, c)
      <4>1. \A i \in Plan : items[i].paid \in 0..Total
        BY <1>0 DEF ItemRows
      <4> QED
        BY <2>6, <4>1 DEF InOrder, BucketsTyped, PlanTyped
    <3>2. PICK n \in Nat : n = Len(Due)
      BY PlanHasLength
    <3> QED
      BY <1>0, <2>2, <2>4, <3>1, <3>2, PayFills
  <2>8. \A i \in Plan : items'[i].paid = FilledPlan(items, cents, {"paid"})[i]
    BY <2>1, <2>5 DEF AfterPay
  <2> QED
    BY <2>4, <2>7, <2>8
<1>2. ASSUME NEW d \in Desks, ItemSet(J, d) PROVE PlanFilled'
  <2>1. rating[d].arg \in Plan
    BY <1>0, <1>2, ItemTurns DEF ItemDesks
  <2>2. \A i \in Plan : items'[i].paid = items[i].paid
    <3>1. PICK i \in Plan, status \in {"open", "suspended"} : items' = [items EXCEPT ![i].status = status]
      BY <1>2, <2>1 DEF ItemSet
    <3>2. items'[i] = [items[i] EXCEPT !.status = status] /\ \A k \in Plan : k # i => items'[k] = items[k]
      BY <1>0, <3>1
    <3>3. items'[i].paid = items[i].paid
      BY <1>0, <3>2 DEF ItemRows
    <3> QED
      BY <3>2, <3>3
  <2> QED
    BY <1>2, <2>2 DEF ItemSet, PlanFilled
<1>3. ASSUME UNCHANGED <<items, payments>> PROVE PlanFilled'
  BY <1>3 DEF PlanFilled
<1> QED
  BY <1>1, <1>2, <1>3 DEF BucketStep, DayPasses, RunStarts, RunRates, RunCommits, Opens, MarkSet

(* A month nobody read since the day is not rated and not being rated.      *)
LEMMA UnreadMonth ==
    ASSUME NEW J, PlanFits(J), NEW m \in MonthSet, NEW day, day <= MonthEnds[m], m \notin ReadMonths(J, day)
    PROVE  snapshots[m] = None /\ \A j \in J : rating[j] # Resting => rating[j].month # m
  BY DEF ReadMonths

LEMMA RatesUnread ==
    ASSUME NEW J, PlanFits(J), \A j \in J : rating'[j] = rating[j], snapshots' = snapshots,
           NEW m \in MonthSet, m \notin ReadMonths(J, 0), NEW rate
    PROVE  RatedAs(J, m, rate)'
<1>1. 0 <= MonthEnds[m]
  BY DEF PlanFits, MonthSet
<1>2. snapshots[m] = None /\ \A j \in J : rating[j] # Resting => rating[j].month # m
  BY <1>1, UnreadMonth
<1> QED
  BY <1>2 DEF RatedAs

(* The ratings of the months whose facts stand are kept by every move.      *)
LEMMA RatesKept ==
    ASSUME NEW J, NEW A, NEW Mds, NEW Sts, PlanFits(J), A \subseteq Nat,
           BucketsTyped(J, Mds, Sts), RatesStand(J), BucketStep(J, A, Mds, Sts)
    PROVE  RatesStand(J)'
<1>0. /\ SessionsTyped(J, Sts) /\ today \in Nat /\ Total \in Nat /\ Len(Due) \in Nat
      /\ payments \in Seq(PayRows(Mds)) /\ items \in [Plan -> ItemRows]
      /\ \A m \in MonthSet : MonthEnds[m] \in Nat
  BY DEF BucketsTyped, PaymentsTyped, PlanTyped, PlanFits, MonthSet
<1>1. ASSUME UNCHANGED <<items, payments, insolvency, snapshots, revised>>,
             \A j \in J : rating'[j] = rating[j]
      PROVE  RatesStand(J)'
  BY <1>1 DEF RatesStand, RatedAs
<1>2. CASE DayPasses(J)
  BY <1>1, <1>2 DEF DayPasses
<1>3. CASE PaymentComes(J, A, Mds)
  <2>1. PICK cents \in A, mode \in Mds, day \in Nat :
          /\ payments' = Append(payments, [cents |-> cents, day |-> day, mode |-> mode])
          /\ items' = IF mode # "regular" THEN items ELSE AfterPay(items, cents)
          /\ revised' = revised \cup ReadMonths(J, IF Unheld THEN 0 ELSE day)
    BY <1>3 DEF PaymentComes
  <2>2. UNCHANGED <<insolvency, snapshots, rating>>
    BY <1>3 DEF PaymentComes
  <2>3. items' \in [Plan -> ItemRows] /\ \A i \in Plan : items'[i].status = "suspended" => items[i].status = "suspended"
    BY <1>0, <2>1, PaymentTyped DEF BucketsTyped, PlanTyped
  <2> SUFFICES ASSUME NEW m \in MonthSet, m \notin revised'
               PROVE  RatedAs(J, m, RateOf(items, payments, insolvency, m))'
    BY DEF RatesStand
  <2>4. RatedAs(J, m, RateOf(items, payments, insolvency, m)) /\ m \notin ReadMonths(J, IF Unheld THEN 0 ELSE day)
    BY <2>1 DEF RatesStand
  <2>5. CASE day <= MonthEnds[m] \/ Unheld
    <3>1. m \notin ReadMonths(J, 0) \/ (day <= MonthEnds[m] /\ m \notin ReadMonths(J, day))
      BY <2>4, <2>5
    <3>2. 0 <= MonthEnds[m]
      BY <1>0
    <3>3. snapshots[m] = None /\ \A j \in J : rating[j] # Resting => rating[j].month # m
      BY <3>1, <3>2, UnreadMonth
    <3> QED
      BY <2>2, <3>3 DEF RatedAs
  <2>6. CASE ~(day <= MonthEnds[m]) /\ ~Unheld
    <3>1. \A i \in Plan : items[i].status = "suspended" <=> items'[i].status = "suspended"
      BY <2>3, <2>6 DEF Unheld
    <3> DEFINE p == [cents |-> cents, day |-> day, mode |-> mode]
    <3>2. p \in PayRows(Mds) /\ Brings(p, MonthEnds[m]) = 0
      BY <2>6 DEF PayRows, Brings
    <3> HIDE DEF p
    <3>3. Got(payments, MonthEnds[m]) \in Nat /\ Got(payments', MonthEnds[m]) = Got(payments, MonthEnds[m])
      <4>1. /\ Got(payments, MonthEnds[m]) \in Nat
            /\ Got(Append(payments, p), MonthEnds[m]) = Got(payments, MonthEnds[m]) + Brings(p, MonthEnds[m])
        BY <1>0, <3>2, GotMore
      <4>2. payments' = Append(payments, p)
        BY <2>1 DEF p
      <4> QED
        BY <3>2, <4>1, <4>2
    <3>4. RateOf(items', payments', insolvency, m) = RateOf(items, payments, insolvency, m)
      BY <1>0, <2>3, <3>1, <3>3, RateSame
    <3> QED
      BY <2>2, <2>4, <3>4 DEF RatedAs
  <2> QED
    BY <2>5, <2>6
<1>4. ASSUME NEW j \in J, NEW m \in MonthSet, RunStarts(j, m) PROVE RatesStand(J)'
  <2>1. PICK latest \in BOOLEAN : Turned(j, StartedNow(m, latest), J \cup Desks)
    BY <1>0, <1>4, StartTurns
  <2>2. /\ rating'[j].insolvency = insolvency /\ rating'[j].op # "rated"
        /\ \A t \in J : t # j => rating'[t] = rating[t]
    BY <2>1 DEF Turned, StartedNow
  <2>3. UNCHANGED <<items, payments, insolvency, snapshots, revised>>
    BY <1>4 DEF RunStarts
  <2> QED
    BY <2>2, <2>3 DEF RatesStand, RatedAs
<1>5. ASSUME NEW j \in J, RunRates(j) PROVE RatesStand(J)'
  <2>1. Turned(j, RatedNow(rating[j]), J \cup Desks)
    BY <1>0, <1>5, RateTurns
  <2>2. /\ rating'[j].month = rating[j].month /\ rating'[j].insolvency = rating[j].insolvency
        /\ rating'[j].rate = RateOf(items, payments, rating[j].insolvency, rating[j].month)
        /\ \A t \in J : t # j => rating'[t] = rating[t]
    BY <2>1 DEF Turned, RatedNow
  <2>3. UNCHANGED <<items, payments, insolvency, snapshots, revised>> /\ rating[j] # Resting
    BY <1>5 DEF RunRates, Resting
  <2> QED
    BY <2>2, <2>3 DEF RatesStand, RatedAs
<1>6. ASSUME NEW j \in J, RunCommits(j) PROVE RatesStand(J)'
  <2>1. rating[j] \in RatedRuns(Sts) /\ Turned(j, Resting, J \cup Desks)
    BY <1>0, <1>6, CommitTurns
  <2>2. PICK w \in RatedRuns(Sts) : w = rating[j]
    BY <2>1
  <2>3. rating'[j] = Resting /\ \A t \in J : t # j => rating'[t] = rating[t]
    BY <2>1 DEF Turned
  <2>4. w.month \in MonthSet /\ w.op = "rated" /\ w # Resting
    BY DEF RatedRuns, Resting
  <2>5. UNCHANGED <<items, payments, insolvency, revised>>
    BY <1>6 DEF RunCommits
  <2> SUFFICES ASSUME NEW m \in MonthSet, m \notin revised
               PROVE  RatedAs(J, m, RateOf(items, payments, insolvency, m))'
    BY <2>5 DEF RatesStand
  <2>6. RatedAs(J, m, RateOf(items, payments, insolvency, m))
    BY DEF RatesStand
  <2>7. snapshots'[m] = snapshots[m] \/ (m = w.month /\ snapshots'[m] = w.rate)
    <3>1. CASE snapshots' = snapshots
      BY <3>1
    <3>2. CASE snapshots' = [snapshots EXCEPT ![w.month] = Saved(w.row, w.rate, snapshots[w.month])]
      <4>1. snapshots'[m] = IF m = w.month THEN Saved(w.row, w.rate, snapshots[w.month]) ELSE snapshots[m]
        BY <3>2 DEF BucketsTyped, LoanTyped
      <4> QED
        BY <4>1 DEF Saved
    <3> QED
      BY <1>6, <2>2, <3>1, <3>2 DEF RunCommits
  <2>8. m = w.month => w.rate = RateOf(items, payments, insolvency, m)
    BY <2>2, <2>4, <2>6 DEF RatedAs
  <2> QED
    BY <2>3, <2>5, <2>6, <2>7, <2>8 DEF RatedAs
<1>7. ASSUME NEW d \in Desks, NEW op, NEW arg, Opens(d, op, arg) PROVE RatesStand(J)'
  BY <1>0, <1>1, <1>7, OpenTurns, DesksApart DEF Opens
<1>8. ASSUME NEW d \in Desks, MarkSet(J, d) PROVE RatesStand(J)'
  <2>1. \A j \in J : rating'[j] = rating[j]
    BY <1>0, <1>8, MarkTurns, DesksApart
  <2>2. CASE insolvency' = insolvency
    BY <1>1, <1>8, <2>1, <2>2 DEF MarkSet
  <2>3. CASE insolvency' # insolvency
    BY <1>8, <2>1, <2>3, RatesUnread DEF MarkSet, RatesStand
  <2> QED
    BY <2>2, <2>3
<1>9. ASSUME NEW d \in Desks, ItemSet(J, d) PROVE RatesStand(J)'
  <2>1. \A j \in J : rating'[j] = rating[j]
    BY <1>0, <1>9, ItemTurns, DesksApart
  <2> QED
    BY <1>9, <2>1, RatesUnread DEF ItemSet, RatesStand
<1> QED
  BY <1>2, <1>3, <1>4, <1>5, <1>6, <1>7, <1>8, <1>9 DEF BucketStep

(* What an overtaken commit does to the count.                              *)
LEMMA MissCounted ==
    ASSUME misses \in 0..2, NEW s, Missed(s)
    PROVE  /\ misses' = 0 => /\ misses = 0 /\ rating[s].insolvency = insolvency
                             /\ rating[s].bucket = bucket
           /\ misses' <= 1 => /\ misses <= 1
                              /\ misses = 0 \/ (rating[s].insolvency = insolvency /\ rating[s].bucket = bucket)
<1>1. CASE rating[s].insolvency = insolvency /\ rating[s].bucket = bucket
  <2>1. misses' = misses
    BY <1>1 DEF Missed
  <2> QED
    BY <1>1, <2>1
<1>2. CASE ~(rating[s].insolvency = insolvency /\ rating[s].bucket = bucket)
  <2>1. misses' = Least(2, misses + 1)
    BY <1>2 DEF Missed
  <2> QED
    BY <2>1 DEF Least
<1> QED
  BY <1>1, <1>2

(* A session that ends, or that holds what it read, keeps the marks.        *)
LEMMA MarksTurn ==
    ASSUME NEW J, MarksStand(J), UNCHANGED <<insolvency, bucket, misses>>,
           NEW s \in J \cup Desks, NEW v, Turned(s, v, J \cup Desks),
           \/ v = Resting
           \/ v.insolvency = insolvency /\ v.bucket = bucket
           \/ rating[s] # Resting /\ v.insolvency = rating[s].insolvency /\ v.bucket = rating[s].bucket,
           s \in J /\ v.op = "rated" => (v.rate = Bankrupt <=> v.insolvency # None)
    PROVE  MarksStand(J)'
<1>1. misses = 0 => \A t \in J \cup Desks : rating'[t] # Resting =>
        Alike(rating'[t].insolvency, rating'[t].bucket)
  BY DEF MarksStand, Turned
<1>2. \A j \in J : rating'[j].op = "rated" => (rating'[j].rate = Bankrupt <=> rating'[j].insolvency # None)
  BY DEF MarksStand, Turned
<1> QED
  BY <1>1, <1>2 DEF MarksStand

(* A commit that leaves status and bucket as it should.                     *)
LEMMA MarksEnd ==
    ASSUME NEW J, MarksStand(J), misses \in 0..2,
           NEW s \in J \cup Desks, Turned(s, Resting, J \cup Desks),
           misses' = 0 => misses = 0 /\ Alike(insolvency, bucket)',
           misses' <= 1 => ~(insolvency = None /\ bucket = Bankrupt)'
    PROVE  MarksStand(J)'
<1>1. misses' = 0 => \A t \in J \cup Desks : rating'[t] # Resting =>
        Alike(rating'[t].insolvency, rating'[t].bucket)
  BY DEF MarksStand, Turned
<1>2. \A j \in J : rating'[j].op = "rated" => (rating'[j].rate = Bankrupt <=> rating'[j].insolvency # None)
  BY DEF MarksStand, Turned, Resting
<1> QED
  BY <1>1, <1>2 DEF MarksStand

LEMMA MarksKept ==
    ASSUME NEW J, NEW A, NEW Mds, NEW Sts, PlanFits(J),
           BucketsTyped(J, Mds, Sts), MarksStand(J), BucketStep(J, A, Mds, Sts)
    PROVE  MarksStand(J)'
<1>0. SessionsTyped(J, Sts) /\ misses \in 0..2
  BY DEF BucketsTyped, LoanTyped
<1>1. ASSUME UNCHANGED <<insolvency, bucket, misses, rating>> PROVE MarksStand(J)'
  BY <1>1 DEF MarksStand
<1>2. ASSUME NEW j \in J, NEW m \in MonthSet, RunStarts(j, m) PROVE MarksStand(J)'
  <2>1. PICK latest \in BOOLEAN : Turned(j, StartedNow(m, latest), J \cup Desks)
    BY <1>0, <1>2, StartTurns
  <2>2. /\ StartedNow(m, latest).insolvency = insolvency /\ StartedNow(m, latest).bucket = bucket
        /\ StartedNow(m, latest).op # "rated"
    BY DEF StartedNow
  <2>3. UNCHANGED <<insolvency, bucket, misses>>
    BY <1>2 DEF RunStarts
  <2> QED
    BY <2>1, <2>2, <2>3, MarksTurn
<1>3. ASSUME NEW j \in J, RunRates(j) PROVE MarksStand(J)'
  <2>1. Turned(j, RatedNow(rating[j]), J \cup Desks)
    BY <1>0, <1>3, RateTurns
  <2>2. PICK v : v = RatedNow(rating[j])
    OBVIOUS
  <2>3. v.insolvency = rating[j].insolvency /\ v.bucket = rating[j].bucket
    BY <2>2 DEF RatedNow
  <2>4. v.rate = Bankrupt <=> v.insolvency # None
    BY <2>2, RateStands DEF RatedNow
  <2>5. UNCHANGED <<insolvency, bucket, misses>> /\ rating[j] # Resting
    BY <1>3 DEF RunRates, Resting
  <2> QED
    BY <2>1, <2>2, <2>3, <2>4, <2>5, MarksTurn
<1>4. ASSUME NEW j \in J, RunCommits(j) PROVE MarksStand(J)'
  <2>1. Turned(j, Resting, J \cup Desks)
    BY <1>0, <1>4, CommitTurns
  <2>2. PICK w : w = rating[j] /\ w # Resting
    BY <1>4 DEF RunCommits, Resting
  <2>3. w.rate = Bankrupt <=> w.insolvency # None
    BY <1>4, <2>2 DEF RunCommits, MarksStand
  <2>4. misses = 0 => Alike(insolvency, bucket) /\ Alike(w.insolvency, w.bucket)
    BY <2>2 DEF MarksStand
  <2>5. misses <= 1 => ~(insolvency = None /\ bucket = Bankrupt)
    BY DEF MarksStand
  <2>6. insolvency' = insolvency
    BY <1>4 DEF RunCommits
  <2>7. CASE UNCHANGED <<bucket, misses>>
    BY <1>0, <2>1, <2>4, <2>5, <2>6, <2>7, MarksEnd
  <2>8. CASE Missed(j) /\ (bucket' = bucket \/ (bucket' = w.rate /\ w.rate # w.bucket) \/ (bucket' = bucket /\ w.rate = w.bucket))
    <3>1. misses' = 0 => misses = 0 /\ w.insolvency = insolvency /\ w.bucket = bucket
      BY <1>0, <2>2, <2>8, MissCounted
    <3>2. misses' <= 1 => misses <= 1 /\ (misses = 0 \/ (w.insolvency = insolvency /\ w.bucket = bucket))
      BY <1>0, <2>2, <2>8, MissCounted
    <3>3. misses' = 0 => misses = 0 /\ Alike(insolvency, bucket)'
      BY <2>3, <2>4, <2>6, <2>8, <3>1 DEF Alike
    <3>4. misses' <= 1 => ~(insolvency = None /\ bucket = Bankrupt)'
      BY <2>3, <2>4, <2>5, <2>6, <2>8, <3>2 DEF Alike
    <3> QED
      BY <1>0, <2>1, <3>3, <3>4, MarksEnd
  <2>9. UNCHANGED <<bucket, misses>>
        \/ (Missed(j) /\ bucket' = IF w.latest THEN Saved(w.bucket, w.rate, bucket) ELSE bucket)
    BY <1>4, <2>2 DEF RunCommits
  <2> QED
    BY <2>7, <2>8, <2>9 DEF Saved
<1>5. ASSUME NEW d \in Desks, NEW op, NEW arg, op # "rated", Opens(d, op, arg) PROVE MarksStand(J)'
  <2>1. Turned(d, OpenedNow(op, arg), J \cup Desks)
    BY <1>0, <1>5, OpenTurns
  <2>2. /\ OpenedNow(op, arg).insolvency = insolvency /\ OpenedNow(op, arg).bucket = bucket
        /\ OpenedNow(op, arg).op # "rated"
    BY <1>5 DEF OpenedNow
  <2>3. UNCHANGED <<insolvency, bucket, misses>>
    BY <1>5 DEF Opens
  <2> QED
    BY <2>1, <2>2, <2>3, MarksTurn
<1>6. ASSUME NEW d \in Desks, MarkSet(J, d) PROVE MarksStand(J)'
  <2>1. rating[d] \in MarkDesks(Sts) /\ Turned(d, Resting, J \cup Desks)
    BY <1>0, <1>6, MarkTurns
  <2>2. PICK w \in MarkDesks(Sts) : w = rating[d] /\ w # Resting
    BY <2>1 DEF MarkDesks, Resting
  <2>3. w.rate # Bankrupt
    BY RungStands DEF MarkDesks
  <2>4. misses = 0 => Alike(insolvency, bucket) /\ Alike(w.insolvency, w.bucket)
    BY <2>2 DEF MarksStand
  <2>5. misses <= 1 => ~(insolvency = None /\ bucket = Bankrupt)
    BY DEF MarksStand
  <2>6. /\ insolvency' = (IF w.arg = w.insolvency THEN insolvency ELSE w.arg)
        /\ w.arg = None => bucket' = (IF w.rate = w.bucket THEN bucket ELSE w.rate)
        /\ w.arg # None => bucket' = (IF Bankrupt = w.bucket THEN bucket ELSE Bankrupt)
        /\ Missed(d)
    BY <1>6, <2>2 DEF MarkSet, Saved
  <2>7. misses' = 0 => misses = 0 /\ w.insolvency = insolvency /\ w.bucket = bucket
    BY <1>0, <2>2, <2>6, MissCounted
  <2>8. misses' <= 1 => misses <= 1 /\ (misses = 0 \/ (w.insolvency = insolvency /\ w.bucket = bucket))
    BY <1>0, <2>2, <2>6, MissCounted
  <2>9. misses' = 0 => misses = 0 /\ Alike(insolvency, bucket)'
    BY <2>3, <2>4, <2>6, <2>7 DEF Alike
  <2>10. misses' <= 1 => ~(insolvency = None /\ bucket = Bankrupt)'
    <3>1. CASE w.arg = None
      BY <2>3, <2>4, <2>5, <2>6, <2>8, <3>1 DEF Alike
    <3>2. CASE w.arg # None
      BY <2>3, <2>4, <2>5, <2>6, <2>8, <3>2 DEF Alike
    <3> QED
      BY <3>1, <3>2
  <2> QED
    BY <1>0, <2>1, <2>9, <2>10, MarksEnd
<1>7. ASSUME NEW d \in Desks, ItemSet(J, d) PROVE MarksStand(J)'
  <2>1. Turned(d, Resting, J \cup Desks)
    BY <1>0, <1>7, ItemTurns
  <2>2. UNCHANGED <<insolvency, bucket, misses>>
    BY <1>7 DEF ItemSet
  <2>3. Resting.op # "rated"
    BY DEF Resting
  <2> QED
    BY <2>1, <2>2, <2>3, MarksTurn
<1> QED
  BY <1>1, <1>2, <1>3, <1>4, <1>5, <1>6, <1>7 DEF BucketStep, DayPasses, PaymentComes

(* The moves keep the invariant.                                            *)
LEMMA BucketsStepKeeps ==
    ASSUME NEW J, NEW A, NEW Mds, NEW Sts, PlanFits(J), A \subseteq Nat,
           BucketsInv(J, Mds, Sts), BucketStep(J, A, Mds, Sts)
    PROVE  BucketsInv(J, Mds, Sts)'
<1>1. BucketsTyped(J, Mds, Sts)'
  BY BucketsStayTyped DEF BucketsInv
<1>2. LatestStands(J)'
  BY LatestKept DEF BucketsInv
<1>3. RatesStand(J)'
  BY RatesKept DEF BucketsInv
<1>4. MarksStand(J)'
  BY MarksKept DEF BucketsInv
<1>5. PlanFilled'
  BY FilledKept DEF BucketsInv
<1> QED
  BY <1>1, <1>2, <1>3, <1>4, <1>5 DEF BucketsInv

(* The ladder of ratings starts at current.                                 *)
LEMMA CurrentIsARung == ASSUME NEW J, PlanFits(J) PROVE "current" \in RungNames
<1>1. Len(Cuts) \in Nat
  BY DEF PlanFits
<1>2. 1 \in 1..(Len(Cuts) + 1)
  BY <1>1
<1>3. RungOrder[1] = "current"
  BY DEF RungOrder
<1> QED
  BY <1>2, <1>3 DEF RungNames

(* Both lanes begin with it.                                                *)
BucketStart(J) ==
    /\ today = 0 /\ items = [i \in Plan |-> [paid |-> 0, status |-> "open"]] /\ payments = << >>
    /\ insolvency = None /\ bucket = "current" /\ snapshots = [m \in MonthSet |-> None]
    /\ revised = {} /\ misses = 0 /\ rating = [s \in J \cup Desks |-> Resting]

LEMMA LanesStart ==
    (Estates!Init => BucketStart(EstateJobs)) /\ (Plans!Init => BucketStart(Jobs))
<1>1. Estates!Init => BucketStart(EstateJobs)
  BY SameNames DEF Estates!Init, BucketStart, Estates!Sessions
<1>2. Plans!Init => BucketStart(Jobs)
  BY SameNames DEF Plans!Init, BucketStart, Plans!Sessions
<1> QED
  BY <1>1, <1>2

LEMMA BucketsInitHold ==
    ASSUME NEW J, NEW Mds, NEW Sts, PlanFits(J), BucketStart(J)
    PROVE  BucketsInv(J, Mds, Sts)
<1>0. Total \in Nat /\ Horizon \in Nat
  BY DEF PlanFits
<1>1. PlanTyped
  BY <1>0 DEF BucketStart, PlanTyped, ItemRows, Marks
<1>2. PaymentsTyped(Mds)
  BY <1>0 DEF BucketStart, PaymentsTyped
<1>3. LoanTyped(Sts)
  BY CurrentIsARung DEF BucketStart, LoanTyped, Portfolios
<1>4. SessionsTyped(J, Sts)
  BY DEF BucketStart, SessionsTyped, RunHolds, DeskHolds
<1>5. LatestStands(J)
  BY DEF BucketStart, LatestStands
<1>6. RatesStand(J)
  BY DEF BucketStart, RatesStand, RatedAs
<1>7. MarksStand(J)
  <2>1. bucket # Bankrupt /\ insolvency = None
    BY DEF BucketStart, Bankrupt
  <2>2. \A s \in J \cup Desks : rating[s] = Resting
    BY DEF BucketStart
  <2>3. Resting.op # "rated"
    BY DEF Resting
  <2> QED
    BY <2>1, <2>2, <2>3 DEF MarksStand, Alike
<1>8. PlanFilled
  <2>1. payments \in Seq(PayRows(Mds)) /\ Len(payments) = 0
    BY DEF BucketStart
  <2>2. Got(payments, Horizon) = 0
    BY <1>0, <2>1, GotNothing
  <2>3. ASSUME NEW i \in Plan PROVE Share(0, i) = 0
    <3>1. i \in Nat \ {0}
      BY DEF Plan
    <3>2. PICK a \in Nat : a = (i - 1) * Total
      BY <1>0, <3>1, Befores
    <3> QED
      BY <3>2 DEF Share, ShareAt
  <2> QED
    BY <2>2, <2>3 DEF PlanFilled, BucketStart
<1> QED
  BY <1>1, <1>2, <1>3, <1>4, <1>5, <1>6, <1>7, <1>8 DEF BucketsInv, BucketsTyped

(* What the invariant says of the types, the plan and the cleared loan.     *)
LEMMA PlanReplayed ==
    ASSUME NEW J, NEW Mds, NEW Sts, PlanFits(J), BucketsInv(J, Mds, Sts),
           \A k \in 1..Len(payments) : payments[k].mode = "regular",
           \A i \in Plan : items[i].status = "suspended" => items[i].paid = 0
    PROVE  ReplayOf(items, payments, today) = [i \in Plan |-> items[i].paid]
<1>0. /\ Total \in Nat /\ Horizon \in Nat /\ today \in Nat /\ today <= Horizon
      /\ payments \in Seq(PayRows(Mds)) /\ items \in [Plan -> ItemRows]
  BY DEF PlanFits, BucketsInv, BucketsTyped, PaymentsTyped, PlanTyped
<1>1. PICK n \in Nat, skip \in SUBSET Marks : n = Len(Due) /\ skip = {"suspended"}
  <2>1. Len(Due) \in Nat
    BY DEF PlanFits
  <2> QED
    BY <2>1 DEF Marks
<1>2. Got(payments, today) = Got(payments, Horizon)
  <2>1. \A k \in 1..Len(payments) : payments[k].day \in Nat
    <3>1. \A k \in 1..Len(payments) : payments[k] \in PayRows(Mds)
      BY <1>0
    <3> QED
      BY <3>1 DEF PayRows
  <2>2. \A k \in 1..Len(payments) : payments[k].day <= today /\ payments[k].day <= Horizon
    BY <1>0, <2>1 DEF BucketsInv, BucketsTyped, PaymentsTyped
  <2> QED
    BY <1>0, <2>2, GotAll
<1>3. PICK c \in Nat : c = Got(payments, Horizon)
  BY <1>0, CountLaw DEF Counts
<1>4. \A i \in Plan : items[i].paid = Share(c, i)
  BY <1>3 DEF BucketsInv, PlanFilled
<1> DEFINE rs == Emptied(items)
<1>5. \A i \in Plan : rs[i].paid = 0 /\ rs[i].status = items[i].status
  BY <1>0 DEF Emptied, ItemRows
<1> HIDE DEF rs
<1>6. Unfilled(rs, c, skip)
  BY <1>1, <1>4, <1>5 DEF Unfilled
<1>7. \A i \in Plan : FilledPlan(rs, c, skip)[i] = Share(c, i)
  BY <1>0, <1>1, <1>6, ReplayFills
<1>8. FilledPlan(rs, c, skip) \in [Plan -> 0..Total]
  <2>1. \A i \in Plan : rs[i].paid \in 0..Total
    BY <1>0, <1>5
  <2>2. Fills(rs, c, skip, n)
    BY <1>0, <1>1, <2>1, FillByLeft
  <2> QED
    BY <2>2 DEF Fills
<1>9. FilledPlan(rs, c, skip) = [i \in Plan |-> items[i].paid]
  BY <1>4, <1>7, <1>8
<1> QED
  BY <1>1, <1>2, <1>3, <1>9 DEF ReplayOf, rs

LEMMA BucketsSound ==
    ASSUME NEW J, NEW Mds, NEW Sts, PlanFits(J), BucketsInv(J, Mds, Sts)
    PROVE  Estates!ReplayIsThePlan /\ Estates!ClearedLoanReenters
<1>1. Estates!ReplayIsThePlan
  BY PlanReplayed, SameNames DEF Estates!ReplayIsThePlan
<1>2. Estates!ClearedLoanReenters
  <2>1. misses \in 0..2 /\ (misses <= 1 => ~(insolvency = None /\ bucket = Bankrupt))
    BY DEF BucketsInv, BucketsTyped, LoanTyped, MarksStand
  <2> QED
    BY <2>1, SameNames DEF Estates!ClearedLoanReenters
<1> QED
  BY <1>1, <1>2

LEMMA BucketTypesHold ==
    ASSUME NEW J, NEW Mds, PlanFits(J)
    PROVE  /\ BucketsInv(J, Mds, Statuses) => Estates!TypeOK
           /\ BucketsInv(J, Mds, {}) => Plans!TypeOK
<1>1. ASSUME BucketsInv(J, Mds, Statuses) PROVE Estates!TypeOK
  <2>1. Estates!EffectiveBucket \in RungNames \cup {Bankrupt}
    BY <1>1, SameNames, CurrentIsARung
       DEF Estates!EffectiveBucket, BucketsInv, BucketsTyped, LoanTyped, Portfolios
  <2> QED
    BY <1>1, <2>1, SameNames
       DEF Estates!TypeOK, Estates!Days, BucketsInv, BucketsTyped, PlanTyped, PaymentsTyped, LoanTyped,
           Portfolios, ItemRows, Marks
<1>2. ASSUME BucketsInv(J, Mds, {}) PROVE Plans!TypeOK
  <2>1. Plans!EffectiveBucket \in RungNames \cup {Bankrupt}
    BY <1>2, SameNames, CurrentIsARung
       DEF Plans!EffectiveBucket, BucketsInv, BucketsTyped, LoanTyped, Portfolios
  <2> QED
    BY <1>2, <2>1, SameNames
       DEF Plans!TypeOK, Plans!Days, BucketsInv, BucketsTyped, PlanTyped, PaymentsTyped, LoanTyped,
           Portfolios, ItemRows, Marks
<1> QED
  BY <1>1, <1>2

(* A move rewrites only ratings whose facts moved, and the loan's bucket    *)
(* only for the newest month.                                               *)
MonthsMove(J) ==
    /\ \A m \in MonthSet : snapshots[m] # None /\ m \notin revised => snapshots'[m] = snapshots[m]
    /\ \A j \in J : rating[j].op = "rated" /\ rating'[j] = Resting /\ bucket' # bucket =>
         \A n \in MonthSet : n > rating[j].month => snapshots[n] = None

LEMMA MonthsKept ==
    ASSUME NEW J, NEW A, NEW Mds, NEW Sts, PlanFits(J),
           BucketsInv(J, Mds, Sts), BucketStep(J, A, Mds, Sts)
    PROVE  MonthsMove(J)
<1>0. SessionsTyped(J, Sts) /\ today \in Nat /\ \A m \in MonthSet : MonthEnds[m] \in Nat
  BY DEF BucketsInv, BucketsTyped, PaymentsTyped, PlanFits, MonthSet
<1>1. ASSUME NEW j \in J, RunCommits(j) PROVE MonthsMove(J)
  <2>1. rating[j] \in RatedRuns(Sts) /\ Turned(j, Resting, J \cup Desks)
    BY <1>0, <1>1, CommitTurns
  <2>2. PICK w \in RatedRuns(Sts) : w = rating[j] /\ w # Resting
    BY <2>1 DEF RatedRuns, Resting
  <2>3. ASSUME NEW m \in MonthSet, snapshots[m] # None, m \notin revised
        PROVE  snapshots'[m] = snapshots[m]
    <3>1. CASE snapshots' = snapshots
      BY <3>1
    <3>2. CASE snapshots' = [snapshots EXCEPT ![w.month] = Saved(w.row, w.rate, snapshots[w.month])]
      <4>1. snapshots'[m] = IF m = w.month THEN Saved(w.row, w.rate, snapshots[w.month]) ELSE snapshots[m]
        BY <3>2 DEF BucketsInv, BucketsTyped, LoanTyped
      <4>2. m = w.month => w.rate = snapshots[m]
        BY <2>2, <2>3 DEF BucketsInv, RatesStand, RatedAs, RatedRuns
      <4> QED
        BY <4>1, <4>2 DEF Saved
    <3> QED
      BY <1>1, <2>2, <3>1, <3>2 DEF RunCommits
  <2>4. ASSUME NEW i \in J, rating[i].op = "rated", rating'[i] = Resting, bucket' # bucket,
               NEW n \in MonthSet, n > rating[i].month
        PROVE  snapshots[n] = None
    <3>1. i = j
      BY <2>1, <2>4 DEF Turned, Resting
    <3>2. rating[j].latest
      BY <1>1, <2>4 DEF RunCommits
    <3>3. today < MonthEnds[n]
      BY <2>2, <2>4, <3>1, <3>2 DEF BucketsInv, LatestStands
    <3> QED
      BY <1>0, <3>3 DEF BucketsInv, LatestStands
  <2> QED
    BY <2>3, <2>4 DEF MonthsMove
<1>2. ASSUME snapshots' = snapshots, bucket' = bucket PROVE MonthsMove(J)
  BY <1>2 DEF MonthsMove
<1>3. ASSUME NEW d \in Desks, MarkSet(J, d) PROVE MonthsMove(J)
  <2>1. \A j \in J : rating'[j] = rating[j]
    BY <1>0, <1>3, MarkTurns, DesksApart
  <2>2. snapshots' = snapshots /\ Resting.op # "rated"
    BY <1>3 DEF MarkSet, Resting
  <2> QED
    BY <2>1, <2>2 DEF MonthsMove
<1> QED
  BY <1>1, <1>2, <1>3 DEF BucketStep, DayPasses, PaymentComes, RunStarts, RunRates, Opens, ItemSet

----------------------------------------------------------------------------
(* The types of the desk and the profiles that the runs check.              *)

FeeTypes ==
    /\ deskDay \in 0..FeeHorizon /\ doubled \in BOOLEAN /\ promises = << >>
    /\ markers \subseteq Loans \X (0..FeeHorizon)
    /\ DOMAIN desk = Clerks
    /\ \A s \in Clerks : /\ desk[s].op \notin {"promise", "judge"}
                         /\ desk[s].op = "fee" => desk[s].loans \subseteq Loans
                                                  /\ desk[s].month \in 0..FeeHorizon

PromiseTypes ==
    deskDay \in 0..PromiseHorizon /\ markers = {}

(* A month of a day within the horizon has a number within it.              *)
LEMMA MonthInRange ==
    ASSUME Fees!WorkAssumption, NEW day \in Fees!Days
    PROVE  Fees!MonthOf(day) \in 0..FeeHorizon
<1>1. FeeMonth \in Nat \ {0} /\ FeeHorizon \in Nat /\ day \in 0..FeeHorizon
  BY DEF Fees!WorkAssumption, Fees!Days
<1>2. \A x \in Nat, y \in Nat \ {0} : x \div y \in Nat /\ x \div y <= x
  OBVIOUS
<1>3. day \div FeeMonth \in Nat /\ day \div FeeMonth <= day
  BY <1>1, <1>2
<1> QED
  BY <1>1, <1>3 DEF Fees!MonthOf

LEMMA FeeTypesInit == ASSUME Fees!WorkAssumption, Fees!Init PROVE FeeTypes
<1>1. FeeHorizon \in Nat /\ deskDay = 0 /\ markers = {} /\ promises = << >> /\ doubled = FALSE
  BY DEF Fees!WorkAssumption, Fees!Init
<1>2. DOMAIN desk = Clerks /\ \A s \in Clerks : desk[s].op = "idle"
  BY DEF Fees!Init, Fees!Idle
<1>3. deskDay \in 0..FeeHorizon
  BY <1>1
<1>4. markers \subseteq Loans \X (0..FeeHorizon)
  BY <1>1
<1> QED
  BY <1>1, <1>2, <1>3, <1>4 DEF FeeTypes

LEMMA FeeTypesKept == ASSUME Fees!WorkAssumption, FeesInv, FeeTypes, Fees!Next PROVE FeeTypes'
<1> USE DEF FeeTypes
<1>1. CASE Fees!Tick
  <2>1. deskDay' = deskDay + 1 /\ deskDay < FeeHorizon /\ FeeHorizon \in Nat
        /\ UNCHANGED <<promises, markers, doubled, desk>>
    BY <1>1 DEF Fees!Tick, Fees!WorkAssumption
  <2>2. deskDay' \in 0..FeeHorizon
    BY <2>1
  <2> QED
    BY <2>1, <2>2
<1>2. ASSUME NEW l \in Loans, Fees!SetInsolvency(l) \/ Fees!Pay(l) PROVE FeeTypes'
  <2>1. UNCHANGED <<deskDay, promises, markers, doubled, desk>>
    BY <1>2 DEF Fees!SetInsolvency, Fees!Pay
  <2> QED
    BY <2>1
<1>3. ASSUME NEW s \in Clerks, Fees!ReadFee(s) PROVE FeeTypes'
  <2>1. PICK day \in Fees!Days, chosen \in {insolvent} \cup {{l} : l \in insolvent} :
          Fees!FeeOpen(s, chosen, Fees!MonthOf(day))
    BY <1>3 DEF Fees!ReadFee
  <2> DEFINE v == [op |-> "fee", month |-> Fees!MonthOf(day),
                   loans |-> {l \in chosen : <<l, Fees!MonthOf(day)>> \notin markers},
                   next  |-> [l \in Loans |-> Len(books[l]) + 1]]
  <2>2. /\ desk' = [desk EXCEPT ![s] = v] /\ v.op = "fee" /\ v.month = Fees!MonthOf(day)
        /\ v.loans \subseteq chosen
    BY <2>1 DEF Fees!FeeOpen
  <2> HIDE DEF v
  <2>3. chosen \subseteq Loans
    BY DEF FeesInv, FeesTyped
  <2>4. v.loans \subseteq Loans /\ v.month \in 0..FeeHorizon
    BY <2>2, <2>3, MonthInRange
  <2>5. UNCHANGED <<deskDay, insolvent, books, markers, promises, doubled>>
    BY <1>3 DEF Fees!ReadFee
  <2> QED
    BY <2>2, <2>4, <2>5
<1>4. ASSUME NEW s \in Clerks, Fees!ChargeFees(s) PROVE FeeTypes'
  <2>1. /\ desk[s].op = "fee" /\ UNCHANGED <<deskDay, promises, doubled>>
        /\ desk' = [desk EXCEPT ![s] = Fees!Idle]
    BY <1>4 DEF Fees!ChargeFees, Fees!Give
  <2>2. markers' = markers \/ markers' = markers \cup {<<l, desk[s].month>> : l \in desk[s].loans}
    BY <1>4 DEF Fees!ChargeFees
  <2>3. markers' \subseteq Loans \X (0..FeeHorizon)
    BY <2>1, <2>2
  <2>4. Fees!Idle.op = "idle"
    BY DEF Fees!Idle
  <2> QED
    BY <2>1, <2>3, <2>4
<1>5. ASSUME NEW s \in Clerks, Fees!ReadPromise(s) \/ Fees!AddPromise(s) \/ Fees!WritePromises(s)
      PROVE  FALSE
  BY <1>5 DEF Fees!ReadPromise, Fees!AddPromise, Fees!WritePromises
<1>6. ASSUME NEW s \in Clerks, Fees!ReadPromises(s) PROVE FALSE
  <2>1. 1..Len(promises) = {}
    OBVIOUS
  <2> QED
    BY <1>6, <2>1 DEF Fees!ReadPromises, Fees!Judged
<1> QED
  BY <1>1, <1>2, <1>3, <1>4, <1>5, <1>6 DEF Fees!Next

LEMMA FeesAreTyped == ASSUME FeesInv, FeeTypes PROVE Fees!TypeOK
<1>1. ASSUME NEW l \in Loans, NEW k \in 1..Len(books[l]) PROVE books[l][k].kind \in {"payment", "fee"}
  <2>1. books[l] \in Seq(BookRows)
    BY DEF FeesInv, FeesTyped
  <2>2. books[l][k] \in BookRows
    BY <2>1
  <2> QED
    BY <2>2 DEF BookRows
<1> QED
  BY <1>1 DEF Fees!TypeOK, Fees!Days, FeesInv, FeesTyped, FeeTypes

LEMMA PromiseTypesInit == ASSUME Promises!WorkAssumption, Promises!Init PROVE PromiseTypes
  BY DEF Promises!WorkAssumption, Promises!Init, PromiseTypes

LEMMA PromiseTypesKept ==
    ASSUME Promises!WorkAssumption, PromisesInv, PromiseTypes, Promises!Next
    PROVE  PromiseTypes'
<1> USE DEF PromiseTypes
<1>1. CASE Promises!Tick
  BY <1>1 DEF Promises!Tick, Promises!WorkAssumption
<1>2. ASSUME NEW l, Promises!SetInsolvency(l) \/ Promises!Pay(l) PROVE PromiseTypes'
  BY <1>2 DEF Promises!SetInsolvency, Promises!Pay
<1>3. ASSUME NEW s \in Clerks, Promises!ChargeFees(s) PROVE FALSE
  BY <1>3 DEF Promises!ChargeFees, PromisesInv, PromisesTyped
<1>4. ASSUME NEW s \in Clerks, \/ Promises!ReadFee(s) \/ Promises!ReadPromise(s)
                               \/ Promises!AddPromise(s) \/ Promises!ReadPromises(s)
                               \/ Promises!WritePromises(s)
      PROVE  PromiseTypes'
  BY <1>4 DEF Promises!ReadFee, Promises!ReadPromise, Promises!AddPromise, Promises!ReadPromises,
              Promises!WritePromises
<1> QED
  BY <1>1, <1>2, <1>3, <1>4 DEF Promises!Next

LEMMA PromisesAreTyped == ASSUME PromisesInv, PromiseTypes PROVE Promises!TypeOK
<1>1. ASSUME NEW k \in 1..Len(books[Debtor]) PROVE books[Debtor][k].kind \in {"payment", "fee"}
  <2>1. books[Debtor] \in Seq(BookRows)
    BY DEF PromisesInv, PromisesTyped
  <2>2. books[Debtor][k] \in BookRows
    BY <2>1
  <2> QED
    BY <2>2 DEF BookRows
<1>2. ASSUME NEW k \in 1..Len(promises) PROVE promises[k].status \in {"open", "kept", "broken", "cancelled"}
  <2>1. promises[k] \in PromiseRows
    BY DEF PromisesInv, PromisesTyped
  <2> QED
    BY <2>1 DEF PromiseRows
<1> QED
  BY <1>1, <1>2 DEF Promises!TypeOK, Promises!Days, PromisesInv, PromisesTyped, PromiseTypes

(* Applications found stale are applications.                               *)
LEMMA StaleKept == ASSUME ProfilesInv, stale \subseteq Apps, Profiles!Next PROVE stale' \subseteq Apps
<1>0. ASSUME NEW e \in Profiles!Sessions, editing[e].op \in {"link", "attach"}
      PROVE  editing[e].app \in Apps
  <2>1. SessionTyped(e, editing[e])
    BY DEF ProfilesInv, ProfilesTyped
  <2> QED
    BY <1>0, <2>1 DEF SessionTyped, LinkRows, AttachRows
<1>1. ASSUME NEW e \in Editors, Profiles!BackfillLink(e) PROVE stale' \subseteq Apps
  <2>1. editing[e].app \in Apps
    BY <1>0, <1>1 DEF Profiles!BackfillLink, Profiles!Doing, Profiles!Sessions
  <2>2. stale' = stale \/ stale' = stale \cup {editing[e].app}
    BY <1>1 DEF Profiles!BackfillLink
  <2> QED
    BY <2>1, <2>2
<1>2. ASSUME NEW e \in Editors, Profiles!EditCommit(e) PROVE stale' \subseteq Apps
  <2> DEFINE linking == {t \in Attachers : editing[t].op = "attach"}
  <2>1. stale' = stale \cup {editing[s].app : s \in linking}
    BY <1>2 DEF Profiles!EditCommit, Profiles!Doing
  <2>2. \A s \in linking : editing[s].app \in Apps
    BY <1>0 DEF Profiles!Sessions
  <2> QED
    BY <2>1, <2>2
<1>3. ASSUME NEW e
      PROVE  /\ Profiles!CreateRead(e) => stale' = stale
             /\ Profiles!CreateCommit(e) => stale' = stale
             /\ Profiles!EditRead(e) => stale' = stale
             /\ Profiles!EditFlush(e) => stale' = stale
             /\ Profiles!KeepCommit(e) => stale' = stale
             /\ Profiles!Freeze(e) => stale' = stale
             /\ Profiles!AttachCommit(e) => stale' = stale
  <2>1. Profiles!CreateRead(e) => stale' = stale
    BY DEF Profiles!CreateRead
  <2>2. Profiles!CreateCommit(e) => stale' = stale
    BY DEF Profiles!CreateCommit
  <2>3. Profiles!EditRead(e) => stale' = stale
    BY DEF Profiles!EditRead
  <2>4. Profiles!EditFlush(e) => stale' = stale
    BY DEF Profiles!EditFlush
  <2>5. Profiles!KeepCommit(e) => stale' = stale
    BY DEF Profiles!KeepCommit
  <2>6. Profiles!Freeze(e) => stale' = stale
    BY DEF Profiles!Freeze
  <2>7. Profiles!AttachCommit(e) => stale' = stale
    BY DEF Profiles!AttachCommit
  <2> QED
    BY <2>1, <2>2, <2>3, <2>4, <2>5, <2>6, <2>7
<1>4. ASSUME NEW e, NEW a
      PROVE  /\ Profiles!BackfillRead(e, a) => stale' = stale
             /\ Profiles!AttachRead(e, a) => stale' = stale
             /\ Profiles!KeepRead(e, a) => stale' = stale
  <2>1. Profiles!BackfillRead(e, a) => stale' = stale
    BY DEF Profiles!BackfillRead
  <2>2. Profiles!AttachRead(e, a) => stale' = stale
    BY DEF Profiles!AttachRead
  <2>3. Profiles!KeepRead(e, a) => stale' = stale
    BY DEF Profiles!KeepRead
  <2> QED
    BY <2>1, <2>2, <2>3
<1>5. (\E e \in Editors : \/ Profiles!BackfillLink(e) \/ Profiles!EditCommit(e)) => stale' \subseteq Apps
  BY <1>1, <1>2
<1>6. \/ stale' = stale
      \/ \E e \in Editors : Profiles!BackfillLink(e) \/ Profiles!EditCommit(e)
  BY <1>3, <1>4 DEF Profiles!Next
<1> QED
  BY <1>5, <1>6

LEMMA ProfilesAreTyped == ASSUME ProfilesInv, stale \subseteq Apps PROVE Profiles!TypeOK
<1>1. ASSUME NEW k \in 1..Len(rows)
      PROVE  rows[k].field \in Fields /\ rows[k].value \in Values /\ rows[k].version \in Nat \ {0}
  <2>1. rows[k] \in ProfileRows
    BY DEF ProfilesInv, ProfilesTyped
  <2> QED
    BY <2>1 DEF ProfileRows
<1> QED
  BY <1>1 DEF Profiles!TypeOK, ProfilesInv, ProfilesTyped

----------------------------------------------------------------------------
(* The lanes together.                                                      *)

(* A lane that stands still keeps its invariant.                            *)
LEMMA ImportsRest == ASSUME ImportsInv, UNCHANGED importVars PROVE ImportsInv'
<1>0. UNCHANGED <<file, loan, receipts, ledger, batch, overtaken, work, faults, taken>>
  BY DEF importVars, vars
<1>1. ImportsTyped'
  <2>1. Refs' = Refs
    BY <1>0 DEF Refs, BookRef, CsvRef, Rows
  <2>2. Cash' = Cash /\ Rows' = Rows
    BY <1>0 DEF Cash, Rows
  <2>3. ReceiptRows' = ReceiptRows /\ LedgerRows' = LedgerRows /\ BatchRows' = BatchRows
    BY <1>0, <2>1, <2>2 DEF ReceiptRows, LedgerRows, BatchRows
  <2>4. Applying' = Applying /\ Copying' = Copying
    BY <2>1, <2>2, <2>3 DEF Applying, Copying
  <2> QED
    BY <1>0, <2>3, <2>4 DEF ImportsInv, ImportsTyped
<1>2. ReceiptsNamed'
  BY <1>0 DEF ImportsInv, ReceiptsNamed, BookRef, CsvRef
<1>3. ReceiptsApart'
  BY <1>0 DEF ImportsInv, ReceiptsApart
<1>4. RefsRead'
  BY <1>0 DEF ImportsInv, RefsRead, RefsOf
<1>5. BatchesClean'
  BY <1>0 DEF ImportsInv, BatchesClean, CleanFile, CsvRef, Cash, Rows
<1>6. ClaimsHold'
  BY <1>0 DEF ImportsInv, ClaimsHold, Holds
<1>7. BatchKeepsItsWord'
  BY <1>0 DEF ImportsInv, BatchKeepsItsWord, RefsOf, Variants, CsvRef
<1>8. LedgerKept'
  BY <1>0 DEF ImportsInv, LedgerKept
<1> QED
  BY <1>1, <1>2, <1>3, <1>4, <1>5, <1>6, <1>7, <1>8 DEF ImportsInv

LEMMA ProfilesRest == ASSUME ProfilesInv, UNCHANGED profileVars PROVE ProfilesInv'
<1>0. UNCHANGED <<profile, rows, app, shared, stale, opened, editing>>
  BY DEF profileVars
<1>1. ProfilesTyped'
  BY <1>0 DEF ProfilesInv, ProfilesTyped
<1>2. Explained'
  BY <1>0 DEF ProfilesInv, Explained
<1> QED
  BY <1>0, <1>1, <1>2 DEF ProfilesInv

LEMMA DeskRests ==
  ASSUME UNCHANGED workVars
  PROVE  /\ FeesInv /\ FeeTypes => FeesInv' /\ FeeTypes'
         /\ PromisesInv /\ PromiseTypes => PromisesInv' /\ PromiseTypes'
<1>0. UNCHANGED <<deskDay, insolvent, books, markers, promises, doubled, desk>>
  BY DEF workVars
<1>1. FeesInv => FeesInv'
  BY <1>0 DEF FeesInv, FeesTyped
<1>2. PromisesInv => PromisesInv'
  BY <1>0 DEF PromisesInv, PromisesTyped, JudgementsRight, OneOpen, Promises!NoneOpen
<1>3. (FeeTypes => FeeTypes') /\ (PromiseTypes => PromiseTypes')
  BY <1>0 DEF FeeTypes, PromiseTypes
<1> QED
  BY <1>1, <1>2, <1>3

LEMMA BucketsRest ==
  ASSUME NEW J, NEW Mds, NEW Sts, BucketsInv(J, Mds, Sts), UNCHANGED bucketVars
  PROVE  BucketsInv(J, Mds, Sts)'
<1>0. UNCHANGED <<today, items, payments, insolvency, bucket, snapshots, revised, misses, rating>>
  BY DEF bucketVars
<1>1. BucketsTyped(J, Mds, Sts)'
  BY <1>0 DEF BucketsInv, BucketsTyped, PlanTyped, PaymentsTyped, LoanTyped, SessionsTyped
<1>2. LatestStands(J)'
  BY <1>0 DEF BucketsInv, LatestStands
<1>3. RatesStand(J)'
  BY <1>0 DEF BucketsInv, RatesStand, RatedAs
<1>4. MarksStand(J)'
  BY <1>0 DEF BucketsInv, MarksStand
<1>5. PlanFilled'
  BY <1>0 DEF BucketsInv, PlanFilled
<1> QED
  BY <1>1, <1>2, <1>3, <1>4, <1>5 DEF BucketsInv

(* What the buckets ask of the constants.                                   *)
LEMMA PlansFit ==
    PlanFits(Jobs) /\ PlanFits(EstateJobs) /\ Amounts \subseteq Nat /\ EstateAmounts \subseteq Nat
  BY ConstantsFit DEF Plans!BucketsAssumption, Estates!BucketsAssumption, PlanFits

(* A step of a lane keeps the buckets' invariant and past months.           *)
LEMMA PlanMoves ==
  ASSUME BucketsInv(Jobs, Modes, {}), Plans!Next
  PROVE  BucketsInv(Jobs, Modes, {})' /\ MonthsMove(Jobs)
<1>1. today \in Nat
  BY DEF BucketsInv, BucketsTyped, PaymentsTyped
<1>2. BucketStep(Jobs, Amounts, Modes, {})
  BY <1>1, PlansMoves
<1> QED
  BY <1>2, PlansFit, BucketsStepKeeps, MonthsKept

LEMMA EstateMoves ==
  ASSUME BucketsInv(EstateJobs, {"regular"}, Statuses), Estates!Next
  PROVE  BucketsInv(EstateJobs, {"regular"}, Statuses)' /\ MonthsMove(EstateJobs)
<1>1. today \in Nat
  BY DEF BucketsInv, BucketsTyped, PaymentsTyped
<1>2. PICK regular : regular = {"regular"}
  OBVIOUS
<1>3. BucketStep(EstateJobs, EstateAmounts, regular, Statuses)
  BY <1>1, <1>2, EstatesMoves
<1>4. BucketsInv(EstateJobs, regular, Statuses)
  BY <1>2
<1>5. BucketsInv(EstateJobs, regular, Statuses)' /\ MonthsMove(EstateJobs)
  BY <1>3, <1>4, PlansFit, BucketsStepKeeps, MonthsKept
<1> QED
  BY <1>2, <1>5

(* What the lanes keep of one another: the migration and the profiles stand *)
(* whichever lane moves, the buckets, the fees and the promises where       *)
(* theirs does.                                                             *)
Lanes == {"imports", "profiles", "plans", "estates", "fees", "promises"}

PlansInv   == BucketsInv(Jobs, Modes, {})
EstatesInv == BucketsInv(EstateJobs, {"regular"}, Statuses)

RecordsInv ==
    /\ lane \in Lanes
    /\ ImportsInv /\ ProfilesInv /\ stale \subseteq Apps
    /\ lane = "plans" => PlansInv
    /\ lane = "estates" => EstatesInv
    /\ lane = "fees" => FeesInv /\ FeeTypes
    /\ lane = "promises" => PromisesInv /\ PromiseTypes

LEMMA LanesBegin == ASSUME LaneInit PROVE RecordsInv
<1>1. ImportsInv /\ ProfilesInv
  BY ConstantsFit, ImportsInitHolds, ProfilesInitHolds DEF LaneInit
<1>2. lane \in Lanes /\ stale = {}
  BY DEF LaneInit, Lanes, Profiles!Init
<1>3. lane = "plans" => PlansInv
  BY LanesStart, PlansFit, BucketsInitHold DEF LaneInit, PlansInv
<1>4. lane = "estates" => EstatesInv
  <2>1. PICK regular : regular = {"regular"}
    OBVIOUS
  <2>2. lane = "estates" => BucketsInv(EstateJobs, regular, Statuses)
    BY LanesStart, PlansFit, BucketsInitHold DEF LaneInit
  <2> QED
    BY <2>1, <2>2 DEF EstatesInv
<1>5. lane = "fees" => FeesInv /\ FeeTypes
  BY ConstantsFit, FeesInitHolds, FeeTypesInit DEF LaneInit
<1>6. lane = "promises" => PromisesInv /\ PromiseTypes
  BY ConstantsFit, PromisesInitHolds, PromiseTypesInit DEF LaneInit
<1> QED
  BY <1>1, <1>2, <1>3, <1>4, <1>5, <1>6 DEF RecordsInv

(* What the profiles keep stands while they rest.                           *)
LEMMA StaleRests == ASSUME stale \subseteq Apps, UNCHANGED profileVars PROVE stale' \subseteq Apps
  BY DEF profileVars

LEMMA PlansRest ==
  ASSUME UNCHANGED bucketVars
  PROVE  (PlansInv => PlansInv') /\ (EstatesInv => EstatesInv')
<1>1. PICK regular : regular = {"regular"}
  OBVIOUS
<1>2. BucketsInv(EstateJobs, regular, Statuses) => BucketsInv(EstateJobs, regular, Statuses)'
  BY BucketsRest
<1>3. PlansInv => PlansInv'
  BY BucketsRest DEF PlansInv
<1> QED
  BY <1>1, <1>2, <1>3 DEF EstatesInv

LEMMA RecordsStep == ASSUME RecordsInv, [LaneNext]_allVars PROVE RecordsInv'
<1> USE DEF RecordsInv
<1>1. CASE ImportStep
  BY <1>1, ConstantsFit, ImportsStepKeeps, ProfilesRest, StaleRests, PlansRest, DeskRests
     DEF ImportStep
<1>2. CASE ProfileStep
  BY <1>2, ConstantsFit, ImportsRest, ProfilesStepKeeps, StaleKept, PlansRest, DeskRests
     DEF ProfileStep
<1>3. CASE PlanStep
  BY <1>3, ImportsRest, ProfilesRest, StaleRests, PlanMoves, DeskRests DEF PlanStep, PlansInv
<1>4. CASE EstateStep
  BY <1>4, ImportsRest, ProfilesRest, StaleRests, EstateMoves, DeskRests DEF EstateStep, EstatesInv
<1>5. CASE FeeStep
  BY <1>5, ConstantsFit, ImportsRest, ProfilesRest, StaleRests, PlansRest, FeesStepKeeps, FeeTypesKept
     DEF FeeStep
<1>6. CASE PromiseStep
  BY <1>6, ConstantsFit, ImportsRest, ProfilesRest, StaleRests, PlansRest, PromisesStepKeeps,
     PromiseTypesKept DEF PromiseStep
<1>7. CASE UNCHANGED allVars
  BY <1>7, ImportsRest, ProfilesRest, StaleRests, PlansRest, DeskRests DEF allVars
<1> QED
  BY <1>1, <1>2, <1>3, <1>4, <1>5, <1>6, <1>7 DEF LaneNext

LEMMA RecordsKept == LaneSpec => []RecordsInv
<1>1. LaneInit => RecordsInv
  BY LanesBegin
<1>2. RecordsInv /\ [LaneNext]_allVars => RecordsInv'
  BY RecordsStep
<1> QED
  BY <1>1, <1>2, PTL DEF LaneSpec

(* However workbooks and CSV batches of an account are repeated, cancelled  *)
(* and overlap, no row of its history is copied twice, a payment with a     *)
(* transaction number has one receipt, and each reversal undoes an earlier  *)
(* payment of its amount that nothing else undoes, for any history and any  *)
(* number of batches, requests and faults (_import_transactions,            *)
(* _apply_payments).                                                        *)
THEOREM HistoriesCopiedOnce == LaneSpec => []HistoryOnce
<1>1. RecordsInv => HistoryOnce
  BY HistoriesOnce DEF RecordsInv
<1> HIDE DEF RecordsInv, HistoryOnce
<1> QED
  BY <1>1, RecordsKept, PTL

(* A batch's status tells the truth about the books: only an applied batch  *)
(* has put rows there, and they hold every row its report does not list as  *)
(* failed, unless a cancellation overlapped its confirmation, for any       *)
(* number of batches and requests (confirm_batch, cancel_batch).            *)
THEOREM BatchesKeepTheirWord == LaneSpec => []BatchKeepsItsWord
<1>1. RecordsInv => BatchKeepsItsWord
  BY DEF RecordsInv, ImportsInv
<1> HIDE DEF RecordsInv, BatchKeepsItsWord
<1> QED
  BY <1>1, RecordsKept, PTL

(* Of every field of a profile one row is current, the newest, and each     *)
(* earlier one names the row that replaced it, for any fields, values and   *)
(* overlapping edits, backfills, locks and deletions (_write_values).       *)
THEOREM OneValueIsCurrent == LaneSpec => []OneCurrentValue
<1>1. RecordsInv => OneCurrentValue
  BY ProfilesSound DEF RecordsInv, OneCurrentValue
<1> HIDE DEF RecordsInv, OneCurrentValue
<1> QED
  BY <1>1, RecordsKept, PTL

(* A decision is reproducible from the changelog unless an edit committed   *)
(* while its application was linked, and a backfill replaces no value,      *)
(* unless two edits that overlapped share a version number, for any         *)
(* fields, applications and sessions (build_snapshot,                       *)
(* attach_profile_to_application, backfill_profile_from_application).       *)
THEOREM DecisionsAreExplained == LaneSpec => []DecisionsStayExplained
<1>1. RecordsInv => DecisionsStayExplained
  BY ProfilesSound DEF RecordsInv, DecisionsStayExplained
<1> HIDE DEF RecordsInv, DecisionsStayExplained
<1> QED
  BY <1>1, RecordsKept, PTL

(* An insolvent borrower is charged once a calendar month, and the fees on  *)
(* the ledger are the markers; a promise is judged by the cash of its       *)
(* window, for any portfolio, amounts and number of clerks                  *)
(* (apply_maintenance_fee, refresh_promise_statuses, create_promise).       *)
THEOREM DeskKeepsItsBooks == LaneSpec => []DeskKeepsBooks
<1>1. RecordsInv => DeskKeepsBooks
  BY FeesSound, PromisesSound DEF RecordsInv, DeskKeepsBooks
<1> HIDE DEF RecordsInv, DeskKeepsBooks
<1> QED
  BY <1>1, RecordsKept, PTL

(* The buckets follow the loan: as long as every payment is a regular one   *)
(* and no suspended installment carries cash, the replay the job rates by   *)
(* is the plan as record_payment filled it; and no single overlap leaves a  *)
(* cleared loan in the insolvency portfolio, for any schedule, thresholds,  *)
(* payments, back-dating, suspensions and overlapping sessions              *)
(* (installment_states_as_of, run_bucket_snapshot, set_insolvency).         *)
THEOREM BucketsFollow == LaneSpec => []BucketsFollowTheLoan
<1>1. RecordsInv => BucketsFollowTheLoan
  <2>1. PICK regular : regular = {"regular"}
    OBVIOUS
  <2>2. BucketsInv(EstateJobs, regular, Statuses) => Estates!ReplayIsThePlan /\ Estates!ClearedLoanReenters
    BY PlansFit, BucketsSound
  <2>3. PlansInv => Estates!ReplayIsThePlan
    BY PlansFit, BucketsSound DEF PlansInv
  <2> QED
    BY <2>1, <2>2, <2>3 DEF RecordsInv, EstatesInv, BucketsFollowTheLoan
<1> HIDE DEF RecordsInv, BucketsFollowTheLoan
<1> QED
  BY <1>1, RecordsKept, PTL

(* A month's rating is history: run again it comes out the same, unless a   *)
(* payment, an insolvency or a suspension came after it was first read, and *)
(* a run of an old month never moves the loan's bucket, for any number of   *)
(* overlapping runs and desks (run_bucket_snapshot).                        *)
THEOREM PastMonthsStand == LaneSpec => PastMonthStands
<1> DEFINE Stand == /\ lane = "plans" => Plans!MonthsStand
                    /\ lane = "estates" => Estates!MonthsStand
<1>1. RecordsInv /\ [LaneNext]_allVars => [Stand]_allVars
  <2> SUFFICES ASSUME RecordsInv, LaneNext PROVE Stand
    OBVIOUS
  <2>1. ASSUME lane = "plans" PROVE Plans!MonthsStand
    <3>1. Plans!Next
      BY <2>1 DEF LaneNext, ImportStep, ProfileStep, PlanStep, EstateStep, FeeStep, PromiseStep
    <3>2. MonthsMove(Jobs)
      BY <2>1, <3>1, PlanMoves DEF RecordsInv, PlansInv
    <3> QED
      BY <3>2, SameNames DEF MonthsMove, Plans!MonthsStand
  <2>2. ASSUME lane = "estates" PROVE Estates!MonthsStand
    <3>1. Estates!Next
      BY <2>2 DEF LaneNext, ImportStep, ProfileStep, PlanStep, EstateStep, FeeStep, PromiseStep
    <3>2. MonthsMove(EstateJobs)
      BY <2>2, <3>1, EstateMoves DEF RecordsInv, EstatesInv
    <3> QED
      BY <3>2, SameNames DEF MonthsMove, Estates!MonthsStand
  <2> QED
    BY <2>1, <2>2
<1> HIDE DEF RecordsInv, Stand
<1>2. LaneSpec => [][Stand]_allVars
  BY <1>1, RecordsKept, PTL DEF LaneSpec
<1> QED
  BY <1>2 DEF PastMonthStands, Stand

(* The tables and sessions of each lane keep the types the code relies on:  *)
(* rows of known kinds and status, paid amounts within their installments,  *)
(* a rating on the ladder, for every value of the constants.                *)
THEOREM RecordsTyped == LaneSpec => []AllTypesOK
<1>1. RecordsInv => AllTypesOK
  <2> SUFFICES ASSUME RecordsInv PROVE AllTypesOK
    OBVIOUS
  <2>1. TypeOK /\ Profiles!TypeOK
    BY HistoriesOnce, ProfilesAreTyped DEF RecordsInv
  <2>2. lane = "plans" => Plans!TypeOK
    BY PlansFit, BucketTypesHold DEF RecordsInv, PlansInv
  <2>3. lane = "estates" => Estates!TypeOK
    <3>1. PICK regular : regular = {"regular"}
      OBVIOUS
    <3>2. BucketsInv(EstateJobs, regular, Statuses) => Estates!TypeOK
      BY PlansFit, BucketTypesHold
    <3> QED
      BY <3>1, <3>2 DEF RecordsInv, EstatesInv
  <2>4. lane = "fees" => Fees!TypeOK
    BY FeesAreTyped DEF RecordsInv
  <2>5. lane = "promises" => Promises!TypeOK
    BY PromisesAreTyped DEF RecordsInv
  <2>6. lane \in Lanes
    BY DEF RecordsInv
  <2> QED
    BY <2>1, <2>2, <2>3, <2>4, <2>5, <2>6 DEF AllTypesOK, Lanes
<1> HIDE DEF RecordsInv, AllTypesOK
<1> QED
  BY <1>1, RecordsKept, PTL
=============================================================================
