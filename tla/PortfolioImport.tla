-------------------------- MODULE PortfolioImport --------------------------
(***************************************************************************)
(* One account of a book that is migrated (services/migration and the two  *)
(* admin import endpoints).  Its history arrives as a workbook, imported   *)
(* in one transaction, or as CSV batches of loans and payments that staff  *)
(* upload, confirm or cancel; both may be used, repeated, and overlap.     *)
(* The unique indexes on account number, (loan, reference) and (loan, seq) *)
(* make the later of two conflicting writers fail.                         *)
(***************************************************************************)
EXTENDS Naturals, Sequences
CONSTANTS
    Files,      \* the histories the source may state: sequences of rows
    Batches, Confirms, Cancels, Imports,   \* CSV batches, and the requests on them
    MaxFaults, MaxRequests,   \* bounds: crashes and errors, requests begun
    None

(* A row of the source: what it is, its transaction number or 0, its day,  *)
(* its cents.  An unmapped type has no rule in the profile.                *)
Kinds == {"cash", "return", "unmapped"}

FilesAssumption ==
    /\ Files \subseteq Seq([kind : Kinds, id : Nat, day : Nat, cents : Nat])
    /\ << >> \notin Files
    /\ Batches \cap Imports = {} /\ "before" \notin Batches \cup Imports /\ None \notin Imports
    /\ MaxFaults \in Nat

VARIABLES
    file,       \* the history of the account
    loan,       \* whether platform_loans holds the account
    receipts,   \* platform_loan_payments: reference, source row, writer
    ledger,     \* platform_loan_transactions in seq order
    batch,      \* batch -> its row
    overtaken,  \* batches a cancellation wrote over a status it had not read
    work,       \* request -> what its session holds
    faults, taken

vars == <<file, loan, receipts, ledger, batch, overtaken, work, faults, taken>>

Requests == Confirms \cup Cancels \cup Imports
Idle     == [op |-> "idle"]
NoBatch  == [entity |-> None, status |-> "none", rows |-> {}, report |-> {}]
Rows     == 1..Len(file)
Mapped   == {i \in Rows : file[i].kind # "unmapped"}
Cash     == {i \in Rows : file[i].kind = "cash"}

(* _external_ref and derive_payment_external_ref: a supplied number makes  *)
(* one key for both paths, a derived key differs between them.             *)
BookRef(i) == IF file[i].id # 0 THEN <<"id", file[i].id>>
              ELSE <<"book", file[i].day, file[i].cents, file[i].kind>>
CsvRef(i)  == IF file[i].id # 0 THEN <<"id", file[i].id>>
              ELSE <<"csv", file[i].day, file[i].cents>>

(* supplied_ref_variants: the spelling written before the rename.          *)
Variants(ref) == IF ref[1] = "id" THEN {ref, <<"old", ref[2]>>} ELSE {ref}
RefsOf(rs)    == {r.ref : r \in rs}

(* A book that was partly migrated before the rename holds old spellings.  *)
OldReceipts(S) == {[ref |-> <<"old", file[i].id>>, src |-> i, by |-> "before"] : i \in S}

Init ==
    /\ file \in Files
    /\ loan \in BOOLEAN
    /\ \E S \in SUBSET {i \in Cash : file[i].id # 0} :
           /\ ~loan => S = {}
           /\ \A i, j \in S : file[i].id = file[j].id => i = j
           /\ receipts = OldReceipts(S)
    /\ ledger = << >>
    /\ batch = [b \in Batches |-> NoBatch]
    /\ overtaken = {}
    /\ work = [r \in Requests |-> Idle]
    /\ faults = 0 /\ taken = 0

Give(r) == work' = [work EXCEPT ![r] = Idle]

----------------------------------------------------------------------------
(* upload_batch: a clean row is kept; a payment needs its account and a    *)
(* key no earlier row of the file has.                                     *)
CleanRows(entity) ==
    IF entity = "loans" THEN {1}
    ELSE {i \in Cash : loan /\ \A j \in Cash : j < i => CsvRef(j) # CsvRef(i)}

Upload(b) ==
    /\ batch[b] = NoBatch
    /\ \E entity \in {"loans", "payments"} :
           batch' = [batch EXCEPT ![b] = [NoBatch EXCEPT !.entity = entity,
                        !.status = "validated", !.rows = CleanRows(entity)]]
    /\ UNCHANGED <<file, loan, receipts, ledger, overtaken, work, faults, taken>>

(* Mutant of Claimable: a batch that was applied may be confirmed again.   *)
ClaimableAgain(b) == batch[b].status \in {"validated", "applied", "cancelled"}

(* confirm_batch claims the batch with a conditional update.               *)
Claimable(b) == batch[b].status = "validated"

Claim(c, b) ==
    /\ work[c] = Idle /\ taken < MaxRequests /\ Claimable(b)
    /\ batch' = [batch EXCEPT ![b].status = "confirmed"]
    /\ work' = [work EXCEPT ![c] = [op |-> "claimed", batch |-> b]]
    /\ taken' = taken + 1
    /\ UNCHANGED <<file, loan, receipts, ledger, overtaken, faults>>

(* The batch is read again, then apply_rows reads what is there already.   *)
Load(c) ==
    /\ work[c].op = "claimed"
    /\ LET b == work[c].batch IN
       IF batch[b].rows = {}
       THEN /\ batch' = [batch EXCEPT ![b].status = "failed"]
            /\ Give(c)
       ELSE /\ work' = [work EXCEPT ![c] = [op |-> "apply", batch |-> b,
                           rows |-> batch[b].rows, loan |-> loan, refs |-> RefsOf(receipts)]]
            /\ UNCHANGED batch
    /\ UNCHANGED <<file, loan, receipts, ledger, overtaken, faults, taken>>

(* _apply_payments: rows whose key was read as present are skipped, and a  *)
(* row that meets a key committed since fails in its savepoint.            *)
Skipped(w)  == {i \in w.rows : Variants(CsvRef(i)) \cap w.refs # {}}
Inserted(w) == {i \in w.rows \ Skipped(w) : CsvRef(i) \notin RefsOf(receipts)}

ApplyBatch(c) ==
    /\ work[c].op = "apply"
    /\ LET w == work[c] IN
       /\ IF batch[w.batch].entity = "loans"
          THEN loan' = TRUE /\ UNCHANGED receipts
          ELSE /\ receipts' = receipts \cup
                      {[ref |-> CsvRef(i), src |-> i, by |-> w.batch] :
                           i \in IF w.loan THEN Inserted(w) ELSE {}}
               /\ UNCHANGED loan
       /\ batch' = [batch EXCEPT ![w.batch].status = "applied",
                       ![w.batch].report = Skipped(w) \cup Inserted(w)]
    /\ Give(c)
    /\ UNCHANGED <<file, ledger, overtaken, faults, taken>>

(* Mutant of Undone: the rows of the pass stay.                            *)
Kept(w) == receipts \cup {[ref |-> CsvRef(i), src |-> i, by |-> w.batch] : i \in Inserted(w)}

(* An exception in the pass rolls every row back and marks the batch.      *)
Undone(w) == receipts

FailBatch(c) ==
    /\ work[c].op = "apply" /\ faults < MaxFaults
    /\ faults' = faults + 1
    /\ receipts' = Undone(work[c])
    /\ batch' = [batch EXCEPT ![work[c].batch].status = "failed"]
    /\ Give(c)
    /\ UNCHANGED <<file, loan, ledger, overtaken, taken>>

(* cancel_batch tests the status it read and then writes.                  *)
CancelRead(k, b) ==
    /\ work[k] = Idle /\ taken < MaxRequests
    /\ batch[b].status \in {"validated", "failed"}
    /\ work' = [work EXCEPT ![k] = [op |-> "cancel", batch |-> b, status |-> batch[b].status]]
    /\ taken' = taken + 1
    /\ UNCHANGED <<file, loan, receipts, ledger, batch, overtaken, faults>>

CancelWrite(k) ==
    /\ work[k].op = "cancel"
    /\ LET b == work[k].batch IN
       /\ batch' = [batch EXCEPT ![b].status = "cancelled", ![b].rows = {}]
       /\ overtaken' = IF batch[b].status = work[k].status THEN overtaken ELSE overtaken \cup {b}
    /\ Give(k)
    /\ UNCHANGED <<file, loan, receipts, ledger, faults, taken>>

----------------------------------------------------------------------------
(* A workbook import reads the loan, its receipts and its ledger.          *)
ImportLoad(m) ==
    /\ work[m] = Idle /\ taken < MaxRequests
    /\ work' = [work EXCEPT ![m] = [op |-> "import", loan |-> loan,
                   refs |-> RefsOf(receipts), ledger |-> ledger]]
    /\ taken' = taken + 1
    /\ UNCHANGED <<file, loan, receipts, ledger, batch, overtaken, faults>>

(* Mutant of Undoable: a payment may be undone twice.                      *)
AnyPayment(rows, cents) ==
    {k \in 1..Len(rows) : rows[k].type = "payment" /\ rows[k].cents = cents}

(* A return undoes the newest payment of its amount not yet undone.        *)
Undoable(rows, cents) ==
    {k \in 1..Len(rows) : /\ rows[k].type = "payment" /\ rows[k].cents = cents
                          /\ \A j \in 1..Len(rows) : rows[j].reverses # k}

Newest(S) == IF S = {} THEN 0 ELSE CHOOSE k \in S : \A j \in S : j <= k

LedgerRow(m, i, rows) ==
    LET target == IF file[i].kind = "return" THEN Newest(Undoable(rows, file[i].cents)) ELSE 0
    IN  [src |-> i, by |-> m, cents |-> file[i].cents, reverses |-> target,
         type |-> IF file[i].kind = "cash" THEN "payment"
                  ELSE IF target # 0 THEN "reversal" ELSE "adjustment"]

(* _import_transactions: in file order, unless the key is there already;   *)
(* cash leaves a receipt too.                                              *)
AddRow(m, acc, i) ==
    IF i \notin Mapped \/ Variants(BookRef(i)) \cap acc.refs # {} THEN acc
    ELSE [ledger |-> Append(acc.ledger, LedgerRow(m, i, acc.ledger)),
          refs   |-> IF i \in Cash THEN acc.refs \cup {BookRef(i)} ELSE acc.refs,
          new    |-> IF i \in Cash
                     THEN acc.new \cup {[ref |-> BookRef(i), src |-> i, by |-> m]} ELSE acc.new]

(* Mutant of HasHistory: each import starts from the keys alone.           *)
NoHistoryTest(rows) == FALSE

(* A loan whose history an import wrote before is passed over.             *)
HasHistory(rows) == \E k \in 1..Len(rows) : rows[k].by \in Imports

(* What has been read and added after each row of the file.                *)
Passed(m) ==
    LET acc[i \in 0..Len(file)] ==
            IF i = 0 THEN [ledger |-> work[m].ledger, refs |-> work[m].refs, new |-> {}]
            ELSE AddRow(m, acc[i - 1], i)
    IN  acc

History(m) == IF HasHistory(work[m].ledger) THEN Passed(m)[0] ELSE Passed(m)[Len(file)]

(* Another writer's row stands where this one is inserted.                 *)
Conflict(m, h) ==
    \/ loan # work[m].loan
    \/ Len(h.ledger) > Len(work[m].ledger) /\ Len(ledger) > Len(work[m].ledger)
    \/ \E r \in h.new : r.ref \in RefsOf(receipts)

ImportCommit(m) ==
    /\ work[m].op = "import"
    /\ LET h == History(m) IN
       /\ ~Conflict(m, h)
       /\ ledger' = IF Len(h.ledger) > Len(work[m].ledger) THEN h.ledger ELSE ledger
       /\ receipts' = receipts \cup h.new
    /\ loan' = TRUE
    /\ Give(m)
    /\ UNCHANGED <<file, batch, overtaken, faults, taken>>

(* A conflict, or a dry run, rolls the whole import back.                  *)
ImportRollback(m) ==
    /\ work[m].op = "import"
    /\ Give(m)
    /\ UNCHANGED <<file, loan, receipts, ledger, batch, overtaken, faults, taken>>

----------------------------------------------------------------------------
(* A payment the borrower makes once the loan is here (record_payment).    *)
LivePayment ==
    /\ loan /\ \A k \in 1..Len(ledger) : ledger[k].src # 0
    /\ \E cents \in {file[i].cents : i \in Rows} :
           ledger' = Append(ledger, [src |-> 0, by |-> None, cents |-> cents,
                                     reverses |-> 0, type |-> "payment"])
    /\ UNCHANGED <<file, loan, receipts, batch, overtaken, work, faults, taken>>

(* A worker dies: its transaction is gone, a claim it committed stays.     *)
Crash(r) ==
    /\ work[r] # Idle /\ faults < MaxFaults
    /\ faults' = faults + 1
    /\ Give(r)
    /\ UNCHANGED <<file, loan, receipts, ledger, batch, overtaken, taken>>

Next ==
    \/ \E b \in Batches :
        \/ Upload(b)
        \/ \E c \in Confirms : Claim(c, b)
        \/ \E k \in Cancels : CancelRead(k, b)
    \/ \E c \in Confirms : Load(c) \/ ApplyBatch(c) \/ FailBatch(c)
    \/ \E k \in Cancels : CancelWrite(k)
    \/ \E m \in Imports : ImportLoad(m) \/ ImportCommit(m) \/ ImportRollback(m)
    \/ LivePayment
    \/ \E r \in Requests : Crash(r)

Spec == Init /\ [][Next]_vars

----------------------------------------------------------------------------
TypeOK ==
    /\ loan \in BOOLEAN /\ overtaken \subseteq Batches /\ faults \in 0..MaxFaults
    /\ \A r \in receipts : r.src \in Cash /\ r.by \in Batches \cup Imports \cup {"before"}
    /\ \A k \in 1..Len(ledger) : /\ ledger[k].src \in 0..Len(file)
                                 /\ ledger[k].type \in {"payment", "reversal", "adjustment"}
    /\ \A b \in Batches : /\ batch[b].rows \subseteq Rows
                          /\ batch[b].status \in {"none", "validated", "confirmed",
                                                  "applied", "failed", "cancelled"}

(* The borrower's record is never copied twice: however the two paths are  *)
(* repeated and overlap, one import writes the history, no source row has  *)
(* two ledger rows, and a payment with a transaction number has one        *)
(* receipt; each reversal undoes an earlier payment of its amount that     *)
(* nothing else undoes (_import_transactions, _apply_payments).            *)
HistoryOnce ==
    /\ \A j, k \in 1..Len(ledger) : j < k =>
        /\ ledger[j].src # ledger[k].src
        /\ {ledger[j].by, ledger[k].by} \subseteq Imports => ledger[j].by = ledger[k].by
        /\ ledger[j].reverses # 0 => ledger[j].reverses # ledger[k].reverses
    /\ \A k \in 1..Len(ledger) : ledger[k].type = "reversal" =>
        /\ ledger[k].reverses \in 1..(k - 1)
        /\ ledger[ledger[k].reverses].type = "payment"
        /\ ledger[ledger[k].reverses].cents = ledger[k].cents
    /\ \A r, s \in receipts : r # s => r.ref # s.ref
    /\ \A r, s \in receipts : r.src = s.src /\ file[r.src].id # 0 => r = s

(* A batch's status tells the truth about the books: one that is waiting,  *)
(* claimed, failed or discarded has put nothing there, one that is applied *)
(* has put there, or found there, every row its report does not list as    *)
(* failed, unless a cancellation overlapped its confirmation               *)
(* (confirm_batch, cancel_batch).                                          *)
BatchKeepsItsWord ==
    \A b \in Batches \ overtaken :
        /\ (\E r \in receipts : r.by = b) => batch[b].status = "applied"
        /\ batch[b].status = "applied" /\ batch[b].entity = "payments" =>
               \A i \in batch[b].report : Variants(CsvRef(i)) \cap RefsOf(receipts) # {}
=============================================================================
