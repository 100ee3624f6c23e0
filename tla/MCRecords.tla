----------------------------- MODULE MCRecords -----------------------------
(* Values for the records: two of every kind that can overlap.             *)
EXTENDS Records, TLC
CONSTANTS c1, c2, k1, m1, m2, f1, f2, a1, s1, s2, t1, l1, l2

(* Two payments of one day and one amount with a return of it; a book      *)
(* without transaction numbers; two returns of which one has no payment.   *)
Row(kind, id, day, cents) == [kind |-> kind, id |-> id, day |-> day, cents |-> cents]
Histories ==
    {<<Row("cash", 1, 1, 1), Row("cash", 2, 1, 1), Row("return", 3, 2, 1)>>,
     <<Row("cash", 0, 1, 1), Row("cash", 0, 1, 1), Row("unmapped", 0, 2, 1)>>,
     <<Row("cash", 1, 1, 1), Row("return", 2, 2, 1), Row("return", 3, 2, 1)>>}

(* Edits that overlap in a field, and what the application had collected.  *)
Edits == {f1 :> 1 @@ f2 :> None, f1 :> 2 @@ f2 :> 2, f1 :> None @@ f2 :> 1}
Intake == a1 :> (f1 :> 1 @@ f2 :> 1)

(* Two installments, two month-ends, the ladder's first two cuts.          *)
DueDays == <<1, 3>>
Ends    == <<2, 4>>
Rates   == <<1, 3>>

Processes == Permutations({m1, m2}) \cup Permutations({s1, s2})
=============================================================================
