--------------------------- MODULE LoanOffersProofs ---------------------------
(***************************************************************************)
(* What the acceptance and the signature of a deal promise (LoanOffers),   *)
(* for every number of offers and of requests under way: one offer is      *)
(* accepted, and a loan that an activation booked stands on a signed       *)
(* agreement.  The invariant says who holds the locks of the offers and    *)
(* what each request that is under way has read.                           *)
(***************************************************************************)
EXTENDS LoanOffers, Integers, FiniteSetTheorems, TLAPS

(* An application, as far as its offers and agreement go.                   *)
Files == [status : Statuses, terms : Offers \cup {"none"},
          agreement : {"not_sent", "sent", "signed", "declined"}, ref : Nat]

(* A booked loan: its terms and the agreement it was booked on.             *)
Loans == [terms : Offers \cup {"none"}, ref : Nat]

(* A request under way and what it read when it began.                      *)
Asked == [op : {"create", "accept", "sweep", "decide", "move", "send", "signed", "declined",
                "activate"},
          arg : {None} \cup Offers \cup (SUBSET Offers) \cup Statuses \cup Nat \cup Loans,
          from : Statuses, holds : SUBSET Offers, open : SUBSET Offers]

(* The types of the application, its offers and the requests.               *)
DealsTyped ==
    /\ TypeOK
    /\ app \in Files /\ loan \in Loans \cup {None} /\ docs \in Nat
    /\ offer \in [Offers -> {"none", "offered", "overdue", "accepted", "void", "withdrawn",
                             "expired"}]
    /\ resent \in BOOLEAN
    /\ req \in [Requests -> Asked \cup {None}]
    /\ \A r \in Requests :
        /\ Doing(r, "accept") => req[r].arg \in Offers
        /\ Doing(r, "decide") \/ Doing(r, "move") => req[r].arg \in Statuses
        /\ Doing(r, "send") => req[r].arg \in Nat
        /\ Doing(r, "activate") => req[r].arg \in Loans

(* No two offers stand accepted.                                            *)
AcceptedAlone ==
    \A o, q \in Offers : offer[o] = "accepted" /\ offer[q] = "accepted" => o = q

(* While a request holds the locks of the issued offers none is accepted,   *)
(* and it is the only one that holds any.                                   *)
Holding(r) == Doing(r, "accept") /\ req[r].holds # {}

(* A request with locks is the only one, and nothing is accepted.           *)
HoldersExclude ==
    \A r \in Requests : Holding(r) =>
        /\ req[r].holds \subseteq Issued
        /\ \A o \in Offers : offer[o] # "accepted"
        /\ \A v \in Requests : Holding(v) => v = r

(* Who signed: the document on file, what a webhook brings and what an      *)
(* activation read, unless a second sender wrote over it.                   *)
SignedStands ==
    /\ app.ref # 0 => app.agreement # "not_sent"
    /\ app.agreement = "signed" => app.ref \in signed \/ resent
    /\ \A r \in Requests :
        /\ Doing(r, "signed") => app.agreement # "not_sent" /\ (app.ref \in signed \/ resent)
        /\ Doing(r, "activate") => req[r].arg.ref \in signed \/ resent

(* The inductive invariant of the deals.                                    *)
DealsInv ==
    DealsTyped /\ AcceptedAlone /\ HoldersExclude /\ BookedOnSignature /\ SignedStands

(* An approved application without offers or agreement.                     *)
LEMMA DealsInitHolds == ASSUME OffersAssumption, Init PROVE DealsInv
<1> USE DEF Init
<1>1. DealsTyped
  BY DEF DealsTyped, TypeOK, Files, Statuses, Offerable, PreActivation, Terminal, Closed, Doing
<1>2. AcceptedAlone
  BY DEF AcceptedAlone
<1>3. HoldersExclude /\ BookedOnSignature /\ SignedStands
  BY DEF HoldersExclude, Holding, SignedStands, BookedOnSignature, Booked, Doing
<1> QED
  BY <1>1, <1>2, <1>3 DEF DealsInv

(* OneAcceptance counts the accepted offers; at most one of a kind is a     *)
(* count of at most one.                                                    *)
LEMMA AloneIsOne == ASSUME AcceptedAlone PROVE OneAcceptance
<1> DEFINE taken == {o \in Offers : offer[o] = "accepted"}
<1>1. Cardinality(taken) = 0 \/ Cardinality(taken) = 1
  <2>1. CASE taken = {}
    BY <2>1, FS_EmptySet
  <2>2. CASE taken # {}
    <3>1. PICK o \in Offers : taken = {o}
      BY <2>2 DEF AcceptedAlone
    <3> HIDE DEF taken
    <3> QED
      BY <3>1, FS_Singleton
  <2> QED
    BY <2>1, <2>2
<1> HIDE DEF taken
<1>2. Cardinality(taken) <= 1
  BY <1>1
<1> QED
  BY <1>2 DEF taken, OneAcceptance, Cardinality, Cardinality

(* Every step of a request keeps the invariant.                             *)
LEMMA DealsStepKeeps ==
    ASSUME OffersAssumption, DealsInv, [Next]_vars
    PROVE  DealsInv'
<1> USE DEF OffersAssumption, DealsInv, DealsTyped, TypeOK
<1>1. ASSUME NEW o \in Offers, WithdrawOffer(o) PROVE DealsInv'
  <2>1. DealsTyped'
    BY <1>1 DEF WithdrawOffer, Unlocked, Open, Late, Doing, Files, Loans, Asked, Statuses, Offerable, PreActivation, Terminal, Closed, Approval
  <2>2. HoldersExclude'
    BY <1>1 DEF WithdrawOffer, Unlocked, Open, Late, Doing, HoldersExclude, Holding, Issued
  <2>3. BookedOnSignature' /\ SignedStands'
    BY <1>1 DEF WithdrawOffer, Unlocked, Open, Late, Doing, Booked, BookedOnSignature, SignedStands, Files, Loans
  <2>4. AcceptedAlone'
    BY <1>1 DEF WithdrawOffer, Unlocked, Open, Late, AcceptedAlone, HoldersExclude, Holding
  <2> QED
    BY <2>1, <2>2, <2>3, <2>4
<1>2. ASSUME NEW o \in Offers, PassExpiry(o) PROVE DealsInv'
  <2>1. DealsTyped'
    BY <1>2 DEF PassExpiry, Doing, Files, Loans, Asked, Statuses, Offerable, PreActivation, Terminal, Closed, Approval
  <2>2. HoldersExclude'
    BY <1>2 DEF PassExpiry, Doing, HoldersExclude, Holding, Issued
  <2>3. BookedOnSignature' /\ SignedStands'
    BY <1>2 DEF PassExpiry, Doing, Booked, BookedOnSignature, SignedStands, Files, Loans
  <2>4. AcceptedAlone'
    BY <1>2 DEF PassExpiry, AcceptedAlone, HoldersExclude, Holding
  <2> QED
    BY <2>1, <2>2, <2>3, <2>4
<1>3. ASSUME ExpireJob PROVE DealsInv'
  <2>1. DealsTyped'
    BY <1>3 DEF ExpireJob, Unlocked, Late, Lapses, Doing, Files, Loans, Asked, Statuses, Offerable, PreActivation, Terminal, Closed, Approval
  <2>2. HoldersExclude'
    BY <1>3 DEF ExpireJob, Unlocked, Late, Lapses, Doing, HoldersExclude, Holding, Issued
  <2>3. BookedOnSignature' /\ SignedStands'
    BY <1>3 DEF ExpireJob, Unlocked, Late, Lapses, Doing, Booked, BookedOnSignature, SignedStands, Files, Loans
  <2>4. AcceptedAlone'
    BY <1>3 DEF ExpireJob, Unlocked, Late, Lapses, AcceptedAlone, HoldersExclude, Holding
  <2> QED
    BY <2>1, <2>2, <2>3, <2>4
<1>4. ASSUME AutoDecide PROVE DealsInv'
  <2>1. DealsTyped'
    <3>1. app' \in Files
      BY <1>4 DEF AutoDecide, Doing, Restatus, Approval, Files, Statuses, Offerable, PreActivation, Terminal, Closed
    <3>2. loan' \in Loans \cup {None}
      BY <1>4 DEF AutoDecide, Doing, BookLoan, NewLoan, Loans
    <3>3. /\ docs' \in Nat /\ resent' \in BOOLEAN
          /\ signed' \cup declined' \subseteq 1..docs'
          /\ offer' \in [Offers -> {"none", "offered", "overdue", "accepted", "void",
                                   "withdrawn", "expired"}]
      BY <1>4 DEF AutoDecide
    <3>4. /\ req' \in [Requests -> Asked \cup {None}]
          /\ \A v \in Requests : req'[v] # None => req'[v] = req[v]
      BY <1>4 DEF AutoDecide, Done
    <3> HIDE DEF DealsTyped
    <3>5. \A v \in Requests :
            /\ Doing(v, "accept")' => req'[v].arg \in Offers
            /\ Doing(v, "decide")' \/ Doing(v, "move")' => req'[v].arg \in Statuses
            /\ Doing(v, "send")' => req'[v].arg \in Nat
            /\ Doing(v, "activate")' => req'[v].arg \in Loans
      BY <3>4 DEF DealsTyped, Doing
    <3> QED
      BY <3>1, <3>2, <3>3, <3>4, <3>5 DEF DealsTyped, TypeOK, Files, Statuses
  <2>2. HoldersExclude'
    BY <1>4 DEF AutoDecide, BookLoan, NewLoan, Booked, Doing, HoldersExclude, Holding, Issued
  <2>3. BookedOnSignature' /\ SignedStands'
    BY <1>4 DEF AutoDecide, BookLoan, NewLoan, Booked, Doing, BookedOnSignature, SignedStands, Files, Loans
  <2>4. AcceptedAlone'
    BY <1>4 DEF AutoDecide, BookLoan, NewLoan, Booked, AcceptedAlone, HoldersExclude, Holding
  <2> QED
    BY <2>1, <2>2, <2>3, <2>4
<1>5. ASSUME BorrowerAnswers PROVE DealsInv'
  <2>1. DealsTyped'
    BY <1>5 DEF BorrowerAnswers, Doing, Files, Loans, Asked, Statuses, Offerable, PreActivation, Terminal, Closed, Approval
  <2>2. HoldersExclude'
    BY <1>5 DEF BorrowerAnswers, Doing, HoldersExclude, Holding, Issued
  <2>3. BookedOnSignature' /\ SignedStands'
    BY <1>5 DEF BorrowerAnswers, Doing, Booked, BookedOnSignature, SignedStands, Files, Loans
  <2>4. AcceptedAlone'
    BY <1>5 DEF BorrowerAnswers, AcceptedAlone, HoldersExclude, Holding
  <2> QED
    BY <2>1, <2>2, <2>3, <2>4
<1>6. ASSUME NEW r \in Requests, Begin(r) PROVE DealsInv'
  <2>1. DealsTyped'
    BY <1>6 DEF Begin, Load, MayOffer, Open, Late, MayDecide, MayMove, Activatable, NewLoan, Booked, Doing, Files, Loans, Asked, Statuses, Offerable, PreActivation, Terminal, Closed, Approval
  <2>2. HoldersExclude'
    BY <1>6 DEF Begin, Load, MayOffer, Open, Late, MayDecide, MayMove, Activatable, NewLoan, Booked, Doing, HoldersExclude, Holding, Issued
  <2>3. BookedOnSignature' /\ SignedStands'
    BY <1>6 DEF Begin, Load, MayOffer, Open, Late, MayDecide, MayMove, Activatable, NewLoan, Booked, Doing, BookedOnSignature, SignedStands, Files, Loans
  <2>4. AcceptedAlone'
    BY <1>6 DEF Begin, Load, MayOffer, Open, Late, MayDecide, MayMove, Activatable, NewLoan, Booked, AcceptedAlone, HoldersExclude, Holding
  <2> QED
    BY <2>1, <2>2, <2>3, <2>4
<1>7. ASSUME NEW r \in Requests, CreateOffer(r) PROVE DealsInv'
  <2>1. DealsTyped'
    BY <1>7 DEF CreateOffer, Doing, Done, Restatus, Files, Loans, Asked, Statuses, Offerable, PreActivation, Terminal, Closed, Approval
  <2>2. HoldersExclude'
    BY <1>7 DEF CreateOffer, Doing, Done, Restatus, HoldersExclude, Holding, Issued
  <2>3. BookedOnSignature' /\ SignedStands'
    BY <1>7 DEF CreateOffer, Doing, Done, Restatus, Booked, BookedOnSignature, SignedStands, Files, Loans
  <2>4. AcceptedAlone'
    BY <1>7 DEF CreateOffer, Doing, Done, Restatus, AcceptedAlone, HoldersExclude, Holding
  <2> QED
    BY <2>1, <2>2, <2>3, <2>4
<1>8. ASSUME NEW r \in Requests, Sweep(r) PROVE DealsInv'
  <2>1. DealsTyped'
    BY <1>8 DEF Sweep, Doing, Done, Unlocked, Lapses, Files, Loans, Asked, Statuses, Offerable, PreActivation, Terminal, Closed, Approval
  <2>2. HoldersExclude'
    BY <1>8 DEF Sweep, Doing, Done, Unlocked, Lapses, HoldersExclude, Holding, Issued
  <2>3. BookedOnSignature' /\ SignedStands'
    BY <1>8 DEF Sweep, Doing, Done, Unlocked, Lapses, Booked, BookedOnSignature, SignedStands, Files, Loans
  <2>4. AcceptedAlone'
    BY <1>8 DEF Sweep, Doing, Done, Unlocked, Lapses, AcceptedAlone, HoldersExclude, Holding
  <2> QED
    BY <2>1, <2>2, <2>3, <2>4
<1>9. ASSUME NEW r \in Requests, LockOffers(r) PROVE DealsInv'
  <2> DEFINE now == [req[r] EXCEPT !.holds = Issued, !.open = Open]
  <2>1. /\ Doing(r, "accept") /\ req[r].holds = {} /\ Unlocked(Issued)
        /\ UNCHANGED <<app, offer, loan, docs, signed, declined, resent>>
    BY <1>9 DEF LockOffers, LocksOffers
  <2>2. /\ req[r] \in Asked /\ now \in Asked /\ now.op = "accept"
        /\ now.arg = req[r].arg /\ now.arg \in Offers /\ now.holds = Issued
    BY <2>1 DEF Doing, Asked, Issued, Open, Late
  <2>3. CASE req' = [req EXCEPT ![r] = None]
    <3>1. \A v \in Requests : req'[v] # None => req'[v] = req[v]
      BY <2>3
    <3>2. DealsTyped'
      BY <2>1, <2>3, <3>1 DEF Doing
    <3>3. HoldersExclude' /\ SignedStands'
      BY <2>1, <3>1 DEF HoldersExclude, SignedStands, Holding, Doing, Issued
    <3> QED
      BY <2>1, <3>2, <3>3 DEF AcceptedAlone, BookedOnSignature, Booked
  <2>4. CASE /\ req' = [req EXCEPT ![r] = now]
             /\ \A o \in Offers : offer[o] # "accepted"
             /\ offer[req[r].arg] = "offered"
    <3> HIDE DEF now
    <3>1. /\ req'[r] = now /\ \A v \in Requests : v # r => req'[v] = req[v]
      BY <2>4
    <3>2. DealsTyped'
      BY <2>1, <2>2, <2>4, <3>1 DEF Doing
    <3>3. \A v \in Requests : ~Holding(v)
      BY <2>1, <2>2, <2>4 DEF HoldersExclude, Holding, Unlocked, Doing, Issued
    <3>4. HoldersExclude'
      BY <2>1, <2>2, <2>4, <3>1, <3>3 DEF HoldersExclude, Holding, Doing, Issued
    <3>5. SignedStands'
      BY <2>1, <2>2, <3>1 DEF SignedStands, Doing
    <3> QED
      BY <2>1, <3>2, <3>4, <3>5 DEF AcceptedAlone, BookedOnSignature, Booked
  <2> QED
    BY <1>9, <2>3, <2>4 DEF LockOffers, Done, now
<1>10. ASSUME NEW r \in Requests, Accept(r) PROVE DealsInv'
  <2>1. DealsTyped'
    <3>1. app' \in Files
      BY <1>10 DEF Accept, Doing, Restatus, Approval, Files, Statuses, Offerable, PreActivation, Terminal, Closed
    <3>2. loan' \in Loans \cup {None}
      BY <1>10 DEF Accept, Doing, BookLoan, NewLoan, Loans
    <3>3. /\ docs' \in Nat /\ resent' \in BOOLEAN
          /\ signed' \cup declined' \subseteq 1..docs'
          /\ offer' \in [Offers -> {"none", "offered", "overdue", "accepted", "void",
                                   "withdrawn", "expired"}]
      BY <1>10 DEF Accept
    <3>4. /\ req' \in [Requests -> Asked \cup {None}]
          /\ \A v \in Requests : req'[v] # None => req'[v] = req[v]
      BY <1>10 DEF Accept, Done
    <3> HIDE DEF DealsTyped
    <3>5. \A v \in Requests :
            /\ Doing(v, "accept")' => req'[v].arg \in Offers
            /\ Doing(v, "decide")' \/ Doing(v, "move")' => req'[v].arg \in Statuses
            /\ Doing(v, "send")' => req'[v].arg \in Nat
            /\ Doing(v, "activate")' => req'[v].arg \in Loans
      BY <3>4 DEF DealsTyped, Doing
    <3> QED
      BY <3>1, <3>2, <3>3, <3>4, <3>5 DEF DealsTyped, TypeOK, Files, Statuses
  <2>2. HoldersExclude'
    BY <1>10 DEF Accept, Doing, Done, Restatus, BookLoan, NewLoan, Booked, HoldersExclude, Holding, Issued
  <2>3. BookedOnSignature' /\ SignedStands'
    BY <1>10 DEF Accept, Doing, Done, Restatus, BookLoan, NewLoan, Booked, BookedOnSignature, SignedStands, Files, Loans
  <2>4. AcceptedAlone'
    BY <1>10 DEF Accept, Doing, Done, Restatus, BookLoan, NewLoan, Booked, AcceptedAlone, HoldersExclude, Holding
  <2> QED
    BY <2>1, <2>2, <2>3, <2>4
<1>11. ASSUME NEW r \in Requests, AcceptRolledBack(r) PROVE DealsInv'
  <2>1. DealsTyped'
    BY <1>11 DEF AcceptRolledBack, Doing, Done, Files, Loans, Asked, Statuses, Offerable, PreActivation, Terminal, Closed, Approval
  <2>2. HoldersExclude'
    BY <1>11 DEF AcceptRolledBack, Doing, Done, HoldersExclude, Holding, Issued
  <2>3. BookedOnSignature' /\ SignedStands'
    BY <1>11 DEF AcceptRolledBack, Doing, Done, Booked, BookedOnSignature, SignedStands, Files, Loans
  <2>4. AcceptedAlone'
    BY <1>11 DEF AcceptRolledBack, Doing, Done, AcceptedAlone, HoldersExclude, Holding
  <2> QED
    BY <2>1, <2>2, <2>3, <2>4
<1>12. ASSUME NEW r \in Requests, StaffDecide(r) PROVE DealsInv'
  <2>1. DealsTyped'
    <3>1. app' \in Files
      BY <1>12 DEF StaffDecide, Doing, Restatus, Approval, Files, Statuses, Offerable, PreActivation, Terminal, Closed
    <3>2. loan' \in Loans \cup {None}
      BY <1>12 DEF StaffDecide, Doing, BookLoan, NewLoan, Loans
    <3>3. /\ docs' \in Nat /\ resent' \in BOOLEAN
          /\ signed' \cup declined' \subseteq 1..docs'
          /\ offer' \in [Offers -> {"none", "offered", "overdue", "accepted", "void",
                                   "withdrawn", "expired"}]
      BY <1>12 DEF StaffDecide
    <3>4. /\ req' \in [Requests -> Asked \cup {None}]
          /\ \A v \in Requests : req'[v] # None => req'[v] = req[v]
      BY <1>12 DEF StaffDecide, Done
    <3> HIDE DEF DealsTyped
    <3>5. \A v \in Requests :
            /\ Doing(v, "accept")' => req'[v].arg \in Offers
            /\ Doing(v, "decide")' \/ Doing(v, "move")' => req'[v].arg \in Statuses
            /\ Doing(v, "send")' => req'[v].arg \in Nat
            /\ Doing(v, "activate")' => req'[v].arg \in Loans
      BY <3>4 DEF DealsTyped, Doing
    <3> QED
      BY <3>1, <3>2, <3>3, <3>4, <3>5 DEF DealsTyped, TypeOK, Files, Statuses
  <2>2. HoldersExclude'
    BY <1>12 DEF StaffDecide, Doing, Done, Restatus, BookLoan, NewLoan, Booked, HoldersExclude, Holding, Issued
  <2>3. BookedOnSignature' /\ SignedStands'
    BY <1>12 DEF StaffDecide, Doing, Done, Restatus, BookLoan, NewLoan, Booked, BookedOnSignature, SignedStands, Files, Loans
  <2>4. AcceptedAlone'
    BY <1>12 DEF StaffDecide, Doing, Done, Restatus, BookLoan, NewLoan, Booked, AcceptedAlone, HoldersExclude, Holding
  <2> QED
    BY <2>1, <2>2, <2>3, <2>4
<1>13. ASSUME NEW r \in Requests, StatusMove(r) PROVE DealsInv'
  <2>1. DealsTyped'
    BY <1>13 DEF StatusMove, Doing, Done, Restatus, Files, Loans, Asked, Statuses, Offerable, PreActivation, Terminal, Closed, Approval
  <2>2. HoldersExclude'
    BY <1>13 DEF StatusMove, Doing, Done, Restatus, HoldersExclude, Holding, Issued
  <2>3. BookedOnSignature' /\ SignedStands'
    BY <1>13 DEF StatusMove, Doing, Done, Restatus, Booked, BookedOnSignature, SignedStands, Files, Loans
  <2>4. AcceptedAlone'
    BY <1>13 DEF StatusMove, Doing, Done, Restatus, AcceptedAlone, HoldersExclude, Holding
  <2> QED
    BY <2>1, <2>2, <2>3, <2>4
<1>14. ASSUME NEW r \in Requests, SendCall(r) PROVE DealsInv'
  <2>1. DealsTyped'
    <3> DEFINE now == [req[r] EXCEPT !.arg = docs + 1]
    <3>1. /\ req[r] \in Asked /\ req[r].op = "send" /\ now \in Asked /\ now.op = "send"
          /\ now.arg \in Nat /\ req' = [req EXCEPT ![r] = now]
          /\ docs' = docs + 1 /\ UNCHANGED <<app, offer, loan, signed, declined, resent>>
      BY <1>14 DEF SendCall, Doing, Asked
    <3> HIDE DEF now
    <3> QED
      BY <3>1 DEF Doing
  <2>2. HoldersExclude'
    BY <1>14 DEF SendCall, Doing, HoldersExclude, Holding, Issued
  <2>3. BookedOnSignature' /\ SignedStands'
    BY <1>14 DEF SendCall, Doing, Booked, BookedOnSignature, SignedStands, Files, Loans
  <2>4. AcceptedAlone'
    BY <1>14 DEF SendCall, Doing, AcceptedAlone, HoldersExclude, Holding
  <2> QED
    BY <2>1, <2>2, <2>3, <2>4
<1>15. ASSUME NEW r \in Requests, SendCommit(r) PROVE DealsInv'
  <2>1. DealsTyped'
    BY <1>15 DEF SendCommit, Doing, Done, Files, Loans, Asked, Statuses, Offerable, PreActivation, Terminal, Closed, Approval
  <2>2. HoldersExclude'
    BY <1>15 DEF SendCommit, Doing, Done, HoldersExclude, Holding, Issued
  <2>3. BookedOnSignature' /\ SignedStands'
    BY <1>15 DEF SendCommit, Doing, Done, Booked, BookedOnSignature, SignedStands, Files, Loans
  <2>4. AcceptedAlone'
    BY <1>15 DEF SendCommit, Doing, Done, AcceptedAlone, HoldersExclude, Holding
  <2> QED
    BY <2>1, <2>2, <2>3, <2>4
<1>16. ASSUME NEW r \in Requests, OnAgreementSigned(r) PROVE DealsInv'
  <2>1. DealsTyped'
    BY <1>16 DEF OnAgreementSigned, Doing, Done, Files, Loans, Asked, Statuses, Offerable, PreActivation, Terminal, Closed, Approval
  <2>2. HoldersExclude'
    BY <1>16 DEF OnAgreementSigned, Doing, Done, HoldersExclude, Holding, Issued
  <2>3. BookedOnSignature' /\ SignedStands'
    BY <1>16 DEF OnAgreementSigned, Doing, Done, Booked, BookedOnSignature, SignedStands, Files, Loans
  <2>4. AcceptedAlone'
    BY <1>16 DEF OnAgreementSigned, Doing, Done, AcceptedAlone, HoldersExclude, Holding
  <2> QED
    BY <2>1, <2>2, <2>3, <2>4
<1>17. ASSUME NEW r \in Requests, OnAgreementDeclined(r) PROVE DealsInv'
  <2>1. DealsTyped'
    BY <1>17 DEF OnAgreementDeclined, Doing, Done, Files, Loans, Asked, Statuses, Offerable, PreActivation, Terminal, Closed, Approval
  <2>2. HoldersExclude'
    BY <1>17 DEF OnAgreementDeclined, Doing, Done, HoldersExclude, Holding, Issued
  <2>3. BookedOnSignature' /\ SignedStands'
    BY <1>17 DEF OnAgreementDeclined, Doing, Done, Booked, BookedOnSignature, SignedStands, Files, Loans
  <2>4. AcceptedAlone'
    BY <1>17 DEF OnAgreementDeclined, Doing, Done, AcceptedAlone, HoldersExclude, Holding
  <2> QED
    BY <2>1, <2>2, <2>3, <2>4
<1>18. ASSUME NEW r \in Requests, ActivateLoan(r) PROVE DealsInv'
  <2>1. DealsTyped'
    BY <1>18 DEF ActivateLoan, Doing, Done, Restatus, Files, Loans, Asked, Statuses, Offerable, PreActivation, Terminal, Closed, Approval
  <2>2. HoldersExclude'
    BY <1>18 DEF ActivateLoan, Doing, Done, Restatus, HoldersExclude, Holding, Issued
  <2>3. BookedOnSignature' /\ SignedStands'
    BY <1>18 DEF ActivateLoan, Doing, Done, Restatus, Booked, BookedOnSignature, SignedStands, Files, Loans
  <2>4. AcceptedAlone'
    BY <1>18 DEF ActivateLoan, Doing, Done, Restatus, AcceptedAlone, HoldersExclude, Holding
  <2> QED
    BY <2>1, <2>2, <2>3, <2>4
<1>19. ASSUME NEW r \in Requests, GiveUp(r) PROVE DealsInv'
  <2>1. DealsTyped'
    BY <1>19 DEF GiveUp, Done, Doing, Files, Loans, Asked, Statuses, Offerable, PreActivation, Terminal, Closed, Approval
  <2>2. HoldersExclude'
    BY <1>19 DEF GiveUp, Done, Doing, HoldersExclude, Holding, Issued
  <2>3. BookedOnSignature' /\ SignedStands'
    BY <1>19 DEF GiveUp, Done, Doing, Booked, BookedOnSignature, SignedStands, Files, Loans
  <2>4. AcceptedAlone'
    BY <1>19 DEF GiveUp, Done, AcceptedAlone, HoldersExclude, Holding
  <2> QED
    BY <2>1, <2>2, <2>3, <2>4
<1>20. CASE UNCHANGED vars
  BY <1>20 DEF vars, Doing, AcceptedAlone, HoldersExclude, Holding, Issued, BookedOnSignature,
     Booked, SignedStands
<1> QED
  BY <1>1, <1>2, <1>3, <1>4, <1>5, <1>6, <1>7, <1>8, <1>9, <1>10, <1>11, <1>12, <1>13, <1>14, <1>15, <1>16, <1>17, <1>18, <1>19, <1>20 DEF Next, Work

(* The invariant contains both promises.                                    *)
LEMMA DealsSound == ASSUME DealsInv PROVE OneAcceptance /\ BookedOnSignature
BY AloneIsOne DEF DealsInv

(* At most one offer is accepted, for any number of offers and concurrent   *)
(* requests (accept_offer locks all offers of the application and reads     *)
(* them again), and a loan booked at activation carries an agreement that   *)
(* the borrower signed unless a second sender wrote over it                 *)
(* (on_agreement_signed, activate_loan).                                    *)
THEOREM DealsStaySound ==
    ASSUME OffersAssumption
    PROVE  Spec => [](OneAcceptance /\ BookedOnSignature)
<1>1. Init => DealsInv
  BY DealsInitHolds
<1>2. DealsInv /\ [Next]_vars => DealsInv'
  BY DealsStepKeeps
<1>3. DealsInv => OneAcceptance /\ BookedOnSignature
  BY DealsSound
<1> HIDE DEF DealsInv, OneAcceptance, BookedOnSignature
<1> QED
  BY <1>1, <1>2, <1>3, PTL DEF Spec
===============================================================================
