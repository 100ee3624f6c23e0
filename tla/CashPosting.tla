----------------------------- MODULE CashPosting -----------------------------
(***************************************************************************)
(* What the collection stack promises about money, whatever processes,     *)
(* webhooks and crashes it is made of: a pull is created at the payment    *)
(* rail once, the rail settles it once, and the cash of a completed pull   *)
(* is posted to the loan at most once and never without it.                *)
(***************************************************************************)
CONSTANT Pulls

VARIABLES
    rail,     \* pull -> its status at the payment rail
    posted    \* pull -> how often its cash was posted to the loan

vars == <<rail, posted>>

Terminal == {"completed", "failed", "cancelled"}

Init == rail = [p \in Pulls |-> "none"] /\ posted = [p \in Pulls |-> 0]

(* The rail may answer a creation with a terminal status at once.           *)
Create(p) ==
    /\ rail[p] = "none"
    /\ \E s \in {"pending"} \cup Terminal : rail' = [rail EXCEPT ![p] = s]
    /\ UNCHANGED posted

Resolve(p) ==
    /\ rail[p] = "pending"
    /\ \E s \in Terminal : rail' = [rail EXCEPT ![p] = s]
    /\ UNCHANGED posted

Post(p) ==
    /\ rail[p] = "completed"
    /\ posted[p] = 0
    /\ posted' = [posted EXCEPT ![p] = 1]
    /\ UNCHANGED rail

Next == \E p \in Pulls : Create(p) \/ Resolve(p) \/ Post(p)

Spec == Init /\ [][Next]_vars
=============================================================================
