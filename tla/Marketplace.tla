---------------------------- MODULE Marketplace ----------------------------
(***************************************************************************)
(* The lead marketplace (services/marketplace/listings.py): a patient's    *)
(* listings, the clinics that express interest, the one the patient picks, *)
(* and the lead charge recorded against it.  A session reads, writes its   *)
(* rows (which locks them), recomputes the patient's cached flag, and      *)
(* commits; only select_clinic reads the listing again under a row lock.   *)
(***************************************************************************)
EXTENDS Naturals, FiniteSets
CONSTANTS
    Listings,   \* listings of one patient
    Clinics,
    Sessions,   \* requests that can be under way together
    Trigger,    \* get_charge_trigger()
    None

Triggers == {"expressed_interest", "patient_selected", "appointment_booked"}

TriggerAssumption == Trigger \in Triggers /\ None \notin Clinics \cup Triggers

VARIABLES
    status,     \* listing -> its status, "none" before it exists
    live,       \* listings that have not expired
    accepted,   \* listing -> accepted_vendor_id
    interest,   \* listing -> clinic -> its interest row, or None
    listed,     \* patient.marketplace_listed
    work        \* session -> what it does, what it read and what it will write

rows == <<status, accepted, interest>>
vars == <<rows, live, listed, work>>

NewInterest == [charge |-> None, selected |-> FALSE, booked |-> FALSE]
Idle        == [op |-> "idle"]

Init ==
    /\ status = [l \in Listings |-> "none"]
    /\ live = Listings
    /\ accepted = [l \in Listings |-> None]
    /\ interest = [l \in Listings |-> [c \in Clinics |-> None]]
    /\ listed = FALSE
    /\ work = [s \in Sessions |-> Idle]

----------------------------------------------------------------------------
(* create_listing: an active listing, and the flag.                        *)
CreateListing(l) ==
    /\ status[l] = "none"
    /\ status' = [status EXCEPT ![l] = "active"]
    /\ listed' = TRUE
    /\ UNCHANGED <<accepted, interest, live, work>>

Expire(l) ==
    /\ status[l] # "none" /\ l \in live
    /\ live' = live \ {l}
    /\ UNCHANGED <<rows, listed, work>>

----------------------------------------------------------------------------
(* Every request starts by reading the listing and its interest rows.      *)
Load(s, op, l, c) ==
    /\ work[s] = Idle /\ status[l] # "none"
    /\ work' = [work EXCEPT ![s] =
                   [op |-> op, listing |-> l, clinic |-> c, flushed |-> FALSE, listed |-> listed,
                    status |-> status[l], accepted |-> accepted[l], row |-> interest[l][c]]]
    /\ UNCHANGED <<rows, live, listed>>

Begin(s) ==
    \E op \in {"pause", "select", "express", "book"}, l \in Listings, c \in Clinics :
        Load(s, op, l, c)

(* A flushed write holds its listing's row until the commit.               *)
Flushed(s)  == work[s] # Idle /\ work[s].flushed
RowFree(l)  == \A s \in Sessions : ~(Flushed(s) /\ work[s].listing = l)
Doing(s, op) == work[s] # Idle /\ work[s].op = op /\ ~work[s].flushed
Give(s)      == work' = [work EXCEPT ![s] = Idle]

(* _refresh_marketplace_listed: the other listings as committed, its own   *)
(* no longer active.                                                       *)
HasLive(l) == \E k \in Listings \ {l} : status[k] = "active" /\ k \in live

Flush(s) ==
    /\ work' = [work EXCEPT ![s].flushed = TRUE, ![s].listed = HasLive(work[s].listing)]
    /\ UNCHANGED <<rows, live, listed>>

(* pause_listing checks the status it loaded.                              *)
Pause(s) ==
    /\ Doing(s, "pause") /\ RowFree(work[s].listing)
    /\ work[s].status = "active"
    /\ Flush(s)

(* Mutant of StillActive: the status loaded before the lock is trusted.    *)
LoadedActive(s) == work[s].status = "active"

(* select_clinic reads the listing again under its row lock.               *)
StillActive(s) == status[work[s].listing] = "active"

Select(s) ==
    /\ Doing(s, "select") /\ RowFree(work[s].listing)
    /\ StillActive(s)
    /\ interest[work[s].listing][work[s].clinic] # None
    /\ Flush(s)

(* The request is refused, or has nothing to do.                           *)
Refuse(s) ==
    /\ \/ Doing(s, "pause") /\ work[s].status # "active"
       \/ Doing(s, "select") /\ RowFree(work[s].listing)
            /\ (~StillActive(s) \/ interest[work[s].listing][work[s].clinic] = None)
       \/ Doing(s, "express") /\ (work[s].row # None \/ work[s].status # "active"
                                  \/ work[s].listing \notin live)
       \/ Doing(s, "book") /\ (work[s].row = None \/ work[s].accepted # work[s].clinic)
    /\ Give(s)
    /\ UNCHANGED <<rows, live, listed>>

(* _charge_lead keeps the first stamp.                                     *)
Charged(row, trigger) ==
    IF Trigger = trigger /\ row.charge = None THEN [row EXCEPT !.charge = trigger] ELSE row

CommitPause(s) ==
    /\ Flushed(s) /\ work[s].op = "pause"
    /\ status' = [status EXCEPT ![work[s].listing] = "paused"]
    /\ listed' = work[s].listed
    /\ Give(s)
    /\ UNCHANGED <<accepted, interest, live>>

CommitSelect(s) ==
    /\ Flushed(s) /\ work[s].op = "select"
    /\ status' = [status EXCEPT ![work[s].listing] = "closed"]
    /\ accepted' = [accepted EXCEPT ![work[s].listing] = work[s].clinic]
    /\ interest' = [interest EXCEPT ![work[s].listing][work[s].clinic] =
                       [Charged(@, "patient_selected") EXCEPT !.selected = TRUE]]
    /\ listed' = work[s].listed
    /\ Give(s)
    /\ UNCHANGED live

(* express_interest: the unique index keeps the first of two rows.         *)
Express(s) ==
    /\ Doing(s, "express") /\ work[s].row = None
    /\ work[s].status = "active" /\ work[s].listing \in live
    /\ interest' = [interest EXCEPT ![work[s].listing][work[s].clinic] =
                       IF @ = None THEN Charged(NewInterest, "expressed_interest") ELSE @]
    /\ Give(s)
    /\ UNCHANGED <<status, accepted, live, listed>>

(* book_appointment: only for the clinic that was accepted.                *)
Book(s) ==
    /\ Doing(s, "book") /\ work[s].row # None /\ work[s].accepted = work[s].clinic
    /\ interest' = [interest EXCEPT ![work[s].listing][work[s].clinic] =
                       [Charged(@, "appointment_booked") EXCEPT !.booked = TRUE]]
    /\ Give(s)
    /\ UNCHANGED <<status, accepted, live, listed>>

----------------------------------------------------------------------------
Next ==
    \/ \E l \in Listings : CreateListing(l) \/ Expire(l)
    \/ \E s \in Sessions :
        \/ Begin(s) \/ Pause(s) \/ Select(s) \/ Refuse(s)
        \/ CommitPause(s) \/ CommitSelect(s) \/ Express(s) \/ Book(s)

Spec == Init /\ [][Next]_vars

----------------------------------------------------------------------------
TypeOK ==
    /\ \A l \in Listings : status[l] \in {"none", "active", "paused", "closed"}
    /\ \A l \in Listings : accepted[l] \in Clinics \cup {None}
    /\ live \subseteq Listings /\ listed \in BOOLEAN

(* A lead is sold once: the clinic the patient accepted is the only one    *)
(* stamped as selected, the only one that can be charged for the selection *)
(* or the appointment, and the choice never changes hands, however many    *)
(* selections, pauses and bookings overlap (select_clinic).                *)
LeadSoldOnce ==
    \A l \in Listings, c \in Clinics :
        interest[l][c] # None /\ accepted[l] # c =>
            /\ ~interest[l][c].selected /\ ~interest[l][c].booked
            /\ interest[l][c].charge \notin {"patient_selected", "appointment_booked"}
=============================================================================
