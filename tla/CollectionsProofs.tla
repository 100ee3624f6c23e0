-------------------------- MODULE CollectionsProofs --------------------------
(***************************************************************************)
(* Collections keeps its books and its attempts consistent, for every      *)
(* number of installments, attempts, processes, crashes and days.          *)
(***************************************************************************)
EXTENDS Collections, TLAPS

---------------------------------------------------------------------------
(* Types *)

Outcomes == {"none", "pending"} \cup Terminal

(* The updates of an attempt row keep its type.                             *)
LEMMA RowUpdated ==
    ASSUME attempts \in [Attempts -> AttemptRow]
    PROVE  /\ \A x : \A o \in Outcomes :
                [attempts EXCEPT ![x].outcome = o] \in [Attempts -> AttemptRow]
           /\ \A x : [attempts EXCEPT ![x].ref = TRUE] \in [Attempts -> AttemptRow]
BY DEF AttemptRow, Outcomes

(* And counting up keeps a function's.                                      *)
LEMMA CountedUp ==
    ASSUME NEW S, NEW f \in [S -> Nat], NEW x
    PROVE  [f EXCEPT ![x] = @ + 1] \in [S -> Nat]
<1>1. ASSUME x \in S PROVE f[x] + 1 \in Nat
  BY <1>1
<1> QED
  BY <1>1

(* So do the ways a worker moves.                                           *)
LEMMA WorkerMoved ==
    ASSUME TypeOK, NEW w \in Workers
    PROVE  /\ \A l \in Labels : Goto(w, l) =>
                /\ pc' \in [Workers -> Labels]
                /\ pull' \in [Workers -> Pulls \cup {NoPull}]
           /\ Finish(w) => /\ pc' \in [Workers -> Labels]
                           /\ pull' \in [Workers -> Pulls \cup {NoPull}]
           /\ Stop(w) => /\ pc' \in [Workers -> Labels]
                         /\ pull' \in [Workers -> Pulls \cup {NoPull}]
                         /\ plan' \in [Runs -> SUBSET Attempts]
<1>1. \A l \in Labels : Goto(w, l) => /\ pc' \in [Workers -> Labels]
                                      /\ pull' \in [Workers -> Pulls \cup {NoPull}]
  BY DEF TypeOK, Goto
<1>2. Finish(w) => /\ pc' \in [Workers -> Labels]
                   /\ pull' \in [Workers -> Pulls \cup {NoPull}]
  BY DEF TypeOK, Finish, Labels
<1>3. Stop(w) => /\ pc' \in [Workers -> Labels]
                 /\ pull' \in [Workers -> Pulls \cup {NoPull}]
                 /\ plan' \in [Runs -> SUBSET Attempts]
  BY DEF TypeOK, Stop, Labels
<1> QED
  BY <1>1, <1>2, <1>3

(* The initial state is well typed.                                         *)
LEMMA InitTyped == Init => TypeOK
BY SizeAssumption DEF Init, TypeOK, Attempts, AttemptRow, NoAttempt, Labels, Modes

(* The worker's own steps keep the types.                                   *)
LEMMA StepTyped ==
    ASSUME TypeOK, NEW w \in Workers, PullHeld(w), Step(w) PROVE TypeOK'
<1> USE DEF TypeOK
<1>1. CASE CallAnswered(w)
  <2>1. rail' \in [Pulls -> {"none", "pending"} \cup Terminal]
    BY <1>1, RailAssumption DEF CallAnswered, Terminal
  <2>2. reply' \in [Workers -> {"pending", "completed", "failed"}]
    BY <1>1, RailAssumption DEF CallAnswered
  <2>3. Goto(w, "record") /\ UNCHANGED <<dbVars, plan, seen, mode, day, crashes>>
    BY <1>1 DEF CallAnswered
  <2> QED
    BY <2>1, <2>2, <2>3, WorkerMoved DEF dbVars, loanVars, Labels
<1>2. CASE CallUnknown(w)
  <2>1. rail' \in [Pulls -> {"none", "pending"} \cup Terminal]
    BY <1>2 DEF CallUnknown
  <2>2. Finish(w) /\ UNCHANGED <<dbVars, plan, reply, seen, mode, day, crashes>>
    BY <1>2 DEF CallUnknown
  <2> QED
    BY <2>1, <2>2, WorkerMoved DEF dbVars, loanVars
<1>3. CASE CallRejected(w)
  <2>1. attempts' \in [Attempts -> AttemptRow]
    BY <1>3, RowUpdated DEF CallRejected, Outcomes, Terminal
  <2>2. /\ Finish(w)
        /\ UNCHANGED <<autoCharge, initiated, terms, nonces, receipts, fees, loanVars, rail,
                       plan, reply, seen, mode, day, crashes>>
    BY <1>3 DEF CallRejected
  <2> QED
    BY <2>1, <2>2, WorkerMoved DEF loanVars
<1>4. CASE RecordPull(w)
  <2>1. attempts' \in [Attempts -> AttemptRow]
    BY <1>4, RowUpdated DEF RecordPull
  <2>2. initiated' \subseteq Pulls
    BY <1>4 DEF RecordPull, PullHeld
  <2>3. /\ pc' \in [Workers -> Labels]
        /\ pull' \in [Workers -> Pulls \cup {NoPull}]
    BY <1>4, WorkerMoved DEF RecordPull, Labels
  <2>4. mode' \in [Workers -> Modes]
    BY <1>4 DEF RecordPull, ModeAtSettlement, Terms, Modes
  <2>5. reply' \in [Workers -> {"pending", "completed", "failed"}]
    BY <1>4 DEF RecordPull
  <2>6. UNCHANGED <<autoCharge, terms, nonces, receipts, fees, loanVars, rail,
                    plan, seen, day, crashes>>
    BY <1>4 DEF RecordPull
  <2> QED
    BY <2>1, <2>2, <2>3, <2>4, <2>5, <2>6 DEF loanVars
<1>5. CASE ApplyCash(w)
  <2>1. /\ receipts' \in [Pulls -> Nat] /\ seq' \in Nat
        /\ status' \in {"active", "paid_off", "charged_off"}
    <3>1. CASE receipts[pull[w]] > 0
      BY <1>5, <3>1 DEF ApplyCash, PostCash, loanVars
    <3>2. CASE ~(receipts[pull[w]] > 0)
      <4>1. receipts' = [receipts EXCEPT ![pull[w]] = @ + 1] /\ seq' = seq + 1
        BY <1>5, <3>2 DEF ApplyCash, PostCash
      <4>2. status' = IF filled' = N THEN "paid_off" ELSE status
        BY <1>5, <3>2 DEF ApplyCash, PostCash
      <4>3. receipts' \in [Pulls -> Nat] /\ seq' \in Nat
        BY <4>1, CountedUp
      <4>4. status' \in {"active", "paid_off", "charged_off"}
        BY <4>2
      <4> QED
        BY <4>3, <4>4
    <3> QED
      BY <3>1, <3>2
  <2>2. filled' \in 0 .. N /\ addOn' \in Nat
    <3> DEFINE m == mode[w]
               amount == Terms(pull[w]).amount
    <3>1. m \in Modes /\ amount \in Nat
      BY DEF Terms
    <3>2. \/ UNCHANGED <<filled, addOn>>
          \/ /\ Accepted(m, amount)
             /\ filled' = FilledAfter(m, amount) /\ addOn' = AddOnAfter(m, amount)
      BY <1>5 DEF ApplyCash, PostCash, loanVars
    <3> HIDE DEF m, amount
    <3> QED
      BY <3>1, <3>2, SizeAssumption DEF Accepted, FilledAfter, AddOnAfter, Least, Modes
  <2>3. nonces' \subseteq Pulls
    BY <1>5 DEF ApplyCash, PullHeld
  <2>4. mode' \in [Workers -> Modes]
    BY <1>5 DEF ApplyCash, Modes
  <2>5. /\ pc' \in [Workers -> Labels]
        /\ pull' \in [Workers -> Pulls \cup {NoPull}]
    BY <1>5, WorkerMoved DEF ApplyCash, Labels
  <2>6. UNCHANGED <<attempts, autoCharge, initiated, terms, fees, rail,
                    plan, reply, seen, day, crashes>>
    BY <1>5 DEF ApplyCash
  <2> QED
    BY <2>1, <2>2, <2>3, <2>4, <2>5, <2>6
<1>6. CASE RefuseCash(w)
  <2>1. mode' \in [Workers -> Modes]
    BY <1>6 DEF RefuseCash, Modes
  <2>2. Stop(w) /\ UNCHANGED <<dbVars, rail, reply, seen, day, crashes>>
    BY <1>6 DEF RefuseCash
  <2> QED
    BY <2>1, <2>2, WorkerMoved DEF dbVars, loanVars
<1>7. CASE SettleAttempt(w)
  <2>1. attempts' \in [Attempts -> AttemptRow]
    BY <1>7, RowUpdated DEF SettleAttempt, Outcomes, Terminal
  <2>2. /\ Finish(w)
        /\ UNCHANGED <<autoCharge, initiated, terms, nonces, receipts, fees, loanVars, rail,
                       plan, reply, seen, mode, day, crashes>>
    BY <1>7 DEF SettleAttempt
  <2> QED
    BY <2>1, <2>2, WorkerMoved DEF loanVars
<1>8. CASE ReadFailed(w)
  <2>1. seen' \in [Workers -> [fee : BOOLEAN, seq : Nat]]
    BY <1>8 DEF ReadFailed, Recorded, AttemptRow
  <2>2. /\ pc' \in [Workers -> Labels]
        /\ pull' \in [Workers -> Pulls \cup {NoPull}]
    BY <1>8, WorkerMoved DEF ReadFailed, Labels
  <2>3. UNCHANGED <<dbVars, rail, plan, reply, mode, day, crashes>>
    BY <1>8 DEF ReadFailed
  <2> QED
    BY <2>1, <2>2, <2>3 DEF dbVars, loanVars
<1>9. CASE ReadSeq(w)
  <2>1. seen' \in [Workers -> [fee : BOOLEAN, seq : Nat]]
    BY <1>9 DEF ReadSeq
  <2>2. Goto(w, "failcommit") /\ UNCHANGED <<dbVars, rail, plan, reply, mode, day, crashes>>
    BY <1>9 DEF ReadSeq
  <2> QED
    BY <2>1, <2>2, WorkerMoved DEF dbVars, loanVars, Labels
<1>10. CASE CommitFailed(w)
  <2>1. attempts' \in [Attempts -> AttemptRow]
    <3> DEFINE x == pull[w]
               g == [attempts EXCEPT ![x].outcome = "failed"]
    <3>1. g \in [Attempts -> AttemptRow]
      BY RowUpdated DEF Outcomes, Terminal
    <3>2. attempts' = [g EXCEPT ![x].fee = @ \/ ChargesFee(w)]
      BY <1>10 DEF CommitFailed
    <3> HIDE DEF g
    <3> QED
      BY <3>1, <3>2 DEF AttemptRow
  <2>2. fees' \in [Attempts -> Nat] /\ seq' \in Nat /\ addOn' \in Nat
    BY <1>10, SizeAssumption DEF CommitFailed
  <2>3. autoCharge' \in BOOLEAN
    BY <1>10 DEF CommitFailed
  <2>4. seen' \in [Workers -> [fee : BOOLEAN, seq : Nat]]
    BY <1>10 DEF CommitFailed
  <2>5. /\ Finish(w)
        /\ UNCHANGED <<initiated, terms, nonces, receipts, filled, status, rail,
                       plan, reply, mode, day, crashes>>
    BY <1>10 DEF CommitFailed
  <2> QED
    BY <2>1, <2>2, <2>3, <2>4, <2>5, WorkerMoved
<1>11. CASE ConflictFailed(w)
  <2>1. seen' \in [Workers -> [fee : BOOLEAN, seq : Nat]]
    BY <1>11 DEF ConflictFailed
  <2>2. Stop(w) /\ UNCHANGED <<dbVars, rail, reply, mode, day, crashes>>
    BY <1>11 DEF ConflictFailed
  <2> QED
    BY <2>1, <2>2, WorkerMoved DEF dbVars, loanVars
<1> QED
  BY <1>1, <1>2, <1>3, <1>4, <1>5, <1>6, <1>7, <1>8, <1>9, <1>10, <1>11 DEF Step

(* Every step of the system keeps the types.                                *)
LEMMA NextTyped ==
    ASSUME TypeOK, \A w \in Workers : PullHeld(w), [Next]_vars PROVE TypeOK'
<1> USE DEF TypeOK
<1>1. CASE UNCHANGED vars
  BY <1>1 DEF vars, dbVars, loanVars, procVars
<1>2. ASSUME NEW w \in Workers, Step(w) PROVE TypeOK'
  BY <1>2, StepTyped
<1>3. ASSUME NEW w \in Workers, Crash(w) PROVE TypeOK'
  <2>1. /\ reply' \in [Workers -> {"pending", "completed", "failed"}]
        /\ seen' \in [Workers -> [fee : BOOLEAN, seq : Nat]]
        /\ mode' \in [Workers -> Modes]
        /\ crashes' \in Nat
    BY <1>3 DEF Crash, Modes
  <2>2. Stop(w) /\ UNCHANGED <<dbVars, rail, day>>
    BY <1>3 DEF Crash
  <2> QED
    BY <2>1, <2>2, WorkerMoved DEF dbVars, loanVars
<1>4. ASSUME NEW r \in Runs, CronStep(r) PROVE TypeOK'
  <2> r \in Workers
    BY DEF Workers
  <2>1. CASE Load(r)
    <3>1. plan' \in [Runs -> SUBSET Attempts]
      BY <2>1 DEF Load, Planned
    <3>2. Goto(r, "next") /\ UNCHANGED <<dbVars, rail, reply, seen, mode, day, crashes>>
      BY <2>1 DEF Load
    <3> QED
      BY <3>1, <3>2, WorkerMoved DEF dbVars, loanVars, Labels
  <2>2. CASE EndRun(r)
    <3>1. Goto(r, "idle") /\ UNCHANGED <<dbVars, rail, plan, reply, seen, mode, day, crashes>>
      BY <2>2 DEF EndRun
    <3> QED
      BY <3>1, WorkerMoved DEF dbVars, loanVars, Labels
  <2>3. ASSUME NEW a \in Attempts, ClaimCharge(r, a) PROVE TypeOK'
    <3>1. plan' \in [Runs -> SUBSET Attempts]
      BY <2>3 DEF ClaimCharge
    <3>2. attempts' \in [Attempts -> AttemptRow]
      <4>1. [NoAttempt EXCEPT !.outcome = "pending", !.on = day] \in AttemptRow
        BY DEF AttemptRow, NoAttempt
      <4> QED
        BY <2>3, <4>1 DEF ClaimCharge
    <3>3. /\ pc' \in [Workers -> Labels]
          /\ pull' \in [Workers -> Pulls \cup {NoPull}]
      <4>1. a \in Pulls
        BY DEF Pulls
      <4> QED
        BY <2>3, <4>1 DEF ClaimCharge, Labels
    <3>4. UNCHANGED <<autoCharge, initiated, terms, nonces, receipts, fees, loanVars, rail,
                      reply, seen, mode, day, crashes>>
      BY <2>3 DEF ClaimCharge
    <3> QED
      BY <3>1, <3>2, <3>3, <3>4 DEF loanVars
  <2>4. ASSUME NEW a \in Attempts, SkipCharge(r, a) PROVE TypeOK'
    BY <2>4 DEF SkipCharge, dbVars, loanVars
  <2> QED
    BY <1>4, <2>1, <2>2, <2>3, <2>4 DEF CronStep
<1>5. ASSUME NEW p \in PayNows, StartPayNow(p) PROVE TypeOK'
  <2>1. terms' \in [PayNows -> [mode : Modes, amount : Nat]]
    <3>1. ASSUME NEW m \in Modes PROVE Payable(m) \subseteq Nat
      BY SizeAssumption DEF Payable, Payoff, Modes
    <3>2. PICK m \in Modes, amount \in Nat :
                 terms' = [terms EXCEPT ![p] = [mode |-> m, amount |-> amount]]
      BY <1>5, <3>1 DEF StartPayNow
    <3> QED
      BY <3>2
  <2>2. /\ pc' \in [Workers -> Labels]
        /\ pull' \in [Workers -> Pulls \cup {NoPull}]
    BY <1>5 DEF StartPayNow, Pulls, Labels
  <2>3. UNCHANGED <<attempts, autoCharge, initiated, nonces, receipts, fees, loanVars, rail,
                    plan, reply, seen, mode, day, crashes>>
    BY <1>5 DEF StartPayNow
  <2> QED
    BY <2>1, <2>2, <2>3 DEF loanVars
<1>6. ASSUME NEW h \in Hooks, NEW t \in Pulls, Deliver(h, t) PROVE TypeOK'
  <2>1. CASE DeliverCompleted(h, t)
    <3>1. /\ pc' \in [Workers -> Labels]
          /\ pull' \in [Workers -> Pulls \cup {NoPull}]
      BY <2>1 DEF DeliverCompleted, Labels
    <3>2. mode' \in [Workers -> Modes]
      BY <2>1 DEF DeliverCompleted, ModeAtSettlement, Terms, Modes
    <3>3. UNCHANGED <<dbVars, rail, plan, reply, seen, day, crashes>>
      BY <2>1 DEF DeliverCompleted
    <3> QED
      BY <3>1, <3>2, <3>3 DEF dbVars, loanVars
  <2>2. CASE DeliverFailed(h, t)
    <3>1. /\ pc' \in [Workers -> Labels]
          /\ pull' \in [Workers -> Pulls \cup {NoPull}]
          /\ nonces' \subseteq Pulls
      BY <2>2 DEF DeliverFailed, Labels
    <3>2. UNCHANGED <<attempts, autoCharge, initiated, terms, receipts, fees, loanVars, rail,
                      plan, reply, seen, mode, day, crashes>>
      BY <2>2 DEF DeliverFailed
    <3> QED
      BY <3>1, <3>2 DEF loanVars
  <2>3. CASE DeliverCancelled(h, t)
    <3>1. attempts' \in [Attempts -> AttemptRow]
      BY <2>3, RowUpdated DEF DeliverCancelled, Outcomes, Terminal
    <3>2. nonces' \subseteq Pulls
      BY <2>3 DEF DeliverCancelled
    <3>3. UNCHANGED <<autoCharge, initiated, terms, receipts, fees, loanVars, rail,
                      procVars, day, crashes>>
      BY <2>3 DEF DeliverCancelled
    <3> QED
      BY <3>1, <3>2, <3>3 DEF procVars, loanVars
  <2>4. CASE DeliverOrphan(h, t)
    BY <2>4 DEF DeliverOrphan, procVars, loanVars
  <2> QED
    BY <1>6, <2>1, <2>2, <2>3, <2>4 DEF Deliver
<1>7. ASSUME NEW t \in Pulls, RailSettles(t) PROVE TypeOK'
  <2>1. rail' \in [Pulls -> {"none", "pending"} \cup Terminal]
    BY <1>7 DEF RailSettles
  <2> QED
    BY <1>7, <2>1 DEF RailSettles, dbVars, loanVars, procVars
<1>8. CASE ToggleAutoCharge
  BY <1>8 DEF ToggleAutoCharge, procVars, loanVars
<1>9. CASE ChargeOff
  BY <1>9 DEF ChargeOff, procVars
<1>10. CASE NextDay
  BY <1>10, SizeAssumption DEF NextDay, dbVars, loanVars, procVars
<1> QED
  BY <1>1, <1>2, <1>3, <1>4, <1>5, <1>6, <1>7, <1>8, <1>9, <1>10 DEF Next

(* Only a worker at work holds a pull.                                      *)
LEMMA NoPullIsNoPull == NoPull \notin Pulls
<1>1. NoPull \notin Attempts
  BY SizeAssumption DEF NoPull, Attempts, Items
<1>2. NoPull \notin PayNows
  BY ActorAssumption, SizeAssumption DEF NoPull
<1> QED
  BY <1>1, <1>2 DEF Pulls

(* Every step keeps each worker at a known pull, or at none when it rests.  *)
LEMMA NextHeld ==
    ASSUME TypeOK, \A w \in Workers : PullHeld(w), [Next]_vars
    PROVE  \A v \in Workers : PullHeld(v)'
<1> SUFFICES ASSUME NEW v \in Workers PROVE PullHeld(v)'
  OBVIOUS
<1> USE DEF TypeOK, PullHeld
<1>1. CASE UNCHANGED vars
  BY <1>1 DEF vars, procVars
<1>2. ASSUME NEW w \in Workers, Step(w) \/ Crash(w) PROVE PullHeld(v)'
  <2>1. \/ \E l \in Labels \ {"idle", "next"} :
              Goto(w, l) /\ pc[w] \notin {"idle", "next"}
        \/ Finish(w) \/ Stop(w)
    BY <1>2 DEF Step, CallAnswered, CallUnknown, CallRejected, RecordPull, ApplyCash,
                RefuseCash, SettleAttempt, ReadFailed, ReadSeq, CommitFailed,
                ConflictFailed, Crash, Labels
  <2> QED
    BY <2>1 DEF Goto, Finish, Stop
<1>3. ASSUME NEW r \in Runs, CronStep(r) PROVE PullHeld(v)'
  <2>1. ASSUME NEW a \in Attempts, ClaimCharge(r, a) PROVE PullHeld(v)'
    BY <2>1 DEF ClaimCharge, Pulls
  <2> QED
    BY <1>3, <2>1 DEF CronStep, Load, EndRun, SkipCharge, Goto
<1>4. ASSUME NEW p \in PayNows, StartPayNow(p) PROVE PullHeld(v)'
  BY <1>4 DEF StartPayNow, Pulls
<1>5. ASSUME NEW h \in Hooks, NEW t \in Pulls, Deliver(h, t) PROVE PullHeld(v)'
  BY <1>5 DEF Deliver, DeliverCompleted, DeliverFailed, DeliverCancelled, DeliverOrphan,
              procVars
<1>6. ASSUME NEW t \in Pulls, RailSettles(t) PROVE PullHeld(v)'
  BY <1>6 DEF RailSettles, procVars
<1>7. CASE ToggleAutoCharge \/ ChargeOff \/ NextDay
  BY <1>7 DEF ToggleAutoCharge, ChargeOff, NextDay, procVars
<1> QED
  BY <1>1, <1>2, <1>3, <1>4, <1>5, <1>6, <1>7 DEF Next

(* TypeOK of every reachable state.                                         *)
THEOREM TypesHold == Spec => []TypeOK
<1> DEFINE Held == \A w \in Workers : PullHeld(w)
<1>1. Init => TypeOK /\ Held
  BY InitTyped DEF Init, PullHeld
<1>2. TypeOK /\ Held /\ [Next]_vars => (TypeOK /\ Held)'
  BY NextTyped, NextHeld
<1> QED
  BY <1>1, <1>2, PTL DEF Spec

---------------------------------------------------------------------------
(* What a step can do to the rail, the attempt rows, the counters and the   *)
(* nonces.  The invariants are argued from these summaries.                 *)

RailMoves(t) ==
    \/ rail'[t] = rail[t]
    \/ rail[t] = "pending" /\ rail'[t] \in Terminal
    \/ /\ rail[t] = "none"
       /\ \E w \in Workers : pc[w] = "call" /\ pull[w] = t /\ pc'[w] # "call"
       /\ UNCHANGED <<attempts, nonces, receipts>>

AttemptMoves(a) ==
    \/ /\ attempts'[a].outcome = attempts[a].outcome
       /\ attempts'[a].on = attempts[a].on
    \/ /\ attempts[a].outcome = "none" /\ attempts'[a].outcome = "pending"
       /\ attempts'[a].on = day
       /\ \E r \in Runs : a \in plan[r]
    \/ /\ attempts'[a].on = attempts[a].on
       /\ rail' = rail /\ receipts' = receipts
       /\ \/ /\ attempts'[a].outcome = "failed"
             /\ \E w \in Runs : pc[w] = "call" /\ pull[w] = a /\ pc'[w] # "call"
          \/ /\ attempts'[a].outcome = "completed"
             /\ \E w \in Workers : pc[w] = "settle" /\ pull[w] = a
          \/ /\ attempts'[a].outcome = "failed"
             /\ \E w \in Workers : pc[w] = "failcommit" /\ pull[w] = a
          \/ /\ attempts'[a].outcome = "cancelled"
             /\ attempts[a].outcome = "pending" /\ rail[a] = "cancelled"

CountersMove(t) ==
    /\ \/ receipts'[t] = receipts[t]
       \/ /\ receipts[t] = 0 /\ receipts'[t] = 1 /\ rail' = rail
          /\ \E w \in Workers : pc[w] = "apply" /\ pull[w] = t
    /\ t \in Attempts =>
          \/ fees'[t] = fees[t]
          \/ \E w \in Workers : pc[w] = "failcommit" /\ pull[w] = t

NoncesMove(t) ==
    /\ t \in nonces' /\ t \notin nonces =>
          /\ rail' = rail /\ initiated' = initiated
          /\ \/ \E h \in Hooks : /\ pc[h] = "apply" /\ pull[h] = t
                                /\ receipts'[t] > 0
             \/ /\ rail[t] \in Terminal
                /\ rail[t] = "completed" => t \notin initiated
                /\ ~EarlyHooks => \A w \in Workers \ Hooks :
                                      ~(pc[w] = "record" /\ pull[w] = t)
    /\ t \in initiated' /\ t \notin initiated =>
          /\ nonces' = nonces
          /\ \E w \in Workers : pc[w] = "record" /\ pull[w] = t

Moves ==
    /\ \A t \in Pulls : RailMoves(t) /\ CountersMove(t) /\ NoncesMove(t)
    /\ \A a \in Attempts : AttemptMoves(a)

(* Starting and recording a pull: the worker's own step and its pull move,  *)
(* and no other worker's.                                                   *)
LEMMA CallsMove ==
    ASSUME TypeOK, NEW w \in Workers, WorkerAgrees(w),
           CallAnswered(w) \/ CallUnknown(w) \/ CallRejected(w)
    PROVE  Moves
<1> USE DEF TypeOK
<1> SUFFICES /\ \A t \in Pulls : RailMoves(t)
             /\ \A a \in Attempts : AttemptMoves(a)
             /\ UNCHANGED <<receipts, fees, nonces>>
             /\ initiated' = initiated
  BY DEF Moves, CountersMove, NoncesMove
<1>1. CASE CallAnswered(w) \/ CallUnknown(w)
  <2>1. UNCHANGED <<attempts, receipts, fees, nonces, initiated>>
    BY <1>1 DEF CallAnswered, CallUnknown, dbVars, loanVars
  <2>2. pc[w] = "call" /\ pc'[w] # "call"
    BY <1>1 DEF CallAnswered, CallUnknown, Goto, Finish
  <2>3. \A t \in Pulls : t # pull[w] => rail'[t] = rail[t]
    BY <1>1 DEF CallAnswered, CallUnknown
  <2>4. rail[pull[w]] = "none"
    BY <2>2 DEF WorkerAgrees
  <2>5. ASSUME NEW t \in Pulls PROVE RailMoves(t)
    BY <2>1, <2>2, <2>3, <2>4 DEF RailMoves
  <2> QED
    BY <2>1, <2>5 DEF AttemptMoves
<1>2. CASE CallRejected(w)
  <2>1. UNCHANGED <<rail, receipts, fees, nonces, initiated>>
    BY <1>2 DEF CallRejected, loanVars
  <2>2. pc[w] = "call" /\ pc'[w] # "call"
    BY <1>2 DEF CallRejected, Finish
  <2>3. ASSUME NEW a \in Attempts PROVE AttemptMoves(a)
    BY <1>2, <2>1, <2>2 DEF CallRejected, AttemptMoves, AttemptRow
  <2> QED
    BY <2>1, <2>3 DEF RailMoves
<1> QED
  BY <1>1, <1>2

(* The same of the steps that post or refuse a completed pull's cash.       *)
LEMMA SettlementsMove ==
    ASSUME TypeOK, NEW w \in Workers, PullHeld(w), WorkerAgrees(w),
           RecordPull(w) \/ ApplyCash(w) \/ RefuseCash(w) \/ SettleAttempt(w)
    PROVE  Moves
<1> USE DEF TypeOK
<1>1. CASE RecordPull(w)
  <2>1. UNCHANGED <<rail, receipts, fees, nonces>>
    BY <1>1 DEF RecordPull, loanVars
  <2>2. pc[w] = "record" /\ initiated' = initiated \cup {pull[w]}
    BY <1>1 DEF RecordPull
  <2>3. ASSUME NEW a \in Attempts
        PROVE  attempts'[a].outcome = attempts[a].outcome /\ attempts'[a].on = attempts[a].on
    BY <1>1 DEF RecordPull, AttemptRow
  <2> QED
    BY <2>1, <2>2, <2>3 DEF Moves, RailMoves, AttemptMoves, CountersMove, NoncesMove
<1>2. CASE ApplyCash(w)
  <2>1. UNCHANGED <<rail, attempts, fees, initiated>>
    BY <1>2 DEF ApplyCash
  <2>2. pc[w] = "apply" /\ pull[w] \in Pulls
    BY <1>2 DEF ApplyCash, PullHeld
  <2>3. ASSUME NEW t \in Pulls PROVE CountersMove(t) /\ (t = pull[w] => receipts'[t] > 0)
    <3>1. CASE receipts[pull[w]] > 0
      BY <1>2, <2>1, <3>1 DEF ApplyCash, PostCash, CountersMove
    <3>2. CASE ~(receipts[pull[w]] > 0)
      <4>1. receipts' = [receipts EXCEPT ![pull[w]] = @ + 1] /\ receipts[pull[w]] = 0
        BY <1>2, <2>2, <3>2 DEF ApplyCash, PostCash
      <4> QED
        BY <2>1, <2>2, <4>1 DEF CountersMove
    <3> QED
      BY <3>1, <3>2
  <2>4. nonces' = IF w \in Hooks THEN nonces \cup {pull[w]} ELSE nonces
    BY <1>2 DEF ApplyCash
  <2>5. ASSUME NEW t \in Pulls PROVE NoncesMove(t)
    BY <2>1, <2>2, <2>3, <2>4 DEF NoncesMove
  <2> QED
    BY <2>1, <2>3, <2>5 DEF Moves, RailMoves, AttemptMoves
<1>3. CASE RefuseCash(w)
  BY <1>3 DEF RefuseCash, dbVars, loanVars, Moves, RailMoves, AttemptMoves, CountersMove,
              NoncesMove
<1>4. CASE SettleAttempt(w)
  <2>1. UNCHANGED <<rail, receipts, fees, nonces, initiated>>
    BY <1>4 DEF SettleAttempt, loanVars
  <2>2. pc[w] = "settle"
    BY <1>4 DEF SettleAttempt
  <2>3. ASSUME NEW a \in Attempts PROVE AttemptMoves(a)
    BY <1>4, <2>1, <2>2 DEF SettleAttempt, AttemptMoves, AttemptRow
  <2> QED
    BY <2>1, <2>3 DEF Moves, RailMoves, CountersMove, NoncesMove
<1> QED
  BY <1>1, <1>2, <1>3, <1>4

(* The same of the steps that handle a failed pull.                         *)
LEMMA FailuresMove ==
    ASSUME TypeOK, NEW w \in Workers, PullHeld(w),
           ReadFailed(w) \/ ReadSeq(w) \/ CommitFailed(w) \/ ConflictFailed(w) \/ Crash(w)
    PROVE  Moves
<1> USE DEF TypeOK
<1>1. CASE ~CommitFailed(w)
  <2>1. UNCHANGED dbVars /\ rail' = rail
    BY <1>1 DEF ReadFailed, ReadSeq, ConflictFailed, Crash
  <2> QED
    BY <2>1 DEF dbVars, loanVars, Moves, RailMoves, AttemptMoves, CountersMove, NoncesMove
<1>2. CASE CommitFailed(w)
  <2>1. UNCHANGED <<rail, receipts, nonces, initiated>>
    BY <1>2 DEF CommitFailed
  <2>2. pc[w] = "failcommit"
    BY <1>2 DEF CommitFailed
  <2>3. ASSUME NEW a \in Attempts PROVE AttemptMoves(a)
    <3>1. CASE a = pull[w]
      <4>1. attempts'[a].outcome = "failed" /\ attempts'[a].on = attempts[a].on
        BY <1>2, <3>1 DEF CommitFailed, AttemptRow
      <4> QED
        BY <2>1, <2>2, <3>1, <4>1 DEF AttemptMoves
    <3>2. CASE a # pull[w]
      <4>1. attempts'[a] = attempts[a]
        BY <1>2, <3>2 DEF CommitFailed
      <4> QED
        BY <4>1 DEF AttemptMoves
    <3> QED
      BY <3>1, <3>2
  <2>4. ASSUME NEW t \in Pulls PROVE CountersMove(t)
    BY <1>2, <2>1, <2>2 DEF CommitFailed, CountersMove
  <2> QED
    BY <2>1, <2>3, <2>4 DEF Moves, RailMoves, NoncesMove
<1> QED
  BY <1>1, <1>2

(* The same of the webhooks' deliveries.                                    *)
LEMMA DeliveriesMove ==
    ASSUME TypeOK, NEW h \in Hooks, NEW t \in Pulls, Deliver(h, t)
    PROVE  Moves
<1> USE DEF TypeOK
<1>1. UNCHANGED <<rail, receipts, fees, initiated>>
  BY DEF Deliver, DeliverCompleted, DeliverFailed, DeliverCancelled, DeliverOrphan, dbVars,
         loanVars
<1>2. \A a \in Attempts : AttemptMoves(a)
  <2>1. CASE DeliverCancelled(h, t)
    BY <1>1, <2>1 DEF DeliverCancelled, AttemptMoves, AttemptRow
  <2>2. CASE ~DeliverCancelled(h, t)
    <3>1. attempts' = attempts
      BY <2>2 DEF Deliver, DeliverCompleted, DeliverFailed, DeliverOrphan, dbVars
    <3> QED
      BY <3>1 DEF AttemptMoves
  <2> QED
    BY <2>1, <2>2
<1>3. nonces' \subseteq nonces \cup {t}
  BY DEF Deliver, DeliverCompleted, DeliverFailed, DeliverCancelled, DeliverOrphan, dbVars
<1>4. t \in nonces' /\ t \notin nonces =>
         /\ rail[t] \in Terminal
         /\ rail[t] = "completed" => t \notin initiated
  BY DEF Deliver, DeliverCompleted, DeliverFailed, DeliverCancelled, DeliverOrphan, dbVars,
         Terminal
<1>5. ~EarlyHooks => \A w \in Workers \ Hooks : ~(pc[w] = "record" /\ pull[w] = t)
  BY DEF Deliver, DeliverCompleted, DeliverFailed, DeliverCancelled, DeliverOrphan, Claimable
<1>6. ASSUME NEW s \in Pulls PROVE NoncesMove(s)
  BY <1>1, <1>3, <1>4, <1>5 DEF NoncesMove
<1> QED
  BY <1>1, <1>2, <1>6 DEF Moves, RailMoves, CountersMove

(* Every step is one of these moves.                                        *)
LEMMA NextMoves ==
    ASSUME TypeOK, \A w \in Workers : PullHeld(w) /\ WorkerAgrees(w), [Next]_vars
    PROVE  Moves
<1> USE DEF TypeOK
<1>1. ASSUME UNCHANGED <<dbVars, rail>> PROVE Moves
  BY <1>1 DEF dbVars, loanVars, Moves, RailMoves, AttemptMoves, CountersMove, NoncesMove
<1>2. CASE UNCHANGED vars
  BY <1>1, <1>2 DEF vars
<1>3. ASSUME NEW w \in Workers, Step(w) \/ Crash(w) PROVE Moves
  BY <1>3, CallsMove, SettlementsMove, FailuresMove DEF Step
<1>4. ASSUME NEW r \in Runs, CronStep(r) PROVE Moves
  <2>1. ASSUME NEW a \in Attempts, ClaimCharge(r, a) PROVE Moves
    <3>1. UNCHANGED <<rail, receipts, fees, nonces, initiated>>
      BY <2>1 DEF ClaimCharge, loanVars
    <3>2. ASSUME NEW b \in Attempts PROVE AttemptMoves(b)
      <4>1. CASE attempts' = attempts
        BY <4>1 DEF AttemptMoves
      <4>2. CASE attempts' # attempts
        <5>1. /\ attempts[a].outcome = "none" /\ a \in plan[r]
              /\ attempts' = [attempts EXCEPT
                               ![a] = [NoAttempt EXCEPT !.outcome = "pending", !.on = day]]
          BY <2>1, <4>2 DEF ClaimCharge
        <5> QED
          BY <5>1 DEF AttemptMoves, NoAttempt
      <4> QED
        BY <4>1, <4>2
    <3> QED
      BY <3>1, <3>2 DEF Moves, RailMoves, CountersMove, NoncesMove
  <2> QED
    BY <1>1, <1>4, <2>1 DEF CronStep, Load, EndRun, SkipCharge
<1>5. ASSUME NEW p \in PayNows, StartPayNow(p) PROVE Moves
  BY <1>5 DEF StartPayNow, loanVars, Moves, RailMoves, AttemptMoves, CountersMove, NoncesMove
<1>6. ASSUME NEW h \in Hooks, NEW t \in Pulls, Deliver(h, t) PROVE Moves
  BY <1>6, DeliveriesMove
<1>7. ASSUME NEW t \in Pulls, RailSettles(t) PROVE Moves
  BY <1>7 DEF RailSettles, dbVars, loanVars, Moves, RailMoves, AttemptMoves, CountersMove,
              NoncesMove
<1>8. CASE ToggleAutoCharge \/ ChargeOff \/ NextDay
  BY <1>8 DEF ToggleAutoCharge, ChargeOff, NextDay, dbVars, loanVars, Moves, RailMoves,
              AttemptMoves, CountersMove, NoncesMove
<1> QED
  BY <1>2, <1>3, <1>4, <1>5, <1>6, <1>7, <1>8 DEF Next

---------------------------------------------------------------------------
(* The invariant is inductive *)

(* A Pay Now request is no attempt of the engine: their pulls never mix.    *)
LEMMA PayNowIsNoAttempt == PayNows \cap Attempts = {}
<1>1. Attempts \subseteq (0 .. N) \X (0 .. MaxAttempts)
  BY SizeAssumption DEF Attempts, Items
<1> QED
  BY <1>1, ActorAssumption

(* Everything agrees at the start.                                          *)
LEMMA InitAgrees == Init => IndInv
<1> SUFFICES ASSUME Init PROVE IndInv
  OBVIOUS
<1>1. TypeOK
  BY InitTyped
<1>2. \A a \in Attempts : AttemptAgrees(a)
  BY DEF Init, AttemptAgrees, NoAttempt, Pulls
<1>3. \A t \in Pulls : PullAgrees(t)
  BY DEF Init, PullAgrees
<1>4. \A w \in Workers : PullHeld(w) /\ WorkerAgrees(w)
  BY DEF Init, PullHeld, WorkerAgrees
<1>5. \A i \in Items : \A n \in 1 .. MaxAttempts : AttemptFollows(i, n)
  BY DEF Init, AttemptFollows, NoAttempt, Attempts
<1>6. \A r \in Runs : PlanFollows(r)
  BY DEF Init, PlanFollows
<1> QED
  BY <1>1, <1>2, <1>3, <1>4, <1>5, <1>6 DEF IndInv

(* Attempt rows and the rail keep agreeing.                                 *)
LEMMA AttemptsKeepAgreeing ==
    ASSUME IndInv, Moves, TypeOK', NEW a \in Attempts PROVE AttemptAgrees(a)'
<1>1. /\ a \in Pulls /\ TypeOK
      /\ RailMoves(a) /\ CountersMove(a) /\ AttemptMoves(a)
      /\ AttemptAgrees(a) /\ PullAgrees(a)
  BY DEF IndInv, Moves, Pulls
<1>2. ASSUME NEW w \in Workers, pc[w] = "call", pull[w] = a
      PROVE  rail[a] = "none" /\ attempts[a].outcome = "pending"
  <2>1. w \in Runs /\ WorkerAgrees(w)
    BY <1>2, PayNowIsNoAttempt DEF IndInv, WorkerAgrees, Workers
  <2> QED
    BY <1>2, <2>1 DEF WorkerAgrees
<1>3. ASSUME NEW w \in Workers, pc[w] \in {"settle", "failcommit"}, pull[w] = a
      PROVE  /\ pc[w] = "settle" => rail[a] = "completed" /\ receipts[a] > 0
             /\ pc[w] = "failcommit" => rail[a] = "failed"
  BY <1>3 DEF IndInv, WorkerAgrees
<1>4. rail[a] # "none" => rail'[a] # "none" /\ (rail[a] # "pending" => rail'[a] = rail[a])
  BY <1>1 DEF RailMoves, Terminal
<1>5. receipts[a] > 0 => receipts'[a] > 0
  BY <1>1 DEF CountersMove
<1>6. (rail[a] # "none" => attempts[a].outcome # "none")'
  <2>1. CASE attempts'[a].outcome = attempts[a].outcome
    BY <1>1, <1>2, <1>4, <2>1 DEF RailMoves, AttemptAgrees
  <2>2. CASE attempts'[a].outcome # attempts[a].outcome
    BY <1>1, <2>2 DEF AttemptMoves
  <2> QED
    BY <2>1, <2>2
<1>7. (attempts[a].outcome = "completed" => receipts[a] > 0)'
  BY <1>1, <1>3, <1>5 DEF AttemptMoves, AttemptAgrees
<1>8. (attempts[a].outcome = "failed" => rail[a] \in {"none", "failed"})'
  <2>1. CASE attempts'[a].outcome = attempts[a].outcome
    BY <1>1, <1>2, <1>4, <2>1 DEF RailMoves, AttemptAgrees
  <2>2. CASE attempts'[a].outcome # attempts[a].outcome
    BY <1>1, <1>2, <1>3, <2>2 DEF AttemptMoves, Workers
  <2> QED
    BY <2>1, <2>2
<1>9. (attempts[a].outcome = "cancelled" => rail[a] = "cancelled")'
  BY <1>1, <1>4 DEF AttemptMoves, AttemptAgrees
<1>10. (fees[a] > 0 => rail[a] = "failed")'
  BY <1>1, <1>3, <1>4 DEF CountersMove, AttemptAgrees
<1> QED
  BY <1>6, <1>7, <1>8, <1>9, <1>10 DEF AttemptAgrees

(* Cash, nonces and the rail keep agreeing.                                 *)
LEMMA PullsKeepAgreeing ==
    ASSUME IndInv, Moves, TypeOK', NEW t \in Pulls PROVE PullAgrees(t)'
<1>1. /\ TypeOK /\ PullAgrees(t)
      /\ RailMoves(t) /\ CountersMove(t) /\ NoncesMove(t)
  BY DEF IndInv, Moves
<1>2. /\ rail[t] \in Terminal => rail'[t] = rail[t]
      /\ receipts[t] > 0 => receipts'[t] = receipts[t]
  BY <1>1 DEF RailMoves, CountersMove, Terminal
<1>3. ASSUME NEW w \in Workers, pc[w] = "apply", pull[w] = t PROVE rail[t] = "completed"
  BY <1>3 DEF IndInv, WorkerAgrees
<1>4. ASSUME NEW w \in Workers, pc[w] = "record", pull[w] = t, ~EarlyHooks
      PROVE  t \notin nonces
  BY <1>4 DEF IndInv, WorkerAgrees
<1>5. (receipts[t] <= 1)'
  BY <1>1 DEF CountersMove, PullAgrees
<1>6. (receipts[t] > 0 => rail[t] = "completed")'
  BY <1>1, <1>2, <1>3 DEF CountersMove, PullAgrees, Terminal
<1>7. (t \in nonces => rail[t] \in Terminal)'
  BY <1>1, <1>2, <1>3 DEF NoncesMove, PullAgrees, Workers, Terminal
<1>8. (t \in nonces /\ t \in initiated /\ rail[t] = "completed" /\ ~EarlyHooks
         => receipts[t] > 0)'
  <2> SUFFICES ASSUME t \in nonces', t \in initiated', rail'[t] = "completed", ~EarlyHooks
               PROVE  receipts'[t] > 0
    BY DEF Terminal
  <2>1. CASE t \in nonces /\ t \in initiated
    BY <1>1, <1>2, <2>1 DEF PullAgrees
  <2>2. CASE t \in nonces /\ t \notin initiated
    BY <1>1, <1>4, <2>2 DEF NoncesMove
  <2>3. CASE t \notin nonces
    BY <1>1, <2>3 DEF NoncesMove
  <2> QED
    BY <2>1, <2>2, <2>3
<1> QED
  BY <1>5, <1>6, <1>7, <1>8 DEF PullAgrees

(* An attempt that ended without cash stays so.                             *)
LEMMA EndedStays ==
    ASSUME IndInv, Moves, NEW a \in Attempts, Retryable(a)
    PROVE  Retryable(a)' /\ attempts'[a].on = attempts[a].on
<1>1. /\ a \in Pulls /\ TypeOK /\ AttemptMoves(a) /\ AttemptAgrees(a)
  BY DEF IndInv, Moves, Pulls
<1>2. ASSUME NEW w \in Workers, pc[w] = "settle", pull[w] = a PROVE rail[a] = "completed"
  BY <1>2 DEF IndInv, WorkerAgrees
<1> QED
  BY <1>1, <1>2 DEF AttemptMoves, AttemptAgrees, Retryable

(* Attempts and plans keep following attempts that ended.                   *)
LEMMA FollowsStays ==
    ASSUME IndInv, Moves, NEW i \in Items, NEW n \in 1 .. MaxAttempts,
           NEW on \in Nat, NEW later \in Nat, later >= on, Follows(i, n, on)
    PROVE  Follows(i, n, later)'
<1>1. \A k \in 1 .. (n - 1) : <<i, k>> \in Attempts
  BY SizeAssumption DEF Attempts
<1>2. ASSUME NEW k \in 1 .. (n - 1)
      PROVE  Retryable(<<i, k>>)' /\ attempts'[<<i, k>>].on = attempts[<<i, k>>].on
  BY <1>1, EndedStays DEF Follows
<1>3. n > 1 => later >= attempts'[<<i, n - 1>>].on + RetryDelay
  <2> SUFFICES ASSUME n > 1 PROVE later >= attempts'[<<i, n - 1>>].on + RetryDelay
    OBVIOUS
  <2>1. n - 1 \in 1 .. (n - 1)
    BY SizeAssumption
  <2>2. attempts[<<i, n - 1>>].on \in Nat
    BY <1>1, <2>1 DEF IndInv, TypeOK, AttemptRow
  <2>3. attempts'[<<i, n - 1>>].on = attempts[<<i, n - 1>>].on
    BY <1>2, <2>1
  <2> QED
    BY <2>2, <2>3, SizeAssumption DEF Follows
<1> QED
  BY <1>2, <1>3 DEF Follows

(* Every step leaves each attempt after attempts that ended without cash.   *)
LEMMA AttemptsKeepFollowing ==
    ASSUME IndInv, Moves, TypeOK', NEW i \in Items, NEW n \in 1 .. MaxAttempts
    PROVE  AttemptFollows(i, n)'
<1> DEFINE a == <<i, n>>
<1>1. a \in Attempts /\ AttemptMoves(a) /\ TypeOK
  BY DEF IndInv, Moves, Attempts
<1>2. attempts[a].on \in Nat /\ attempts'[a].on \in Nat /\ day \in Nat
  BY <1>1 DEF TypeOK, AttemptRow
<1>3. PICK now \in Nat : now = attempts'[a].on
  BY <1>2
<1>4. ASSUME NEW on \in Nat, on <= now, Follows(i, n, on) PROVE AttemptFollows(i, n)'
  <2>1. Follows(i, n, now)'
    BY <1>4, FollowsStays
  <2> QED
    BY <1>3, <2>1 DEF AttemptFollows, Follows
<1>5. CASE attempts[a].outcome # "none"
  <2>1. /\ Follows(i, n, attempts[a].on)
        /\ attempts'[a].on = attempts[a].on
    BY <1>1, <1>5 DEF IndInv, AttemptFollows, AttemptMoves
  <2>2. Follows(i, n, now) /\ now <= now
    BY <1>3, <2>1
  <2> QED
    BY <1>4, <2>2
<1>6. CASE attempts[a].outcome = "none" /\ attempts'[a].outcome # "none"
  <2>1. attempts'[a].on = day /\ \E r \in Runs : a \in plan[r]
    <3>1. ~ \E w \in Workers : pc[w] \in {"call", "settle", "failcommit"} /\ pull[w] = a
      BY <1>1, <1>6, PayNowIsNoAttempt DEF IndInv, WorkerAgrees, AttemptAgrees, Workers
    <3> QED
      BY <1>1, <1>6, <3>1 DEF AttemptMoves, Workers
  <2>2. Follows(i, n, now) /\ now <= now
    BY <1>3, <2>1 DEF IndInv, PlanFollows
  <2> QED
    BY <1>4, <2>2
<1>7. CASE attempts'[a].outcome = "none"
  BY <1>7 DEF AttemptFollows
<1> QED
  BY <1>5, <1>6, <1>7

(* A plan only shrinks, or is made anew, and time goes on.                  *)
LEMMA PlansMove ==
    ASSUME TypeOK, [Next]_vars, NEW r \in Runs
    PROVE  (plan'[r] \subseteq plan[r] \/ plan'[r] = Planned) /\ day' >= day
<1> USE DEF TypeOK
<1>1. day' >= day
  <2>1. CASE NextDay
    BY <2>1 DEF NextDay
  <2>2. CASE ~NextDay
    <3>1. day' = day
      BY <2>2 DEF Next, Step, CronStep, Deliver, CallAnswered, CallUnknown, CallRejected,
             RecordPull, ApplyCash, RefuseCash, SettleAttempt, ReadFailed, ReadSeq,
             CommitFailed, ConflictFailed, Crash, Load, EndRun, ClaimCharge, SkipCharge,
             StartPayNow, DeliverCompleted, DeliverFailed, DeliverCancelled, DeliverOrphan,
             RailSettles, ToggleAutoCharge, ChargeOff, vars
    <3> QED
      BY <3>1
  <2> QED
    BY <2>1, <2>2
<1>2. plan'[r] \subseteq plan[r] \/ plan'[r] = Planned
  <2>1. ASSUME NEW q \in Runs, CronStep(q) PROVE plan'[r] \subseteq plan[r] \/ plan'[r] = Planned
    BY <2>1 DEF CronStep, Load, EndRun, ClaimCharge, SkipCharge
  <2>2. CASE plan' = plan
    BY <2>2
  <2>3. ASSUME NEW w \in Workers, Stop(w) PROVE plan'[r] \subseteq plan[r]
    BY <2>3 DEF Stop
  <2> QED
    BY <2>1, <2>2, <2>3
       DEF Next, Step, Deliver, CallAnswered, CallUnknown, CallRejected,
           RecordPull, ApplyCash, RefuseCash, SettleAttempt, ReadFailed, ReadSeq,
           CommitFailed, ConflictFailed, Crash, StartPayNow, DeliverCompleted,
           DeliverFailed, DeliverCancelled, DeliverOrphan, RailSettles,
           ToggleAutoCharge, ChargeOff, NextDay, vars, procVars
<1> QED
  BY <1>1, <1>2

(* Every step leaves what is planned after attempts that ended without cash.*)
LEMMA PlansKeepFollowing ==
    ASSUME IndInv, Moves, TypeOK', [Next]_vars, NEW r \in Runs PROVE PlanFollows(r)'
<1> SUFFICES ASSUME NEW i \in Items, NEW n \in 1 .. MaxAttempts, <<i, n>> \in plan'[r]
             PROVE  Follows(i, n, day)'
  BY DEF PlanFollows
<1>1. TypeOK /\ day \in Nat /\ day' \in Nat
  BY DEF IndInv, TypeOK
<1>2. (plan'[r] \subseteq plan[r] \/ plan'[r] = Planned) /\ day' >= day
  BY <1>1, PlansMove
<1>3. Follows(i, n, day)
  <2>1. CASE <<i, n>> \in plan[r]
    BY <2>1 DEF IndInv, PlanFollows
  <2>2. CASE <<i, n>> \in Planned
    BY <2>2 DEF Planned, Follows
  <2> QED
    BY <1>2, <2>1, <2>2
<1>4. PICK today \in Nat : today = day
  BY <1>1
<1>5. PICK tomorrow \in Nat : tomorrow = day'
  BY <1>1
<1>6. Follows(i, n, today)
  BY <1>3, <1>4
<1>7. Follows(i, n, tomorrow)'
  BY <1>2, <1>4, <1>5, <1>6, FollowsStays
<1> QED
  BY <1>5, <1>7 DEF Follows

---------------------------------------------------------------------------
(* Two workers never call the rail for one pull: a new caller has just made *)
(* its claim, or is a request with a pull of its own.                       *)
LEMMA CallersDiffer ==
    ASSUME IndInv, [Next]_vars, NEW v \in Workers, NEW u \in Workers,
           pc'[v] = "call", pc'[u] = "call", pull'[v] = pull'[u]
    PROVE  u = v
<1> DEFINE Was(w)  == pc[w] = "call" /\ pull'[w] = pull[w]
           Fresh(w) ==
               /\ \/ w \in Runs /\ pull'[w] \in Attempts
                     /\ attempts[pull'[w]].outcome = "none"
                  \/ w \in PayNows /\ pull'[w] = w
               /\ \A x \in Workers : x # w => pc'[x] = pc[x] /\ pull'[x] = pull[x]
<1> USE DEF IndInv
<1>1. \A w \in Workers : pc'[w] = "call" => Was(w) \/ Fresh(w)
  <2> SUFFICES ASSUME NEW w \in Workers, pc'[w] = "call" PROVE Was(w) \/ Fresh(w)
    OBVIOUS
  <2>1. CASE pc' = pc /\ pull' = pull
    BY <2>1
  <2>2. ASSUME NEW x \in Workers, Step(x) \/ Crash(x) PROVE Was(w)
    <3>1. \/ \E l \in Labels \ {"call"} : Goto(x, l)
          \/ Finish(x) \/ Stop(x)
      BY <2>2 DEF Step, CallAnswered, CallUnknown, CallRejected, RecordPull, ApplyCash,
                RefuseCash, SettleAttempt, ReadFailed, ReadSeq, CommitFailed,
                ConflictFailed, Crash, Labels
    <3> QED
      BY <3>1 DEF Goto, Finish, Stop, TypeOK
  <2>3. ASSUME NEW r \in Runs, CronStep(r) PROVE Was(w) \/ Fresh(w)
    <3>1. ASSUME NEW a \in Attempts, ClaimCharge(r, a) PROVE Was(w) \/ Fresh(w)
      BY <3>1 DEF ClaimCharge, TypeOK
    <3> QED
      BY <2>3, <3>1 DEF CronStep, Load, EndRun, SkipCharge, Goto, TypeOK
  <2>4. ASSUME NEW p \in PayNows, StartPayNow(p) PROVE Was(w) \/ Fresh(w)
    BY <2>4 DEF StartPayNow, TypeOK
  <2>5. ASSUME NEW h \in Hooks, NEW t \in Pulls, Deliver(h, t) PROVE Was(w) \/ Fresh(w)
    BY <2>5 DEF Deliver, DeliverCompleted, DeliverFailed, DeliverCancelled, DeliverOrphan,
                procVars, TypeOK
  <2> QED
    BY <2>1, <2>2, <2>3, <2>4, <2>5
       DEF Next, RailSettles, ToggleAutoCharge, ChargeOff, NextDay, procVars, vars
<1> HIDE DEF Was, Fresh
<1>2. CASE Was(u) /\ Was(v)
  BY <1>2 DEF Was, WorkerAgrees
<1>3. ASSUME NEW x \in Workers, NEW y \in Workers, Was(x), Fresh(y), pull'[x] = pull'[y]
      PROVE  x = y
  <2>1. WorkerAgrees(x) /\ pc[x] = "call" /\ pull[x] = pull'[y]
    BY <1>3 DEF Was
  <2>2. CASE y \in Runs
    BY <1>3, <2>1, <2>2, ActorAssumption, PayNowIsNoAttempt
       DEF Fresh, WorkerAgrees, Workers
  <2>3. CASE y \notin Runs
    <3>1. y \in PayNows /\ pull'[y] = y
      BY <1>3, <2>3 DEF Fresh
    <3> QED
      BY <2>1, <3>1, PayNowIsNoAttempt DEF WorkerAgrees, Workers
  <2> QED
    BY <2>2, <2>3
<1>4. CASE Fresh(u)
  <2> SUFFICES ASSUME u # v PROVE FALSE
    OBVIOUS
  <2>1. Was(v)
    BY <1>4 DEF Fresh, Was
  <2> QED
    BY <1>3, <1>4, <2>1
<1>5. CASE Fresh(v)
  <2> SUFFICES ASSUME u # v PROVE FALSE
    OBVIOUS
  <2>1. Was(u)
    BY <1>5 DEF Fresh, Was
  <2> QED
    BY <1>3, <1>5, <2>1
<1> QED
  BY <1>1, <1>2, <1>4, <1>5

(* A webhook worker at work holds a pull the rail has settled.              *)
LEMMA HooksHoldSettled ==
    ASSUME IndInv, NEW h \in Hooks, NEW t \in Pulls, pull[h] = t
    PROVE  rail[t] \in Terminal
<1>1. h \in Workers /\ PullHeld(h) /\ WorkerAgrees(h)
  BY DEF IndInv, Workers
<1>2. pc[h] \in Labels /\ pc[h] \notin {"idle", "next", "call", "record"}
  BY <1>1, NoPullIsNoPull DEF IndInv, TypeOK, PullHeld, WorkerAgrees
<1> QED
  BY <1>1, <1>2 DEF WorkerAgrees, Labels, Terminal

(* Where webhooks are not early, none takes a pull that is being recorded.  *)
LEMMA HooksWait ==
    ASSUME IndInv, [Next]_vars, NEW v \in Workers, pc[v] = "record", ~EarlyHooks,
           NEW h \in Hooks
    PROVE  pull'[h] # pull[v]
<1>1. /\ TypeOK /\ WorkerAgrees(v) /\ PullHeld(v) /\ h \in Workers
      /\ pull[h] # pull[v] /\ v \notin Hooks /\ pull[v] \in Pulls
  BY DEF IndInv, WorkerAgrees, PullHeld, Workers
<1> USE DEF TypeOK
<1>2. CASE pull' = pull
  BY <1>1, <1>2
<1>3. ASSUME NEW x \in Workers, Goto(x, pc'[x]) \/ Finish(x) \/ Stop(x)
      PROVE  pull'[h] # pull[v]
  BY <1>1, <1>3, NoPullIsNoPull DEF Goto, Finish, Stop
<1>4. ASSUME NEW r \in Runs, CronStep(r) PROVE pull'[h] # pull[v]
  <2>1. ASSUME NEW a \in Attempts, ClaimCharge(r, a) PROVE pull'[h] # pull[v]
    BY <1>1, <2>1, ActorAssumption DEF ClaimCharge
  <2> QED
    BY <1>1, <1>4, <2>1 DEF CronStep, Load, EndRun, SkipCharge, Goto
<1>5. ASSUME NEW p \in PayNows, StartPayNow(p) PROVE pull'[h] # pull[v]
  BY <1>1, <1>5, ActorAssumption DEF StartPayNow
<1>6. ASSUME NEW g \in Hooks, NEW t \in Pulls, Deliver(g, t) PROVE pull'[h] # pull[v]
  <2>1. t # pull[v]
    BY <1>1, <1>6 DEF Deliver, DeliverCompleted, DeliverFailed, DeliverCancelled,
                      DeliverOrphan, Claimable
  <2> QED
    BY <1>1, <1>6, <2>1 DEF Deliver, DeliverCompleted, DeliverFailed, DeliverCancelled,
                            DeliverOrphan, procVars
<1>7. ASSUME NEW x \in Workers, Step(x) \/ Crash(x) PROVE pull'[h] # pull[v]
  <2>1. (\E l \in Labels : Goto(x, l)) \/ Finish(x) \/ Stop(x)
    BY <1>7 DEF Step, CallAnswered, CallUnknown, CallRejected, RecordPull, ApplyCash,
                RefuseCash, SettleAttempt, ReadFailed, ReadSeq, CommitFailed,
                ConflictFailed, Crash, Labels
  <2> QED
    BY <1>1, <2>1, NoPullIsNoPull DEF Goto, Finish, Stop
<1> QED
  BY <1>2, <1>4, <1>5, <1>6, <1>7
     DEF Next, RailSettles, ToggleAutoCharge, ChargeOff, NextDay, procVars, vars

(* A worker that did not move may rely on what it relied on.                *)
LEMMA BystandersAgree ==
    ASSUME IndInv, Moves, TypeOK', [Next]_vars, NEW v \in Workers,
           pc'[v] = pc[v], pull'[v] = pull[v], reply'[v] = reply[v]
    PROVE  WorkerAgrees(v)'
<1>1. TypeOK /\ WorkerAgrees(v) /\ PullHeld(v)
  BY DEF IndInv
<1> DEFINE t == pull[v]
<1>2. CASE pc[v] \in {"idle", "next"}
  BY <1>2 DEF WorkerAgrees
<1>3. CASE pc[v] \notin {"idle", "next"}
  <2>1. t \in Pulls /\ RailMoves(t) /\ CountersMove(t) /\ NoncesMove(t)
        /\ pull'[v] = t /\ pc'[v] = pc[v]
    BY <1>1, <1>3 DEF PullHeld, Moves
  <2>2. ASSUME pc[v] \in {"call", "record"}
        PROVE  v \notin Hooks /\ (v \in Runs => t \in Attempts) /\ (v \in PayNows => t = v)
    BY <1>1, <2>2 DEF WorkerAgrees
  <2>3. (rail[t] = "none" => rail'[t] = "none") \/ pc[v] # "call"
    <3> SUFFICES ASSUME pc[v] = "call", rail'[t] # rail[t], rail[t] = "none" PROVE FALSE
      OBVIOUS
    <3>1. PICK w \in Workers : pc[w] = "call" /\ pull[w] = t /\ pc'[w] # "call"
      BY <2>1 DEF RailMoves
    <3>2. w = v
      BY <1>1, <3>1 DEF WorkerAgrees
    <3> QED
      BY <2>1, <3>1, <3>2
  <2>4. rail[t] # "none" => rail'[t] # "none" /\ (rail[t] # "pending" => rail'[t] = rail[t])
    BY <1>1, <2>1 DEF RailMoves, Terminal
  <2>5. receipts[t] > 0 => receipts'[t] > 0
    BY <1>1, <2>1 DEF CountersMove, TypeOK
  <2>6. CASE pc[v] = "call"
    <3>1. rail'[t] = "none" /\ rail[t] = "none"
      BY <1>1, <2>3, <2>6 DEF WorkerAgrees
    <3>2. \A u \in Workers : pc'[u] = "call" /\ pull'[u] = t => u = v
      BY <2>1, <2>6, CallersDiffer
    <3>3. v \in Runs => attempts'[t].outcome = "pending"
      <4> SUFFICES ASSUME v \in Runs PROVE attempts'[t].outcome = "pending"
        OBVIOUS
      <4>1. t \in Attempts /\ attempts[t].outcome = "pending" /\ AttemptMoves(t)
        BY <1>1, <2>2, <2>6 DEF WorkerAgrees, Moves
      <4>2. ~ \E w \in Workers : pc[w] = "call" /\ pull[w] = t /\ pc'[w] # "call"
        BY <1>1, <2>1, <2>6 DEF WorkerAgrees
      <4>3. ~ \E w \in Workers : pc[w] \in {"settle", "failcommit"} /\ pull[w] = t
        BY <3>1 DEF IndInv, WorkerAgrees
      <4> QED
        BY <3>1, <4>1, <4>2, <4>3 DEF AttemptMoves, Workers
    <3> QED
      BY <2>1, <2>2, <2>6, <3>1, <3>2, <3>3 DEF WorkerAgrees
  <2>7. CASE pc[v] = "record"
    <3>1. /\ rail[t] # "none"
          /\ reply[v] # "pending" => rail[t] = reply[v]
          /\ ~EarlyHooks => t \notin nonces
      BY <1>1, <2>7 DEF WorkerAgrees
    <3>2. reply[v] # "pending" => rail'[t] = reply'[v]
      BY <1>1, <2>4, <3>1 DEF TypeOK
    <3>3. ~EarlyHooks => t \notin nonces'
      <4> SUFFICES ASSUME ~EarlyHooks, t \in nonces' PROVE FALSE
        OBVIOUS
      <4>1. \A h \in Hooks : pull[h] # t
        BY <1>1, <2>7 DEF WorkerAgrees
      <4>2. v \in Workers \ Hooks
        BY <2>2, <2>7
      <4> QED
        BY <2>1, <2>7, <3>1, <4>1, <4>2 DEF NoncesMove
    <3>4. ~EarlyHooks => \A h \in Hooks : pull'[h] # t
      BY <2>7, HooksWait
    <3> QED
      BY <2>1, <2>2, <2>4, <2>7, <3>1, <3>2, <3>3, <3>4 DEF WorkerAgrees
  <2>8. CASE pc[v] \notin {"call", "record"}
    BY <1>1, <1>3, <2>1, <2>4, <2>5, <2>8 DEF WorkerAgrees
  <2> QED
    BY <2>6, <2>7, <2>8
<1> QED
  BY <1>2, <1>3

(* The worker that takes a step of its own finds what the next step needs.  *)
LEMMA ActorAgrees ==
    ASSUME IndInv, Moves, TypeOK', [Next]_vars, NEW w \in Workers, Step(w) \/ Crash(w)
    PROVE  WorkerAgrees(w)'
<1>1. TypeOK /\ WorkerAgrees(w) /\ PullHeld(w)
  BY DEF IndInv
<1> DEFINE t == pull[w]
<1>2. CASE Finish(w) \/ Stop(w)
  <2>1. pc'[w] \in {"idle", "next"}
    BY <1>1, <1>2 DEF Finish, Stop, TypeOK
  <2> QED
    BY <2>1 DEF WorkerAgrees
<1>3. ASSUME CallAnswered(w) \/ ApplyCash(w) PROVE t \in Pulls /\ PullAgrees(t)
  <2>1. pc[w] \in {"call", "apply"}
    BY <1>3 DEF CallAnswered, ApplyCash
  <2> QED
    BY <1>1, <2>1 DEF PullHeld, IndInv
<1>6. CASE CallAnswered(w)
  <2>1. /\ pc[w] = "call" /\ pc'[w] = "record" /\ pull'[w] = t
        /\ UNCHANGED <<pull, nonces>>
    BY <1>1, <1>6 DEF CallAnswered, Goto, TypeOK, dbVars
  <2>2. rail'[t] = reply'[w] /\ rail'[t] # "none"
    BY <1>1, <1>3, <1>6, RailAssumption DEF CallAnswered, TypeOK
  <2>3. rail[t] = "none"
    BY <1>1, <2>1 DEF WorkerAgrees
  <2>4. t \notin nonces'
    BY <1>3, <1>6, <2>1, <2>3 DEF PullAgrees, Terminal
  <2>5. \A h \in Hooks : pull'[h] # t
    BY <1>3, <1>6, <2>1, <2>3, HooksHoldSettled DEF Terminal
  <2>6. w \notin Hooks /\ (w \in Runs => t \in Attempts) /\ (w \in PayNows => t = w)
    BY <1>1, <2>1 DEF WorkerAgrees
  <2> QED
    BY <2>1, <2>2, <2>4, <2>5, <2>6 DEF WorkerAgrees
<1>7. CASE RecordPull(w) /\ ~Finish(w)
  <2>1. /\ pc[w] = "record" /\ pull'[w] = t /\ rail' = rail
        /\ \/ reply[w] = "completed" /\ pc'[w] = "apply"
           \/ reply[w] = "failed" /\ pc'[w] = "failread"
    BY <1>1, <1>7 DEF RecordPull, Goto, TypeOK
  <2>2. rail[t] = reply[w]
    BY <1>1, <2>1 DEF WorkerAgrees
  <2> QED
    BY <2>1, <2>2 DEF WorkerAgrees
<1>8. CASE ApplyCash(w) /\ ~Finish(w)
  <2>1. pc[w] = "apply" /\ pc'[w] = "settle" /\ pull'[w] = t /\ rail' = rail
    BY <1>1, <1>8 DEF ApplyCash, Goto, TypeOK
  <2>2. rail[t] = "completed"
    BY <1>1, <2>1 DEF WorkerAgrees
  <2>3. receipts'[t] > 0
    BY <1>1, <1>3, <1>8 DEF ApplyCash, PostCash, TypeOK
  <2> QED
    BY <2>1, <2>2, <2>3 DEF WorkerAgrees
<1>9. CASE (ReadFailed(w) \/ ReadSeq(w)) /\ ~Finish(w)
  <2>1. /\ pc[w] \in {"failread", "failseq"} /\ pull'[w] = t /\ rail' = rail
        /\ pc'[w] \in {"failseq", "failcommit"}
        /\ pc[w] = "failread" => t \in Attempts
    BY <1>1, <1>9 DEF ReadFailed, ReadSeq, Recorded, Goto, TypeOK
  <2>2. rail[t] = "failed" /\ t \in Attempts
    BY <1>1, <2>1 DEF WorkerAgrees
  <2> QED
    BY <2>1, <2>2 DEF WorkerAgrees
<1> QED
  BY <1>2, <1>6, <1>7, <1>8, <1>9
     DEF Step, CallUnknown, CallRejected, RefuseCash, SettleAttempt, CommitFailed,
         ConflictFailed, Crash

(* Every step leaves each worker what its own next step relies on.          *)
LEMMA WorkersKeepAgreeing ==
    ASSUME IndInv, Moves, TypeOK', [Next]_vars, NEW v \in Workers PROVE WorkerAgrees(v)'
<1> USE DEF IndInv
<1>1. ASSUME NEW w \in Workers, Step(w) \/ Crash(w) PROVE WorkerAgrees(v)'
  <2>1. CASE v = w
    BY <1>1, <2>1, ActorAgrees
  <2>2. CASE v # w
    <3>1. \A l \in Labels : Goto(w, l) => pc'[v] = pc[v] /\ pull'[v] = pull[v]
      BY <2>2 DEF Goto, TypeOK
    <3>2. Finish(w) \/ Stop(w) => pc'[v] = pc[v] /\ pull'[v] = pull[v]
      BY <2>2 DEF Finish, Stop, TypeOK
    <3>3. reply'[v] = reply[v]
      BY <1>1, <2>2 DEF Step, CallAnswered, CallUnknown, CallRejected, RecordPull, ApplyCash,
         RefuseCash, SettleAttempt, ReadFailed, ReadSeq, CommitFailed, ConflictFailed, Crash,
         TypeOK
    <3>4. (\E l \in Labels : Goto(w, l)) \/ Finish(w) \/ Stop(w)
      BY <1>1 DEF Step, CallAnswered, CallUnknown, CallRejected, RecordPull, ApplyCash,
         RefuseCash, SettleAttempt, ReadFailed, ReadSeq, CommitFailed, ConflictFailed, Crash,
         Labels
    <3> QED
      BY <3>1, <3>2, <3>3, <3>4, BystandersAgree
  <2> QED
    BY <2>1, <2>2
<1>2. ASSUME NEW r \in Runs, CronStep(r) PROVE WorkerAgrees(v)'
  <2>1. r \in Workers /\ r \notin Hooks /\ r \notin PayNows
    BY ActorAssumption DEF Workers
  <2>2. reply' = reply
    BY <1>2 DEF CronStep, Load, EndRun, ClaimCharge, SkipCharge
  <2>3. CASE v # r
    <3>1. pc'[v] = pc[v] /\ pull'[v] = pull[v]
      BY <1>2, <2>3 DEF CronStep, Load, EndRun, ClaimCharge, SkipCharge, Goto, TypeOK
    <3> QED
      BY <2>2, <3>1, BystandersAgree
  <2>4. CASE v = r /\ pc'[r] \in {"idle", "next"}
    BY <2>4 DEF WorkerAgrees
  <2>5. CASE v = r /\ pc'[r] \notin {"idle", "next"}
    <3>1. PICK a \in Attempts : ClaimCharge(r, a)
      BY <1>2, <2>1, <2>5 DEF CronStep, Load, EndRun, SkipCharge, Goto, TypeOK
    <3>2. /\ pc'[r] = "call" /\ pull'[r] = a /\ attempts[a].outcome = "none"
          /\ attempts'[a].outcome = "pending" /\ rail' = rail
      <4>1. attempts[a].outcome = "none"
        BY <2>1, <2>5, <3>1 DEF ClaimCharge
      <4>2. /\ attempts' = [attempts EXCEPT
                              ![a] = [NoAttempt EXCEPT !.outcome = "pending", !.on = day]]
            /\ pc' = [pc EXCEPT ![r] = "call"] /\ pull' = [pull EXCEPT ![r] = a]
            /\ rail' = rail
        BY <3>1, <4>1 DEF ClaimCharge
      <4>3. attempts'[a].outcome = "pending"
        BY <4>2 DEF NoAttempt, TypeOK
      <4> QED
        BY <2>1, <4>1, <4>2, <4>3 DEF TypeOK
    <3>3. rail[a] = "none"
      BY <3>2 DEF AttemptAgrees
    <3>4. \A u \in Workers : pc'[u] = "call" /\ pull'[u] = a => u = r
      BY <2>1, <3>2, CallersDiffer
    <3> QED
      BY <2>1, <2>5, <3>2, <3>3, <3>4 DEF WorkerAgrees
  <2> QED
    BY <2>3, <2>4, <2>5
<1>3. ASSUME NEW p \in PayNows, StartPayNow(p) PROVE WorkerAgrees(v)'
  <2>1. p \in Workers /\ p \notin Hooks /\ p \notin Runs
    BY ActorAssumption DEF Workers
  <2>2. CASE v # p
    <3>1. pc'[v] = pc[v] /\ pull'[v] = pull[v] /\ reply'[v] = reply[v]
      BY <1>3, <2>2 DEF StartPayNow, TypeOK
    <3> QED
      BY <3>1, BystandersAgree
  <2>3. CASE v = p
    <3>1. pc'[p] = "call" /\ pull'[p] = p /\ rail'[p] = "none"
      BY <1>3, <2>1 DEF StartPayNow, TypeOK
    <3>2. \A u \in Workers : pc'[u] = "call" /\ pull'[u] = p => u = p
      BY <2>1, <3>1, CallersDiffer
    <3> QED
      BY <2>1, <2>3, <3>1, <3>2 DEF WorkerAgrees
  <2> QED
    BY <2>2, <2>3
<1>4. ASSUME NEW h \in Hooks, NEW t \in Pulls, Deliver(h, t) PROVE WorkerAgrees(v)'
  <2>1. h \in Workers /\ UNCHANGED <<reply, rail>>
    BY <1>4 DEF Workers, Deliver, DeliverCompleted, DeliverFailed, DeliverCancelled,
                DeliverOrphan, procVars
  <2>2. CASE DeliverCancelled(h, t) \/ DeliverOrphan(h, t)
    BY <2>2, BystandersAgree DEF DeliverCancelled, DeliverOrphan, procVars
  <2>3. CASE DeliverCompleted(h, t) \/ DeliverFailed(h, t)
    <3>1. PICK l \in {"apply", "failread"} :
             /\ pc' = [pc EXCEPT ![h] = l] /\ pull' = [pull EXCEPT ![h] = t]
             /\ rail[t] = IF l = "apply" THEN "completed" ELSE "failed"
      BY <2>3 DEF DeliverCompleted, DeliverFailed
    <3>2. CASE v # h
      <4>1. pc'[v] = pc[v] /\ pull'[v] = pull[v]
        BY <3>1, <3>2 DEF TypeOK
      <4> QED
        BY <2>1, <4>1, BystandersAgree
    <3>3. CASE v = h
      <4>1. pc'[h] = l /\ pull'[h] = t
        BY <2>1, <3>1 DEF TypeOK
      <4> QED
        BY <2>1, <3>1, <3>3, <4>1 DEF WorkerAgrees
    <3> QED
      BY <3>2, <3>3
  <2> QED
    BY <1>4, <2>2, <2>3 DEF Deliver
<1>5. CASE UNCHANGED procVars
  BY <1>5, BystandersAgree DEF procVars
<1> QED
  BY <1>1, <1>2, <1>3, <1>4, <1>5
     DEF Next, RailSettles, ToggleAutoCharge, ChargeOff, NextDay, vars

(* The conjunction of types and agreements holds in every reachable state.  *)
THEOREM IndInvHolds == Spec => []IndInv
<1>1. IndInv /\ [Next]_vars => IndInv'
  <2> SUFFICES ASSUME IndInv, [Next]_vars PROVE IndInv'
    OBVIOUS
  <2>1. TypeOK /\ \A w \in Workers : PullHeld(w) /\ WorkerAgrees(w)
    BY DEF IndInv
  <2>2. TypeOK' /\ (\A w \in Workers : PullHeld(w)') /\ Moves
    BY <2>1, NextTyped, NextHeld, NextMoves
  <2>3. \A w \in Workers : WorkerAgrees(w)'
    BY <2>2, WorkersKeepAgreeing
  <2>4. /\ \A a \in Attempts : AttemptAgrees(a)'
        /\ \A t \in Pulls : PullAgrees(t)'
    BY <2>2, AttemptsKeepAgreeing, PullsKeepAgreeing
  <2>5. /\ \A i \in Items : \A n \in 1 .. MaxAttempts : AttemptFollows(i, n)'
        /\ \A r \in Runs : PlanFollows(r)'
    BY <2>2, AttemptsKeepFollowing, PlansKeepFollowing
  <2> QED
    BY <2>2, <2>3, <2>4, <2>5 DEF IndInv
<1> QED
  BY <1>1, InitAgrees, PTL DEF Spec

---------------------------------------------------------------------------
(* The properties *)

(* However runs, webhooks and crashes interleave, the engine never has two  *)
(* pulls of one installment in flight or completed at the rail.             *)
THEOREM NoDoublePull == Spec => []OnePullPerInstallment
<1>1. IndInv => OnePullPerInstallment
  <2> SUFFICES ASSUME IndInv, NEW i \in Items,
                      NEW m \in 1 .. MaxAttempts, NEW n \in 1 .. MaxAttempts, m < n,
                      rail[<<i, m>>] \in {"pending", "completed"},
                      rail[<<i, n>>] \in {"pending", "completed"}
               PROVE  FALSE
    BY SizeAssumption DEF OnePullPerInstallment
  <2>1. <<i, m>> \in Attempts /\ <<i, n>> \in Attempts
    BY DEF Attempts
  <2>2. attempts[<<i, n>>].outcome # "none"
    BY <2>1 DEF IndInv, AttemptAgrees
  <2>3. AttemptFollows(i, n) /\ m \in 1 .. (n - 1)
    BY SizeAssumption DEF IndInv
  <2>4. Retryable(<<i, m>>)
    BY <2>2, <2>3 DEF AttemptFollows, Follows
  <2> QED
    BY <2>1, <2>4 DEF IndInv, AttemptAgrees, Retryable
<1> QED
  BY <1>1, IndInvHolds, PTL

(* Every retry comes after a failed or cancelled attempt and the delay.     *)
THEOREM RetriesOnlyAfterFailures == Spec => []RetriesFollowFailures
<1>1. IndInv => RetriesFollowFailures
  <2> SUFFICES ASSUME IndInv, NEW i \in Items, NEW n \in 2 .. MaxAttempts,
                      attempts[<<i, n>>].outcome # "none"
               PROVE  /\ Retryable(<<i, n - 1>>)
                      /\ attempts[<<i, n>>].on >= attempts[<<i, n - 1>>].on + RetryDelay
    BY DEF RetriesFollowFailures
  <2>1. n \in 1 .. MaxAttempts /\ n > 1 /\ n - 1 \in 1 .. (n - 1)
    BY SizeAssumption
  <2>2. Follows(i, n, attempts[<<i, n>>].on)
    BY <2>1 DEF IndInv, AttemptFollows
  <2> QED
    BY <2>1, <2>2 DEF Follows
<1> QED
  BY <1>1, IndInvHolds, PTL

(* A completed attempt has its cash posted, and an attempt with an NSF fee  *)
(* was returned by the rail.                                                *)
THEOREM AttemptsMatchTheBooks == Spec => [](CompletedAttemptsArePaid /\ FeesOnlyForReturns)
<1>1. IndInv => CompletedAttemptsArePaid /\ FeesOnlyForReturns
  BY DEF IndInv, AttemptAgrees, CompletedAttemptsArePaid, FeesOnlyForReturns
<1> QED
  BY <1>1, IndInvHolds, PTL

(* An NSF fee stands only beside a pull the rail returned (charge_nsf_fee,  *)
(* on_collection_failed_txn).                                               *)
THEOREM FeesStandForReturns == Spec => []FeesOnlyForReturns
<1>1. CompletedAttemptsArePaid /\ FeesOnlyForReturns => FeesOnlyForReturns
  OBVIOUS
<1> QED
  BY <1>1, AttemptsMatchTheBooks, PTL

(* Where no webhook overtakes the commit of its pull's initiation, no       *)
(* acknowledged webhook leaves its cash unposted.                           *)
THEOREM AcknowledgedMeansPosted ==
    ASSUME ~EarlyHooks PROVE Spec => []AcknowledgedCashIsPosted
<1>1. IndInv => AcknowledgedCashIsPosted
  BY DEF IndInv, PullAgrees, AcknowledgedCashIsPosted, TypeOK
<1> QED
  BY <1>1, IndInvHolds, PTL

(* Processes, webhooks and crashes implement CashPosting: every step of the *)
(* stack is a step of it or leaves the rail and the receipts alone.         *)
THEOREM ImplementsCashPosting == Spec => PostsAsPromised
<1>1. Init => Posting!Init
  BY DEF Init, Posting!Init
<1>2. IndInv /\ [Next]_vars => [Posting!Next]_(Posting!vars)
  <2> SUFFICES ASSUME IndInv, [Next]_vars, ~UNCHANGED <<rail, receipts>>
               PROVE  Posting!Next
    BY DEF Posting!vars
  <2>1. TypeOK
    BY DEF IndInv
  <2>2. ASSUME NEW w \in Workers, CallAnswered(w) \/ CallUnknown(w) PROVE Posting!Next
    <3>1. pc[w] = "call" /\ receipts' = receipts
      BY <2>2 DEF CallAnswered, CallUnknown, dbVars
    <3>2. pull[w] \in Pulls /\ rail[pull[w]] = "none"
      BY <3>1 DEF IndInv, PullHeld, WorkerAgrees
    <3>3. PICK s \in SyncReplies \cup {"none", "pending"} : rail' = [rail EXCEPT ![pull[w]] = s]
      BY <2>2 DEF CallAnswered, CallUnknown
    <3>4. s # "none"
      <4> SUFFICES ASSUME s = "none" PROVE rail' = rail
        BY <3>1
      <4> QED
        BY <2>1, <3>2, <3>3 DEF TypeOK
    <3>5. Posting!Create(pull[w])
      BY <3>1, <3>2, <3>3, <3>4, RailAssumption DEF Posting!Create, Posting!Terminal
    <3> QED
      BY <3>2, <3>5 DEF Posting!Next
  <2>3. ASSUME NEW t \in Pulls, RailSettles(t) PROVE Posting!Next
    <3>1. Posting!Resolve(t)
      BY <2>3 DEF RailSettles, dbVars, Posting!Resolve, Posting!Terminal, Terminal
    <3> QED
      BY <3>1 DEF Posting!Next
  <2>4. ASSUME NEW w \in Workers, ApplyCash(w) PROVE Posting!Next
    <3>1. pc[w] = "apply" /\ rail' = rail
      BY <2>4 DEF ApplyCash
    <3>2. pull[w] \in Pulls /\ rail[pull[w]] = "completed"
      BY <3>1 DEF IndInv, PullHeld, WorkerAgrees
    <3>3. ~(receipts[pull[w]] > 0)
      BY <2>4, <3>1 DEF ApplyCash, PostCash
    <3>4. receipts[pull[w]] = 0
      BY <2>1, <3>2, <3>3 DEF TypeOK
    <3>5. receipts' = [receipts EXCEPT ![pull[w]] = @ + 1]
      BY <2>4, <3>3 DEF ApplyCash, PostCash
    <3>6. receipts' = [receipts EXCEPT ![pull[w]] = 1]
      BY <3>4, <3>5
    <3>7. Posting!Post(pull[w])
      BY <3>1, <3>2, <3>4, <3>6 DEF Posting!Post
    <3> QED
      BY <3>2, <3>7 DEF Posting!Next
  <2> QED
    BY <2>2, <2>3, <2>4
       DEF Next, Step, CronStep, Deliver, CallRejected, RecordPull, RefuseCash, SettleAttempt,
           ReadFailed, ReadSeq, CommitFailed, ConflictFailed, Crash, Load, EndRun, ClaimCharge,
           SkipCharge, StartPayNow, DeliverCompleted, DeliverFailed, DeliverCancelled,
           DeliverOrphan, ToggleAutoCharge, ChargeOff, NextDay, vars, dbVars
<1> QED
  BY <1>1, <1>2, IndInvHolds, PTL DEF Spec, PostsAsPromised, Posting!Spec
=============================================================================
