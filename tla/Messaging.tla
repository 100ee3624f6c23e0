----------------------------- MODULE Messaging -----------------------------
(***************************************************************************)
(* The two halves of the messaging layer share no row, so they are not     *)
(* multiplied: `lane` picks at the start which one moves.  Of the notices, *)
(* runs of Crew while vendors fail and the world changes, or all runs at   *)
(* once over quiet days; of the sign-in codes, the retry queue with a      *)
(* borrower who exchanges one code at a time, or requests that exchange    *)
(* codes together where no queue is configured.                            *)
(***************************************************************************)
EXTENDS NotificationProcessor

CONSTANTS
    Crew,                                                       \* runs
    Requesters, Workers, Reader, Readers, Wrong,                \* sign-in codes
    Delays, MaxRetries, LockoutWindow, MaxRows,
    QueueFailed, QueueTTL, QueueRequests, QueueTokens, QueueTime, QueueFaults,
    MaxFailed, TTL, LastRequest, MaxRequests, MaxTokens, MaxTime, MaxLost

VARIABLES lane,
          now, minted, expires, issued, inHand, consumed, failed, outbox, rowOf,
          holder, crashes, pc, code, linkFaults

noticeVars == vars
linkVars   == <<now, minted, expires, issued, inHand, consumed, failed, outbox, rowOf,
                holder, crashes, pc, code, linkFaults>>
allVars    == <<lane, noticeVars, linkVars>>

Links == INSTANCE MagicLinks WITH
    Exchangers <- {Reader}, OutboxEnabled <- TRUE, MaxFailed <- QueueFailed,
    TTL <- QueueTTL, LastRequest <- 0, MaxRequests <- QueueRequests,
    MaxTokens <- QueueTokens, MaxTime <- QueueTime, MaxFaults <- QueueFaults,
    faults <- linkFaults

Exchanges == INSTANCE MagicLinks WITH
    Workers <- {}, Exchangers <- Readers, OutboxEnabled <- FALSE,
    MaxFaults <- MaxLost, faults <- linkFaults

(* What the modules ask of their constants.                                *)
ASSUME ConstantsFit ==
    /\ ProcessorAssumption /\ Crew \subseteq Procs
    /\ Links!LinksAssumption /\ Exchanges!LinksAssumption

LaneInit ==
    /\ lane \in {"alone", "overlap", "links", "exchanges"}
    /\ Init
    /\ IF lane = "exchanges" THEN Exchanges!Init ELSE Links!Init

(* The runs of Crew; or all, while days pass but nothing fails and staff   *)
(* and payments change nothing.                                            *)
AloneLane(A) ==
    lane = "alone" /\ A /\ (\A p \in Procs \ Crew : run'[p] = run[p])
        /\ UNCHANGED <<lane, linkVars>>
OverlapLane(A) ==
    lane = "overlap" /\ A /\ world'.changes = world.changes
        /\ UNCHANGED <<faults, lane, linkVars>>
LinksLane(A)     == lane = "links" /\ A /\ UNCHANGED <<lane, noticeVars>>
ExchangesLane(A) == lane = "exchanges" /\ A /\ UNCHANGED <<lane, noticeVars>>

LaneNext ==
    \/ AloneLane(Next)
    \/ OverlapLane(Next)
    \/ LinksLane(Links!Next)
    \/ ExchangesLane(Exchanges!Next)

(* The fairness of each module, for the lane that moves.                   *)
LaneFairness ==
    /\ \A p \in Crew : WF_allVars(AloneLane(Process(p)))
    /\ WF_allVars(AloneLane(Morning))
    /\ \A p \in Procs : WF_allVars(OverlapLane(Process(p)))
    /\ \A q \in Requesters : WF_allVars(LinksLane(Links!Answered(q)))
    /\ \A w \in Workers : WF_allVars(LinksLane(Links!Work(w)))
    /\ WF_allVars(LinksLane(Links!Tick))

LaneSpec == LaneInit /\ [][LaneNext]_allVars /\ LaneFairness

(* The type invariants of the two modules.                                 *)
AllTypesOK ==
    /\ TypeOK
    /\ IF lane = "exchanges" THEN Exchanges!TypeOK ELSE Links!TypeOK

(* NotificationProcessor.ToldOnce, for the runs that may take part.        *)
ToldOncePerRun == ToldOnceBy(IF lane = "overlap" THEN Procs ELSE Crew)

(* MagicLinks.SentCodesWork.                                               *)
SentCodesWork == lane = "links" => Links!SentCodesWork

(* MagicLinks.RetriesBounded and ExchangeLimits.                           *)
LimitsHold ==
    /\ lane = "links" => Links!RetriesBounded
    /\ IF lane = "exchanges" THEN Exchanges!ExchangeLimits ELSE Links!ExchangeLimits

(* Nothing that is queued is forgotten: a notice that awaits its retry and *)
(* a row of the outbox are both resolved (NotificationProcessor.           *)
(* EventuallyResolved, MagicLinks.RowsSettle).                             *)
EverythingSettles == EventuallyResolved /\ Links!RowsSettle
=============================================================================
