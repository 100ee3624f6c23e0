------------------------------ MODULE Records ------------------------------
(***************************************************************************)
(* The records of loans and borrowers; components that share no row, `lane`*)
(* picks at the start which one moves: an account being migrated, a        *)
(* borrower's profile, the month-end buckets of a loan whose plan is paid  *)
(* and suspended or of one that becomes insolvent, the maintenance fees of *)
(* a portfolio, and a debtor's promises.                                   *)
(***************************************************************************)
EXTENDS PortfolioImport

CONSTANTS
    Fields, Values, Patches, Apps, Collected,                       \* profiles
    Editors, Attachers, Keepers, MaxEdits,
    Due, MonthEnds, Total, Cuts, Desks, Horizon,                    \* plans, estates
    Amounts, Modes, Jobs, MaxPayments, MaxSessions,                 \* plans
    Statuses, EstateAmounts, EstateJobs, EstatePayments, EstateSessions,
    Loans, Clerks, Debtor, Paid,                                    \* fees, promises
    FeeMonth, FeeHorizon, FeePayments,
    Promised, PromiseMonth, PromiseHorizon, MaxPromises, PromisePayments

VARIABLES lane,
          profile, rows, app, shared, stale, opened, editing,
          today, items, payments, insolvency, bucket, snapshots, revised, misses, begun, rating,
          deskDay, insolvent, books, markers, promises, doubled, desk

importVars  == vars
profileVars == <<profile, rows, app, shared, stale, opened, editing>>
bucketVars  == <<today, items, payments, insolvency, bucket, snapshots, revised, misses, begun, rating>>
workVars    == <<deskDay, insolvent, books, markers, promises, doubled, desk>>
allVars     == <<lane, importVars, profileVars, bucketVars, workVars>>

Profiles == INSTANCE CustomerProfile WITH
    MaxSessions <- MaxEdits, begun <- opened, work <- editing

Plans == INSTANCE DelinquencyBuckets WITH
    Statuses <- {}, work <- rating

Estates == INSTANCE DelinquencyBuckets WITH
    Amounts <- EstateAmounts, Modes <- {"regular"}, Jobs <- EstateJobs,
    MaxPayments <- EstatePayments, MaxSessions <- EstateSessions, work <- rating

Fees == INSTANCE CollectionsWork WITH
    Portfolio <- Loans, Sessions <- Clerks, MonthDays <- FeeMonth, Promised <- {},
    Horizon <- FeeHorizon, MaxPromises <- 0, MaxPayments <- FeePayments,
    today <- deskDay, ledger <- books, work <- desk

Promises == INSTANCE CollectionsWork WITH
    Loans <- {Debtor}, Portfolio <- {}, Sessions <- Clerks, MonthDays <- PromiseMonth,
    Horizon <- PromiseHorizon, MaxPayments <- PromisePayments,
    today <- deskDay, ledger <- books, work <- desk

(* What the modules ask of their constants.                                *)
ASSUME ConstantsFit ==
    /\ FilesAssumption /\ Profiles!ProfileAssumption
    /\ Plans!BucketsAssumption /\ Estates!BucketsAssumption
    /\ Fees!WorkAssumption /\ Promises!WorkAssumption

LaneInit ==
    /\ lane \in {"imports", "profiles", "plans", "estates", "fees", "promises"}
    /\ Init /\ (lane # "imports" => file = (CHOOSE f \in Files : TRUE) /\ ~loan)
    /\ Profiles!Init
    /\ IF lane = "estates" THEN Estates!Init ELSE Plans!Init
    /\ IF lane = "fees" THEN Fees!Init ELSE Promises!Init

ImportStep == lane = "imports" /\ Next
                /\ UNCHANGED <<lane, profileVars, bucketVars, workVars>>
ProfileStep == lane = "profiles" /\ Profiles!Next
                /\ UNCHANGED <<lane, importVars, bucketVars, workVars>>
PlanStep == lane = "plans" /\ Plans!Next
                /\ UNCHANGED <<lane, importVars, profileVars, workVars>>
EstateStep == lane = "estates" /\ Estates!Next
                /\ UNCHANGED <<lane, importVars, profileVars, workVars>>
FeeStep == lane = "fees" /\ Fees!Next
                /\ UNCHANGED <<lane, importVars, profileVars, bucketVars>>
PromiseStep == lane = "promises" /\ Promises!Next
                /\ UNCHANGED <<lane, importVars, profileVars, bucketVars>>

LaneNext ==
    \/ ImportStep \/ ProfileStep \/ PlanStep
    \/ EstateStep \/ FeeStep \/ PromiseStep

LaneSpec == LaneInit /\ [][LaneNext]_allVars

(* The type invariants of the four modules.                                *)
AllTypesOK ==
    CASE lane = "imports"  -> TypeOK
      [] lane = "profiles" -> Profiles!TypeOK
      [] lane = "plans"    -> Plans!TypeOK
      [] lane = "estates"  -> Estates!TypeOK
      [] lane = "fees"     -> Fees!TypeOK
      [] lane = "promises" -> Promises!TypeOK

(* CustomerProfile.OneCurrentValue.                                        *)
OneCurrentValue == lane = "profiles" => Profiles!OneCurrentValue

(* CustomerProfile.SnapshotIsReproducible and BackfillFillsGaps.           *)
DecisionsStayExplained ==
    lane = "profiles" => Profiles!SnapshotIsReproducible /\ Profiles!BackfillFillsGaps

(* DelinquencyBuckets.ReplayIsThePlan and ClearedLoanReenters.             *)
BucketsFollowTheLoan ==
    /\ lane \in {"plans", "estates"} => Estates!ReplayIsThePlan
    /\ lane = "estates" => Estates!ClearedLoanReenters

(* DelinquencyBuckets.PastMonthStands.                                     *)
PastMonthStands ==
    [][/\ lane = "plans" => Plans!MonthsStand
       /\ lane = "estates" => Estates!MonthsStand]_allVars

(* CollectionsWork.FeeOncePerMonth and PromisesAreJudgedByCash.            *)
DeskKeepsBooks ==
    /\ lane = "fees" => Fees!FeeOncePerMonth
    /\ lane = "promises" => Promises!PromisesAreJudgedByCash
=============================================================================
