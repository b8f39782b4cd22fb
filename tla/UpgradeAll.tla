----------------------------- MODULE UpgradeAll -----------------------------
(***************************************************************************)
(* upgrade-all: the system and the registered sources, then a fresh list   *)
(* of foreign packages, then the remaining AUR updates                     *)
(* (upgrade_all_operation.cpp, upgrade_all_operation_result.cpp), composed *)
(* of SystemSourceUpgrade and AurUpdateExecution.  upgrade-aur runs the    *)
(* last part alone.                                                        *)
(***************************************************************************)
EXTENDS SystemSourceUpgrade, AurUpdateExecution

VARIABLES
    command,    \* "upgrade-all" or "upgrade-aur"
    uaStage,    \* where the operation is
    agg         \* the aggregate result

uaVars == <<command, uaStage, agg>>
allVars == <<vars, aurVars, uaVars>>

AggStatuses == {"Completed", "NoUpdates", "BlockedBeforeMutation",
                "StoppedOnSystemFailure", "StoppedOnSourceFailure",
                "StoppedAfterSourceCleanupFailure", "StoppedBeforeAurExecution",
                "StoppedOnAurFailure", "StoppedAfterAurCleanupFailure",
                "InconsistentResult", "StoppedOnAurCancellation"}
AurStatuses == {"NotAttempted", "NoUpdates", "Completed", "BlockedBeforeExecution",
                "StoppedOnProviderTransactionFailure", "StoppedOnWorkItemCancellation",
                "StoppedOnWorkItemFailure", "StoppedAfterCleanupFailure",
                "InconsistentResult"}

\* The issues the operation itself may add, and those that mean that parts
\* of it contradict each other.
ContradictionIssues == {"SnapshotMismatch", "FilteredAurExecutionFailed",
                        "SystemSourceExecutionFailedUnexpectedly", "UnknownFailure"}
IssueKinds == ContradictionIssues \cup
              {"None", "SystemSourcePhaseIncomplete", "CacheAuthorityInvalid",
               "ForeignInventoryFailed", "AurQueryFailed", "FilteredAurPreparationFailed"}

\* op: the reduced result of the AUR part, if there is one.
FreshAggregate == [status |-> "Completed", inventory |-> "NotAttempted",
                   aur |-> "NotAttempted", confirmation |-> FALSE, op |-> <<>>,
                   issue |-> "None"]

UpgradeTypeOK ==
    /\ TypeOK /\ AurTypeOK
    /\ command \in {"upgrade-all", "upgrade-aur"}
    /\ uaStage \in {"systemSource", "inventory", "query", "prepare", "execute",
                    "done", "stopped"}
    /\ agg.status \in AggStatuses /\ agg.aur \in AurStatuses
    /\ agg.inventory \in {"NotAttempted", "Completed", "Failed"}
    /\ agg.confirmation \in BOOLEAN /\ agg.issue \in IssueKinds
    /\ agg.op # <<>> => agg.op[1].psc \in Changes

\* Only upgrade-aur lets packages that need a check be tracked from now on.
UpgradeInit ==
    /\ command \in {"upgrade-all", "upgrade-aur"}
    /\ Init /\ AurInit
    /\ command = "upgrade-all" => \A k \in DOMAIN items : ~items[k].bootstrap
    /\ uaStage = IF command = "upgrade-all" THEN "systemSource" ELSE "execute"
    /\ agg = FreshAggregate

Finish(new) == agg' = new /\ uaStage' = "done"
Part(s) == uaStage' = s

(***************************************************************************)
(* The system and the sources                                              *)
(***************************************************************************)
SystemSourceStep ==
    /\ uaStage = "systemSource"
    /\ Next
    /\ UNCHANGED <<aurVars, uaVars>>

\* The result of a first part that was never started.
Unattempted(status) == [FreshResult EXCEPT !.status = status]

Rejected(status, issue) ==
    /\ Finish([agg EXCEPT !.status = status, !.issue = issue])
    /\ result' = Unattempted(status)
    /\ UNCHANGED <<stage, pos, plan, world, seen, aurVars, command>>

\* Options that source builds do not support, or an exception that the
\* preparation of the first part lets through.
PreparationEscapes ==
    /\ uaStage = "systemSource" /\ stage = "enumerate"
    /\ Rejected("BlockedBeforeMutation", "UnknownFailure")

\* Before anything is executed the snapshot of the preparation is compared
\* with the options and the sources, and the cache root is validated.
RejectBeforeExecution ==
    /\ uaStage = "systemSource" /\ stage = "execute"
    /\ \/ Rejected("InconsistentResult", "SnapshotMismatch")
       \/ Rejected("BlockedBeforeMutation", "CacheAuthorityInvalid")

\* Execution of the first part only lets an exception through before its
\* first phase.
SystemSourceEscapes ==
    /\ uaStage = "systemSource" /\ stage = "execute" /\ N > 0
    /\ Rejected("InconsistentResult", "SystemSourceExecutionFailedUnexpectedly")

\* What a result of the first part means for the whole operation.
\* Mutant: sources that were left incomplete do not stop the AUR part.
Mutant_StatusAfterSystemSource ==
    CASE result.status = "Completed" ->
            IF \E i \in Sources : result.sources[i].status = "Failed"
            THEN "StoppedOnSourceFailure" ELSE "Continue"
      [] OTHER -> result.status

StatusAfterSystemSource ==
    CASE result.status = "Completed" ->
            IF IsSuccess THEN "Continue"
            ELSE IF \E i \in Sources : NonSuccess(result.sources[i].status)
                 THEN "StoppedOnSourceFailure"
                 ELSE "StoppedBeforeAurExecution"
      [] OTHER -> result.status

AfterSystemSource ==
    /\ uaStage = "systemSource" /\ stage = "done"
    /\ IF StatusAfterSystemSource = "Continue"
       THEN Part("inventory") /\ UNCHANGED agg
       ELSE Finish([agg EXCEPT !.status = StatusAfterSystemSource,
                      !.issue = IF @ = "None" /\ StatusAfterSystemSource = "StoppedBeforeAurExecution"
                                THEN "SystemSourcePhaseIncomplete" ELSE @])
    /\ UNCHANGED <<vars, aurVars, command>>

\* A confirmation that stopped the first part leaves upgrade-all as it is.
SystemSourceStopped ==
    /\ uaStage = "systemSource" /\ stage = "stopped"
    /\ Part("stopped")
    /\ UNCHANGED <<vars, aurVars, command, agg>>

(***************************************************************************)
(* The AUR part.  The cache root is validated before each of its stages.   *)
(***************************************************************************)
StopForCacheAuthority(new) ==
    [new EXCEPT !.status = "StoppedBeforeAurExecution", !.aur = "NotAttempted",
                !.issue = "CacheAuthorityInvalid"]

CacheReplaced ==
    /\ uaStage \in {"inventory", "query", "prepare"}
    /\ Finish(StopForCacheAuthority(agg))
    /\ UNCHANGED <<vars, aurVars, command>>

\* A stage before the execution of the AUR part failed; a contradiction among
\* its inputs is told from a failure to get them.
StoppedInPreflight(new, issue) ==
    [new EXCEPT !.issue = issue,
                !.status = IF issue \in ContradictionIssues THEN "InconsistentResult"
                           ELSE "StoppedBeforeAurExecution",
                !.aur = IF issue = "ForeignInventoryFailed" THEN "NotAttempted"
                        ELSE IF issue \in ContradictionIssues THEN "InconsistentResult"
                        ELSE "BlockedBeforeExecution"]

StoppedByQuestion(cancelled) ==
    [agg EXCEPT !.confirmation = TRUE,
                !.aur = IF cancelled THEN "StoppedOnWorkItemCancellation"
                        ELSE "BlockedBeforeExecution",
                !.status = IF cancelled THEN "StoppedOnAurCancellation"
                           ELSE "StoppedBeforeAurExecution"]

ForeignInventory ==
    /\ uaStage = "inventory"
    /\ \/ Part("query") /\ agg' = [agg EXCEPT !.inventory = "Completed"]
       \/ Finish(StoppedInPreflight([agg EXCEPT !.inventory = "Failed"],
                                    "ForeignInventoryFailed"))
    /\ UNCHANGED <<vars, aurVars, command>>

AurQuery ==
    /\ uaStage = "query"
    /\ \/ Part("prepare") /\ UNCHANGED agg
       \/ Finish(StoppedInPreflight(agg, "AurQueryFailed"))
    /\ UNCHANGED <<vars, aurVars, command>>

AurStep ==
    /\ uaStage = "execute"
    /\ AurNext
    /\ UNCHANGED <<vars, uaVars>>

(***************************************************************************)
(* The aggregate                                                           *)
(***************************************************************************)
MapFilteredStatus(r) ==
    CASE r.status = "Completed" ->
            IF ReducedSuccess(r) THEN <<"Completed", "Completed">>
            ELSE <<"InconsistentResult", "InconsistentResult">>
      [] r.status = "StoppedOnProviderTransactionFailure" ->
            <<"StoppedOnAurFailure", "StoppedOnProviderTransactionFailure">>
      [] r.status = "StoppedOnWorkItemCancellation" ->
            <<"StoppedOnAurCancellation", "StoppedOnWorkItemCancellation">>
      [] r.status = "StoppedOnWorkItemFailure" ->
            <<"StoppedOnAurFailure", "StoppedOnWorkItemFailure">>
      [] r.status = "StoppedAfterPackageCleanupFailure" ->
            <<"StoppedAfterAurCleanupFailure", "StoppedAfterCleanupFailure">>
      [] OTHER -> <<"InconsistentResult", "InconsistentResult">>

AurPackageStateChange(a) ==
    IF a.op = <<>> THEN IF a.confirmation THEN "NoChange" ELSE "Unknown"
    ELSE IF a.op[1].psc # "NoChange" THEN a.op[1].psc
    ELSE IF a.aur \in {"NoUpdates", "Completed"} THEN "NoChange" ELSE "Unknown"

AggregateStateChange(a) ==
    LET parts == {PackageStateChange, AurPackageStateChange(a)}
    IN IF "Changed" \in parts THEN "Changed"
       ELSE IF "Unknown" \in parts THEN "Unknown" ELSE "NoChange"

\* Nothing at all had to be done.
\* Mutant: only the AUR part is looked at.
Mutant_QualifiesAsNoUpdates(a) == AurPackageStateChange(a) = "NoChange"

QualifiesAsNoUpdates(a) ==
    /\ result.system = [status |-> "Completed", psc |-> "NoChange"]
    /\ \A i \in Sources : result.sources[i] = [status |-> "NoChange", psc |-> "NoChange"]
    /\ AggregateStateChange(a) = "NoChange"

Concluded(a) ==
    IF command = "upgrade-all" /\ a.status = "Completed" /\ QualifiesAsNoUpdates(a)
    THEN [a EXCEPT !.status = "NoUpdates"] ELSE a

Unexecuted(status) ==
    [status |-> status, providers |-> "NotRequired", psc |-> "NoChange",
     targets |-> [t \in TargetsOf(items) |->
                    IF status = "NoUpdates" THEN "Skipped" ELSE "NotAttempted"]]

\* Preparation ends with work items, without updates, blocked, with issues,
\* with an exception, or at a question.
PrepareFilteredOperation ==
    /\ uaStage = "prepare"
    /\ \/ Part("execute") /\ UNCHANGED agg
       \/ Finish(Concluded([agg EXCEPT !.aur = "NoUpdates",
                                       !.op = <<Unexecuted("NoUpdates")>>]))
       \/ Finish([agg EXCEPT !.aur = "BlockedBeforeExecution",
                             !.status = "StoppedBeforeAurExecution",
                             !.op = <<Unexecuted("BlockedBeforeExecution")>>])
       \/ \E issue \in {"FilteredAurExecutionFailed", "FilteredAurPreparationFailed"} :
             Finish(StoppedInPreflight(agg, issue))
       \/ \E cancelled \in BOOLEAN : Finish(StoppedByQuestion(cancelled))
    /\ UNCHANGED <<vars, aurVars, command>>

\* The runner returned, or was cancelled with what it had done so far.
ReduceAur ==
    /\ uaStage = "execute" /\ auStage \in {"returned", "cancelled"}
    /\ LET r == Reduce(items, aur) IN
       Finish(Concluded([agg EXCEPT !.op = <<r>>,
                                    !.status = MapFilteredStatus(r)[1],
                                    !.aur = MapFilteredStatus(r)[2]]))
    /\ UNCHANGED <<vars, aurVars, command>>

\* An exception left the runner: nothing of its result is kept.  For
\* upgrade-all a failure of the cache counts as AUR work not attempted, a
\* logic_error or an unknown exception as a contradiction, and any other stop
\* as AUR work blocked; upgrade-aur ends with the exception.
AurEscapes ==
    /\ uaStage = "execute" /\ auStage \in {"cacheError", "stopped"}
    /\ IF command = "upgrade-aur" THEN Part("stopped") /\ UNCHANGED agg
       ELSE IF auStage = "cacheError" THEN Finish(StopForCacheAuthority(agg))
       ELSE \E issue \in {"FilteredAurExecutionFailed", "FilteredAurPreparationFailed"} :
               Finish(StoppedInPreflight(agg, issue))
    /\ UNCHANGED <<vars, aurVars, command>>

Over == uaStage \in {"done", "stopped"} /\ UNCHANGED allVars

UpgradeNext ==
    \/ SystemSourceStep \/ PreparationEscapes \/ RejectBeforeExecution
    \/ SystemSourceEscapes \/ AfterSystemSource
    \/ SystemSourceStopped \/ CacheReplaced \/ ForeignInventory \/ AurQuery
    \/ PrepareFilteredOperation \/ AurStep \/ ReduceAur \/ AurEscapes
    \/ Over

UpgradeSpec == UpgradeInit /\ [][UpgradeNext]_allVars

(***************************************************************************)
(* What the result says (upgrade_all_operation_result.cpp)                 *)
(***************************************************************************)
HasNotAttemptedSources == \E i \in Sources : result.sources[i].status = "NotAttempted"
SystemSourceNotAttempted ==
    result.system.status = "NotAttempted" \/ HasNotAttemptedSources

HasCleanupFailure ==
    \/ \E i \in Sources : result.sources[i].status = "UpdatedCleanupFailed"
    \/ agg.op # <<>> /\ ReducedCleanupFailure(agg.op[1])

HasQueryFailure ==
    agg.inventory = "Failed" \/ agg.issue \in {"AurQueryFailed", "ForeignInventoryFailed"}

HasNotAttemptedPhase ==
    \/ SystemSourceNotAttempted
    \/ "NotAttempted" \in {agg.inventory, agg.aur}
    \/ agg.op # <<>> /\ ReducedNotAttempted(agg.op[1])

HasInconsistency ==
    \/ "InconsistentResult" \in {agg.status, result.status, agg.aur}
    \/ agg.op # <<>> /\ agg.op[1].status = "InconsistentResult"
    \/ agg.issue \in ContradictionIssues

AggregateSuccess ==
    /\ agg.status \in {"Completed", "NoUpdates"}
    /\ IsSuccess /\ result.system.status = "Completed"
    /\ agg.inventory = "Completed" /\ agg.aur \in {"NoUpdates", "Completed"}
    /\ agg.op # <<>> /\ agg.issue = "None"
    /\ ~HasCleanupFailure /\ ~HasQueryFailure /\ ~HasNotAttemptedPhase /\ ~HasInconsistency

HasPartialCompletion == ~AggregateSuccess /\ result.system.status = "Completed"

\* Without a comparison of all packages the state counts as not verified, and
\* as not observed when a phase that was not attempted is all there is to say.
Observation(psc, reason) ==
    CASE psc = "Changed" -> "Changed"
      [] psc = "NoChange" -> "VerifiedUnchanged"
      [] OTHER -> IF reason = "PhaseNotAttempted" THEN "NotObserved" ELSE "Unverified"

SnapshotUnavailable ==
    \/ before = Unavailable
    \/ result.system.status = "Completed" /\ before.taken /\ result.system.psc = "Unknown"

SystemSourceObservationReason ==
    CASE SnapshotUnavailable -> "SnapshotUnavailable"
      [] result.status = "InconsistentResult" -> "InconsistentEvidence"
      [] SystemSourceNotAttempted -> "PhaseNotAttempted"
      [] OTHER -> IF IsSuccess THEN "ObservationNotPrepared" ELSE "OperationFailed"

AurPhaseNotAttempted ==
    \/ agg.confirmation \/ agg.aur = "NotAttempted"
    \/ agg.op # <<>> /\ ReducedNotAttempted(agg.op[1])

\* A phase without a result can only be one that was not attempted, or that a
\* question stopped.
AurPhaseHasInconsistency ==
    \/ agg.aur = "InconsistentResult"
    \/ IF agg.op # <<>> THEN agg.op[1].status = "InconsistentResult"
       ELSE IF agg.confirmation
       THEN agg.aur \notin {"StoppedOnWorkItemCancellation", "BlockedBeforeExecution"}
       ELSE agg.aur # "NotAttempted"

AurObservationReason ==
    CASE AurPhaseHasInconsistency -> "InconsistentEvidence"
      [] AurPhaseNotAttempted -> "PhaseNotAttempted"
      [] agg.aur \notin {"NoUpdates", "Completed"} -> "OperationFailed"
      [] OTHER -> IF ReducedSuccess(agg.op[1]) THEN "ObservationNotPrepared" ELSE "OperationFailed"

\* The default of a phase that was not attempted is no evidence.
FailClosed(psc, skipped) == IF skipped /\ psc = "NoChange" THEN "Unknown" ELSE psc

PhaseObservations ==
    [systemSource |-> Observation(FailClosed(PackageStateChange, SystemSourceNotAttempted),
                                  SystemSourceObservationReason),
     aur |-> Observation(FailClosed(AurPackageStateChange(agg), AurPhaseNotAttempted),
                         AurObservationReason)]

OperationReason ==
    CASE SnapshotUnavailable -> "SnapshotUnavailable"
      [] HasInconsistency -> "InconsistentEvidence"
      [] HasNotAttemptedPhase -> "PhaseNotAttempted"
      [] OTHER -> "Other"

IsNoOp ==
    agg.status = "NoUpdates" /\ AggregateSuccess /\ AggregateStateChange(agg) = "NoChange"

Outcome ==
    CASE HasInconsistency -> "Inconsistent"
      [] AggregateSuccess -> IF IsNoOp THEN "NoOp" ELSE "Succeeded"
      [] agg.status = "BlockedBeforeMutation" -> "Blocked"
      [] HasPartialCompletion -> "PartialFailure"
      [] OTHER -> "Failed"

OperationState ==
    [outcome |-> Outcome, state |-> Observation(AggregateStateChange(agg), OperationReason)]

(***************************************************************************)
(* Properties                                                              *)
(***************************************************************************)
Report(p) ==
    IF p = SystemPhase THEN result.system.psc
    ELSE IF p = ProviderPhase THEN result.providers.psc ELSE result.sources[p].psc

\* What is reported of the system, of the providers and of each source is
\* true of the package database: a phase that changed packages is never
\* reported as NoChange, and one reported as Changed did change them.  Exit
\* statuses do not tell; only snapshots and receipts do.
ReportTruthful ==
    stage = "done" =>
       \A p \in Sources \cup {SystemPhase, ProviderPhase} :
          /\ p \in changed => Report(p) # "NoChange"
          /\ Report(p) = "Changed" => p \in changed

\* When pacman replaced a package that is registered as a source, a
\* successful upgrade has put the build of the source back, unless the
\* repository has a newer version than the recipe.
ReplacedIsRebuilt ==
    stage = "done" /\ IsSuccess =>
       \A i \in replaced : db[i].origin = "source" \/ db[i].ver > recipe[i]

Finished(status) == status \in {"Updated", "NoChange", "BootstrapSkipped"}

\* A phase changes packages only when everything before it has ended well:
\* sources after the system, AUR packages after all sources, and every item
\* after the items before it.
NothingAfterStop ==
    /\ \A j \in changed \cap Sources :
          /\ result.system.status = "Completed"
          /\ \A i \in 1..(j - 1) : result.sources[i].status \in {"Updated", "NoChange", "Incomplete"}
    /\ aurChanged # {} /\ command = "upgrade-all" =>
          IsSuccess /\ result.system.status = "Completed"
    /\ \A j \in aurChanged \ {0} : /\ ProviderSuccess(aur.providers)
                                   /\ \A k \in 1..(j - 1) : Finished(aur.items[k].status)

\* Nothing that happened is missing from the final result of the operation:
\* NoChange and NoUpdates mean that no package changed in any phase, Changed
\* that one did, and success that no source and no item was left over.  What
\* is shown for the operation and for each phase says the same, and an
\* operation that only failed changed nothing but what a failed pacman left.
AggregateTruthful ==
    uaStage = "done" /\ command = "upgrade-all" =>
       /\ changed \cup aurChanged # {} => /\ AggregateStateChange(agg) # "NoChange"
                                         /\ agg.status # "NoUpdates"
       /\ AggregateStateChange(agg) = "Changed" => changed \cup aurChanged # {}
       /\ AggregateSuccess =>
             /\ \A i \in Sources : Finished(result.sources[i].status)
             /\ agg.aur = "Completed" => \A k \in DOMAIN items : Finished(aur.items[k].status)
       /\ changed \cup aurChanged # {} =>
             /\ OperationState.outcome \notin {"NoOp", "Blocked"}
             /\ OperationState.outcome = "Failed" =>
                   changed = {SystemPhase} /\ result.system.status = "Failed"
       /\ \A p \in {<<PhaseObservations.systemSource, changed>>,
                     <<PhaseObservations.aur, aurChanged>>,
                     <<OperationState.state, changed \cup aurChanged>>} :
             /\ p[1] = "Changed" => p[2] # {}
             /\ p[1] = "VerifiedUnchanged" => p[2] = {}

\* The reducer tells what the runner did.  No way an invocation ends is taken
\* for a contradiction, except a provider transaction that was blocked before
\* it began, which the runner reports as a failed one.  A target is Updated or
\* NoChange only when every item it needs is finished, NoChange only when none
\* of them changed anything, and Skipped only when none of its items was built
\* for it alone.  What changed is a success, a partial one, or in doubt.
ReductionTruthful ==
    auStage \in {"returned", "cancelled"} =>
       LET r == Reduce(items, aur)
           Of(t) == {k \in DOMAIN items : t \in items[k].roots}
       IN /\ aur.providers.status # "BlockedBeforeExecution" => r.status = aur.status
          /\ aurChanged # {} => (ReducedSuccess(r) \/ ReducedPartial(r) \/ r.psc = "Unknown")
          /\ \A t \in DOMAIN r.targets :
             /\ r.targets[t] \in {"Updated", "NoChange"} =>
                   \A k \in Of(t) : aur.items[k].status \in {"Updated", "NoChange"}
             /\ r.targets[t] = "NoChange" => Of(t) \cap aurChanged = {}
             /\ r.targets[t] = "Skipped" =>
                   \A k \in aurChanged \ {0} : items[k].roots # {t}
=============================================================================
