------------------------- MODULE AurUpdateExecution -------------------------
(***************************************************************************)
(* The execution of prepared AUR work items, one after another             *)
(* (aur_update_execution_runner.cpp), and the reduction of what they       *)
(* returned to one result per update target (aur_update_operation_         *)
(* result.cpp).                                                            *)
(*                                                                         *)
(* A work item builds one package base, on behalf of the targets in its    *)
(* roots, and installs the packages in Children.  Item k is about target   *)
(* k; an item that is only a dependency is about none.  The builds and     *)
(* pacman change packages whether or not they say so: aurChanged keeps     *)
(* what they really did.                                                   *)
(***************************************************************************)
EXTENDS Naturals, Sequences, FiniteSets

CONSTANTS
    MaxItems,   \* most work items of an invocation
    Children    \* the packages that every work item installs

ASSUME ExecutionAssumption == MaxItems \in Nat \ {0} /\ Children # {}

VARIABLES
    items,      \* the prepared work items
    interactive,\* whether the user can be asked
    wanted,     \* whether repository providers were selected
    auStage,    \* where the execution is
    auPos,      \* the work item it is about to execute
    aur,        \* the execution result so far
    aurChanged  \* history: the work items that changed packages; 0: providers

aurInput == <<items, interactive, wanted>>
aurVars == <<items, interactive, wanted, auStage, auPos, aur, aurChanged>>

Terminal == {"Cancelled", "Failed", "UpdatedCleanupFailed", "NoChangeCleanupFailed"}
ItemStatuses == Terminal \cup {"NotAttempted", "BootstrapSkipped", "Updated", "NoChange"}
ChildStatuses == {"NotAttempted", "BootstrapSkipped", "Installed", "SkippedAsNeeded",
                  "InstalledCleanupFailed", "SkippedAsNeededCleanupFailed"}
Kinds == {"None", "PriorWorkItemStopped", "BuildOrInstallFailed", "UnknownException",
          "AuthoritativeExecutionIncomplete", "CleanupFailedAfterPackageTransaction"}
Decisions == {"None", "Accepted", "Declined", "ObservationChanged",
              "InteractionUnavailable"}
Operations == {"None", "NotAttempted", "Succeeded", "Failed", "OutcomeUnknown"}
InvocationStatuses == {"Completed", "StoppedOnProviderTransactionFailure",
                       "StoppedOnWorkItemCancellation", "StoppedOnWorkItemFailure",
                       "StoppedAfterPackageCleanupFailure"}

All(status) == [c \in Children |-> status]

\* txn: a transaction failure is kept; op: what the devel route reports of
\* its installation; cancelled: a confirmation or an acquisition was.
NotAttemptedItem ==
    [status |-> "NotAttempted", kind |-> "PriorWorkItemStopped",
     children |-> All("NotAttempted"), decision |-> "None",
     txn |-> FALSE, op |-> "None", cancelled |-> FALSE]

ItemResults == [status : ItemStatuses, kind : Kinds, children : [Children -> ChildStatuses],
                decision : Decisions, txn : BOOLEAN, op : Operations,
                cancelled : BOOLEAN]

NotRequired == [status |-> "NotRequired", psc |-> "NoChange"]

AurTypeOK ==
    /\ items \in Seq([roots : SUBSET (1..MaxItems), bootstrap : BOOLEAN,
                      devel : BOOLEAN])
    /\ Len(items) <= MaxItems
    /\ interactive \in BOOLEAN /\ wanted \in BOOLEAN
    /\ auStage \in {"idle", "decide", "activate", "providers", "items",
                    "returned", "cancelled", "cacheError", "stopped"}
    /\ auPos \in 1..(Len(items) + 1)
    /\ aur.status \in InvocationStatuses
    /\ aur.phase \in {"BootstrapDecisions", "WorkItems"}
    /\ aur.providers.status \in {"NotRequired", "BlockedBeforeExecution",
                                 "Succeeded", "Failed"}
    /\ DOMAIN aur.items = DOMAIN items
    /\ \A k \in DOMAIN items : aur.items[k] \in ItemResults
    /\ aurChanged \subseteq 0..MaxItems

FreshExecution(its) ==
    [status |-> "Completed", phase |-> "WorkItems", providers |-> NotRequired,
     items |-> [k \in DOMAIN its |-> NotAttemptedItem]]

\* What preparation hands over: every target is the root of its own item or
\* of nothing, dependencies come first, and an item that would start to track
\* an installed development package is about that package alone.
PreparedItems ==
    {its \in UNION {[1..n -> [roots : (SUBSET (1..n)) \ {{}}, bootstrap : BOOLEAN,
                              devel : BOOLEAN]] : n \in 1..MaxItems} :
        \A k \in DOMAIN its :
           /\ \A r \in its[k].roots : r >= k /\ r \in its[r].roots
           /\ its[k].bootstrap => its[k].devel /\ its[k].roots = {k}}

AurInit ==
    /\ items \in PreparedItems
    /\ interactive \in BOOLEAN /\ wanted \in BOOLEAN
    /\ auStage = "idle" /\ auPos = 1
    /\ aur = FreshExecution(items)
    /\ aurChanged = {}

(***************************************************************************)
(* Bootstrap decisions, in the order of the update plan                    *)
(***************************************************************************)
Bootstraps == {k \in DOMAIN items : items[k].bootstrap}
Undecided == {k \in Bootstraps : aur.items[k].decision = "None"}

StartExecution ==
    /\ auStage = "idle"
    /\ auStage' = IF Bootstraps = {} THEN "activate" ELSE "decide"
    /\ aur' = [aur EXCEPT !.phase = IF Bootstraps = {} THEN "WorkItems"
                                    ELSE "BootstrapDecisions"]
    /\ UNCHANGED <<aurInput, auPos, aurChanged>>

Skip(r) == [r EXCEPT !.status = "BootstrapSkipped", !.kind = "None",
                     !.children = All("BootstrapSkipped")]

Decide(k, decision) ==
    aur' = [aur EXCEPT !.items[k] =
              LET r == [@ EXCEPT !.decision = decision]
              IN IF decision = "Accepted" THEN r ELSE Skip(r)]

CancelItem(r) == [r EXCEPT !.status = "Cancelled", !.kind = "None", !.cancelled = TRUE]

\* The user is asked only at a terminal; the trial is validated before the
\* question and again after an answer of yes.
DecideBootstrap ==
    /\ auStage = "decide" /\ Undecided # {}
    /\ LET k == CHOOSE i \in Undecided : \A j \in Undecided : i <= j IN
       \/ /\ ~interactive
          /\ Decide(k, "InteractionUnavailable") /\ UNCHANGED auStage
       \/ /\ interactive
          /\ \E d \in {"Accepted", "Declined", "ObservationChanged"} :
                Decide(k, d) /\ UNCHANGED auStage
       \/ /\ interactive
          /\ aur' = [aur EXCEPT !.items[k] = CancelItem(@),
                                !.status = "StoppedOnWorkItemCancellation"]
          /\ auStage' = "cancelled"
       \/ /\ interactive                     \* the answer could not be read
          /\ auStage' = "stopped" /\ UNCHANGED aur
    /\ UNCHANGED <<aurInput, auPos, aurChanged>>

\* The roots that were given up, and the items that nobody else needs.
SkippedRoots == UNION {items[k].roots : k \in
                  {i \in Bootstraps : aur.items[i].decision # "Accepted"}}
Executed == {k \in DOMAIN items : ~(items[k].roots \subseteq SkippedRoots)}

FinishDecisions ==
    /\ auStage = "decide" /\ Undecided = {}
    /\ auStage' = "activate"
    /\ aur' = [aur EXCEPT !.phase = "WorkItems",
                          !.items = [k \in DOMAIN items |->
                             IF k \in Executed THEN @[k] ELSE Skip(@[k])]]
    /\ UNCHANGED <<aurInput, auPos, aurChanged>>

(***************************************************************************)
(* The cache and the providers                                             *)
(***************************************************************************)
\* The cache directory may have been replaced since it was validated.
CacheError == auStage' = "cacheError"

ActivateCache ==
    /\ auStage = "activate"
    /\ \/ auStage' = IF Executed = {} THEN "returned" ELSE "providers"
       \/ Executed # {} /\ CacheError
    /\ UNCHANGED <<aurInput, auPos, aur, aurChanged>>

\* An exit status says nothing about what changed; only a transaction that
\* was never started is known to have changed nothing.
ProviderResult(status) ==
    [status |-> status,
     psc |-> IF status \in {"Succeeded", "Failed"} THEN "Unknown" ELSE "NoChange"]

ExecuteProviders ==
    /\ auStage = "providers"
    /\ \/ /\ ~wanted
          /\ auStage' = "items" /\ UNCHANGED <<aur, aurChanged>>
       \/ /\ wanted /\ CacheError /\ UNCHANGED <<aur, aurChanged>>
       \/ /\ wanted
          /\ aur' = [aur EXCEPT !.providers = ProviderResult("BlockedBeforeExecution"),
                                !.status = "StoppedOnProviderTransactionFailure"]
          /\ auStage' = "returned" /\ UNCHANGED aurChanged
       \/ /\ wanted
          /\ aurChanged' \in {aurChanged, aurChanged \cup {0}}
          /\ \/ /\ aur' = [aur EXCEPT !.providers = ProviderResult("Succeeded")]
                /\ auStage' = "items"
             \/ /\ aur' = [aur EXCEPT
                             !.providers = ProviderResult("Failed"),
                             !.status = "StoppedOnProviderTransactionFailure"]
                /\ auStage' = "returned"
    /\ UNCHANGED <<aurInput, auPos>>

(***************************************************************************)
(* Work items                                                              *)
(***************************************************************************)
ItemChanges(k, did) == aurChanged' = IF did THEN aurChanged \cup {k} ELSE aurChanged
MayChange(k) == \E did \in BOOLEAN : ItemChanges(k, did)

Continue(k, r) ==
    /\ aur' = [aur EXCEPT !.items[k] = r]
    /\ auPos' = auPos + 1
    /\ UNCHANGED auStage

Halt(k, r, status, stage) ==
    /\ aur' = [aur EXCEPT !.items[k] = r, !.status = status]
    /\ auStage' = stage
    /\ UNCHANGED auPos

Fail(k, r) == Halt(k, r, "StoppedOnWorkItemFailure", "returned")
FailedAs(k, kind) == [aur.items[k] EXCEPT !.status = "Failed", !.kind = kind]

PassOver(k) ==
    /\ k \notin Executed
    /\ Continue(k, aur.items[k]) /\ UNCHANGED aurChanged

\* The installed children and those that --needed left alone decide the item.
\* Mutant: one child that was left alone makes the whole item "NoChange".
Mutant_Promoted(k, outcome, failed) ==
    LET any == \A c \in Children : outcome[c] = "Installed" IN
    [aur.items[k] EXCEPT
       !.status = IF any THEN IF failed THEN "UpdatedCleanupFailed" ELSE "Updated"
                  ELSE IF failed THEN "NoChangeCleanupFailed" ELSE "NoChange",
       !.kind = IF failed THEN "CleanupFailedAfterPackageTransaction" ELSE "None",
       !.children = [c \in Children |->
            CASE outcome[c] = "Installed" ->
                    IF failed THEN "InstalledCleanupFailed" ELSE "Installed"
              [] OTHER -> IF failed THEN "SkippedAsNeededCleanupFailed"
                          ELSE "SkippedAsNeeded"]]

Promoted(k, outcome, failed) ==
    LET any == \E c \in Children : outcome[c] = "Installed" IN
    [aur.items[k] EXCEPT
       !.status = IF any THEN IF failed THEN "UpdatedCleanupFailed" ELSE "Updated"
                  ELSE IF failed THEN "NoChangeCleanupFailed" ELSE "NoChange",
       !.kind = IF failed THEN "CleanupFailedAfterPackageTransaction" ELSE "None",
       !.children = [c \in Children |->
            CASE outcome[c] = "Installed" ->
                    IF failed THEN "InstalledCleanupFailed" ELSE "Installed"
              [] OTHER -> IF failed THEN "SkippedAsNeededCleanupFailed"
                          ELSE "SkippedAsNeeded"]]

Installs(outcome) == \E c \in Children : outcome[c] = "Installed"

\* The separated build ran to its end; removing its workspace may still fail.
LegacyCompletes(k) ==
    /\ ~items[k].devel
    /\ \E outcome \in [Children -> {"Installed", "SkippedAsNeeded"}] :
          /\ ItemChanges(k, Installs(outcome))
          /\ \/ Continue(k, Promoted(k, outcome, FALSE))
             \/ Halt(k, Promoted(k, outcome, TRUE),
                     "StoppedAfterPackageCleanupFailure", "returned")

\* Review, metadata, preparation, build, validation or the selection of
\* artifacts failed, or a patch could not be saved: nothing was installed.
\* The runner's comparison of a completed build with the prepared children
\* (validate_completed_package_base_result) cannot fail: the result is made of
\* the prepared children, in their order, and artifacts of one name are
\* refused before the installation.
FailsBeforeInstall(k) ==
    /\ \E kind \in {"BuildOrInstallFailed", "UnknownException"} :
          Fail(k, FailedAs(k, kind))
    /\ UNCHANGED aurChanged

\* pacman failed, or its outcome could not be observed.
TransactionFailure(k) == [FailedAs(k, "BuildOrInstallFailed") EXCEPT !.txn = TRUE]

LegacyTransactionFails(k) ==
    /\ ~items[k].devel
    /\ Fail(k, TransactionFailure(k))
    /\ MayChange(k)

\* The authoritative route of development packages reports one snapshot; it
\* is complete only if everything after the installation was recorded too.
DevelCompletes(k) ==
    /\ items[k].devel
    /\ Continue(k, [aur.items[k] EXCEPT !.status = "Updated", !.kind = "None",
                       !.children = All("Installed"), !.op = "Succeeded"])
    /\ ItemChanges(k, TRUE)

DevelIncomplete(k) ==
    /\ items[k].devel
    /\ LET r == FailedAs(k, "AuthoritativeExecutionIncomplete") IN
       \/ /\ \E kind \in {"AuthoritativeExecutionIncomplete", "BuildOrInstallFailed"} :
                Fail(k, [FailedAs(k, kind) EXCEPT !.op = "NotAttempted"])
          /\ UNCHANGED aurChanged
       \/ /\ Fail(k, [r EXCEPT !.op = "Succeeded", !.children = All("Installed")])
          /\ ItemChanges(k, TRUE)
       \/ /\ \E op \in {"Failed", "OutcomeUnknown"} : Fail(k, [r EXCEPT !.op = op])
          /\ MayChange(k)

\* A question about the item was answered by cancelling the operation.
CancelsItem(k) ==
    /\ interactive
    /\ Halt(k, CancelItem(aur.items[k]), "StoppedOnWorkItemCancellation", "cancelled")
    /\ UNCHANGED aurChanged

\* Exceptions that leave the runner without a result.
LeavesRunner(k) ==
    /\ \/ CacheError
       \/ auStage' = "stopped"
    /\ UNCHANGED <<auPos, aur, aurChanged>>

ExecuteItem ==
    /\ auStage = "items" /\ auPos <= Len(items)
    /\ \/ PassOver(auPos)
       \/ /\ auPos \in Executed
          /\ \/ LegacyCompletes(auPos) \/ FailsBeforeInstall(auPos)
             \/ LegacyTransactionFails(auPos) \/ DevelCompletes(auPos)
             \/ DevelIncomplete(auPos) \/ CancelsItem(auPos)
             \/ LeavesRunner(auPos)
    /\ UNCHANGED aurInput

AllItemsDone ==
    /\ auStage = "items" /\ auPos > Len(items)
    /\ auStage' = "returned"
    /\ UNCHANGED <<aurInput, auPos, aur, aurChanged>>

AurNext ==
    \/ StartExecution \/ DecideBootstrap \/ FinishDecisions
    \/ ActivateCache \/ ExecuteProviders \/ ExecuteItem \/ AllItemsDone

(***************************************************************************)
(* Reduction                                                               *)
(***************************************************************************)
ProviderSuccess(p) == p.status \in {"NotRequired", "Succeeded"}
PackagesInstalled(x) ==
    \E k \in DOMAIN x.items : \E c \in Children :
       x.items[k].children[c] \in {"Installed", "InstalledCleanupFailed"}

HasConsistentFailureKind(r) ==
    CASE r.status \in {"BootstrapSkipped", "Updated", "NoChange", "Cancelled"} ->
            r.kind = "None"
      [] r.status = "Failed" ->
            r.kind \in {"BuildOrInstallFailed", "AuthoritativeExecutionIncomplete",
                        "UnknownException"}
      [] r.status = "NotAttempted" -> r.kind = "PriorWorkItemStopped"
      [] OTHER -> r.kind = "CleanupFailedAfterPackageTransaction"

FailurePayloadIsConsistent(r) ==
    /\ r.cancelled <=> r.status = "Cancelled"
    /\ r.kind # "BuildOrInstallFailed" => ~r.txn
    /\ r.kind = "AuthoritativeExecutionIncomplete" => r.op # "None"

\* Which children an item of some status may have.
RetainsInstall(r, c) ==
    r.status = "Failed" /\ r.op = "Succeeded" /\ r.children[c] = "Installed"
AllowedChildren(status) ==
    CASE status = "BootstrapSkipped" -> {"BootstrapSkipped"}
      [] status = "Updated" -> {"Installed", "SkippedAsNeeded"}
      [] status = "NoChange" -> {"SkippedAsNeeded"}
      [] status = "UpdatedCleanupFailed" ->
            {"InstalledCleanupFailed", "SkippedAsNeededCleanupFailed"}
      [] status = "NoChangeCleanupFailed" -> {"SkippedAsNeededCleanupFailed"}
      [] OTHER -> {"NotAttempted"}

WorkItemChildOutcomesAreConsistent(r) ==
    /\ \A c \in Children : RetainsInstall(r, c) \/ r.children[c] \in AllowedChildren(r.status)
    /\ r.status \in {"Updated", "UpdatedCleanupFailed"} =>
          \E c \in Children : r.children[c] \in {"Installed", "InstalledCleanupFailed"}

TerminalItems(x) == {k \in DOMAIN x.items : x.items[k].status \in Terminal}

\* The position of the item that stopped the invocation: finished items come
\* before it, untouched ones after it.
StopsInOrder(x) ==
    \A t \in TerminalItems(x), k \in DOMAIN x.items :
       /\ k < t => x.items[k].status \in {"Updated", "NoChange", "BootstrapSkipped"}
       /\ k > t => x.items[k].status \in {"NotAttempted", "BootstrapSkipped"}

InvocationResultIsConsistent(x) ==
    LET ts == TerminalItems(x)
        Only(S) == \A k \in DOMAIN x.items : x.items[k].status \in S
        EndsIn(S) == /\ ProviderSuccess(x.providers) /\ Cardinality(ts) = 1
                     /\ \A t \in ts : x.items[t].status \in S
    IN /\ \A k \in DOMAIN x.items : WorkItemChildOutcomesAreConsistent(x.items[k])
       /\ Cardinality(ts) <= 1
       /\ IF x.phase = "BootstrapDecisions"
          THEN /\ x.status = "StoppedOnWorkItemCancellation"
               /\ x.providers = NotRequired /\ Cardinality(ts) = 1
               /\ Only({"NotAttempted", "BootstrapSkipped", "Cancelled"})
          ELSE /\ StopsInOrder(x)
               /\ CASE x.status = "Completed" ->
                          /\ ProviderSuccess(x.providers)
                          /\ Only({"Updated", "NoChange", "BootstrapSkipped"})
                    [] x.status = "StoppedOnProviderTransactionFailure" ->
                          /\ x.providers.status \in {"Failed", "OutcomeUnknown"}
                          /\ Only({"NotAttempted", "BootstrapSkipped"})
                    [] x.status = "StoppedOnWorkItemCancellation" -> EndsIn({"Cancelled"})
                    [] x.status = "StoppedOnWorkItemFailure" -> EndsIn({"Failed"})
                    [] OTHER -> EndsIn({"UpdatedCleanupFailed", "NoChangeCleanupFailed"})

\* A decision is kept with the item of its target, and a skipped item was
\* given up by all its roots.
BootstrapSnapshotsAreConsistent(its, x) ==
    \A k \in DOMAIN its :
       /\ x.items[k].decision # "None" =>
             /\ its[k].bootstrap
             /\ x.items[k].decision = "Accepted" <=> x.items[k].status # "BootstrapSkipped"
       /\ its[k].bootstrap /\ x.items[k].decision = "None" =>
             /\ x.phase = "BootstrapDecisions"
             /\ x.items[k].status \in {"NotAttempted", "Cancelled"}
       /\ x.items[k].status = "BootstrapSkipped" =>
             \A r \in its[k].roots : \E j \in DOMAIN its :
                /\ its[j].bootstrap /\ r \in its[j].roots
                /\ x.items[j].decision \notin {"None", "Accepted"}

ChildContribution(child) ==
    CASE child = "Installed" -> "Updated"
      [] child = "SkippedAsNeeded" -> "NoChange"
      [] child = "InstalledCleanupFailed" -> "UpdatedCleanupFailed"
      [] child = "SkippedAsNeededCleanupFailed" -> "NoChangeCleanupFailed"
      [] OTHER -> child

\* What item k means for its targets: one contribution per child, or the
\* status of the item when nothing of it was completed.
Contributions(x, k) ==
    IF x.items[k].status \in {"Cancelled", "Failed", "NotAttempted"}
    THEN {x.items[k].status}
    ELSE {ChildContribution(x.items[k].children[c]) : c \in Children}

ContributingItems(its, t) == {k \in DOMAIN its : t \in its[k].roots}

Priority == <<{"UpdatedCleanupFailed"}, {"NoChangeCleanupFailed"},
              {"Cancelled", "Failed"}, {"NotAttempted"}, {"Updated"}, {"NoChange"}>>

\* The decisive contribution: what went wrong outranks what is missing, and
\* that outranks what was done.
Fold(all) ==
    IF all \subseteq {"BootstrapSkipped"} THEN "NotAttempted"
    ELSE LET p == CHOOSE i \in DOMAIN Priority :
                    /\ Priority[i] \cap all # {}
                    /\ \A j \in 1..(i - 1) : Priority[j] \cap all = {}
         IN CHOOSE s \in Priority[p] \cap all : TRUE

FoldTarget(its, x, t) ==
    IF its[t].bootstrap /\ x.items[t].decision \notin {"None", "Accepted"}
    THEN "Skipped"
    ELSE Fold(UNION {Contributions(x, k) : k \in ContributingItems(its, t)})

TargetsOf(its) == UNION {its[k].roots : k \in DOMAIN its}

\* An item says who it was for and why it failed, and each of its children
\* ended in a way that the item allows.
WorkItemResultConsistent(it, r) ==
    /\ HasConsistentFailureKind(r) /\ FailurePayloadIsConsistent(r)
    /\ it.roots # {}

ChildrenConsistent(r) ==
    /\ WorkItemChildOutcomesAreConsistent(r)
    /\ \A c \in Children : RetainsInstall(r, c) \/ r.children[c] \in AllowedChildren(r.status)

Reduce(its, x) ==
    LET issues == \/ ~InvocationResultIsConsistent(x)
                  \/ ~BootstrapSnapshotsAreConsistent(its, x)
                  \/ \E k \in DOMAIN its : \/ ~WorkItemResultConsistent(its[k], x.items[k])
                                           \/ ~ChildrenConsistent(x.items[k])
        targets == [t \in TargetsOf(its) |-> FoldTarget(its, x, t)]
        uncertain == \/ x.providers.psc = "Unknown"
                     \/ \E t \in TargetsOf(its) : targets[t] = "Skipped"
                     \/ \E k \in DOMAIN its : \/ x.items[k].txn
                                              \/ x.items[k].op \notin {"None", "NotAttempted"}
    IN [status |-> IF issues THEN "InconsistentResult" ELSE x.status,
        targets |-> targets,
        providers |-> x.providers.status,
        psc |-> IF \/ PackagesInstalled(x)
                   \/ \E t \in TargetsOf(its) :
                         targets[t] \in {"Updated", "UpdatedCleanupFailed"}
                THEN "Changed" ELSE IF uncertain THEN "Unknown" ELSE "NoChange"]

ReducedCleanupFailure(r) ==
    \/ r.status = "StoppedAfterPackageCleanupFailure"
    \/ \E t \in DOMAIN r.targets :
          r.targets[t] \in {"UpdatedCleanupFailed", "NoChangeCleanupFailed"}

ReducedNotAttempted(r) == \E t \in DOMAIN r.targets : r.targets[t] = "NotAttempted"

ReducedSuccess(r) ==
    /\ r.status = "Completed" /\ r.providers \in {"NotRequired", "Succeeded"}
    /\ \A t \in DOMAIN r.targets : r.targets[t] \in {"Updated", "NoChange", "Skipped"}

ReducedPartial(r) ==
    ~ReducedSuccess(r) /\ (r.psc = "Changed" \/ r.providers = "Succeeded")
=============================================================================
