------------------------ MODULE SystemSourceUpgrade ------------------------
(***************************************************************************)
(* The upgrade of the system followed by the registered source packages:   *)
(* prepare_system_source_upgrade and execute_prepared_system_source_upgrade*)
(* (system_source_upgrade.cpp), with the calls they make into              *)
(* source_install.cpp and source_build.cpp.                                *)
(*                                                                         *)
(* The world is the local package database: the version and the origin of  *)
(* every registered package and one version for everything else.  pacman   *)
(* and the builds change it, whether or not they say so; what the          *)
(* invocation reports is result.  Sources are visited in the order of the  *)
(* preference directory.                                                   *)
(***************************************************************************)
EXTENDS Naturals

CONSTANTS
    N,          \* number of registered sources
    MaxVer      \* highest package version

ASSUME UpgradeAssumption == N \in Nat /\ MaxVer \in Nat \ {0}

Sources == 1..N
Versions == 0..MaxVer           \* 0: not installed
NoVersion == 0                  \* a recipe whose version cannot be read
SystemPhase == 0
ProviderPhase == N + 1          \* the phases that change packages, with Sources

VARIABLES
    stage,      \* where the invocation is
    pos,        \* the source it is about to execute
    kind,       \* what each source resolves to
    recipe,     \* the version each source's recipe would build
    db,         \* installed version and origin of each registered package
    other,      \* version of everything else
    before,     \* local package versions before the system upgrade, if known
    baseline,   \* installed versions recorded before the system upgrade
    installed,  \* installed versions recorded after it
    result,     \* what the invocation reports
    changed,    \* history: the phases that really changed packages
    replaced    \* history: the packages the system upgrade replaced

vars == <<stage, pos, kind, recipe, db, other, before, baseline, installed,
          result, changed, replaced>>
world == <<db, other, changed, replaced>>
plan == <<kind, recipe>>
seen == <<before, baseline, installed>>

Changes == {"NoChange", "Changed", "Unknown"}
SourceStatuses == {"Updated", "NoChange", "Failed", "UpdatedCleanupFailed",
                   "NotAttempted", "Incomplete"}
SourceResults == [status : SourceStatuses, psc : Changes]
NotAttempted == [status |-> "NotAttempted", psc |-> "NoChange"]
NotYet == [taken |-> FALSE, failed |-> FALSE]
Unavailable == [taken |-> FALSE, failed |-> TRUE]
Snapshot == [taken |-> TRUE, db |-> [i \in Sources |-> db[i].ver], other |-> other]

Prepared == {"enumerate", "load", "resolve", "plan", "items", "invocation",
             "baseline"}
Executing == {"system", "observe", "check", "providers", "source"}

TypeOK ==
    /\ stage \in Prepared \cup Executing \cup {"execute", "done", "stopped"}
    /\ pos \in 1..(N + 1)
    /\ kind \in [Sources -> {"repository", "aur"}]
    /\ recipe \in [Sources -> Versions]
    /\ db \in [Sources -> [ver : Versions, origin : {"source", "binary"}]]
    /\ other \in Versions
    /\ before \in {NotYet, Unavailable} \/ before.taken
    /\ baseline \in [Sources -> Versions] /\ installed \in [Sources -> Versions]
    /\ result \in [status : {"Completed", "BlockedBeforeMutation",
                             "StoppedOnSystemFailure", "StoppedOnSourceFailure",
                             "StoppedAfterSourceCleanupFailure",
                             "InconsistentResult"},
                   system : [status : {"NotAttempted", "Completed", "Failed"},
                             psc : Changes],
                   providers : [status : {"NotAttempted", "Succeeded", "Failed",
                                          "BlockedBeforeExecution"},
                                psc : Changes],
                   sources : [Sources -> SourceResults],
                   blocked : BOOLEAN]
    /\ changed \subseteq Sources \cup {SystemPhase, ProviderPhase}
    /\ replaced \subseteq Sources

\* Every result starts with nothing attempted and one entry per source.
FreshResult ==
    [status |-> "Completed",
     system |-> [status |-> "NotAttempted", psc |-> "NoChange"],
     providers |-> [status |-> "NotAttempted", psc |-> "NoChange"],
     sources |-> [i \in Sources |-> NotAttempted],
     blocked |-> FALSE]

Init ==
    /\ stage = "enumerate" /\ pos = 1
    /\ kind \in [Sources -> {"repository", "aur"}]
    /\ recipe \in [Sources -> Versions]
    /\ db \in [Sources -> {[ver |-> v, origin |-> "source"] : v \in 0..1}]
    /\ other = 0
    /\ before = NotYet
    /\ baseline = [i \in Sources |-> 0] /\ installed = [i \in Sources |-> 0]
    /\ result = FreshResult
    /\ changed = {} /\ replaced = {}

Goto(s) == stage' = s

(***************************************************************************)
(* Preparation.  Every stage either leads to the next one or blocks the    *)
(* invocation before anything is changed; a failure that belongs to one    *)
(* source marks that source.                                               *)
(***************************************************************************)
BlockPreparation(where) ==
    /\ result' = [result EXCEPT
                    !.status = "BlockedBeforeMutation", !.blocked = TRUE,
                    !.sources = [i \in Sources |->
                                    IF i \in where
                                    THEN [NotAttempted EXCEPT !.status = "Incomplete"]
                                    ELSE @[i]]]
    /\ Goto("done")
    /\ UNCHANGED <<pos, plan, world, seen>>

PrepareStep(from, to) ==
    /\ stage = from
    /\ Goto(to)
    /\ UNCHANGED <<pos, plan, world, seen, result>>

\* The directory is listed; an entry that is no file, or whose name is no
\* package name, blocks.  So do options that source builds do not support.
EnumeratePreferences ==
    \/ PrepareStep("enumerate", "load")
    \/ stage = "enumerate" /\ BlockPreparation({})

\* Each preference is read strictly, in order; the first failure blocks.
LoadPreferences ==
    \/ PrepareStep("load", "resolve")
    \/ /\ stage = "load"
       /\ \E i \in Sources : BlockPreparation({i})

ResolveIdentities ==
    \/ PrepareStep("resolve", "plan")
    \/ /\ stage = "resolve"
       /\ \E i \in Sources : BlockPreparation({i})

AurSources == {i \in Sources : kind[i] = "aur"}
First(S) == {i \in S : \A j \in S : i <= j}

\* One plan for all AUR sources; its failure is attributed to the first of
\* them.  A confirmation of a patch may stop the whole command.
PlanAurSources ==
    \/ PrepareStep("plan", "items")
    \/ stage = "plan" /\ AurSources # {} /\ BlockPreparation(First(AurSources))
    \/ /\ stage = "plan" /\ AurSources # {}
       /\ Goto("stopped")
       /\ UNCHANGED <<pos, plan, world, seen, result>>

PrepareWorkItems ==
    \/ PrepareStep("items", IF N = 0 THEN "baseline" ELSE "invocation")
    \/ /\ stage = "items"
       /\ \E i \in Sources : BlockPreparation({i})

PrepareInvocation ==
    \/ PrepareStep("invocation", "baseline")
    \/ stage = "invocation" /\ BlockPreparation({})

\* The versions installed now: of every source (a failure blocks), then of
\* all packages (a failure is recorded and only costs the comparison).
SnapshotBaselines ==
    /\ stage = "baseline"
    /\ \/ /\ baseline' = [i \in Sources |-> db[i].ver]
          /\ before' \in {Snapshot, Unavailable}
          /\ Goto("execute")
          /\ UNCHANGED <<pos, plan, world, installed, result>>
       \/ \E where \in {{}} \cup {{i} : i \in Sources} :
             N > 0 /\ BlockPreparation(where)

(***************************************************************************)
(* Execution                                                               *)
(***************************************************************************)
Stop(status, new) ==
    /\ result' = [new EXCEPT !.status = status]
    /\ Goto("done")

\* The options and the correlation of sources with work items are checked
\* again, and the cache authority is activated.
BeginExecution ==
    /\ stage = "execute"
    /\ \/ Goto("system") /\ UNCHANGED <<pos, plan, world, seen, result>>
       \/ /\ Stop("InconsistentResult", [result EXCEPT !.blocked = TRUE])
          /\ UNCHANGED <<pos, plan, world, seen>>
       \/ N > 0 /\ BlockPreparation({})

\* What pacman -Syu may have done to the database when it ends.
SystemTransaction ==
    \/ UNCHANGED world
    \/ /\ other' \in {v \in Versions : v > other}
       /\ changed' = changed \cup {SystemPhase}
       /\ UNCHANGED <<db, replaced>>
    \/ \E i \in Sources, v \in Versions :
          /\ kind[i] = "repository" /\ v > db[i].ver
          /\ db' = [db EXCEPT ![i] = [ver |-> v, origin |-> "binary"]]
          /\ changed' = changed \cup {SystemPhase}
          /\ replaced' = replaced \cup {i}
          /\ UNCHANGED other

RunSystemUpgrade ==
    /\ stage = "system"
    /\ SystemTransaction
    /\ \/ /\ result' = [result EXCEPT !.system.status = "Completed"]
          /\ Goto("observe")
       \/ Stop("StoppedOnSystemFailure",
               [result EXCEPT !.system = [status |-> "Failed", psc |-> "Unknown"]])
    /\ UNCHANGED <<pos, plan, seen>>

\* Mutant: a missing snapshot counts as an equal one.
Mutant_SystemChange(after) ==
    IF before.taken /\ after.taken /\ before # after THEN "Changed" ELSE "NoChange"

SystemChange(after) ==
    IF ~before.taken \/ ~after.taken THEN "Unknown"
    ELSE IF before = after THEN "NoChange" ELSE "Changed"

\* After the system upgrade the database is read again.  The comparison of
\* all packages may fail alone; when the session fails, sources cannot go on.
ObserveSystem ==
    /\ stage = "observe"
    /\ \/ \E after \in {Snapshot, Unavailable} :
             /\ result' = [result EXCEPT !.system.psc = SystemChange(after)]
             /\ installed' = [i \in Sources |-> db[i].ver]
             /\ Goto("check")
       \/ /\ N > 0
          /\ \E psc \in {"Unknown", SystemChange(Snapshot)} :
                Stop("StoppedOnSourceFailure",
                     [result EXCEPT !.system.psc = psc, !.blocked = TRUE])
          /\ UNCHANGED installed
    /\ UNCHANGED <<pos, plan, world, before, baseline>>

\* No source is executed unless the installed version of each was read.
CheckInstalledVersions ==
    /\ stage = "check"
    /\ \/ Goto("providers") /\ UNCHANGED result
       \/ \E i \in Sources :
             Stop("StoppedOnSourceFailure",
                  [result EXCEPT !.blocked = TRUE,
                                 !.sources[i].status = "Incomplete"])
    /\ UNCHANGED <<pos, plan, world, seen>>

\* One transaction installs the repository providers that were selected for
\* dependencies of the sources (there may be none).
RunProviders ==
    /\ stage = "providers"
    /\ \/ /\ Goto("source") /\ UNCHANGED <<world, result>>
       \/ /\ N > 0
          /\ \/ changed' = changed \cup {ProviderPhase} /\ other' \in Versions
             \/ UNCHANGED <<changed, other>>
          /\ \/ /\ result' = [result EXCEPT !.providers =
                                [status |-> "Succeeded", psc |-> "Unknown"]]
                /\ Goto("source")
             \/ Stop("StoppedOnSourceFailure",
                     [result EXCEPT !.providers =
                        [status |-> "Failed", psc |-> "Unknown"]])
          /\ UNCHANGED <<db, replaced>>
       \/ /\ N > 0
          /\ Stop("StoppedOnSourceFailure",
                  [result EXCEPT !.providers =
                     [status |-> "BlockedBeforeExecution", psc |-> "NoChange"]])
          /\ UNCHANGED world
    /\ UNCHANGED <<pos, plan, seen>>

\* Mutant: the version before the system upgrade is not looked at.
Mutant_CheckUpdateVersion(new, now, base) ==
    IF now = 0 THEN "NeedsBuild"
    ELSE IF new = NoVersion THEN "Unknown"
    ELSE IF new > now THEN "NeedsBuild" ELSE "UpToDate"

\* check_update_version: an equal version still needs a build if the system
\* upgrade has just installed it, since it is then not the one built here.
CheckUpdateVersion(new, now, base) ==
    IF now = 0 THEN "NeedsBuild"
    ELSE IF new = NoVersion THEN "Unknown"
    ELSE IF new > now THEN "NeedsBuild"
    ELSE IF new = now /\ base # now THEN "NeedsBuild"
    ELSE "UpToDate"

\* A repository source compares with the baseline; an AUR source has none,
\* and its answer may come from the VCS assessment instead.
UpdateChecks(i) ==
    IF kind[i] = "repository"
    THEN {CheckUpdateVersion(recipe[i], installed[i], baseline[i])}
    ELSE {CheckUpdateVersion(recipe[i], installed[i], installed[i])}
         \cup IF installed[i] > 0
              THEN {"NeedsBuild", "RequiresCheck", "UpToDate", "NotAuthoritative"}
              ELSE {}

Record(i, status, psc) ==
    [result EXCEPT !.sources[i] = [status |-> status, psc |-> psc]]

NextSource(new) ==
    /\ result' = new
    /\ pos' = pos + 1
    /\ UNCHANGED stage

StopAt(status, new) == Stop(status, new) /\ UNCHANGED pos

\* The source is up to date, its status is unknown and the user (or
\* --noconfirm) declines, or its authoritative assessment is incomplete.
SkipSource(i) ==
    \E check \in UpdateChecks(i) :
       \/ /\ check = "UpToDate"
          /\ NextSource(Record(i, "NoChange", "NoChange"))
       \/ /\ check \in {"Unknown", "RequiresCheck"}
          /\ NextSource(Record(i, "Incomplete", "NoChange"))
       \/ /\ check = "NotAuthoritative"
          /\ StopAt("StoppedOnSourceFailure", Record(i, "Incomplete", "NoChange"))

WillBuild(i) == UpdateChecks(i) \cap {"NeedsBuild", "Unknown", "RequiresCheck"} # {}

\* The user answered a question of a source by stopping: the exception leaves
\* execute_prepared_system_source_upgrade without a result.
ConfirmationStops ==
    /\ stage = "source" /\ pos <= N
    /\ Goto("stopped")
    /\ UNCHANGED <<pos, plan, world, seen, result>>

Install(i) ==
    /\ db' = [db EXCEPT ![i] = [ver |-> IF recipe[i] = NoVersion THEN MaxVer
                                        ELSE recipe[i],
                                origin |-> "source"]]
    /\ changed' = changed \cup {i}
    /\ UNCHANGED <<other, replaced>>

SourceFails(i, psc) == StopAt("StoppedOnSourceFailure", Record(i, "Failed", psc))

\* The result of a repository source names another package base, or other
\* packages, versions or reasons than its work item asked for.
CorrelationFails(i) == kind[i] = "repository" /\ SourceFails(i, "Unknown")

\* The workspace of a build that was installed could not be removed.
CleanupFails(i) ==
    StopAt("StoppedAfterSourceCleanupFailure",
           Record(i, "UpdatedCleanupFailed", "Changed"))

BuildInstalls(i) ==
    /\ Install(i)
    /\ \/ NextSource(Record(i, "Updated", "Changed"))
       \/ CorrelationFails(i)
       \/ CleanupFails(i)

\* Review, metadata, build, validation or preparation failed.
PhaseFails(i) == SourceFails(i, "Unknown")

\* Only the version guard is known to come before the transaction.
GuardFails(i) == kind[i] = "aur" /\ SourceFails(i, "NoChange")

\* The cache root was replaced: that is an issue of the whole invocation.
CacheFails(i) ==
    StopAt("StoppedOnSourceFailure",
           [Record(i, "Failed", "Unknown") EXCEPT !.blocked = TRUE])

\* A patch could not be saved, or an exception that no handler names.
OtherwiseFails(i) == SourceFails(i, "Unknown")

\* Nothing was installed.
BuildFails(i) ==
    /\ UNCHANGED world
    /\ PhaseFails(i) \/ GuardFails(i) \/ CacheFails(i) \/ OtherwiseFails(i)

\* The transaction reported a failure, or what was installed by the
\* authoritative route could not be recorded; packages may have changed.
InstallFails(i) ==
    /\ Install(i) \/ UNCHANGED world
    /\ SourceFails(i, "Unknown")

AuthoritativeIncomplete(i) ==
    /\ kind[i] = "aur"
    /\ \/ /\ Install(i)
          /\ StopAt("StoppedOnSourceFailure", Record(i, "Incomplete", "Changed"))
       \/ /\ UNCHANGED world
          /\ StopAt("StoppedOnSourceFailure", Record(i, "Incomplete", "NoChange"))
       \/ /\ Install(i) \/ UNCHANGED world
          /\ StopAt("StoppedOnSourceFailure", Record(i, "Incomplete", "Unknown"))

ExecuteSource ==
    /\ stage = "source" /\ pos <= N
    /\ \/ SkipSource(pos) /\ UNCHANGED world
       \/ /\ WillBuild(pos)
          /\ \/ BuildInstalls(pos) \/ BuildFails(pos)
             \/ InstallFails(pos) \/ AuthoritativeIncomplete(pos)
    /\ UNCHANGED <<plan, seen>>

AllSourcesDone ==
    /\ stage = "source" /\ pos > N
    /\ Goto("done")
    /\ UNCHANGED <<pos, plan, world, seen, result>>

\* An exception nobody expected, anywhere between the stages of execution:
\* what was not finished is reported as unknown.
UnexpectedFailure ==
    /\ stage \in Executing
    /\ \E active \in BOOLEAN : LET s == result.system IN
       result' = [result EXCEPT
          !.status = "InconsistentResult",
          !.system = IF stage = "system"
                     THEN [status |-> "Failed", psc |-> "Unknown"]
                     ELSE IF stage = "observe" THEN [s EXCEPT !.psc = "Unknown"]
                     ELSE s,
          !.sources = [i \in Sources |->
             IF active /\ stage = "source" /\ i = pos /\ @[i].status = "NotAttempted"
             THEN [status |-> "Incomplete", psc |-> "Unknown"] ELSE @[i]]]
    /\ Goto("done")
    /\ UNCHANGED <<pos, plan, world, seen>>

Next ==
    \/ EnumeratePreferences \/ LoadPreferences \/ ResolveIdentities
    \/ PlanAurSources \/ PrepareWorkItems \/ PrepareInvocation
    \/ SnapshotBaselines \/ BeginExecution \/ RunSystemUpgrade
    \/ ObserveSystem \/ CheckInstalledVersions \/ RunProviders
    \/ ExecuteSource \/ ConfirmationStops \/ AllSourcesDone
    \/ UnexpectedFailure

Spec == Init /\ [][Next]_vars

(***************************************************************************)
(* What the result says                                                    *)
(***************************************************************************)
NonSuccess(status) == status \notin {"Updated", "NoChange"}

IsSuccess ==
    /\ result.status = "Completed"
    /\ result.providers.status \in {"NotAttempted", "Succeeded"}
    /\ ~result.blocked
    /\ \A i \in Sources : ~NonSuccess(result.sources[i].status)

PackageStateChange ==
    LET parts == {result.system.psc, result.providers.psc}
                 \cup {result.sources[i].psc : i \in Sources}
    IN IF "Changed" \in parts THEN "Changed"
       ELSE IF "Unknown" \in parts THEN "Unknown" ELSE "NoChange"
=============================================================================
