-------------------------- MODULE SystemAurUpdate --------------------------
(***************************************************************************)
(* The system update of -Syu and -Su (system_aur_update_operation.cpp):    *)
(* the repository transaction, a fresh inventory of foreign packages and   *)
(* the AUR updates.  When an installed foreign package pins the version of *)
(* a repository package that the repositories have moved past, and its AUR *)
(* replacement pins the new one (cross_source_version_lock*.cpp), a        *)
(* coordinated transition is offered instead: remove the foreign package,  *)
(* upgrade, build the replacement, verify.                                 *)
(*                                                                         *)
(* The package database, the repositories and the AUR are shared with the  *)
(* rest of the machine: their reads are separate steps, and other programs *)
(* may change them in between.  pacman and the AUR operation are known by  *)
(* what they promise; any of their calls may fail.                         *)
(***************************************************************************)
EXTENDS Integers, FiniteSets

CONSTANTS
    Foreign,     \* the packages that are not of a repository
    Libs,        \* the repository packages that may be pinned
    Plain,       \* other installed packages
    SysWorlds,   \* the initial states of database, repositories and AUR
    SysFaults,   \* what may go wrong in one observation of the packages
    MaxMishaps   \* observations that go wrong, and changes by other programs

Packages == Foreign \cup Libs \cup Plain

Requirements == [on : Packages, rel : STRING, ver : Nat]

\* A package of a world is absent, or installed with what is known of it.
ASSUME SysAssumption ==
    \A w \in SysWorlds :
       w.inst \in [Packages -> {<<>>} \cup
          [{1} -> [ver : Nat, needs : SUBSET Requirements,
                   provides : SUBSET Packages, reason : STRING]]]

VARIABLES
    inst,     \* the installed packages
    sync,     \* the versions of Libs in the local copy of the repositories, 0: none
    mirror,   \* the versions a refresh brings
    aurDb,    \* the AUR's recipes of Foreign
    sys,      \* the operation: mode, stage, the observation under way
    trans,    \* the coordinated transition, if one is executed
    sysRes,   \* the result of the operation
    sysDone,  \* what really happened to packages: removed, synced, aur
    mishaps   \* faults of observations and changes by other programs so far

worldVars == <<inst, sync, mirror, aurDb>>
sysVars == <<inst, sync, mirror, aurDb, sys, trans, sysRes, sysDone, mishaps>>

(***************************************************************************)
(* Requirements and who satisfies them                                     *)
(***************************************************************************)
\* A requirement names a package, a relation and a version.
Meets(req, ver) ==
    CASE req.rel = "any" -> TRUE
      [] req.rel = "=" -> ver = req.ver
      [] req.rel = ">=" -> ver >= req.ver
      [] req.rel = "<" -> ver < req.ver
      [] OTHER -> FALSE

Present(d, p) == d[p] # <<>>
Installed(d) == {p \in Packages : Present(d, p)}

\* The names a package answers to: its own and those it provides.
HasComponentIdentity(d, p, name) == name \in {p} \cup d[p][1].provides

\* What is provided carries no version, and so meets no versioned requirement.
InstalledPackageSatisfies(d, p, req) ==
    \/ p = req.on /\ Meets(req, d[p][1].ver)
    \/ req.on \in d[p][1].provides /\ req.rel = "any"

\* Every requirement on the package in a database is met without it.
Broken(d) ==
    {b \in UNION {{p} \X d[p][1].needs : p \in Installed(d)} :
        IF b[2].rel = "so"
        THEN ~ \E q \in Installed(d) : HasComponentIdentity(d, q, b[2].on)
        ELSE ~ \E q \in Installed(d) : InstalledPackageSatisfies(d, q, b[2])}

Without(d, p) == [d EXCEPT ![p] = <<>>]

(***************************************************************************)
(* The observation of version locks.  Its reads come one after another.    *)
(***************************************************************************)
FreshObservation(purpose) ==
    [purpose |-> purpose, since |-> mishaps, status |-> "Complete", issues |-> {}, fault |-> "none",
     foreign |-> [p \in Foreign |-> <<>>], pkgs |-> [p \in Packages |-> <<>>],
     deps |-> [p \in Packages |-> <<>>], snapshot |-> <<>>, candidates |-> {},
     failure |-> FALSE]

\* A failure is final, a partial result only replaces a complete one.
Issue(o, kind, status) ==
    [o EXCEPT !.issues = @ \cup {kind},
              !.status = IF status = "Failed" \/ @ = "Complete" THEN status ELSE @]

Exact(req) == req.rel = "="

\* The snapshot that the plan keeps: complete only when both inventories
\* were, name the same packages in the same versions and can be parsed.
TransitionInstalledSnapshot(o) ==
    LET seen == Installed(o.pkgs)
        told == {p \in Packages : o.deps[p] # <<>>}
    IN [completeness |->
           IF \E p \in told : p \notin seen \/ o.deps[p][1].ver # o.pkgs[p][1].ver
                              \/ \E r \in o.deps[p][1].needs : r.rel = "bad"
           THEN "Invalid"
           ELSE IF o.status # "Complete" \/ Cardinality(seen) # Cardinality(told)
           THEN "Partial" ELSE "Complete",
        pkgs |-> [p \in Packages |-> IF p \in seen
                     THEN <<[ver |-> o.pkgs[p][1].ver, provides |-> o.pkgs[p][1].provides]>>
                     ELSE <<>>],
        needs |-> [p \in Packages |-> IF p \in told THEN <<o.deps[p][1].needs>> ELSE <<>>],
        foreign |-> o.foreign]

\* Why an installed foreign package is passed over, with an issue.
ConsumerIssue(o, c) ==
    IF ~Present(o.pkgs, c) \/ o.pkgs[c][1].ver # o.foreign[c][1].ver
    THEN "InstalledConsumerIdentityAmbiguous"
    ELSE IF o.deps[c] = <<>> THEN "InstalledRuntimeDependencyInventoryUnavailable"
    ELSE IF \E r \in o.deps[c][1].needs : r.rel = "bad" THEN "InstalledRuntimeDependencyInvalid"
    ELSE "none"

Consumers(o) == {c \in Foreign : o.foreign[c] # <<>>}
Pins(o, c, l) == {r \in o.deps[c][1].needs : Exact(r) /\ r.on = l}

\* The pins of a consumer that can be compared with a repository: one exact
\* requirement on an installed package of the repositories.
Seeds(o, c) ==
    {l \in Libs : /\ Cardinality(Pins(o, c, l)) = 1
                  /\ Present(o.pkgs, l) /\ o.fault # "repository" /\ sync[l] # 0}

ObserveAurReplacement(o, c) ==
    IF o.fault = "aurFailed" THEN [kind |-> "QueryFailure"]
    ELSE IF o.fault = "aurUnavailable" THEN [kind |-> "MetadataUnavailable"]
    ELSE IF aurDb[c] = <<>> THEN [kind |-> "NotFound"]
    ELSE [kind |-> "Success", recipe |-> aurDb[c][1]]

ConsumerIssues(o, c) ==
    IF ConsumerIssue(o, c) # "none" THEN {ConsumerIssue(o, c)}
    ELSE {k \in {"DuplicateInstalledRuntimeDependency", "RepositoryCandidateUnavailable",
                 "AurReplacementQueryFailure", "AurReplacementMetadataUnavailable"} :
            CASE k = "DuplicateInstalledRuntimeDependency" ->
                    \E l \in Libs : Cardinality(Pins(o, c, l)) > 1
              [] k = "RepositoryCandidateUnavailable" ->
                    o.fault = "repository"
                       /\ \E l \in Libs : Cardinality(Pins(o, c, l)) = 1 /\ Present(o.pkgs, l)
              [] k = "AurReplacementQueryFailure" -> Seeds(o, c) # {} /\ o.fault = "aurFailed"
              [] OTHER -> Seeds(o, c) # {} /\ o.fault = "aurUnavailable"}

Candidates(o) ==
    UNION {{[consumer |-> c, ver |-> o.pkgs[c][1].ver, lib |-> l,
             pin |-> CHOOSE r \in Pins(o, c, l) : TRUE,
             libVer |-> o.pkgs[l][1].ver, repoVer |-> sync[l],
             aur |-> ObserveAurReplacement(o, c)] : l \in Seeds(o, c)} :
           c \in {c \in Consumers(o) : ConsumerIssue(o, c) = "none"}}

(***************************************************************************)
(* Assessment of a candidate                                               *)
(***************************************************************************)
\* The upgrade of the repository package breaks the installed consumer.
Locks(cand) ==
    /\ cand.repoVer > cand.libVer
    /\ Meets(cand.pin, cand.libVer) /\ ~Meets(cand.pin, cand.repoVer)

MatchingRuntimeRequirements(cand) ==
    {r \in cand.aur.recipe.needs : r.on = cand.lib /\ r.rel # "so"}

AssessCandidate(cand) ==
    IF ~Locks(cand) THEN "Unknown"
    ELSE CASE cand.aur.kind = "QueryFailure" -> "QueryFailure"
           [] cand.aur.kind = "NotFound" -> "MissingReplacement"
           [] cand.aur.kind = "MetadataUnavailable" -> "Unknown"
           [] OTHER ->
                LET reqs == MatchingRuntimeRequirements(cand) IN
                IF reqs = {} THEN "Unknown"
                ELSE IF Cardinality(reqs) # 1 THEN "Ambiguous"
                ELSE IF \A r \in reqs : Meets(r, cand.repoVer)
                     THEN "CompatibleReplacement" ELSE "IncompatibleReplacement"

(***************************************************************************)
(* The plan of a coordinated transition                                    *)
(***************************************************************************)
\* Whether the other packages can do without the consumer.
AssessBoundedRemoval(snap, removed) ==
    LET d == snap.pkgs
        affected == UNION {{r \in snap.needs[p][1] : HasComponentIdentity(d, removed, r.on)} :
                           p \in {p \in Packages \ {removed} : snap.needs[p] # <<>>}}
    IN IF \E r \in affected : r.rel = "so" THEN "Unsupported"
       ELSE IF \E r \in affected :
            ~ \E q \in Installed(d) \ {removed} : InstalledPackageSatisfies(d, q, r)
       THEN "Blocked" ELSE "PreservesRuntimeDependencies"

HasConsistentInstalledSnapshot(snap, cand) ==
    /\ snap.completeness = "Complete"
    /\ \A p \in Packages : (snap.pkgs[p] # <<>>) = (snap.needs[p] # <<>>)
    /\ snap.pkgs[cand.consumer] # <<>> /\ snap.pkgs[cand.consumer][1].ver = cand.ver
    /\ snap.pkgs[cand.lib] # <<>> /\ snap.pkgs[cand.lib][1].ver = cand.libVer
    /\ cand.pin \in snap.needs[cand.consumer][1]

\* Status and reason of the plan for one candidate.
ClassifyTransition(o, cand) ==
    LET status == AssessCandidate(cand)
        snap == o.snapshot[1]
        reqs == MatchingRuntimeRequirements(cand)
        removal == AssessBoundedRemoval(snap, cand.consumer)
    IN CASE status = "MissingReplacement" -> <<"Blocked", "ReplacementMissing">>
         [] status = "QueryFailure" -> <<"Incomplete", "ReplacementQueryFailure">>
         [] status = "IncompatibleReplacement" -> <<"Blocked", "IncompatibleReplacement">>
         [] status = "Ambiguous" -> <<"Ambiguous", "AmbiguousIdentity">>
         [] status = "Unknown" -> <<"Incomplete", "ExactRequirementUnavailable">>
         [] OTHER ->
              IF o.status # "Complete" \/ o.issues # {} THEN <<"Incomplete", "IncompleteObservation">>
              ELSE IF \E r \in reqs : ~Exact(r)
              THEN <<"Unsupported", "ExactRequirementUnavailable">>
              ELSE IF o.snapshot = <<>> \/ ~HasConsistentInstalledSnapshot(snap, cand)
              THEN <<"Incomplete", "IncompleteInstalledInventory">>
              ELSE IF snap.foreign[cand.consumer][1].ver # cand.ver
              THEN <<"Ambiguous", "AmbiguousIdentity">>
              ELSE IF snap.foreign[cand.consumer][1].reason \notin {"Explicit", "Dependency"}
              THEN <<"Incomplete", "InstalledReasonUnknown">>
              ELSE IF cand.aur.recipe.relations
              THEN <<"Unsupported", "ReplacementRelationsRequireAssessment">>
              ELSE CASE removal = "Blocked" -> <<"Blocked", "ReverseDependency">>
                     [] removal = "Unsupported" -> <<"Unsupported", "UnsupportedRuntimeDependency">>
                     [] OTHER -> <<"ReadOnlyReady", "None">>

\* More than one blocked upgrade is left to the user.
PlanTransitions(o) ==
    LET blockers == {cand \in o.candidates : Locks(cand)}
    IN {[cand |-> cand, snapshot |-> o.snapshot,
         status |-> IF Cardinality(blockers) > 1 THEN "Unsupported"
                    ELSE ClassifyTransition(o, cand)[1]] : cand \in blockers}

\* The plan that may be executed, if there is one.
ReadyTransition(o) ==
    LET ready == {p \in PlanTransitions(o) : p.status = "ReadOnlyReady"}
    IN IF o.failure \/ Cardinality(PlanTransitions(o)) # 1 THEN <<>>
       ELSE IF ready = {} THEN <<>> ELSE <<CHOOSE p \in ready : TRUE>>

(***************************************************************************)
(* Results                                                                 *)
(***************************************************************************)
\* The phases of a transition: 1 confirmation, 2 revalidation, 3 removal,
\* 4 system upgrade, 5 its post-state, 6 AUR authority, 7 AUR replacement,
\* 8 install reason, 9 post-state.
NoTransition == [on |-> FALSE]
FreshTransition(plan) ==
    [on |-> TRUE, plan |-> plan, phase |-> 1, failed |-> FALSE, complete |-> FALSE,
     metadataFailure |-> FALSE, aurResult |-> <<>>, queryFailure |-> FALSE,
     consumer |-> "unseen", final |-> <<>>]

\* Mutant: a phase counts as done when it begins.
Mutant_PhaseStatus(t, k) == IF t.complete \/ k <= t.phase THEN "Completed" ELSE "NotAttempted"

\* What a phase is reported as: the phases before the current one are
\* Completed, the current one is Failed until it is done.
PhaseStatus(t, k) ==
    IF t.complete \/ k < t.phase THEN "Completed"
    ELSE IF k = t.phase THEN "Failed" ELSE "NotAttempted"
RemovalCompleted(t) == PhaseStatus(t, 3) = "Completed"

FreshSystemResult ==
    [status |-> "InconsistentResult", phase |-> "Reduction",
     repo |-> "NotAttempted", exit |-> <<>>,
     inventory |-> "NotAttempted", query |-> "NotAttempted", hasQuery |-> FALSE,
     queryFails |-> FALSE, aur |-> "NotAttempted", op |-> <<>>,
     reasons |-> [inventory |-> "none", query |-> "none", aur |-> "none", repo |-> "none"]]

\* The results of the AUR operation: status, what changed, and whether all
\* of it is well.
FilteredResults ==
    {r \in [status : {"NoUpdates", "Completed", "BlockedBeforeExecution",
                      "StoppedOnProviderTransactionFailure", "StoppedOnWorkItemCancellation",
                      "StoppedOnWorkItemFailure", "StoppedAfterPackageCleanupFailure",
                      "InconsistentResult"},
            psc : {"NoChange", "Changed", "Unknown"}, queryFailure : BOOLEAN] :
        /\ r.status \in {"NoUpdates", "BlockedBeforeExecution"} => r.psc = "NoChange"
        /\ r.status = "StoppedAfterPackageCleanupFailure" => r.psc = "Changed"
        /\ r.queryFailure => r.status = "BlockedBeforeExecution"}

FilteredSuccess(r) == r.status \in {"NoUpdates", "Completed"} /\ ~r.queryFailure
FilteredInconsistent(r) == r.status = "InconsistentResult"

ProjectedAurPhaseStatus(r) ==
    IF r.queryFailure THEN "BlockedBeforeExecution"
    ELSE IF r.status = "StoppedAfterPackageCleanupFailure" THEN "StoppedAfterCleanupFailure"
    ELSE r.status

TransSuccess(t) == t.complete /\ ~t.metadataFailure
                   /\ t.aurResult # <<>> /\ FilteredSuccess(t.aurResult[1])
TransPartial(t) == ~TransSuccess(t) /\ RemovalCompleted(t)

MarkLater(r, reason) ==
    [r EXCEPT !.query = "NotAttempted", !.aur = "NotAttempted",
              !.reasons.query = reason, !.reasons.aur = reason]

RepositoryFailed(r, exit) ==
    MarkLater([r EXCEPT !.repo = "Failed", !.exit = exit, !.inventory = "NotAttempted",
                        !.reasons.inventory = "RepositoryFailure"], "RepositoryFailure")

InventoryFailed(r) ==
    MarkLater([r EXCEPT !.inventory = "Failed"], "ForeignInventoryFailure")

MarkAllNotAttempted(r) ==
    MarkLater([r EXCEPT !.reasons.repo = "PriorAggregateInconsistency",
                        !.reasons.inventory = "PriorAggregateInconsistency"],
              "PriorAggregateInconsistency")

Inconsistent(r, phase) ==
    [r EXCEPT !.status = "InconsistentResult", !.phase = phase,
              !.aur = IF r.op # <<>> \/ @ # "NotAttempted" THEN "InconsistentResult" ELSE @]
StoppedAt(r, status, phase) == [r EXCEPT !.status = status, !.phase = phase]

RepositoryFailureTail(r) ==
    /\ r.inventory = "NotAttempted" /\ r.reasons.inventory = "RepositoryFailure"
    /\ r.query = "NotAttempted" /\ r.reasons.query = "RepositoryFailure"
    /\ r.aur = "NotAttempted" /\ r.reasons.aur = "RepositoryFailure"
    /\ ~r.hasQuery /\ r.op = <<>>
InventoryFailureTail(r) ==
    /\ r.query = "NotAttempted" /\ r.reasons.query = "ForeignInventoryFailure"
    /\ r.aur = "NotAttempted" /\ r.reasons.aur = "ForeignInventoryFailure"
    /\ ~r.hasQuery /\ r.op = <<>>

\* The status of an AUR operation that returned.
ReduceFiltered(r) ==
    LET f == r.op[1]
        s == [r EXCEPT !.aur = ProjectedAurPhaseStatus(f)]
    IN IF r.reasons.aur # "none" \/ FilteredInconsistent(f)
          \/ r.aur \notin {"NotAttempted", ProjectedAurPhaseStatus(f)}
          \/ (r.query = "Failed") # f.queryFailure
       THEN Inconsistent(r, "Reduction")
       ELSE IF r.query = "Failed" THEN StoppedAt(s, "StoppedBeforeAurExecution", "AurQuery")
       ELSE CASE f.status \in {"NoUpdates", "Completed"} ->
                    IF FilteredSuccess(f) THEN StoppedAt(s, "Completed", "None")
                    ELSE Inconsistent(r, "Reduction")
              [] f.status = "BlockedBeforeExecution" ->
                    StoppedAt(s, "StoppedBeforeAurExecution", "AurPreparation")
              [] f.status = "StoppedOnWorkItemCancellation" ->
                    StoppedAt(s, "StoppedOnAurCancellation", "AurExecution")
              [] f.status = "StoppedAfterPackageCleanupFailure" ->
                    StoppedAt(s, "StoppedAfterAurCleanupFailure", "AurExecution")
              [] OTHER -> StoppedAt(s, "StoppedOnAurFailure", "AurExecution")

ReduceSystemAurUpdate(r, t) ==
    IF t.on THEN
       [r EXCEPT !.status = IF TransSuccess(t) THEN "Completed"
                            ELSE "StoppedOnCoordinatedTransition",
                 !.phase = IF TransSuccess(t) THEN "None" ELSE "CoordinatedTransition",
                 !.repo = PhaseStatus(t, 4)]
    ELSE IF r.repo = "Failed" THEN
       IF r.exit = <<0>> \/ ~RepositoryFailureTail(r) THEN Inconsistent(r, "Reduction")
       ELSE StoppedAt(r, "StoppedOnRepositoryFailure", "Repository")
    ELSE IF r.repo # "Completed" \/ r.exit # <<0>> THEN Inconsistent(r, "Reduction")
    ELSE IF r.inventory = "Failed" THEN
       IF ~InventoryFailureTail(r) THEN Inconsistent(r, "Reduction")
       ELSE StoppedAt(r, "StoppedBeforeAurExecution", "ForeignInventory")
    ELSE IF r.inventory # "Completed" THEN Inconsistent(r, "Reduction")
    ELSE IF r.query = "Failed" /\ ~r.hasQuery THEN
       IF r.aur # "NotAttempted" \/ r.reasons.aur # "AurQueryFailure" \/ r.op # <<>>
       THEN Inconsistent(r, "Reduction")
       ELSE StoppedAt(r, "StoppedBeforeAurExecution", "AurQuery")
    ELSE IF r.query = "NotAttempted" \/ ~r.hasQuery \/ (r.query = "Failed") # r.queryFails
    THEN Inconsistent(r, "Reduction")
    ELSE IF r.op # <<>> THEN ReduceFiltered(r)
    ELSE IF r.aur = "BlockedBeforeExecution" /\ r.reasons.aur = "none"
    THEN StoppedAt(r, "StoppedBeforeAurExecution", "AurPreparation")
    ELSE Inconsistent(r, IF r.aur = "InconsistentResult"
                            /\ r.phase \in {"AurPreparation", "AurExecution"}
                         THEN r.phase ELSE "Reduction")

\* What the result answers when it is asked.
SysSuccess(r, t) ==
    IF t.on THEN TransSuccess(t)
    ELSE /\ r.status = "Completed" /\ r.phase = "None"
         /\ r.repo = "Completed" /\ r.exit = <<0>> /\ r.inventory = "Completed"
         /\ r.query = "Completed" /\ r.hasQuery
         /\ r.aur \in {"NoUpdates", "Completed"}
         /\ r.op # <<>> /\ FilteredSuccess(r.op[1]) /\ r.reasons.aur = "none"
SysStateChange(r, t) ==
    IF t.on THEN IF RemovalCompleted(t) THEN "Changed" ELSE "Unknown"
    ELSE IF r.op # <<>> /\ r.op[1].psc = "Changed" THEN "Changed" ELSE "Unknown"
SysPartial(r, t) ==
    IF t.on THEN TransPartial(t) ELSE ~SysSuccess(r, t) /\ r.repo = "Completed"
SysNotAttempted(r, t) ==
    IF t.on THEN PhaseStatus(t, 9) = "NotAttempted"
    ELSE "NotAttempted" \in {r.repo, r.inventory, r.query, r.aur}
         \/ \E k \in DOMAIN r.reasons : r.reasons[k] # "none"
SysQueryFailure(r, t) ==
    IF t.on THEN \/ t.metadataFailure \/ t.queryFailure \/ t.consumer = "failure"
                 \/ (t.aurResult # <<>> /\ t.aurResult[1].queryFailure)
    ELSE "Failed" \in {r.inventory, r.query} \/ (r.op # <<>> /\ r.op[1].queryFailure)

(***************************************************************************)
(* Starting, observing                                                     *)
(***************************************************************************)
SysStart(mode) ==
    [mode |-> mode, stage |-> IF mode = "actual" \/ mode = "dryAuto" THEN "foreign" ELSE mode,
     obs |-> FreshObservation("pre"),
     dry |-> [issues |-> FALSE, observed |-> "none"], ready |-> FALSE]

SysInit ==
    /\ \E w \in SysWorlds : /\ inst = w.inst /\ sync = w.sync
                            /\ mirror = w.mirror /\ aurDb = w.aur
    /\ trans = NoTransition /\ sysRes = FreshSystemResult /\ sysDone = {} /\ mishaps = 0
    /\ \E m \in {"actual", "dryAuto", "dryRepo", "reused"} : sys = SysStart(m)

At(s) == sys.stage = s
GoTo(s) == sys' = [sys EXCEPT !.stage = s]
KeepWorld == UNCHANGED <<worldVars, sysDone, mishaps>>

\* Where an observation leads when it is complete or has failed.
Observed(o) ==
    LET next == IF o.purpose = "reval" THEN "revalidate"
                ELSE IF o.purpose = "late" THEN "reduce"
                ELSE IF sys.mode = "dryAuto" THEN "dryInventory" ELSE "decide"
    IN sys' = [sys EXCEPT !.stage = next, !.obs = o]


\* The repository configuration and the list of foreign packages.
ObserveForeign ==
    /\ At("foreign")
    /\ \E f \in IF mishaps < MaxMishaps THEN SysFaults ELSE {"none"} :
          LET o == [sys.obs EXCEPT !.fault = f, !.foreign =
                      [p \in Foreign |-> IF Present(inst, p)
                         THEN <<[ver |-> inst[p][1].ver, reason |-> inst[p][1].reason]>>
                         ELSE <<>>]]
          IN mishaps' = mishaps + (IF f = "none" THEN 0 ELSE 1) /\
             CASE f = "exception" -> Observed([o EXCEPT !.failure = TRUE])
               [] f = "configuration" ->
                     Observed(Issue(sys.obs, "RepositoryConfigurationUnavailable", "Failed"))
               [] f = "foreign" ->
                     Observed(Issue(sys.obs, "ForeignInventoryUnavailable", "Failed"))
               [] OTHER -> IF Consumers(o) = {} THEN Observed(o)
                           ELSE sys' = [sys EXCEPT !.stage = "relations", !.obs = o]
    /\ UNCHANGED <<worldVars, trans, sysRes, sysDone>>

\* The installed packages with what they provide.  An inventory that fails
\* part of the way keeps what it has read.
ObserveRelations ==
    /\ At("relations")
    /\ LET o == sys.obs
           Read(set) == [o EXCEPT !.pkgs = [p \in Packages |->
                            IF p \in set /\ Present(inst, p) THEN inst[p] ELSE <<>>]]
       IN CASE o.fault = "relations" ->
                  Observed(Issue(o, "InstalledRelationInventoryUnavailable", "Failed"))
            [] o.fault = "relationsPartial" ->
                  \E p \in Installed(inst) :
                     sys' = [sys EXCEPT !.stage = "dependencies",
                                !.obs = Issue(Read(Packages \ {p}),
                                   "InstalledRelationInventoryUnavailable", "Partial")]
            [] OTHER -> sys' = [sys EXCEPT !.stage = "dependencies", !.obs = Read(Packages)]
    /\ UNCHANGED <<trans, sysRes>> /\ KeepWorld

ObserveDependencies ==
    /\ At("dependencies")
    /\ LET o == sys.obs
           Read(set) == [o EXCEPT !.deps = [p \in Packages |->
                IF p \in set /\ Present(inst, p)
                THEN <<[ver |-> inst[p][1].ver,
                        needs |-> inst[p][1].needs \cup
                           IF o.fault = "invalid" /\ p \in Foreign
                           THEN {[on |-> p, rel |-> "bad", ver |-> 0]} ELSE {}]>>
                ELSE <<>>]]
           Go(q) == sys' = [sys EXCEPT !.stage = "remote",
                               !.obs = [q EXCEPT !.snapshot = <<TransitionInstalledSnapshot(q)>>]]
       IN CASE o.fault = "dependencies" ->
                  Observed(Issue(o, "InstalledRuntimeDependencyInventoryUnavailable", "Failed"))
            [] o.fault = "dependenciesPartial" ->
                  \E p \in Installed(inst) :
                     Go(Issue(Read(Packages \ {p}),
                              "InstalledRuntimeDependencyInventoryUnavailable", "Partial"))
            [] OTHER -> Go(Read(Packages))
    /\ UNCHANGED <<trans, sysRes>> /\ KeepWorld

\* The repositories' versions of what is pinned, and the AUR's replacements.
ObserveRemote ==
    /\ At("remote")
    /\ LET o == sys.obs
           found == UNION {ConsumerIssues(o, c) : c \in Consumers(o)}
       IN Observed([o EXCEPT !.candidates = Candidates(o),
                             !.issues = @ \cup found,
                             !.status = IF found # {} /\ @ = "Complete" THEN "Partial" ELSE @])
    /\ UNCHANGED <<trans, sysRes>> /\ KeepWorld

(***************************************************************************)
(* The operation                                                           *)
(***************************************************************************)
\* A prepared operation that was used already does nothing.
ReusedOperation ==
    /\ At("reused")
    /\ GoTo("reduce") /\ sysRes' = MarkAllNotAttempted(sysRes)
    /\ UNCHANGED trans /\ KeepWorld

ChooseRoute ==
    /\ At("decide")
    /\ IF ReadyTransition(sys.obs) # <<>>
       THEN GoTo("confirm") /\ trans' = FreshTransition(ReadyTransition(sys.obs)[1])
       ELSE GoTo("sync") /\ UNCHANGED trans
    /\ UNCHANGED sysRes /\ KeepWorld

\* The transition ends here: what is left of the consumer is looked up when
\* it has been removed.
EndTransition(t) == trans' = t /\ GoTo(IF TransPartial(t) THEN "afterPartial" ELSE "reduce")
NextPhase(t, s) == trans' = [t EXCEPT !.phase = @ + 1] /\ GoTo(s)
\* Any phase may also end with an exception.
Throws(t) == \E m \in BOOLEAN : EndTransition([t EXCEPT !.failed = TRUE, !.metadataFailure = m])

\* Only an explicit yes is taken; --noconfirm never is one.
Confirm ==
    /\ At("confirm")
    /\ \/ /\ trans' = [trans EXCEPT !.phase = 2]
          /\ sys' = [sys EXCEPT !.stage = "foreign", !.obs = FreshObservation("reval")]
       \/ EndTransition([trans EXCEPT !.failed = TRUE])
    /\ UNCHANGED sysRes /\ KeepWorld

\* Mutant: any plan that is ready now will do.
Mutant_Revalidated(t, o) == ReadyTransition(o) # <<>>

\* The world must still give exactly the plan that was confirmed.
Revalidated(t, o) == ReadyTransition(o) = <<t.plan>>

Revalidate ==
    /\ At("revalidate")
    /\ IF Revalidated(trans, sys.obs)
       THEN NextPhase(trans, "remove")
       ELSE EndTransition([trans EXCEPT !.failed = TRUE])
    /\ UNCHANGED sysRes /\ KeepWorld

\* pacman -R removes the consumer unless somebody needs it.  When it is
\* interrupted its exit status is no sign of what it did.
RemoveInstalledForeign ==
    /\ At("remove")
    /\ LET c == trans.plan.cand.consumer IN
       \/ /\ Present(inst, c)
          /\ \A b \in Broken(Without(inst, c)) : b \in Broken(inst)
          /\ inst' = Without(inst, c) /\ sysDone' = sysDone \cup {"removed"}
          /\ NextPhase(trans, "sync")
       \/ /\ EndTransition([trans EXCEPT !.failed = TRUE])
          /\ \/ UNCHANGED <<inst, sysDone>>
             \/ /\ Present(inst, c)
                /\ inst' = Without(inst, c) /\ sysDone' = sysDone \cup {"interrupted"}
    /\ UNCHANGED <<sync, mirror, aurDb, mishaps, sysRes>>

\* pacman -Syu installs the newest versions of the repository packages, or
\* refuses because of a requirement it would break, or fails.
Upgraded(d, versions) ==
    [p \in Packages |-> IF p \in Libs /\ Present(d, p) /\ versions[p] > d[p][1].ver
                        THEN <<[d[p][1] EXCEPT !.ver = versions[p]]>> ELSE d[p]]

SyncTransaction(refresh) ==
    LET versions == IF refresh THEN mirror ELSE sync
        d == Upgraded(inst, versions)
    IN /\ \A b \in Broken(d) : b \in Broken(inst)
       /\ inst' = d /\ sync' = versions /\ sysDone' = sysDone \cup {"synced"}

RepositorySystemUpgrade ==
    /\ At("sync")
    /\ \/ /\ \E refresh \in BOOLEAN : SyncTransaction(refresh)
          /\ IF trans.on THEN NextPhase(trans, "repoState") /\ UNCHANGED sysRes
             ELSE /\ GoTo("inventory") /\ UNCHANGED trans
                  /\ sysRes' = [sysRes EXCEPT !.repo = "Completed", !.exit = <<0>>]
       \/ /\ \E refreshed \in BOOLEAN : sync' = IF refreshed THEN mirror ELSE sync
          /\ UNCHANGED <<inst, sysDone>>
          /\ IF trans.on THEN EndTransition([trans EXCEPT !.failed = TRUE]) /\ UNCHANGED sysRes
             ELSE /\ \E e \in {<<>>, <<1>>} : sysRes' = RepositoryFailed(sysRes, e)
                  /\ sys' = [sys EXCEPT !.stage = "foreign", !.obs = FreshObservation("late")]
                  /\ UNCHANGED trans
    /\ UNCHANGED <<mirror, aurDb, mishaps>>

(***************************************************************************)
(* The rest of a transition                                                *)
(***************************************************************************)
ExpectedLib(d, t) == Present(d, t.plan.cand.lib) /\ d[t.plan.cand.lib][1].ver = t.plan.cand.repoVer

RepositoryPostState ==
    /\ At("repoState")
    /\ \/ IF ExpectedLib(inst, trans) /\ ~Present(inst, trans.plan.cand.consumer)
          THEN NextPhase(trans, "authority")
          ELSE EndTransition([trans EXCEPT !.failed = TRUE])
       \/ Throws(trans)
    /\ UNCHANGED sysRes /\ KeepWorld

\* The AUR must still offer what the plan was made for.
AurAuthority ==
    /\ At("authority")
    /\ \/ IF aurDb[trans.plan.cand.consumer] = <<trans.plan.cand.aur.recipe>>
          THEN NextPhase(trans, "replace")
          ELSE EndTransition([trans EXCEPT !.failed = TRUE])
       \/ EndTransition([trans EXCEPT !.failed = TRUE, !.queryFailure = TRUE])
    /\ UNCHANGED sysRes /\ KeepWorld

\* The replacement must be newer than the package that was removed, and the
\* build plan must be the one of the AUR's metadata.
QueryReplacement ==
    /\ At("replace")
    /\ LET c == trans.plan.cand IN
       \/ /\ aurDb[c.consumer] = <<c.aur.recipe>> /\ c.aur.recipe.ver > c.ver
          /\ GoTo("build") /\ UNCHANGED trans
       \/ \E q \in BOOLEAN : EndTransition([trans EXCEPT !.failed = TRUE, !.queryFailure = q])
    /\ UNCHANGED sysRes /\ KeepWorld

\* The AUR operation builds the expected version and installs it with the
\* install reason the update keeps; what the build declares is not what the
\* metadata said when the recipe says otherwise.
BuildReplacement ==
    /\ At("build")
    /\ LET c == trans.plan.cand.consumer
           recipe == trans.plan.cand.aur.recipe IN
       \E r \in FilteredResults :
          /\ ~r.queryFailure
          /\ \/ /\ r.psc # "NoChange" /\ sysDone' = sysDone \cup {"aur"}
                /\ \E reason \in {"Explicit", "Dependency"}, needs \in {recipe.needs, {}} :
                     inst' = [inst EXCEPT ![c] = <<[ver |-> recipe.ver, needs |-> needs,
                                 provides |-> {}, reason |-> reason]>>]
             \/ r.psc # "Changed" /\ UNCHANGED <<inst, sysDone>>
          /\ LET t == [trans EXCEPT !.aurResult = <<r>>] IN
             IF FilteredSuccess(r) /\ r.status # "NoUpdates"
             THEN NextPhase(t, "finalSnapshot")
             ELSE EndTransition([t EXCEPT !.failed = TRUE])
    /\ UNCHANGED <<sync, mirror, aurDb, mishaps, sysRes>>

ReasonRestored(t, d) ==
    /\ Present(d, t.plan.cand.consumer)
    /\ d[t.plan.cand.consumer][1].reason = t.plan.snapshot[1].foreign[t.plan.cand.consumer][1].reason

InstallReason ==
    /\ At("finalSnapshot")
    /\ \/ IF ReasonRestored(trans, inst)
          THEN NextPhase([trans EXCEPT !.final = <<inst>>], "finalState")
          ELSE EndTransition([trans EXCEPT !.failed = TRUE])
       \/ Throws(trans)
    /\ UNCHANGED sysRes /\ KeepWorld

\* Versions are those of the snapshot, requirements are read once more.
PostStateVerification ==
    /\ At("finalState")
    /\ LET cand == trans.plan.cand
           c == cand.consumer
           seen == trans.final[1]
           req == CHOOSE r \in MatchingRuntimeRequirements(cand) : TRUE IN
       \/ IF /\ ExpectedLib(seen, trans) /\ seen[c][1].ver = cand.aur.recipe.ver
             /\ Present(inst, c) /\ inst[c][1].ver = seen[c][1].ver /\ req \in inst[c][1].needs
             /\ Meets(req, seen[cand.lib][1].ver)
          THEN EndTransition([trans EXCEPT !.complete = TRUE])
          ELSE EndTransition([trans EXCEPT !.failed = TRUE])
       \/ Throws(trans)
    /\ UNCHANGED sysRes /\ KeepWorld

AfterPartial ==
    /\ At("afterPartial")
    /\ trans' \in {[trans EXCEPT !.consumer = IF Present(inst, trans.plan.cand.consumer)
                                             THEN "installed" ELSE "absent"],
                   [trans EXCEPT !.consumer = "failure"]}
    /\ GoTo("reduce") /\ UNCHANGED sysRes /\ KeepWorld

(***************************************************************************)
(* The rest of an ordinary update                                          *)
(***************************************************************************)
ForeignInventoryPhase ==
    /\ At("inventory")
    /\ \/ GoTo("query") /\ sysRes' = [sysRes EXCEPT !.inventory = "Completed"]
       \/ GoTo("reduce") /\ sysRes' = InventoryFailed(sysRes)
    /\ UNCHANGED trans /\ KeepWorld

\* A query may fail as a whole or for some packages only; the latter goes on.
AurQueryPhase ==
    /\ At("query")
    /\ \/ \E f \in BOOLEAN :
             /\ GoTo("prepareAur")
             /\ sysRes' = [sysRes EXCEPT !.query = IF f THEN "Failed" ELSE "Completed",
                                         !.hasQuery = TRUE, !.queryFails = f]
       \/ /\ GoTo("reduce")
          /\ sysRes' = [sysRes EXCEPT !.query = "Failed", !.aur = "NotAttempted",
                                      !.reasons.aur = "AurQueryFailure"]
    /\ UNCHANGED trans /\ KeepWorld

AurPreparationPhase ==
    /\ At("prepareAur")
    /\ \/ GoTo("executeAur") /\ UNCHANGED sysRes
       \/ GoTo("reduce") /\ sysRes' = [sysRes EXCEPT !.aur = "BlockedBeforeExecution"]
       \/ GoTo("reduce") /\ sysRes' = [sysRes EXCEPT !.aur = "InconsistentResult",
                                                     !.phase = "AurPreparation"]
    /\ UNCHANGED trans /\ KeepWorld

\* The operation refuses to execute when the query was incomplete.
AurExecutionPhase ==
    /\ At("executeAur")
    /\ \/ \E r \in FilteredResults :
             /\ r.queryFailure = (sysRes.query = "Failed")
             /\ sysRes' = [sysRes EXCEPT !.op = <<r>>]
             /\ \/ r.psc # "NoChange" /\ sysDone' = sysDone \cup {"aur"}
                \/ r.psc # "Changed" /\ UNCHANGED sysDone
       \/ /\ sysRes' = [sysRes EXCEPT !.aur = "InconsistentResult", !.phase = "AurExecution"]
          /\ sysDone' \in {sysDone, sysDone \cup {"aur"}}
    /\ GoTo("reduce") /\ UNCHANGED <<worldVars, trans, mishaps>>

ReduceSystem ==
    /\ At("reduce")
    /\ sysRes' = ReduceSystemAurUpdate(sysRes, trans)
    /\ GoTo("over") /\ UNCHANGED trans /\ KeepWorld

(***************************************************************************)
(* The dry run                                                             *)
(***************************************************************************)
\* Repository updates only: nothing of the AUR is looked at.
DryRunRepositoryOnly ==
    /\ At("dryRepo")
    /\ sys' = [sys EXCEPT !.stage = "over", !.ready = TRUE]
    /\ UNCHANGED <<trans, sysRes>> /\ KeepWorld

\* Configuration, inventory, query and assessment; the first that fails ends
\* the dry run.  What is assessed may be ready, without updates or blocked.
DryRunObserve ==
    /\ At("dryInventory")
    /\ \E o \in {"failed", "ready", "noop", "blocked"} :
          sys' = [sys EXCEPT !.stage = "over",
                     !.dry = [issues |-> o = "failed", observed |-> o],
                     !.ready = o \in {"ready", "noop"}]
    /\ UNCHANGED <<trans, sysRes>> /\ KeepWorld

(***************************************************************************)
(* Other programs                                                          *)
(***************************************************************************)
\* Somebody upgrades, reinstalls with another reason or removes a package, a
\* mirror is refreshed, or the AUR's recipe moves on.
Touch ==
    /\ sys.mode = "actual" /\ ~At("over") /\ mishaps < MaxMishaps
    /\ mishaps' = mishaps + 1
    /\ \/ \E p \in Installed(inst) :
             /\ \/ inst' = [inst EXCEPT ![p][1].ver = @ + 1]
                \/ inst' = [inst EXCEPT ![p][1].reason =
                                IF @ = "Explicit" THEN "Dependency" ELSE "Explicit"]
                \/ inst' = Without(inst, p)
             /\ UNCHANGED <<sync, aurDb>>
       \/ \E l \in Libs : sync' = [sync EXCEPT ![l] = mirror[l]] /\ UNCHANGED <<inst, aurDb>>
       \/ \E c \in Foreign : /\ aurDb[c] # <<>>
                             /\ aurDb' = [aurDb EXCEPT ![c][1].ver = @ + 1]
                             /\ UNCHANGED <<inst, sync>>
    /\ UNCHANGED <<mirror, sys, trans, sysRes, sysDone>>

SysOver == At("over") /\ UNCHANGED sysVars

SysNext ==
    \/ ObserveForeign \/ ObserveRelations \/ ObserveDependencies \/ ObserveRemote
    \/ ReusedOperation \/ ChooseRoute \/ Confirm \/ Revalidate
    \/ RemoveInstalledForeign \/ RepositorySystemUpgrade \/ RepositoryPostState
    \/ AurAuthority \/ QueryReplacement \/ BuildReplacement
    \/ InstallReason \/ PostStateVerification \/ AfterPartial
    \/ ForeignInventoryPhase \/ AurQueryPhase \/ AurPreparationPhase
    \/ AurExecutionPhase \/ ReduceSystem
    \/ DryRunRepositoryOnly \/ DryRunObserve \/ Touch \/ SysOver

SysSpec == SysInit /\ [][SysNext]_sysVars

(***************************************************************************)
(* Properties of the system update                                         *)
(***************************************************************************)
\* A plan is confirmed for a world in which it works: as long as nobody else
\* changes packages, removing the foreign package takes nothing away that
\* another package needs, no other foreign package pins the version that the
\* upgrade replaces, and the replacement that was confirmed is the one the
\* AUR offers and can be installed afterwards.
ReadyPlanWorks ==
    At("remove") /\ sys.obs.since = mishaps =>
       LET c == trans.plan.cand
           after == [inst EXCEPT ![c.consumer] = <<>>, ![c.lib][1].ver = c.repoVer]
           fresh(d) == Broken(d) \ Broken(inst)
       IN /\ fresh(Without(inst, c.consumer)) = {}
          /\ \A b \in fresh(after) : ~Exact(b[2])
          /\ aurDb[c.consumer] = <<c.aur.recipe>> /\ sync[c.lib] = c.repoVer
          /\ \A r \in c.aur.recipe.needs : r.on = c.lib => Meets(r, c.repoVer)

\* A transition that is reported as complete has put the replacement in the
\* place of the removed package: in the AUR's version, with the install
\* reason that was confirmed, pinning the version of the repository package
\* that is installed.
TransitionVerified ==
    At("over") /\ trans.on /\ TransSuccess(trans) /\ trans.final = <<inst>> =>
       LET c == trans.plan.cand
           p == inst[c.consumer][1]
       IN /\ p.ver = c.aur.recipe.ver
          /\ p.reason = trans.plan.snapshot[1].foreign[c.consumer][1].reason
          /\ \E r \in p.needs : r.on = c.lib /\ Exact(r) /\ Meets(r, inst[c.lib][1].ver)

\* The result r with the transition t is true of what was done: success is the
\* success of all phases, a change that is reported happened, a removal that
\* went through is reported, a phase that was not attempted did nothing, and a
\* result is called contradictory only when a part of it was.
ResultIsTrue(r, t, done, mode) ==
    /\ SysSuccess(r, t) => "synced" \in done
    /\ SysSuccess(r, t) = (r.status = "Completed")
    /\ SysSuccess(r, t) => ~SysNotAttempted(r, t) /\ ~SysQueryFailure(r, t)
    /\ SysStateChange(r, t) = "Changed" => done \cap {"removed", "aur"} # {}
    /\ SysPartial(r, t) => done # {}
    /\ "removed" \in done => TransSuccess(t) \/ TransPartial(t)
    /\ r.repo = "NotAttempted" => "synced" \notin done
    /\ r.aur = "NotAttempted" /\ ~t.on => "aur" \notin done
    /\ r.status = "InconsistentResult" /\ r.phase = "Reduction" =>
          mode = "reused" \/ (r.op # <<>> /\ FilteredInconsistent(r.op[1]))

\* What the operation reports is true, and a transition that is complete did
\* what was confirmed.  Presenting a result reduces it once more and finds the
\* same.
SystemReportTruthful ==
    /\ TransitionVerified
    /\ At("over") /\ sys.mode \in {"actual", "reused"} =>
          /\ ResultIsTrue(sysRes, trans, sysDone, sys.mode)
          /\ ReduceSystemAurUpdate(sysRes, trans) = sysRes
=============================================================================
