----------------------------- MODULE UnifiedPlan -----------------------------
(***************************************************************************)
(* Every command that builds or installs has two lives: it prepares its    *)
(* work and executes it, or, with --dry-run, it prepares its work and      *)
(* shows it (commands_sync.cpp, source_install.cpp, dry_run.cpp).  What it *)
(* shows is a projection of the prepared work onto one form of observation *)
(* (unified_plan_projection.cpp, unified_plan_observation.cpp).            *)
(*                                                                         *)
(* A unit is [kind, base, names, targets]: one source to build and the     *)
(* artifacts, each [name, reason], it has to yield.  A preparation is      *)
(*   outcome  "Prepared", "Failure" (with what is known so far) or "Error" *)
(*            (an exception leaves the command);                           *)
(*   items    the units to build, in this order;                           *)
(*   txn      what the repository transaction before them installs;        *)
(*   planned, routed   whether a failure comes with a plan, with roots.    *)
(* An observation is [status, roots, units, blockers, repo, install,       *)
(* stage, phases].  A route answers <<>> where the command ends with an    *)
(* error instead of showing one, and otherwise <<observation>>.            *)
(***************************************************************************)
EXTENDS FilteredAurUpdate, PlanReadiness

LOCAL INSTANCE SequencesExt

When(condition, x) == IF condition THEN {x} ELSE {}
Steps(condition, s) == IF condition THEN s ELSE <<>>

(***************************************************************************)
(* What may be shown                                                       *)
(***************************************************************************)
PhaseOrder == <<"RequestDiscovery", "MetadataDiscovery", "ProviderDecision",
                "ExecutionProjection", "RepositoryTransaction", "SourceRetrieval",
                "SourceBuild", "ArtifactValidation", "SourceArtifactInstall",
                "CleanupReduction">>

PhaseRank(phase) == CHOOSE k \in DOMAIN PhaseOrder : PhaseOrder[k] = phase

CompleteRoot(r) == r.name # None /\ r.base # None
CompleteUnit(u) == u.base # None /\ u.names # {}
HasIntents(o) == o.repo # {} \/ o.install # {}

StageFits(o) ==
    CASE o.stage = "RouteOwned" -> TRUE
      [] o.stage = "RepositorySystemUpgrade" -> o.repo = {"system"} /\ o.install = {}
      [] o.stage = "LaterNormalAur" -> "system" \notin o.repo

\* An artifact to install is one of a shown unit, and is installed as what
\* the unit requires it for.
InstallFits(o, i) ==
    \E k \in DOMAIN o.units : \E t \in o.units[k].targets :
       /\ t.name = i.name /\ t.reason = (IF i.as = "root" THEN "Explicit" ELSE "Dependency")

ObservationIssues(o) ==
    UNION {
      When(o.status = "Ready" /\ o.blockers # {}, "ReadyHasBlockers"),
      When(o.status = "NoOp" /\ o.blockers # {}, "NoOpHasBlockers"),
      When(o.status = "NoOp" /\ HasIntents(o), "NoOpHasMutationIntent"),
      When(o.status = "Blocked" /\ o.blockers = {}, "BlockedWithoutBlocker"),
      When(o.status = "Blocked" /\ HasIntents(o), "BlockedHasMutationIntent"),
      When(o.status # "Blocked" /\ \E r \in o.roots : ~CompleteRoot(r), "RootIncomplete"),
      When(o.status # "Blocked" /\ \E k \in DOMAIN o.units : ~CompleteUnit(o.units[k]),
           "UnitIncomplete"),
      When(\E k \in DOMAIN o.units : \E t \in o.units[k].targets :
              t.name \notin o.units[k].names, "ArtifactUnitMismatch"),
      When(~StageFits(o), "StageInvalid"),
      When(None \in o.repo, "RepositoryTargetInvalid"),
      When(\E i \in o.install : ~InstallFits(o, i), "InstallTargetInvalid"),
      When(\E k \in 2..Len(o.phases) : PhaseRank(o.phases[k]) < PhaseRank(o.phases[k - 1]),
           "PhaseOrderInvalid")}

\* An observation that is not valid is never shown: rendering it throws.
Render(o) == IF ObservationIssues(o) = {} THEN <<o>> ELSE <<>>

(***************************************************************************)
(* What holds a plan back                                                  *)
(***************************************************************************)
\* Mutant: a cycle is left to the command to find.
Mutant_BuildPlanBlockers(plan) ==
    UNION {
      When(plan.failures # {} \/ plan.incomplete # {}, "SourceFailure"),
      When(plan.ambiguous # {}, "Ambiguous"),
      When(\E k \in plan.relations : RelationReason(k).guards, "MetadataRisk"),
      When(\E e \in plan.edges : e.constraint \in {"Unsatisfied", "Unknown"},
           "ConstraintFailure"),
      When(\E e \in plan.edges : /\ e.constraint \notin {"Unsatisfied", "Unknown"}
                                 /\ e.kind = "Unknown", "Unknown"),
      When(plan.unresolved # {}, "UnresolvedDependency"),
      When(Split(plan) # {}, "SplitPackageSelectionRequired")}

BuildPlanBlockers(plan) ==
    UNION {
      When(plan.failures # {} \/ plan.incomplete # {}, "SourceFailure"),
      When(plan.ambiguous # {}, "Ambiguous"),
      When(\E k \in plan.relations : RelationReason(k).guards, "MetadataRisk"),
      When(\E e \in plan.edges : e.constraint \in {"Unsatisfied", "Unknown"},
           "ConstraintFailure"),
      When(\E e \in plan.edges : /\ e.constraint \notin {"Unsatisfied", "Unknown"}
                                 /\ e.kind = "Unknown", "Unknown"),
      When(plan.unresolved # {}, "UnresolvedDependency"),
      When(plan.cycles # {}, "DependencyCycle"),
      When(Split(plan) # {}, "SplitPackageSelectionRequired")}

FetchPlanBlockers(plan) ==
    BuildPlanBlockers(plan) \ {"MetadataRisk", "SplitPackageSelectionRequired"}

\* Packages that makepkg will have pacman install from the repositories.
RepositoryIntents(plan) ==
    {e.name : e \in {f \in plan.edges : f.kind = "Repository"}}
    \cup {p.name : p \in {q \in plan.userSelected : q.origin = "repository"}}

ArtifactTargets(plan, k) ==
    {[name |-> t.name, reason |-> DesiredInstallReason(t)] : t \in RequiredTargets(plan, k)}

ArtifactUnits(plan) ==
    [k \in DOMAIN plan.order |->
        [kind |-> "aur", base |-> plan.order[k].base, names |-> NamesOf(plan.order[k]),
         targets |-> ArtifactTargets(plan, k)]]

ProjectedUnits(plan) == Steps(ProjectionIssues(plan) = {}, ArtifactUnits(plan))
ProjectionBlockers(plan) == When(ProjectionIssues(plan) # {}, "ArtifactProjection")

SourceUnit(kind, name, base) ==
    [kind |-> kind, base |-> base, names |-> {name},
     targets |-> {[name |-> name, reason |-> "Explicit"]}]

InstallIntents(units) ==
    UNION {{[name |-> t.name, as |-> IF t.reason = "Explicit" THEN "root" ELSE "dependency"] :
              t \in units[k].targets} : k \in DOMAIN units}

(***************************************************************************)
(* Roots.  Every check throws when it fails.                               *)
(***************************************************************************)
RootTargets(plan, r) == {t \in plan.targets : "Root" \in t.roles /\ r \in t.roots}

IsPlanRoot(plan, r, name, base) ==
    /\ r \in KnownRoots(plan) /\ plan.roots[r] = name /\ base # None
    /\ Cardinality({t \in RootTargets(plan, r) : t.name = name /\ t.base = base}) = 1

FoundRoots(plan, r) == {t \in RootTargets(plan, r) : t.name = plan.roots[r]}

PlanRootsAre(plan, expected) ==
    /\ Len(plan.roots) = Len(expected)
    /\ \A r \in DOMAIN expected : IsPlanRoot(plan, r, expected[r].name, expected[r].base)

\* A plan that failed may lack a root, if its failure is one of that root.
BlockedPlanRootsAre(plan, expected) ==
    /\ Len(plan.roots) = Len(expected)
    /\ \A r \in DOMAIN expected :
          /\ plan.roots[r] = expected[r].name /\ expected[r].base # None
          /\ \/ RootTargets(plan, r) = {} /\ \E f \in plan.failures : r \in f.roots
             \/ IsPlanRoot(plan, r, expected[r].name, expected[r].base)
                /\ Cardinality(RootTargets(plan, r)) = 1

\* Prepared work is the plan's, unit by unit, as far as it can be projected.
SourceWorkMatches(plan, items) ==
    /\ Len(items) = Len(plan.order)
    /\ \A k \in DOMAIN items :
          /\ items[k].base = plan.order[k].base /\ items[k].targets # {}
          /\ {t.name : t \in items[k].targets} \subseteq NamesOf(plan.order[k])
    /\ ProjectionIssues(plan) = {} =>
          \A k \in DOMAIN items : items[k].targets = ArtifactUnits(plan)[k].targets

RootOf(name, base, route) == [name |-> name, base |-> base, route |-> route]
AurRoots(expected) ==
    {RootOf(expected[r].name, expected[r].base, "AurSourceBuild") : r \in DOMAIN expected}
TransactionRoots(names) == {RootOf(n, n, "RepositoryTransaction") : n \in names}

(***************************************************************************)
(* Observations are made in three steps: what is known, what follows from  *)
(* it, and the phases that will be gone through.                           *)
(***************************************************************************)
Known(roots, units, blockers) ==
    [status |-> "Blocked", roots |-> roots, units |-> units, blockers |-> blockers,
     repo |-> {}, install |-> {}, stage |-> "RouteOwned", phases |-> <<>>]

Ready(o, repo) ==
    [o EXCEPT !.status = "Ready", !.repo = repo, !.install = InstallIntents(o.units)]

ReadyUnlessBlocked(o, repo) == IF o.blockers = {} THEN Ready(o, repo) ELSE o

MutationPhases(o, retrieval) ==
    Steps(o.repo # {}, <<"RepositoryTransaction">>)
    \o Steps(o.install # {},
             Steps(retrieval, <<"SourceRetrieval">>)
             \o <<"SourceBuild", "ArtifactValidation", "SourceArtifactInstall">>)

WithPhases(o, repoMetadata, aurMetadata, decision) ==
    [o EXCEPT !.phases =
        <<"RequestDiscovery">>
        \o Steps(repoMetadata, <<"MetadataDiscovery">>)
        \o Steps(aurMetadata, <<"MetadataDiscovery">>)
        \o Steps(decision, <<"ProviderDecision">>)
        \o <<"ExecutionProjection">>
        \o MutationPhases(o, TRUE)]

AurUpdatePhases(o, query, failures, planned) ==
    WithPhases(o, FALSE, query # <<>> \/ failures # {}, planned)

SystemSourcePhases(o, planned) == WithPhases(o, TRUE, planned, planned)

\* The sources and the AUR each go through the phases of a build.
UpgradeAllPhases(o, query, failures, planned, parts) ==
    LET early == WithPhases([o EXCEPT !.install = {}], TRUE,
                            planned \/ query # <<>> \/ failures # {}, planned)
        each(phase) == [k \in 1..parts |-> phase]
    IN [o EXCEPT !.phases = early.phases \o each("SourceRetrieval") \o each("SourceBuild")
            \o each("ArtifactValidation") \o each("SourceArtifactInstall")]

(***************************************************************************)
(* Preparations                                                            *)
(***************************************************************************)
Prepared(items, txn) ==
    [outcome |-> "Prepared", items |-> items, txn |-> txn, planned |-> FALSE, routed |-> TRUE]
Failure(planned, routed) ==
    [outcome |-> "Failure", items |-> <<>>, txn |-> {}, planned |-> planned, routed |-> routed]
Error ==
    [outcome |-> "Error", items |-> <<>>, txn |-> {}, planned |-> FALSE, routed |-> FALSE]

\* Work items are made of every unit of a plan, or an exception is thrown.
Workable(plan) == ~SelectedProviderConflict(plan) /\ ProjectionIssues(plan) = {}

(***************************************************************************)
(* -S of names: a request is [selection, system, targets, options] with    *)
(* targets a sequence of [name, repo, pref]: whether a repository has it   *)
(* and whether the user prefers to build it from source.                   *)
(***************************************************************************)
FromAur(request, j) ==
    request.selection = "AurOnly" \/ request.targets[j].repo = "absent"
FromTransaction(request, j) ==
    ~FromAur(request, j) /\ request.targets[j].pref = "absent"
FromRepositorySource(request, j) == ~FromAur(request, j) /\ ~FromTransaction(request, j)

SyncAurTargets(request) ==
    SelectSeq([j \in DOMAIN request.targets |-> j], LAMBDA j : FromAur(request, j))

NeedsTransaction(request) ==
    /\ request.selection = "Auto"
    /\ request.system \/ \E j \in DOMAIN request.targets : FromTransaction(request, j)

RouteRefused(request) ==
    \/ request.selection = "RepoOnly"
    \/ request.targets = <<>> /\ ~(request.selection = "Auto" /\ request.system)
    \/ request.selection = "AurOnly" /\ request.system

TargetUnreadable(request) ==
    request.selection = "Auto" /\ \E j \in DOMAIN request.targets :
       request.targets[j].pref = "failure" \/ request.targets[j].repo = "failure"

OptionsRefused(request) ==
    /\ request.options = "unsupported"
    /\ \E j \in DOMAIN request.targets : ~FromTransaction(request, j)

SyncRefused(request) ==
    RouteRefused(request) \/ TargetUnreadable(request) \/ OptionsRefused(request)

EarliestRoot(plan, k) ==
    CHOOSE r \in RootsOfUnit(plan, plan.order[k]) :
       \A q \in RootsOfUnit(plan, plan.order[k]) : r <= q

\* The units first wanted by an AUR target, in the order of the plan.
UnitsFor(plan, r) ==
    LET mine == SelectSeq([k \in DOMAIN plan.order |-> k],
                          LAMBDA k : EarliestRoot(plan, k) = r)
    IN [n \in DOMAIN mine |-> ArtifactUnits(plan)[mine[n]]]

\* Target by target: its repository source, or the AUR units first due to it.
SyncItems(request, plan) ==
    FlattenSeq([j \in DOMAIN request.targets |->
        LET name == request.targets[j].name IN
        IF FromRepositorySource(request, j) THEN <<SourceUnit("repository", name, name)>>
        ELSE IF FromAur(request, j)
        THEN UnitsFor(plan, CHOOSE r \in DOMAIN SyncAurTargets(request) :
                               SyncAurTargets(request)[r] = j)
        ELSE <<>>])

SyncPreparation(request, plan) ==
    LET aur == SyncAurTargets(request)
        txn == {request.targets[j].name : j \in
                  {i \in DOMAIN request.targets : FromTransaction(request, i)}}
               \cup When(request.system, "system")
        correlated == \A r \in DOMAIN aur :
                         /\ r \in KnownRoots(plan)
                         /\ plan.roots[r] = request.targets[aur[r]].name
    IN IF SyncRefused(request) THEN Failure(FALSE, FALSE)
       ELSE IF aur # <<>> /\ ~(/\ correlated /\ RequireCapability(plan, "Build")
                               /\ Workable(plan))
       THEN Failure(TRUE, FALSE)
       ELSE Prepared(SyncItems(request, plan), IF NeedsTransaction(request) THEN txn ELSE {})

SyncRoot(request, plan, j) ==
    LET name == request.targets[j].name
    IN IF FromTransaction(request, j) THEN TransactionRoots({name})
       ELSE IF FromRepositorySource(request, j)
       THEN {RootOf(name, name, "RepositorySourceBuild")}
       ELSE {RootOf(t.name, t.base, "AurSourceBuild") : t \in
               FoundRoots(plan, CHOOSE r \in DOMAIN SyncAurTargets(request) :
                                   SyncAurTargets(request)[r] = j)}

\* The units of the plan are shown first, in the order of the plan, and then
\* those of the repositories.
SyncUnits(request, plan, items) ==
    Steps(SyncAurTargets(request) # <<>>, ProjectedUnits(plan))
    \o SelectSeq(items, LAMBDA u : u.kind = "repository")

\* The items and the units shown must be the same, in whatever order.
SyncInputConsistent(request, plan, prep) ==
    /\ SyncAurTargets(request) # <<>> =>
          /\ \A r \in KnownRoots(plan) : Cardinality(FoundRoots(plan, r)) = 1
          /\ ProjectionIssues(plan) = {}
    /\ {prep.items[n] : n \in DOMAIN prep.items}
          = LET units == SyncUnits(request, plan, prep.items)
            IN {units[n] : n \in DOMAIN units}

BlockedSync(plan, prep) ==
    [Known({}, <<>>, {"SyncPreparation"}
              \cup IF prep.planned THEN BuildPlanBlockers(plan) ELSE {})
     EXCEPT !.phases = <<"RequestDiscovery", "ExecutionProjection">>]

ProjectSync(request, plan, prep) ==
    LET planned == SyncAurTargets(request) # <<>>
        known == Known(UNION {SyncRoot(request, plan, j) : j \in DOMAIN request.targets},
                       SyncUnits(request, plan, prep.items),
                       IF planned THEN BuildPlanBlockers(plan) \cup ProjectionBlockers(plan)
                       ELSE {})
        repo == prep.txn \cup IF planned THEN RepositoryIntents(plan) ELSE {}
        libalpm == request.system
                   \/ \E j \in DOMAIN request.targets : ~FromAur(request, j)
    IN IF prep.outcome = "Failure"
       THEN Render(BlockedSync(plan, prep))
       ELSE IF ~SyncInputConsistent(request, plan, prep) THEN <<>>
       ELSE Render(WithPhases(ReadyUnlessBlocked(known, repo), libalpm, planned, planned))

(***************************************************************************)
(* -S of a query: the user picks packages from what a search has found.    *)
(* A request is [usable, selection, repository, aur, options]; aur has the *)
(* base each package had when it was found.                                *)
(***************************************************************************)
SelectedRootsCorrelate(aur, plan) ==
    /\ Len(plan.roots) = Len(aur)
    /\ \A r \in DOMAIN aur :
          /\ plan.roots[r] = aur[r].name
          /\ \E t \in plan.targets :
                /\ Matching(plan, aur[r].name, None) = {t}
                /\ t.base = aur[r].base /\ "Root" \in t.roles /\ r \in t.roots

\* usable: there is a query, no --rmdeps, a terminal, and the search worked.
RootRouted(request) == request.usable /\ request.selection = "chosen"

RootPreparation(request, plan) ==
    IF ~RootRouted(request) THEN Failure(FALSE, FALSE)
    ELSE IF request.aur = <<>>
    THEN IF request.options = "source" THEN Failure(FALSE, TRUE)
         ELSE Prepared(<<>>, request.repository)
    ELSE IF ~(/\ SelectedRootsCorrelate(request.aur, plan)
              /\ RequireCapability(plan, "Build") /\ Workable(plan))
    THEN Failure(TRUE, TRUE)
    ELSE Prepared(ArtifactUnits(plan), request.repository)

RootInputConsistent(request, plan, prep) ==
    IF prep.outcome = "Failure" THEN prep.planned => BlockedPlanRootsAre(plan, request.aur)
    ELSE request.aur # <<>> =>
            PlanRootsAre(plan, request.aur) /\ SourceWorkMatches(plan, prep.items)

BlockedRootPackage(request, plan, prep) ==
    LET roots == TransactionRoots(request.repository) \cup AurRoots(request.aur)
        blockers == {"RootPackagePreparation"}
                    \cup IF prep.planned THEN BuildPlanBlockers(plan) ELSE {}
    IN IF prep.routed
       THEN WithPhases(Known(roots, <<>>, blockers), request.repository # {},
                       request.aur # <<>>, prep.planned)
       ELSE [Known({}, <<>>, blockers) EXCEPT !.phases = <<"RequestDiscovery">>]

ProjectRootPackage(request, plan, prep) ==
    LET planned == request.aur # <<>>
        roots == TransactionRoots(request.repository) \cup AurRoots(request.aur)
        blockers == IF planned THEN BuildPlanBlockers(plan) \cup ProjectionBlockers(plan)
                    ELSE {}
        units == Steps(planned, ProjectedUnits(plan))
        repo == request.repository \cup IF planned THEN RepositoryIntents(plan) ELSE {}
    IN IF ~RootInputConsistent(request, plan, prep) THEN <<>>
       ELSE IF prep.outcome = "Failure"
       THEN Render(BlockedRootPackage(request, plan, prep))
       ELSE Render(WithPhases(ReadyUnlessBlocked(Known(roots, units, blockers), repo),
                              request.repository # {}, planned, planned))

(***************************************************************************)
(* --fetch: the sources of a plan, with their dependencies, are only       *)
(* retrieved.                                                              *)
(***************************************************************************)
FetchPreparation(plan) ==
    IF RequireCapability(plan, "Fetch")
    THEN Prepared([k \in DOMAIN plan.order |->
                     [ArtifactUnits(plan)[k] EXCEPT !.targets = {}]], {})
    ELSE Failure(TRUE, TRUE)

ProjectFetch(plan) ==
    LET roots == UNION {{RootOf(t.name, t.base, "AurSourceBuild") :
                           t \in FoundRoots(plan, r)} : r \in KnownRoots(plan)}
        units == [k \in DOMAIN plan.order |->
                    [ArtifactUnits(plan)[k] EXCEPT !.targets = {}]]
        o == ReadyUnlessBlocked(Known(roots, units, FetchPlanBlockers(plan)), {})
    IN IF \/ \E r \in KnownRoots(plan) : Cardinality(FoundRoots(plan, r)) > 1
          \/ o.status = "Ready"
             /\ \E r \in KnownRoots(plan) : FoundRoots(plan, r) = {}
       THEN <<>>
       ELSE Render([o EXCEPT !.phases =
               <<"RequestDiscovery", "MetadataDiscovery", "ProviderDecision",
                 "ExecutionProjection">>
               \o Steps(o.status = "Ready", <<"SourceRetrieval">>)])

(***************************************************************************)
(* --build of one source, [kind, name, base], as its name was resolved     *)
(* before the plan was made.                                               *)
(***************************************************************************)
RemotePreparation(source, plan) ==
    IF source.kind = "repository"
    THEN Prepared(<<SourceUnit("repository", source.name, source.base)>>, {})
    ELSE IF ~RequireCapability(plan, "Build") THEN Failure(TRUE, TRUE)
    ELSE IF Workable(plan) /\ \E k \in DOMAIN plan.order : plan.order[k].base = source.base
    THEN Prepared(ArtifactUnits(plan), {})
    ELSE Error

BlockedRemote(source, plan) ==
    LET root == RootOf(source.name, source.base, "AurSourceBuild")
    IN IF BuildPlanBlockers(plan) = {} THEN <<>>
       ELSE Render(WithPhases(Known({root}, <<>>, BuildPlanBlockers(plan)), FALSE, TRUE, TRUE))

ProjectRemote(source, plan, prep) ==
    LET aur == source.kind = "aur"
        root == {RootOf(source.name, source.base,
                        IF aur THEN "AurSourceBuild" ELSE "RepositorySourceBuild")}
        known == Known(root, prep.items,
                       IF aur THEN BuildPlanBlockers(plan) \cup ProjectionBlockers(plan)
                       ELSE {})
        repo == IF aur THEN RepositoryIntents(plan) ELSE {}
    IN CASE prep.outcome = "Error" -> <<>>
         [] prep.outcome = "Failure" -> BlockedRemote(source, plan)
         [] OTHER ->
               IF aur /\ ~(PlanRootsAre(plan, <<source>>) /\ SourceWorkMatches(plan, prep.items))
               THEN <<>>
               ELSE Render(WithPhases(ReadyUnlessBlocked(known, repo), ~aur, aur, aur))

(***************************************************************************)
(* --upgrade: the system, then the registered sources one by one.  The     *)
(* AUR sources share an invocation plan, and each has a plan of its own.   *)
(***************************************************************************)
IsAur(source) == source.kind = "aur"
SourceUnits(sources) ==
    [n \in DOMAIN sources |-> SourceUnit(sources[n].kind, sources[n].name, sources[n].base)]

\* A registered AUR source is built alone: its base must be its name, and
\* the user may not have chosen an AUR package for one of its dependencies.
RegisteredWorkable(source, own) ==
    /\ source.name = source.base /\ RequireCapability(own, "Install")
    /\ \A p \in own.userSelected : p.origin # "aur"
    /\ ProjectionIssues(own) = {}
    /\ \E t \in own.targets : t.name = source.name /\ t.base = source.base

SystemSourcePreparation(sources, plan, own) ==
    LET aur == SelectSeq(sources, IsAur)
    IN IF /\ aur # <<>> => RequireCapability(plan, "Install")
          /\ \A n \in DOMAIN aur : RegisteredWorkable(aur[n], own[n])
       THEN Prepared(SourceUnits(sources), {"system"})
       ELSE Failure(TRUE, TRUE)

SystemSourceRoots(sources) ==
    {RootOf(sources[n].name, sources[n].base,
            IF IsAur(sources[n]) THEN "AurSourceBuild" ELSE "RepositorySourceBuild") :
       n \in DOMAIN sources}

SystemSourceAuthority(sources, plan, prep) ==
    LET aur == SelectSeq(sources, IsAur)
    IN /\ Len(prep.items) = Len(sources)
       /\ \A n \in DOMAIN sources :
             prep.items[n] = SourceUnit(sources[n].kind, sources[n].name, sources[n].base)
       /\ aur # <<>> => PlanRootsAre(plan, aur)

BlockedSystemSource(sources, plan) ==
    LET aur == SelectSeq(sources, IsAur)
        planned == aur # <<>>
    IN IF planned /\ ~BlockedPlanRootsAre(plan, aur) THEN <<>>
       ELSE Render(SystemSourcePhases(
               Known(SystemSourceRoots(sources), <<>>, {"SystemSourcePreparation"}
                       \cup IF planned THEN BuildPlanBlockers(plan) ELSE {}), planned))

ProjectSystemSource(sources, plan, prep) ==
    LET planned == SelectSeq(sources, IsAur) # <<>>
        blockers == IF planned THEN BuildPlanBlockers(plan) ELSE {}
        repo == {"system"} \cup IF planned THEN RepositoryIntents(plan) ELSE {}
        known == Known(SystemSourceRoots(sources), prep.items, blockers)
    IN IF prep.outcome = "Failure" THEN BlockedSystemSource(sources, plan)
       ELSE IF ~SystemSourceAuthority(sources, plan, prep) THEN <<>>
       ELSE Render(SystemSourcePhases(ReadyUnlessBlocked(known, repo), planned))

\* upgrade-all whose sources could not be prepared.
BlockedUpgradeAll(sources, plan) ==
    LET shown == BlockedSystemSource(sources, plan)
    IN IF shown = <<>> THEN <<>>
       ELSE Render([shown[1] EXCEPT !.phases = <<"RequestDiscovery", "ExecutionProjection">>])

(***************************************************************************)
(* AUR updates.  kept are the entries the preflight is about and status is *)
(* what it said of them; a plan is made when some of them are candidates,  *)
(* and each candidate has its root.                                        *)
(***************************************************************************)
HasPlan(kept) == Candidates(kept) # <<>> /\ ~HasDuplicates(kept)

RootedEntries(kept) == IF HasPlan(kept) THEN CandidateSet(kept) ELSE {}

AurInputConsistent(query, kept, status, plan) ==
    /\ Len(query) = Len(kept)
    /\ \A i \in DOMAIN kept : query[i] = kept[i]
    /\ Executable(status) \subseteq RootedEntries(kept)
    /\ \A i \in RootedEntries(kept) : \A r \in OwnRoot(kept, i) :
          IsPlanRoot(plan, r, kept[i].name, kept[i].base)
    /\ HasPlan(kept) =>
          KnownRoots(plan) = UNION {OwnRoot(kept, i) : i \in RootedEntries(kept)}

AllRootsExecutable(kept, status, plan) ==
    /\ HasPlan(kept) /\ RootedEntries(kept) # {}
    /\ \A i \in RootedEntries(kept) : status[i] = "Executable" /\ kept[i].reason # "Unknown"
    /\ Cardinality(RootedEntries(kept)) = Len(plan.roots)

\* An updated package keeps its reason.  Throws unless every root will be
\* updated.
AurArtifactUnits(kept, plan) ==
    [k \in DOMAIN plan.order |->
        [ArtifactUnits(plan)[k] EXCEPT !.targets =
            {[name |-> t.name,
              reason |-> LET own == {i \in RootedEntries(kept) : kept[i].name = t.name}
                         IN IF own = {} THEN t.reason
                            ELSE kept[CHOOSE i \in own : TRUE].reason] : t \in @}]]

AurRootsOf(kept) ==
    {RootOf(kept[i].name, kept[i].base, "AurSourceBuild") : i \in
        {j \in DOMAIN kept : kept[j].base # None}}

\* The preparation repeats an issue that the preflight's target has shown.
AlreadyShown(issue, status) ==
    /\ issue.reason = "PreflightBlocked"
    /\ \E i \in issue.updates : issue.updates = {i} /\ Blocking(status[i])

PreparationBlockers(prep, status) ==
    When(\E issue \in prep.issues : ~AlreadyShown(issue, status), "Preparation")

AurBlockers(status, prep, failures) ==
    When(failures # {}, "SourceFailure")
    \cup When(\E i \in DOMAIN status : Blocking(status[i]), "Preflight")
    \cup PreparationBlockers(prep, status)

AurStatus(o, status, repo) ==
    IF o.blockers # {} THEN o
    ELSE IF Executable(status) = {} THEN [o EXCEPT !.status = "NoOp"]
    ELSE Ready(o, repo)

PlanPart(kept, plan, X(_)) == IF HasPlan(kept) THEN X(plan) ELSE {}

ProjectAurUpdate(query, kept, status, plan, prep, failures) ==
    LET projects == HasPlan(kept) /\ ProjectionIssues(plan) = {}
        units == Steps(projects, AurArtifactUnits(kept, plan))
        blockers == AurBlockers(status, prep, failures)
                    \cup PlanPart(kept, plan, BuildPlanBlockers)
                    \cup PlanPart(kept, plan, ProjectionBlockers)
    IN IF \/ ~AurInputConsistent(query, kept, status, plan)
          \/ projects /\ ~AllRootsExecutable(kept, status, plan)
       THEN <<>>
       ELSE Render(AurUpdatePhases(AurStatus(Known(AurRootsOf(kept), units, blockers), status,
                                             PlanPart(kept, plan, RepositoryIntents)),
                                   query, failures, HasPlan(kept)))

(***************************************************************************)
(* --upgrade-all: system, registered sources (of repositories here), AUR.  *)
(* What is queried is every installed package; what the preflight is about *)
(* are those that no registered source updates.                            *)
(***************************************************************************)
\* The sources are shown, and why nothing is known of the AUR.
UnassessedUpgradeAll(registered, stopped, issues) ==
    Render([Known(SystemSourceRoots(registered), SourceUnits(registered), issues)
            EXCEPT !.phases = <<"RequestDiscovery", "MetadataDiscovery">>
                     \o Steps(stopped \in {"AurQuery", "AurPreparation"}, <<"MetadataDiscovery">>)
                     \o <<"ExecutionProjection">>])

ProjectUpgradeAll(query, kept, status, registered, plan, prep, failures) ==
    LET projects == HasPlan(kept) /\ ProjectionIssues(plan) = {}
        units == SourceUnits(registered)
                 \o Steps(projects, AurArtifactUnits(kept, plan))
        blockers == AurBlockers(status, prep, failures)
                    \cup PlanPart(kept, plan, BuildPlanBlockers)
                    \cup PlanPart(kept, plan, ProjectionBlockers)
        repo == {"system"} \cup PlanPart(kept, plan, RepositoryIntents)
    IN IF \/ ~AurInputConsistent(query, kept, status, plan)
          \/ projects /\ ~AllRootsExecutable(kept, status, plan)
       THEN <<>>
       ELSE LET o == ReadyUnlessBlocked(Known(SystemSourceRoots(registered)
                                                \cup AurRootsOf(kept), units, blockers), repo)
                parts == IF o.status # "Ready" THEN 0
                         ELSE Cardinality(When(registered # <<>>, "source")
                                          \cup When(Executable(status) # {}, "aur"))
            IN Render(UpgradeAllPhases(o, query, failures, HasPlan(kept), parts))

(***************************************************************************)
(* -Syu: the repository upgrade, shown for itself, and what could follow   *)
(* it from the AUR, if nothing failed before it could be assessed.         *)
(***************************************************************************)
RepositoryUpgrade ==
    [Ready(Known({}, <<>>, {}), {"system"}) EXCEPT
        !.stage = "RepositorySystemUpgrade",
        !.phases = <<"RequestDiscovery", "ExecutionProjection", "RepositoryTransaction">>]

MatchesNoOp(prep) == prep.outcome = "NoOp" /\ prep.issues = {} /\ prep.items = <<>>

\* Every unit of the plan is a work item, and every child of it is the one
\* that the updates require.
MatchesReady(kept, status, plan, prep) ==
    /\ prep.outcome = "Prepared" /\ prep.issues = {} /\ prep.items # <<>>
    /\ Executable(status) # {}
    /\ Len(prep.items) = Len(plan.order)
    /\ \A n \in DOMAIN prep.items :
          /\ prep.items[n].unit \in DOMAIN plan.order
          /\ prep.items[n].base = plan.order[prep.items[n].unit].base
          /\ prep.items[n].children = Children(kept, status, plan, prep.items[n].unit)

\* Nothing is known of the AUR: an inventory or a query failed.
UnassessedAur(issues) ==
    [Known({}, <<>>, issues) EXCEPT !.phases =
        <<"RequestDiscovery", "MetadataDiscovery", "ExecutionProjection">>]

\* The status must be that of the preparation.
SystemAurStatus(o, kept, status, plan, prep) ==
    LET judged == AurStatus(o, status, PlanPart(kept, plan, RepositoryIntents))
    IN IF \/ judged.status = "NoOp" /\ ~MatchesNoOp(prep)
          \/ judged.status = "Ready" /\ ~MatchesReady(kept, status, plan, prep)
       THEN <<>> ELSE <<judged>>

ProjectSystemAur(query, status, plan, prep, planning, failures, issues) ==
    LET projects == HasPlan(query) /\ ProjectionIssues(plan) = {}
        units == Steps(projects /\ AllRootsExecutable(query, status, plan),
                       AurArtifactUnits(query, plan))
        blockers == AurBlockers(status, prep, failures)
                    \cup When(planning # {}, "FilteredOperation")
                    \cup PlanPart(query, plan, BuildPlanBlockers)
                    \cup PlanPart(query, plan, ProjectionBlockers)
        o == SystemAurStatus([Known(AurRootsOf(query), units, blockers) EXCEPT
                                 !.stage = "LaterNormalAur"], query, status, plan, prep)
    IN IF issues # {} THEN Render(UnassessedAur(issues))
       ELSE IF ~AurInputConsistent(query, query, status, plan) \/ o = <<>> THEN <<>>
       ELSE Render(AurUpdatePhases(o[1], query, failures, HasPlan(query)))
=============================================================================
