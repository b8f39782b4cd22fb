-------------------------- MODULE FilteredAurUpdate --------------------------
(***************************************************************************)
(* The AUR updates that remain when packages registered as sources are     *)
(* left to the source upgrade (filtered_aur_update_operation.cpp): targets *)
(* are filtered before a build plan is made, build units after it, and     *)
(* what is left is prepared.                                               *)
(*                                                                         *)
(* entries and plan are those of AurUpdatePreflight; sources are those of  *)
(* UpgradeAllPlan.  roots of the plan are the filtered candidates.         *)
(***************************************************************************)
EXTENDS AurUpdatePreparation

UA == INSTANCE UpgradeAllPlan

(***************************************************************************)
(* Targets                                                                 *)
(***************************************************************************)
NormalSkip(e) == e.state \in {"UpToDate", "NonAurForeign"}
PolicySkip(e, policy) == e.state = "RequiresCheck" /\ policy = "SkipIndependentTarget"

AdaptedStatus(e, policy) ==
    IF \/ e.state = "UpdateAvailable" /\ e.base # None
       \/ e.state = "Bootstrap" /\ policy = "SkipIndependentTarget"
    THEN "Candidate" ELSE "Incomplete"

\* The entries the planner is asked about, in order.
PlannerTargets(entries, policy) ==
    SelectSeq([i \in DOMAIN entries |-> i],
              LAMBDA i : ~NormalSkip(entries[i]) /\ ~PolicySkip(entries[i], policy))

PlanInput(entries, policy, sources, units) ==
    LET chosen == PlannerTargets(entries, policy)
    IN [sources |-> sources,
        targets |-> [k \in DOMAIN chosen |->
                       [name |-> entries[chosen[k]].name,
                        base |-> IF entries[chosen[k]].base = None THEN "absent"
                                 ELSE entries[chosen[k]].base,
                        status |-> AdaptedStatus(entries[chosen[k]], policy)]],
        units |-> units]

TargetPlan(entries, policy, sources) ==
    UA!MakeUpgradeAllPlan(PlanInput(entries, policy, sources, <<>>))

\* Left out: what a registered source will update.
ExcludedEntries(entries, policy, sources) ==
    LET chosen == PlannerTargets(entries, policy)
        disposition == TargetPlan(entries, policy, sources).targets
    IN {chosen[k] : k \in {j \in DOMAIN chosen :
          disposition[j] \in {"ExcludedByExplicitPackageName", "ExcludedByExplicitPackageBase"}}}

FilteredIndexes(entries, policy, sources) ==
    LET excluded == ExcludedEntries(entries, policy, sources)
    IN SelectSeq([i \in DOMAIN entries |-> i], LAMBDA i : i \notin excluded)

FilteredEntries(entries, policy, sources) ==
    LET kept == FilteredIndexes(entries, policy, sources)
    IN [k \in DOMAIN kept |-> entries[kept[k]]]

\* The selected targets, in order: root r of the plan belongs to the r-th.
SelectedPlannerTargets(entries, policy, sources) ==
    SelectSeq([k \in DOMAIN PlannerTargets(entries, policy) |-> k],
              LAMBDA k : TargetPlan(entries, policy, sources).targets[k] = "Selected")

(***************************************************************************)
(* Roots: each selected target must be the root of its own position, and   *)
(* a root package with its base.                                           *)
(***************************************************************************)
RootPackageMatches(plan, e, n) ==
    \E t \in Unique(plan, e.name, None) :
       "Root" \in t.roles /\ n \in t.roots /\ t.base = e.base

CorrelatePreflight(entries, policy, sources, plan) ==
    LET chosen == PlannerTargets(entries, policy)
        selected == SelectedPlannerTargets(entries, policy, sources)
    IN {<<"BuildPlanRootMismatch", k>> : k \in
          {n \in DOMAIN selected :
             LET e == entries[chosen[selected[n]]] IN
             \/ n \notin KnownRoots(plan)
             \/ plan.roots[n] # e.name
             \/ ~RootPackageMatches(plan, e, n)}}

(***************************************************************************)
(* Which roots need a package, and in which role, derived from the edges   *)
(* and compared with what the plan declares.                               *)
(***************************************************************************)
InexactEdges(plan) ==
    {e \in plan.edges :
        /\ e.role \in DependencyRoles /\ e.kind \in {"Aur", "Provided"}
        /\ ~(\E p \in Unique(plan, e.parent, e.parentBase), t \in EdgeTargets(plan, e) :
               e.role \in t.roles /\ p.roots # {} /\ p.roots \subseteq t.roots)}

DerivedRootRoles(plan, t) ==
    LET graph == CoherentGraph(plan)
    IN {[root |-> r, role |-> "Root"] : r \in
           {s \in KnownRoots(plan) : t \in Unique(plan, plan.roots[s], None)
                                     /\ "Root" \in t.roles /\ s \in t.roots}}
       \cup {d \in [root : KnownRoots(plan), role : DependencyRoles] :
               \E g \in graph : /\ g.target = t /\ g.role = d.role
                                /\ g.parent \in Reachable(plan, graph, d.root)}

DerivationIssues(plan) ==
    {<<"InexactEdge", e>> : e \in InexactEdges(plan)}
    \cup {<<"DerivedRootsDiffer", t>> : t \in
            {u \in plan.targets :
               \/ {d.root : d \in DerivedRootRoles(plan, u)} # u.roots
               \/ {d.role : d \in DerivedRootRoles(plan, u)} # u.roles}}

\* The build units as the planner sees them: a root is the target it is for.
AdaptBuildPlan(entries, policy, sources, plan) ==
    LET selected == SelectedPlannerTargets(entries, policy, sources)
    IN [k \in DOMAIN plan.order |->
          [base |-> plan.order[k].base, names |-> NamesOf(plan.order[k]),
           roots |-> {selected[r] : r \in DOMAIN selected \cap
                        UNION {{d.root : d \in DerivedRootRoles(plan, t)} :
                                 t \in RequiredTargets(plan, k)}}]]

AdapterIssues(entries, policy, sources, plan) ==
    DerivationIssues(plan)
    \cup {<<"OrderIdentityMismatch", k>> : k \in
            {n \in DOMAIN plan.order :
               \/ plan.order[n].names = <<>>
               \/ \E m \in NamesOf(plan.order[n]) : Unique(plan, m, plan.order[n].base) = {}}}
    \cup {<<"RootWithoutTarget", r>> : r \in
            KnownRoots(plan) \ DOMAIN SelectedPlannerTargets(entries, policy, sources)}

(***************************************************************************)
(* The whole plan, and which units are built here                          *)
(***************************************************************************)
CompletePlan(entries, policy, sources, plan) ==
    UA!MakeUpgradeAllPlan(PlanInput(entries, policy, sources,
                                    AdaptBuildPlan(entries, policy, sources, plan)))

\* Mutant: what a registered source satisfies is built here as well.
Mutant_MakeSelection(full) ==
    [k \in DOMAIN full.units |->
        IF full.units[k] \in {"SelectedForAurExecution",
                              "ExternallySatisfiedByExplicitSourcePackageBase"}
        THEN "selected" ELSE "unmapped"]

MakeSelection(full) ==
    [k \in DOMAIN full.units |->
        CASE full.units[k] = "SelectedForAurExecution" -> "selected"
          [] full.units[k] = "ExternallySatisfiedByExplicitSourcePackageBase" -> "external"
          [] OTHER -> "unmapped"]

\* full is the complete plan.
PlanningIssues(entries, policy, sources, plan, full) ==
    full.issues \cup CorrelatePreflight(entries, policy, sources, plan)
    \cup AdapterIssues(entries, policy, sources, plan)
    \cup {<<"SelectionMapping", k>> : k \in
            {n \in DOMAIN full.units : MakeSelection(full)[n] = "unmapped"}}

\* Planning issues stop the targets that could have been executed.
PlanningBlocker(status) ==
    [outcome |-> "Blocked", items |-> <<>>, affected |-> Executable(status),
     issues |-> {[reason |-> "Planning", updates |-> Executable(status)]}]

\* With planning issues nothing is executed, whatever could be prepared; if
\* the preflight has issues of its own, they are the ones that show.
FilteredPreparation(kept, skipped, status, plan, planning, full, prefs) ==
    IF /\ planning # {} /\ Executable(status) # {}
       /\ \A i \in DOMAIN status : ~Blocking(status[i])
    THEN PlanningBlocker(status)
    ELSE Prepare(kept, skipped, status, plan,
                 IF planning = {} THEN MakeSelection(full)
                 ELSE [k \in DOMAIN plan.order |-> "selected"], prefs)

FilteredOperation(kept, status, planning, prep) ==
    [outcome |-> IF planning # {} THEN "Blocked" ELSE prep.outcome,
     items |-> IF planning # {} THEN <<>> ELSE prep.items,
     kept |-> kept, status |-> status, planning |-> planning, prep |-> prep,
     report |-> ReduceUnexecuted(status, prep)]

PrepareFiltered(entries, policy, sources, plan, prefs) ==
    LET planned(kept, status, planning, full) ==
            FilteredOperation(kept, status, planning,
               FilteredPreparation(kept,
                  SkippedInconsistencies(kept, policy, status,
                                         PreflightReasons(kept, policy, plan),
                                         RequiredDevelTargets(kept, policy, plan)),
                  status, plan, planning, full, prefs))
        preflighted(kept, full) ==
            planned(kept, Preflight(kept, policy, plan),
                    PlanningIssues(entries, policy, sources, plan, full), full)
    IN preflighted(FilteredEntries(entries, policy, sources),
                   CompletePlan(entries, policy, sources, plan))

(***************************************************************************)
(* Before the first package is touched, what was prepared is compared with *)
(* the preflight and the plan once more.                                   *)
(***************************************************************************)
SnapshotMatches(status, plan, prep) ==
    prep.affected = Executable(status) /\ KnownRoots(plan) # {}

PreparedItemIssues(plan, selection, items) ==
    {<<"ExecutionBuildUnitMapping", n>> : n \in
        {m \in DOMAIN items :
            \/ items[m].unit \notin DOMAIN plan.order
            \/ items[m].base # plan.order[items[m].unit].base
            \/ {c.name : c \in items[m].children} # NamesOf(plan.order[items[m].unit])
            \/ selection[items[m].unit] # "selected"
            \/ m # Cardinality({k \in 1..items[m].unit : selection[k] = "selected"})}}

\* kept, status and planning are those of the operation; correlation is
\* computed once more.
WillExecute(kept, status, planning, correlation, plan, selection, prep) ==
    /\ \A i \in DOMAIN status : ~Blocking(status[i])
    /\ planning = {} /\ correlation = {}
    /\ SnapshotMatches(status, plan, prep)
    /\ PreparedItemIssues(plan, selection, prep.items) = {}
    /\ IsPrepared(kept, status, plan, selection, prep)

FilteredNoOp(status, planning, prep) ==
    /\ \A i \in DOMAIN status : ~Blocking(status[i])
    /\ planning = {} /\ IsNoOp(prep)

(***************************************************************************)
(* Results of selected targets are looked up in the report by the position *)
(* that they have among the filtered entries.                              *)
(***************************************************************************)
MapSelectedResults(entries, policy, sources, report) ==
    LET chosen == PlannerTargets(entries, policy)
        selected == SelectedPlannerTargets(entries, policy, sources)
        kept == FilteredIndexes(entries, policy, sources)
    IN [n \in DOMAIN selected |->
          {report.targets[i] : i \in {j \in DOMAIN report.targets : kept[j] = chosen[selected[n]]}}]

FilteredSuccess(planningIssues, results, report, prep) ==
    /\ planningIssues = {} /\ UnexecutedSuccess(report, prep)
    /\ \A n \in DOMAIN results : results[n] # {}

(***************************************************************************)
(* upgrade-all keeps what it left out, each thing found again where it     *)
(* came from; what cannot be found makes its whole result inconsistent,    *)
(* after packages were installed.                                          *)
(***************************************************************************)
DuplicateExclusions(entries, policy, sources) ==
    LET chosen == PlannerTargets(entries, policy)
        in == PlanInput(entries, policy, sources, <<>>)
        left == {k \in DOMAIN chosen : TargetPlan(entries, policy, sources).targets[k] \in
                   {"ExcludedByExplicitPackageName", "ExcludedByExplicitPackageBase"}}
    IN [targets |-> {[target |-> k, entry |-> chosen[k]] : k \in left},
        consistent |-> \A k \in left : /\ chosen[k] \in DOMAIN entries
                                       /\ in.targets[k].name = entries[chosen[k]].name]

HasExactChildIdentity(plan, k) ==
    LET required == RequiredTargets(plan, k)
    IN /\ plan.order[k].names # <<>> /\ ~Repeats(plan.order[k].names)
       /\ {t.name : t \in required} = NamesOf(plan.order[k])
       /\ \A t \in required : t.base = plan.order[k].base

ExternalSatisfaction(plan, full) ==
    LET external == ExternalUnits(MakeSelection(full))
    IN [units |-> external,
        consistent |-> \A k \in external : HasExactChildIdentity(plan, k)]
==============================================================================
