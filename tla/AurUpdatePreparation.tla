------------------------ MODULE AurUpdatePreparation ------------------------
(***************************************************************************)
(* From an accepted preflight to work items                                *)
(* (aur_update_execution_preparation.cpp).                                 *)
(*                                                                         *)
(* selection[k] says whether unit k of the build plan is to be built here  *)
(* ("selected") or is built by a registered source ("external").           *)
(* prefs[name] is what the source preference of that name says:            *)
(*   "absent", "empty" (nothing to forward), "set", "pkgdest", "failure".  *)
(***************************************************************************)
EXTENDS AurUpdatePreflight

Executable(status) == {i \in DOMAIN status : status[i] = "Executable"}

(***************************************************************************)
(* Statuses the preflight must not have left behind                        *)
(***************************************************************************)
Blocking(s) == s \in {"Unsupported", "Incomplete"}

PreflightBlockers(status) ==
    {[reason |-> "PreflightBlocked", updates |-> {i}] : i \in
        {j \in DOMAIN status : Blocking(status[j])}}

\* A skipped target must say why, in one way.
SkippedInconsistencies(entries, policy, status, reasons, required) ==
    {[reason |-> "SkippedTarget", updates |-> {i}] : i \in
        {j \in DOMAIN status :
            /\ status[j] = "Skipped"
            /\ ~ValidSkipSnapshot(entries, policy, status, reasons,
                                  SkipKinds(status, reasons, required, j), j)}}

(***************************************************************************)
(* The executable targets and the roots of the plan correspond one to one. *)
(***************************************************************************)
Binding(entries, plan, i) ==
    {r \in KnownRoots(plan) : r \in OwnRoot(entries, i) /\ plan.roots[r] = entries[i].name}

BindingIssues(entries, status, plan) ==
    {[reason |-> "RootBindingInconsistent", updates |-> {i}] : i \in
        {j \in Executable(status) : Binding(entries, plan, j) = {}}}
    \cup IF \A r \in KnownRoots(plan) :
              \E i \in Executable(status) : r \in Binding(entries, plan, i)
         THEN {}
         ELSE {[reason |-> "RootBindingInconsistent", updates |-> Executable(status)]}

RootTargetIssues(entries, status, plan) ==
    {[reason |-> "RootPackageAttribution", updates |-> {i}] : i \in
        {j \in Executable(status) :
            Cardinality({t \in Matching(plan, entries[j].name, entries[j].base) :
                            /\ "Root" \in t.roles
                            /\ Binding(entries, plan, j) \subseteq t.roots}) # 1}}

SelectionIssues(status, plan, selection) ==
    IF DOMAIN selection = DOMAIN plan.order THEN {}
    ELSE {[reason |-> "BuildUnitSelectionInconsistent", updates |-> Executable(status)]}

(***************************************************************************)
(* Work items.  A package that is updated keeps the install reason it has; *)
(* a package built only as a dependency is installed as one.               *)
(***************************************************************************)
UpdateOf(entries, status, plan, t) ==
    {i \in Executable(status) : /\ entries[i].name = t.name
                                /\ Binding(entries, plan, i) \subseteq t.roots}

DesiredReasonFor(entries, status, plan, t) ==
    LET own == UpdateOf(entries, status, plan, t)
    IN IF Cardinality(own) = 1 /\ "Root" \in t.roles
       THEN {entries[i].reason : i \in own} \ {"Unknown"}
       ELSE IF own = {} /\ "Root" \notin t.roles /\ t.roles \cap DependencyRoles # {}
       THEN {"Dependency"}
       ELSE {}

UpdatesAt(entries, status, plan, roots) ==
    {i \in Executable(status) : Binding(entries, plan, i) \cap roots # {}}

\* Each root of a package must be the root of an executable target.
Attributed(entries, status, plan, t) ==
    /\ t.roots # {}
    /\ \A r \in t.roots : \E i \in Executable(status) : r \in Binding(entries, plan, i)

Children(entries, status, plan, k) ==
    {[name |-> t.name, updates |-> UpdatesAt(entries, status, plan, t.roots),
      own |-> UpdateOf(entries, status, plan, t),
      reason |-> DesiredReasonFor(entries, status, plan, t)] : t \in RequiredTargets(plan, k)}

DraftIssues(entries, status, plan) ==
    {[reason |-> "PackageTargetAttribution", updates |-> Executable(status)] : i \in
        {1 : x \in ProjectionIssues(plan)}}
    \cup {[reason |-> "PackageTargetAttribution", updates |-> Executable(status)] : t \in
        {u \in plan.targets : \/ ~Attributed(entries, status, plan, u)
                              \/ DesiredReasonFor(entries, status, plan, u) = {}}}

\* A target whose own package is built elsewhere has no work item of its own.
UnselectedRootIssues(entries, status, plan, selection) ==
    {[reason |-> "RootWorkItemMissing", updates |-> {i}] : i \in
        {j \in Executable(status) :
            \A k \in DOMAIN plan.order :
               selection[k] = "selected" =>
                  \A t \in RequiredTargets(plan, k) :
                     t.name = entries[j].name => Binding(entries, plan, j) \cap t.roots = {}}}

\* The preference of a single package is looked up by its own name, and by
\* its base only when its own says nothing; of several, by the base alone.
PreferenceName(plan, k, prefs) ==
    LET names == NamesOf(plan.order[k])
        base == plan.order[k].base
        own == CHOOSE n \in names : TRUE
    IN IF Cardinality(names) # 1 THEN base
       ELSE IF prefs[own] \in {"absent", "empty"} /\ own # base THEN base
       ELSE own

PreferenceIssues(entries, status, plan, selection, prefs) ==
    {[reason |-> "SourcePreference",
      updates |-> UNION {c.updates : c \in Children(entries, status, plan, k)}] : k \in
        {n \in DOMAIN plan.order :
            /\ selection[n] = "selected"
            /\ prefs[PreferenceName(plan, n, prefs)] \in {"failure", "pkgdest"}}}

(***************************************************************************)
(* The stages, in order; the first one with issues ends the preparation.   *)
(***************************************************************************)
FirstIssues(stages) ==
    IF \A s \in DOMAIN stages : stages[s] = {} THEN {}
    ELSE stages[CHOOSE s \in DOMAIN stages :
                   stages[s] # {} /\ \A t \in 1..(s - 1) : stages[t] = {}]

\* skipped: the inconsistencies of skipped targets.
PreparationIssues(entries, skipped, status, plan, selection, prefs) ==
    FirstIssues(<<
        skipped \cup PreflightBlockers(status),
        BindingIssues(entries, status, plan),
        RootTargetIssues(entries, status, plan),
        SelectionIssues(status, plan, selection),
        DraftIssues(entries, status, plan),
        UnselectedRootIssues(entries, status, plan, selection),
        PreferenceIssues(entries, status, plan, selection, prefs)>>)

WorkItems(entries, status, plan, selection) ==
    LET units == SelectSeq([k \in DOMAIN plan.order |-> k],
                           LAMBDA k : selection[k] = "selected")
    IN [n \in DOMAIN units |->
          [base |-> plan.order[units[n]].base, unit |-> units[n],
           children |-> Children(entries, status, plan, units[n])]]

\* affected: the targets the result is about.
Prepare(entries, skipped, status, plan, selection, prefs) ==
    IF /\ Executable(status) = {} /\ ~(\E i \in DOMAIN status : Blocking(status[i]))
       /\ skipped = {}
    THEN [outcome |-> "NoOp", issues |-> {}, items |-> <<>>, affected |-> {}]
    ELSE LET held == {i \in DOMAIN status : Blocking(status[i])}
             with(issues) ==
                IF issues # {}
                THEN [outcome |-> "Blocked", issues |-> issues, items |-> <<>>,
                      affected |-> IF held # {} THEN held ELSE Executable(status)]
                ELSE [outcome |-> "Prepared", issues |-> {}, affected |-> Executable(status),
                      items |-> WorkItems(entries, status, plan, selection)]
         IN with(PreparationIssues(entries, skipped, status, plan, selection, prefs))

(***************************************************************************)
(* What is prepared is checked against what it was prepared from.          *)
(***************************************************************************)
\* Every unit of the plan, built here or elsewhere, with the targets it is for.
UnitProjection(entries, status, plan) ==
    [k \in DOMAIN plan.order |->
        LET children == Children(entries, status, plan, k)
        IN [base |-> plan.order[k].base, children |-> children,
            updates |-> UNION {c.updates : c \in children}]]

ExactProjection(plan, status, projected, selection) ==
    /\ DOMAIN projected = DOMAIN selection
    /\ \A k \in DOMAIN projected :
          LET unit == projected[k] IN
          /\ unit.base = plan.order[k].base
          /\ Cardinality(unit.children) = Len(plan.order[k].names)
          /\ {c.name : c \in unit.children} = NamesOf(plan.order[k])
          /\ unit.updates # {} /\ unit.updates \subseteq Executable(status)
          /\ \A c \in unit.children : c.updates # {} /\ c.reason # {}

ExternalUnits(selection) == {k \in DOMAIN selection : selection[k] = "external"}

\* The selected units are the work items, in order, and the rest is external.
ExactSelection(plan, status, projected, selection, items) ==
    LET chosen == SelectSeq([k \in DOMAIN selection |-> k],
                            LAMBDA k : selection[k] = "selected")
    IN /\ ExactProjection(plan, status, projected, selection)
       /\ Len(chosen) = Len(items)
       /\ \A n \in DOMAIN items :
             /\ items[n].unit = chosen[n]
             /\ items[n].base = projected[chosen[n]].base
             /\ items[n].children = projected[chosen[n]].children
       /\ DOMAIN selection = ExternalUnits(selection) \cup {chosen[n] : n \in DOMAIN chosen}

ExactPreparedCorrelation(entries, status, plan, items) ==
    /\ items # <<>>
    /\ \A n \in DOMAIN items :
          /\ items[n].base = plan.order[items[n].unit].base
          /\ {c.name : c \in items[n].children} = NamesOf(plan.order[items[n].unit])
          /\ \A c \in items[n].children : c.updates # {} /\ c.updates \subseteq Executable(status)
    /\ \A m, n \in DOMAIN items : m < n => items[m].unit < items[n].unit
    /\ \A i \in Executable(status) :
          \E n \in DOMAIN items : \E c \in items[n].children : i \in c.updates

IsPrepared(entries, status, plan, selection, prep) ==
    /\ prep.items # <<>> /\ prep.issues = {}
    /\ ExactSelection(plan, status, UnitProjection(entries, status, plan), selection, prep.items)
    /\ ExactPreparedCorrelation(entries, status, plan, prep.items)

IsNoOp(prep) == prep.items = <<>> /\ prep.issues = {}

(***************************************************************************)
(* The report of an operation of which nothing was executed                *)
(* (aur_update_operation_result.cpp): what became of each target, unless   *)
(* preflight and preparation contradict each other.                        *)
(***************************************************************************)
InitialTargetStatus(s) == IF s = "Executable" THEN "NotAttempted" ELSE s

CorrelationPhase(status) ==
    IF \E i \in DOMAIN status : Blocking(status[i]) THEN "PreflightBlocked"
    ELSE IF Executable(status) # {} THEN "Executable" ELSE "NoTargets"

IssueTargetAllowed(phase, s) ==
    \/ phase = "Executable" /\ s = "Executable"
    \/ phase = "PreflightBlocked" /\ Blocking(s)

TargetSnapshotConsistent(status, prep) ==
    prep.affected = {i \in DOMAIN status : IssueTargetAllowed(CorrelationPhase(status), status[i])}

\* An issue about nobody is everybody's, if somebody can be executed.
IssuesAttributed(status, prep) ==
    \A issue \in prep.issues :
       /\ issue.updates = {} => CorrelationPhase(status) = "Executable"
       /\ \A i \in issue.updates : IssueTargetAllowed(CorrelationPhase(status), status[i])

\* An executable target that an issue is about failed.
UnexecutedTarget(status, prep, i) ==
    IF /\ CorrelationPhase(status) # "PreflightBlocked" /\ status[i] = "Executable"
       /\ \E issue \in prep.issues : i \in issue.updates
    THEN "Failed" ELSE InitialTargetStatus(status[i])

UnexecutedConsistent(status, prep) ==
    /\ TargetSnapshotConsistent(status, prep)
    /\ IssuesAttributed(status, prep)
    /\ CorrelationPhase(status) = "PreflightBlocked" => prep.items = <<>>
    /\ CorrelationPhase(status) = "Executable" => prep.issues # {}

ReduceUnexecuted(status, prep) ==
    [targets |-> [i \in DOMAIN status |-> UnexecutedTarget(status, prep, i)],
     status |-> IF ~UnexecutedConsistent(status, prep) THEN "InconsistentResult"
                ELSE IF CorrelationPhase(status) = "PreflightBlocked" \/ prep.issues # {}
                THEN "BlockedBeforeExecution"
                ELSE IF \A i \in DOMAIN status : status[i] = "Skipped" THEN "NoUpdates"
                ELSE "InconsistentResult"]

UnexecutedSuccess(r, prep) ==
    /\ r.status = "NoUpdates" /\ prep.issues = {}
    /\ \A i \in DOMAIN r.targets : r.targets[i] = "Skipped"
=============================================================================
