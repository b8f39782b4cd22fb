-------------------------- MODULE BuildPlanTargets --------------------------
(***************************************************************************)
(* The artifacts each unit of a build plan has to produce                  *)
(* (build_plan_artifact_target_projection.cpp).                            *)
(*                                                                         *)
(* A build plan has                                                        *)
(*   roots    the requested names, in order; a root is its index;          *)
(*   targets  a set of [name, base, roles, roots]: packages to build;      *)
(*   order    a sequence of [base, names]: what to build, in what order.   *)
(* None is an absent name.                                                 *)
(***************************************************************************)
EXTENDS Naturals, Sequences, FiniteSets

CONSTANT None

DependencyRoles == {"RuntimeDependency", "BuildDependency", "CheckDependency"}
Roles == DependencyRoles \cup {"Root"}

KnownRoots(plan) == DOMAIN plan.roots

Matching(plan, name, base) ==
    {t \in plan.targets : t.name = name /\ (base = None \/ t.base = base)}

\* A package is rooted in known roots, and in itself exactly if it is a root.
RootAttributionIssues(plan) ==
    {[kind |-> "RootAttributionInconsistent", roots |-> t.roots] : t \in
        {u \in plan.targets :
            \/ u.roots = {} \/ ~(u.roots \subseteq KnownRoots(plan))
            \/ ("Root" \in u.roles) # (\E r \in u.roots \cap KnownRoots(plan) :
                                          plan.roots[r] = u.name)}}

RootCoverageIssues(plan) ==
    {[kind |-> "RootAttributionInconsistent", roots |-> {r}] : r \in
        {s \in KnownRoots(plan) :
            Cardinality({t \in plan.targets : /\ t.name = plan.roots[s]
                                              /\ "Root" \in t.roles
                                              /\ s \in t.roots}) # 1}}

RootsOfUnit(plan, entry) ==
    UNION {t.roots : t \in {u \in plan.targets : u.base = entry.base}}

Repeats(names) == \E i, j \in DOMAIN names : i # j /\ names[i] = names[j]

OrderIssues(plan) ==
    {[kind |-> "BuildPlanEntry", roots |-> RootsOfUnit(plan, plan.order[k])] : k \in
        {n \in DOMAIN plan.order :
            \/ plan.order[n].names = <<>> \/ Repeats(plan.order[n].names)
            \/ \E m \in DOMAIN plan.order \ {n} : plan.order[m].base = plan.order[n].base}}

PackageTargetIssues(plan) ==
    {[kind |-> "PackageBaseMismatch", roots |-> t.roots] : t \in
        {u \in plan.targets : \E v \in plan.targets : v.name = u.name /\ v.base # u.base}}

NamesOf(entry) == {entry.names[i] : i \in DOMAIN entry.names}

\* Every name of an entry is one planned package of that base, and back.
CoverageIssues(plan) ==
    UNION {{[kind |-> IF Matching(plan, n, None) = {} THEN "MissingPlannedPackageTarget"
                      ELSE "PackageBaseMismatch",
             roots |-> RootsOfUnit(plan, e)] :
               n \in {m \in NamesOf(e) : Matching(plan, m, e.base) = {}}} :
           e \in {plan.order[k] : k \in DOMAIN plan.order}}

ReverseCoverageIssues(plan) ==
    {[kind |-> "UncoveredPlannedPackageTarget", roots |-> t.roots] : t \in
        {u \in plan.targets :
            \A k \in DOMAIN plan.order :
               plan.order[k].base = u.base => u.name \notin NamesOf(plan.order[k])}}

DesiredInstallReason(t) == IF "Root" \in t.roles THEN "Explicit" ELSE "Dependency"

ReasonIssues(plan) ==
    {[kind |-> "DesiredInstallReasonUnavailable", roots |-> t.roots] : t \in
        {u \in plan.targets : u.roles = {} \/ ~(u.roles \subseteq Roles)}}

ProjectionIssues(plan) ==
    OrderIssues(plan) \cup PackageTargetIssues(plan) \cup RootAttributionIssues(plan)
    \cup RootCoverageIssues(plan) \cup CoverageIssues(plan) \cup ReasonIssues(plan)
    \cup ReverseCoverageIssues(plan)

\* Without issues each name of a unit is exactly one planned package.
RequiredTargets(plan, k) ==
    {t \in plan.targets : t.base = plan.order[k].base /\ t.name \in NamesOf(plan.order[k])}
=============================================================================
