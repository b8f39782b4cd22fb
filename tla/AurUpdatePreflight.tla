------------------------- MODULE AurUpdatePreflight -------------------------
(***************************************************************************)
(* May these AUR updates be executed?  aur_update_execution_preflight.cpp  *)
(* resolves one build plan for all candidates, inspects it, and attributes *)
(* every defect it finds to the candidates it concerns.                    *)
(*                                                                         *)
(* entries: a sequence of [name, base, state, reason]: the update plan.    *)
(* plan:    the build plan of BuildPlanTargets, and with it                *)
(*   edges    a set of [parent, parentBase, role, spec, kind, name, base,  *)
(*            constraint]: the dependencies found;                         *)
(*   cycles   the package bases the planner reported as cyclic;            *)
(*   unresolved  names it found nothing for;                               *)
(*   failures a set of [parent, parentBase, subject, roots]: metadata that *)
(*            could not be read.                                           *)
(***************************************************************************)
EXTENDS BuildPlanTargets

EffectiveStates == {"UpdateAvailable", "UpToDate", "RequiresCheck", "Bootstrap",
                    "NonAurForeign", "MetadataUnavailable",
                    "VersionComparisonUnavailable", "Unknown", "Unsupported",
                    "Inconsistent"}
Policies == {"BlockOperation", "SkipIndependentTarget"}

(***************************************************************************)
(* The dependency graph of the plan.                                       *)
(***************************************************************************)
\* The target of that name (and base) when there is exactly one, as a set.
Unique(plan, name, base) ==
    LET found == Matching(plan, name, base)
    IN IF Cardinality(found) = 1 THEN found ELSE {}

RootsForPackage(plan, name, base) ==
    UNION {t.roots : t \in {u \in plan.targets : /\ name = None \/ u.name = name
                                                 /\ base = None \/ u.base = base}}

\* An edge to an AUR package names it and its base; one to an AUR provider
\* names the provider alone.
EdgeTargets(plan, e) ==
    IF e.kind = "Aur" THEN Unique(plan, e.name, e.base)
    ELSE IF e.kind = "Provided" THEN Unique(plan, e.name, None)
    ELSE {}

AurDependencyGraph(plan) ==
    UNION {{[parent |-> p, target |-> t, role |-> e.role] :
               p \in {q \in Unique(plan, e.parent, e.parentBase) : q.roots # {}},
               t \in {u \in EdgeTargets(plan, e) : e.role \in u.roles}} :
           e \in {f \in plan.edges : f.role \in DependencyRoles}}

CoherentGraph(plan) ==
    {g \in AurDependencyGraph(plan) : g.parent.roots \subseteq g.target.roots}

Successors(S, graph) == S \cup {g.target : g \in {h \in graph : h.parent \in S}}

Closure(S, graph) ==
    LET grow[n \in Nat] == IF n = 0 THEN S ELSE Successors(grow[n - 1], graph)
    IN grow[Cardinality(graph)]

\* Targets reachable from a root, if the root's own target is in order.
Reachable(plan, graph, root) ==
    Closure({t \in Unique(plan, plan.roots[root], None) :
               "Root" \in t.roles /\ root \in t.roots}, graph)

Grounded(plan, graph, t) ==
    /\ \A r \in t.roots : t \in Reachable(plan, graph, r)
    /\ \A role \in t.roles \cap DependencyRoles :
          \E g \in graph : /\ g.target = t /\ g.role = role
                           /\ \E r \in KnownRoots(plan) :
                                 g.parent \in Reachable(plan, graph, r)

(***************************************************************************)
(* Cycles are cycles of package bases.  An edge between two packages of    *)
(* one base is no cycle by itself: one build makes both.                   *)
(***************************************************************************)
Siblings(g) == g.parent.base = g.target.base /\ g.parent.name # g.target.name

BaseEdges(graph) ==
    {[parent |-> g.parent.base, target |-> g.target.base] :
        g \in {h \in graph : Siblings(h) => h.parent \in Closure({h.target}, graph)}}

BaseNodes(graph) == {g.parent.base : g \in graph} \cup {g.target.base : g \in graph}

CycleOf(graph, base) ==
    {b \in BaseNodes(graph) : /\ b \in Closure({base}, BaseEdges(graph))
                              /\ base \in Closure({b}, BaseEdges(graph))}

IsCycle(graph, members) ==
    \/ Cardinality(members) > 1
    \/ \E b \in members : [parent |-> b, target |-> b] \in BaseEdges(graph)

ReachableDependencyCycles(plan, graph) ==
    {c \in {[bases |-> members,
             roots |-> {r \in KnownRoots(plan) :
                          \E t \in Reachable(plan, graph, r) : t.base \in members}] :
               members \in {m \in {CycleOf(graph, b) : b \in BaseNodes(graph)} :
                              IsCycle(graph, m)}} : c.roots # {}}

(***************************************************************************)
(* Defects of the plan, as [reason, roots].  No roots: everyone's.         *)
(***************************************************************************)
FailureRootsConsistent(plan, f) ==
    /\ f.roots # {} /\ f.roots \subseteq KnownRoots(plan)
    /\ IF f.parent # None
       THEN f.roots = RootsForPackage(plan, f.parent, f.parentBase)
       ELSE \A r \in f.roots : plan.roots[r] = f.subject

InspectResolutionFailures(plan) ==
    {[reason |-> "MetadataUnavailable",
      roots |-> IF FailureRootsConsistent(plan, f) THEN f.roots ELSE {}] :
         f \in plan.failures}

EdgeIsConsistent(plan, e) ==
    LET roots == RootsForPackage(plan, e.parent, e.parentBase)
        resolved == {t \in EdgeTargets(plan, e) :
                        e.role \in t.roles /\ roots \subseteq t.roots}
    IN /\ roots # {} /\ e.role \in DependencyRoles
       /\ CASE e.kind \in {"Installed", "Repository", "ProvidedByRepository"} ->
                   e.name # None
            [] e.kind = "Aur" -> e.name # None /\ e.base # None /\ resolved # {}
            [] e.kind = "Provided" -> e.name # None /\ resolved # {}
            [] OTHER -> e.name = None

EdgeReasons(plan, e) ==
    {r \in {"AmbiguousProvider", "BuildPlanInconsistent",
            "VersionConstraintUnverified", "UnresolvedDependency"} :
       \/ r = "AmbiguousProvider" /\ e.kind = "AmbiguousProvider"
       \/ r = "BuildPlanInconsistent" /\ ~EdgeIsConsistent(plan, e)
       \/ r = "VersionConstraintUnverified" /\ e.constraint \in {"Unsatisfied", "Unknown"}
       \/ r = "UnresolvedDependency" /\ e.kind = "Unknown"}

InspectDependencyEdges(plan) ==
    UNION {{[reason |-> r, roots |-> RootsForPackage(plan, e.parent, e.parentBase)] :
              r \in EdgeReasons(plan, e)} : e \in plan.edges}

\* The planner's own list of cycles must agree with the cycles found here.
InspectCycles(plan, graph) ==
    LET found == ReachableDependencyCycles(plan, graph)
    IN UNION {{[reason |-> r, roots |-> RootsForPackage(plan, None, b)] :
                 r \in {"DependencyCycle", "BuildPlanInconsistent"}} :
              b \in {c \in plan.cycles : \A f \in found : c \notin f.bases}}
       \cup {[reason |-> "DependencyCycle", roots |-> f.roots] : f \in found}
       \cup {[reason |-> "BuildPlanInconsistent", roots |-> f.roots] :
               f \in {g \in found : g.bases \cap plan.cycles = {}}}

\* What neither an edge nor a failure accounts for belongs to the root of
\* that name, or else to everyone.
InspectUnresolved(plan) ==
    {[reason |-> "UnresolvedDependency",
      roots |-> {r \in KnownRoots(plan) : plan.roots[r] = u}] : u \in
        plan.unresolved \ ({f.subject : f \in plan.failures}
                            \cup {e.spec : e \in {d \in plan.edges : d.kind = "Unknown"}})}

InspectArtifactTargets(plan) ==
    {[reason |-> IF i.kind = "PackageBaseMismatch" THEN i.kind ELSE "BuildPlanInconsistent",
      roots |-> i.roots] : i \in ProjectionIssues(plan)}

InspectPackageTargets(plan, graph) ==
    LET wellFormed(t) == /\ t.roots # {} /\ t.roots \subseteq KnownRoots(plan)
                         /\ t.roles # {} /\ t.roles \subseteq Roles
        selfRoot(t) == "Root" \in t.roles => \E r \in t.roots : plan.roots[r] = t.name
    IN {[reason |-> "BuildPlanInconsistent", roots |-> t.roots] :
          t \in {u \in plan.targets :
                   ~wellFormed(u) \/ ~selfRoot(u) \/ ~Grounded(plan, graph, u)}}

InspectBuildPlan(plan) ==
    LET graph == CoherentGraph(plan)
    IN InspectResolutionFailures(plan) \cup InspectDependencyEdges(plan)
       \cup InspectUnresolved(plan) \cup InspectCycles(plan, graph)
       \cup InspectArtifactTargets(plan)
       \cup InspectPackageTargets(plan, graph)

(***************************************************************************)
(* Candidates: the entries to update, in order.                            *)
(***************************************************************************)
HasIntent(e) == e.state \in {"UpdateAvailable", "Bootstrap"}

Candidates(entries) ==
    SelectSeq([i \in DOMAIN entries |-> i], LAMBDA i : HasIntent(entries[i]))

CandidateSet(entries) == {i \in DOMAIN entries : HasIntent(entries[i])}

\* What a state means for an entry before any plan is made.
ClassificationReasons(e, policy) ==
    CASE e.state = "UpdateAvailable" -> {}
      [] e.state = "Bootstrap" ->
            IF policy = "SkipIndependentTarget" THEN {} ELSE {"UpdatePlanInconsistent"}
      [] e.state = "RequiresCheck" -> {"DevelRequiresCheck"}
      [] e.state = "Inconsistent"  -> {"UpdatePlanInconsistent"}
      [] e.state = "Unsupported"   -> {"DevelUnsupported"}
      [] e.state = "Unknown"       -> {"DevelObservationUnknown"}
      [] OTHER -> {e.state}

IntentReasons(entries, i) ==
    (IF HasIntent(entries[i]) /\ entries[i].reason = "Unknown"
     THEN {"InstalledReasonUnknown"} ELSE {})
    \cup IF \E j \in CandidateSet(entries) \ {i} :
              HasIntent(entries[i]) /\ entries[j].name = entries[i].name
         THEN {"DuplicateUpdateTarget", "BuildPlanInconsistent"} ELSE {}

\* Two entries of one name, one of which needs a check, are both rejected.
DuplicateCheckReasons(entries, policy, i) ==
    IF /\ policy = "SkipIndependentTarget"
       /\ \E j \in DOMAIN entries \ {i} : entries[j].name = entries[i].name
       /\ \E j \in DOMAIN entries : /\ entries[j].name = entries[i].name
                                    /\ entries[j].state \in {"RequiresCheck", "Bootstrap"}
    THEN {"UpdatePlanInconsistent"} ELSE {}

(***************************************************************************)
(* Packages that need a check block the candidates that depend on them.    *)
(***************************************************************************)
ExactRootMapping(entries, plan) ==
    plan.roots = [k \in DOMAIN Candidates(entries) |-> entries[Candidates(entries)[k]].name]

CheckTargets(entries) ==
    {i \in DOMAIN entries : entries[i].state \in {"RequiresCheck", "Bootstrap"}}

\* The edge is satisfied by the package as it is installed now.
VerifiedInstalled(e) == e.kind = "Installed" /\ e.constraint = "Satisfied"

ParentRoots(plan, e) ==
    UNION {t.roots : t \in {u \in Unique(plan, e.parent, e.parentBase) :
                              u.roots \subseteq KnownRoots(plan)}}

OwnRoot(entries, i) == {k \in DOMAIN Candidates(entries) : Candidates(entries)[k] = i}

MentionsPackage(e, name) == e.name = name

PendingRoots(entries, plan, i) ==
    {ParentRoots(plan, e) : e \in
        {f \in plan.edges : /\ MentionsPackage(f, entries[i].name)
                            /\ ~(VerifiedInstalled(f) /\ ParentRoots(plan, f) # {})}}
    \cup {t.roots : t \in
        {u \in Matching(plan, entries[i].name, None) :
            ~(/\ entries[i].state = "Bootstrap" /\ u.base = entries[i].base
              /\ u.roots = OwnRoot(entries, i) /\ u.roles = {"Root"})}}

RequiredCheckTargets(entries, plan) ==
    {i \in CheckTargets(entries) : PendingRoots(entries, plan, i) # {}}

\* No roots, or a plan whose roots are not the candidates: everyone is held.
OwnersOf(entries, plan, roots) ==
    IF ~ExactRootMapping(entries, plan) \/ roots = {}
    THEN CandidateSet(entries)
    ELSE {Candidates(entries)[r] : r \in roots}

BlockedByCheck(entries, plan) ==
    UNION {UNION {OwnersOf(entries, plan, roots) :
                    roots \in PendingRoots(entries, plan, i)} :
           i \in RequiredCheckTargets(entries, plan)}

GlobalFailClosed(entries, plan) ==
    \/ ~ExactRootMapping(entries, plan)
    \/ \E i \in RequiredCheckTargets(entries, plan) : {} \in PendingRoots(entries, plan, i)

(***************************************************************************)
(* The combined plan, and the attribution of its defects                   *)
(***************************************************************************)
RootReasons(entries, plan, i) ==
    LET own == OwnRoot(entries, i)
        found == {t \in plan.targets : /\ t.name = entries[i].name /\ "Root" \in t.roles
                                       /\ own \subseteq t.roots}
    IN (IF Cardinality(found) = 1 THEN {} ELSE {"BuildPlanInconsistent"})
       \cup (IF \A t \in found : t.base = entries[i].base THEN {}
             ELSE {"PackageBaseMismatch"})

AttributedReasons(entries, plan, i) ==
    UNION {IF d.roots = {} \/ ~(d.roots \subseteq DOMAIN Candidates(entries))
           THEN {d.reason, "BuildPlanInconsistent"}
           ELSE IF OwnRoot(entries, i) \subseteq d.roots THEN {d.reason} ELSE {} :
           d \in InspectBuildPlan(plan)}

PlanReasons(entries, plan, i) ==
    RootReasons(entries, plan, i) \cup AttributedReasons(entries, plan, i)
    \cup (IF ExactRootMapping(entries, plan) THEN {} ELSE {"BuildPlanInconsistent"})

DevelReasons(entries, plan, i) ==
    (IF i \in BlockedByCheck(entries, plan)
     THEN {"RequiredDevelTargetRequiresCheck"} ELSE {})
    \cup IF GlobalFailClosed(entries, plan) THEN {"BuildPlanInconsistent"} ELSE {}

\* A package without trusted provenance that another candidate needs is not
\* given its trial: it needs its check first.
BootstrapReasons(entries, plan, i) ==
    IF entries[i].state = "Bootstrap" /\ i \in RequiredCheckTargets(entries, plan)
    THEN {"DevelRequiresCheck"} ELSE {}

UnsupportedReasons == {"AmbiguousProvider"}

SkipReasons(policy, allow) ==
    {"UpToDate", "NonAurForeign"}
    \cup IF policy = "SkipIndependentTarget" /\ allow THEN {"DevelRequiresCheck"} ELSE {}

ReduceTargetStatus(reasons, policy, allow) ==
    IF reasons \ (UnsupportedReasons \cup SkipReasons(policy, allow)) # {} THEN "Incomplete"
    ELSE IF reasons \cap UnsupportedReasons # {} THEN "Unsupported"
    ELSE IF reasons # {} THEN "Skipped"
    ELSE "Executable"

HasDuplicates(entries) ==
    \E j \in CandidateSet(entries) : "DuplicateUpdateTarget" \in IntentReasons(entries, j)

Reasons(entries, policy, plan, i) ==
    LET early == ClassificationReasons(entries[i], policy)
                 \cup IntentReasons(entries, i)
                 \cup DuplicateCheckReasons(entries, policy, i)
    IN IF CandidateSet(entries) = {} THEN early
       ELSE IF HasDuplicates(entries)
            THEN early \cup (IF HasIntent(entries[i]) THEN {"BuildPlanInconsistent"} ELSE {})
       ELSE early
            \cup (IF HasIntent(entries[i]) THEN PlanReasons(entries, plan, i) ELSE {})
            \cup (IF policy = "SkipIndependentTarget"
                  THEN (IF HasIntent(entries[i]) THEN DevelReasons(entries, plan, i) ELSE {})
                       \cup BootstrapReasons(entries, plan, i)
                  ELSE {})

AllowsSkip(entries, plan, i) ==
    /\ ~HasDuplicates(entries)
    /\ ~(entries[i].state = "Bootstrap" /\ i \in RequiredCheckTargets(entries, plan))

PreflightReasons(entries, policy, plan) ==
    [i \in DOMAIN entries |-> Reasons(entries, policy, plan, i)]

TargetStatus(entries, policy, plan, i) ==
    ReduceTargetStatus(Reasons(entries, policy, plan, i), policy,
                       AllowsSkip(entries, plan, i))

Preflight(entries, policy, plan) ==
    [i \in DOMAIN entries |-> TargetStatus(entries, policy, plan, i)]

CanExecute(status) ==
    /\ \E i \in DOMAIN status : status[i] = "Executable"
    /\ \A i \in DOMAIN status : status[i] \notin {"Unsupported", "Incomplete"}

(***************************************************************************)
(* What later stages require of a preflight: a skipped target says why, in *)
(* one way, and a check that blocks a candidate is that of a known target. *)
(***************************************************************************)
RequiredDevelTargets(entries, policy, plan) ==
    IF policy # "SkipIndependentTarget" \/ CandidateSet(entries) = {} \/ HasDuplicates(entries)
    THEN {} ELSE RequiredCheckTargets(entries, plan)

\* reasons and required as above, for every entry.
SkipKinds(status, reasons, required, i) ==
    IF status[i] # "Skipped" THEN {}
    ELSE {IF r # "DevelRequiresCheck" THEN r
          ELSE IF i \in required THEN "RequiredDevelRequiresCheck"
               ELSE "IndependentDevelRequiresCheck" : r \in reasons[i]}

ValidNormalSkip(entries, kinds, reasons, i) ==
    /\ kinds = {entries[i].state} /\ reasons[i] = {entries[i].state}
    /\ entries[i].state \in {"UpToDate", "NonAurForeign"}

ValidDevelSkip(entries, policy, reasons, i) ==
    /\ policy = "SkipIndependentTarget"
    /\ reasons[i] = {"DevelRequiresCheck"} /\ entries[i].state = "RequiresCheck"

ValidSkipSnapshot(entries, policy, status, reasons, kinds, i) ==
    CASE status[i] = "Executable" -> reasons[i] = {} /\ kinds = {}
      [] status[i] = "Skipped" ->
            /\ OwnRoot(entries, i) = {}
            /\ \/ ValidNormalSkip(entries, kinds, reasons, i)
               \/ ValidDevelSkip(entries, policy, reasons, i)
      [] OTHER -> kinds = {}

\* The candidates that the check of i holds up.
HeldUpBy(entries, plan, i) ==
    UNION {OwnersOf(entries, plan, roots) : roots \in PendingRoots(entries, plan, i)}

BlockerReferencesTarget(entries, status, reasons, kinds, i) ==
    IF entries[i].state = "Bootstrap"
    THEN status[i] = "Incomplete" /\ "DevelRequiresCheck" \in reasons[i]
    ELSE kinds = {"RequiredDevelRequiresCheck"} /\ Cardinality(reasons[i]) = 1

\* owners: the candidates that the check of i blocks.
ValidTargetSnapshot(entries, policy, status, reasons, kinds, owners, i) ==
    /\ ValidSkipSnapshot(entries, policy, status, reasons, kinds, i)
    /\ policy = "SkipIndependentTarget" =>
          /\ owners # {} => BlockerReferencesTarget(entries, status, reasons, kinds, i)
          /\ i \in owners => entries[i].state = "Bootstrap"
          /\ kinds = {"RequiredDevelRequiresCheck"} => owners # {}
          /\ kinds = {"IndependentDevelRequiresCheck"} => owners = {}

ValidPolicySnapshot(entries, policy, plan, status, reasons, required) ==
    \A i \in DOMAIN entries :
       ValidTargetSnapshot(entries, policy, status, reasons,
                           SkipKinds(status, reasons, required, i),
                           IF i \in required THEN HeldUpBy(entries, plan, i) ELSE {}, i)
=============================================================================
