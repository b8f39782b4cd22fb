-------------------------- MODULE CleanupAssessment --------------------------
(***************************************************************************)
(* Which packages of an AUR build are offered for removal afterwards       *)
(* (invocation_owned_cleanup_adapter.cpp, _model.cpp and                   *)
(* remote_aur_cleanup_candidate_collector.cpp).                            *)
(*                                                                         *)
(* A package database maps each name to <<>> or to <<[ver, reason]>>; the  *)
(* version "v1" is the planned one, "unverified" stands for metadata       *)
(* without a known package base or architecture.  A snapshot is <<>> when  *)
(* it failed, else <<database>>.                                           *)
(*                                                                         *)
(* A plan is [edges, targets, order]: an edge is [parent, kind, origin,    *)
(* selected, role, name, exact], where origin is the source of a provider, *)
(* selected that the user chose it, and exact that requirement,            *)
(* constraint, package base and repository metadata agree.  A target is    *)
(* [name, roles].  Package bases have one package each and order is the    *)
(* sequence of them.  evidence is what trusted transactions recorded:      *)
(* [source : set of [item, installed], provider : <<>> or <<installed>>,   *)
(* tokens : set of [owner, item, done]].                                   *)
(***************************************************************************)
EXTENDS Naturals, Sequences, FiniteSets

BuildOrCheck(role) == role \in {"Build", "Check"}

AurSourced(e) == e.kind = "Aur" \/ (e.kind = "Provided" /\ e.origin = "aur")
RepoSourced(e) == e.kind = "Repo" \/ (e.kind = "Provided" /\ e.origin = "repo")
SelectedProvider(e) == e.kind = "Provided" /\ e.origin = "repo" /\ e.selected

\* Where the package of an edge comes from; packages are the same when name
\* and source are.
SourceOf(e) == IF AurSourced(e) THEN "aur" ELSE IF RepoSourced(e) THEN "repo" ELSE e.kind
SameIdentity(e, f) == e.name = f.name /\ SourceOf(e) = SourceOf(f)

TargetsNamed(plan, n) == {t \in plan.targets : t.name = n}

(***************************************************************************)
(* Work items: the edges an item's artifacts are installed for, and the    *)
(* providers that were selected for it.                                    *)
(***************************************************************************)
AttachDependencyEdges(plan, k) ==
    {i \in DOMAIN plan.edges : AurSourced(plan.edges[i]) /\ plan.edges[i].name = plan.order[k]}

AttachSelectedProviders(plan, k) ==
    {i \in DOMAIN plan.edges : SelectedProvider(plan.edges[i]) /\ plan.edges[i].parent = plan.order[k]}

\* An item is installed through the trusted helper when it is only needed to
\* build or check something else.
ShouldUseTrustedInstall(plan, k) ==
    /\ AttachDependencyEdges(plan, k) # {}
    /\ \E t \in TargetsNamed(plan, plan.order[k]) :
          t.roles # {} /\ \A r \in t.roles : BuildOrCheck(r)

(***************************************************************************)
(* What snapshots say of one package                                       *)
(***************************************************************************)
BaselineObservation(baseline, n) ==
    IF baseline = <<>> THEN "Unknown"
    ELSE IF baseline[1][n] = <<>> THEN "NewlyObserved" ELSE "PreExisting"

Verified(record) == record.ver # "unverified"

CurrentState(snapshot, n) ==
    IF snapshot = <<>> THEN "Unknown"
    ELSE IF snapshot[1][n] = <<>> THEN "Absent" ELSE "Present"

AuthoritativePreExisting(baseline, n) ==
    BaselineObservation(baseline, n) = "PreExisting" /\ Verified(baseline[1][n][1])

\* A dependency that cannot be a candidate: one that is needed at run time,
\* is not there or was there before.
NonCandidate(e, baseline, current) ==
    \/ e.role = "Runtime"
    \/ BuildOrCheck(e.role) /\ (CurrentState(current, e.name) = "Absent"
                                \/ AuthoritativePreExisting(baseline, e.name))

(***************************************************************************)
(* The relation of a package to the plan.  Every edge that names the       *)
(* package must be exact and mean the same package; then coverage is       *)
(* complete.                                                               *)
(***************************************************************************)
EdgesNamed(plan, n) == {i \in DOMAIN plan.edges : plan.edges[i].name = n}

StructurallyVerified(plan, i) ==
    /\ plan.edges[i].exact /\ plan.edges[i].kind \notin {"Installed", "Local"}
    /\ TargetsNamed(plan, plan.edges[i].parent) # {}

CoverageComplete(plan, e) ==
    LET relevant == EdgesNamed(plan, e.name)
    IN /\ \A i \in relevant : StructurallyVerified(plan, i) /\ SameIdentity(plan.edges[i], e)
       /\ AurSourced(e) => TargetsNamed(plan, e.name) # {}
       /\ \A t \in TargetsNamed(plan, e.name) : \A r \in t.roles \ {"Root"} :
             \E i \in relevant : plan.edges[i].role = r

\* The correlations of a repository package: one for each edge, in its role.
RepositoryCorrelations(plan, e, baseline, current) ==
    {[edge |-> i, role |-> plan.edges[i].role,
      verified |-> StructurallyVerified(plan, i) /\ SameIdentity(plan.edges[i], e)
                   /\ baseline # <<>> /\ current # <<>>] : i \in EdgesNamed(plan, e.name)}

(***************************************************************************)
(* Receipts against the plan: the artifacts of an item are correlated with *)
(* the edges they were installed for; a package that the transaction       *)
(* installed besides makes the evidence incomplete.                        *)
(***************************************************************************)
CorrelatedSourceEdges(plan, k) ==
    {i \in AttachDependencyEdges(plan, k) :
        /\ plan.edges[i].exact /\ BuildOrCheck(plan.edges[i].role)
        /\ TargetsNamed(plan, plan.edges[i].parent) # {}}

SourceCorrelationComplete(plan, receipt) ==
    /\ CorrelatedSourceEdges(plan, receipt.item) = AttachDependencyEdges(plan, receipt.item)
    /\ receipt.installed \subseteq {plan.order[receipt.item]}

ProviderEdges(plan) == {i \in DOMAIN plan.edges : SelectedProvider(plan.edges[i])}

ProviderCorrelationComplete(plan, installed, current) ==
    /\ ProviderEdges(plan) # {}
    /\ \A i \in ProviderEdges(plan) :
          /\ plan.edges[i].exact /\ plan.edges[i].name \in installed
          /\ CurrentState(current, plan.edges[i].name) = "Present"
          /\ current[1][plan.edges[i].name][1].ver = "v1"
    /\ installed \subseteq {plan.edges[i].name : i \in ProviderEdges(plan)}

(***************************************************************************)
(* The evidence of the whole invocation.  policy is <<>> or the policy     *)
(* protection observed of the candidate at hand.                           *)
(***************************************************************************)
EdgeClassification(e, policy) ==
    IF ~e.exact THEN "InvalidOrUnknown"
    ELSE CASE e.kind = "Installed" -> "Irrelevant"
           [] e.kind = "Local" -> "Unsupported"
           [] RepoSourced(e) -> "Supported"
           [] AurSourced(e) -> IF BuildOrCheck(e.role) THEN "Supported" ELSE "Irrelevant"

\* The edges for which an artifact installation is expected.  With a policy
\* observation those are the build and check dependencies only.
ExpectedSourceEdges(plan, policy) ==
    {i \in DOMAIN plan.edges :
        /\ plan.edges[i].exact /\ AurSourced(plan.edges[i])
        /\ policy # <<>> => BuildOrCheck(plan.edges[i].role)}

AttributedSourceEdges(plan) == UNION {AttachDependencyEdges(plan, k) : k \in DOMAIN plan.order}
AttributedProviderEdges(plan) == UNION {AttachSelectedProviders(plan, k) : k \in DOMAIN plan.order}

EdgesAccounted(plan, policy) ==
    /\ AttributedSourceEdges(plan) = ExpectedSourceEdges(plan, policy)
    /\ AttributedProviderEdges(plan) = {i \in ProviderEdges(plan) : plan.edges[i].exact}
    /\ \A i \in DOMAIN plan.edges :
          LET e == plan.edges[i]
              class == EdgeClassification(e, policy)
          IN /\ class \notin {"Unsupported", "InvalidOrUnknown"}
             /\ (class = "Supported" \/ (policy = <<>> /\ e.kind # "Installed")) =>
                   CoverageComplete(plan, e) /\ TargetsNamed(plan, e.parent) # {}
             /\ policy = <<>> => TargetsNamed(plan, e.parent) # {}

RolesAccounted(plan) ==
    \A t \in plan.targets : \A r \in {s \in t.roles : BuildOrCheck(s)} :
       \E i \in EdgesNamed(plan, t.name) : plan.edges[i].role = r

RootsComplete(plan) ==
    Cardinality({t \in plan.targets : "Root" \in t.roles}) = 1

\* Both snapshots were taken, and everything succeeded.
PhasesComplete(plan, succeeded, baseline, current, policy) ==
    baseline # <<>> /\ current # <<>> /\ succeeded = DOMAIN plan.order /\ policy # <<"Unknown">>

SourceEvidenceComplete(plan, evidence, policy) ==
    \A r \in evidence.source :
       /\ SourceCorrelationComplete(plan, r)
       /\ CorrelatedSourceEdges(plan, r.item) \subseteq ExpectedSourceEdges(plan, policy)

ProviderEvidenceComplete(plan, evidence, current) ==
    evidence.provider # <<>> => ProviderCorrelationComplete(plan, evidence.provider[1], current)

\* Each receipt belongs to completed tokens of its owner, for the same items.
TokensAccounted(plan, evidence) ==
    LET completed(owner) == {t.item : t \in {u \in evidence.tokens : u.owner = owner /\ u.done}}
    IN /\ {r.item : r \in evidence.source} \subseteq completed("Source")
       /\ evidence.provider # <<>> =>
             completed("Provider") = {k \in DOMAIN plan.order : AttachSelectedProviders(plan, k) # {}}

\* With a candidate there must be an edge the invocation can have installed
\* it for; without one every role of the plan must have an edge.
AggregateComplete(plan, succeeded, baseline, current, evidence, policy) ==
    /\ PhasesComplete(plan, succeeded, baseline, current, policy)
    /\ RootsComplete(plan)
    /\ policy # <<>> => \E i \in DOMAIN plan.edges :
                           EdgeClassification(plan.edges[i], policy) = "Supported"
    /\ policy = <<>> => RolesAccounted(plan)
    /\ EdgesAccounted(plan, policy)
    /\ SourceEvidenceComplete(plan, evidence, policy)
    /\ ProviderEvidenceComplete(plan, evidence, current)
    /\ TokensAccounted(plan, evidence)

\* Whether anything of this invocation still needs the package.
SharedRequirement(plan, n, source, complete) ==
    LET relevant == {i \in EdgesNamed(plan, n) : SourceOf(plan.edges[i]) = source}
        roles == (UNION {t.roles : t \in TargetsNamed(plan, n)})
                 \cup {plan.edges[i].role : i \in relevant}
    IN IF roles \cap {"Root", "Runtime"} # {} THEN "StillRequired"
       ELSE IF relevant # {} /\ complete THEN "NoLongerRequired" ELSE "Unknown"

(***************************************************************************)
(* Where candidates come from                                              *)
(***************************************************************************)
SourceOrigins(plan, evidence) ==
    {[name |-> plan.order[r.item], source |-> "aur", complete |-> TRUE,
      correlations |-> {[edge |-> i, role |-> plan.edges[i].role, verified |-> TRUE] :
                           i \in CorrelatedSourceEdges(plan, r.item)}] : r \in evidence.source}

\* Repository packages that makepkg or a provider transaction installed.
RepositoryOrigins(plan, baseline, current) ==
    {[name |-> e.name, source |-> "repo", complete |-> CoverageComplete(plan, e),
      correlations |-> RepositoryCorrelations(plan, e, baseline, current)] :
        e \in {plan.edges[i] : i \in {j \in DOMAIN plan.edges :
                 /\ RepoSourced(plan.edges[j]) /\ plan.edges[j].exact
                 /\ BaselineObservation(baseline, plan.edges[j].name) # "PreExisting"
                 /\ CurrentState(current, plan.edges[j].name) # "Absent"}}}

ProviderOrigins(plan, evidence) ==
    IF evidence.provider = <<>> THEN {}
    ELSE {[name |-> plan.edges[i].name, source |-> "repo", complete |-> TRUE,
           correlations |-> {[edge |-> i, role |-> plan.edges[i].role, verified |-> TRUE]}] :
             i \in {j \in ProviderEdges(plan) : TargetsNamed(plan, plan.edges[j].parent) # {}}}

\* Two origins of one name are one candidate when they are the same package,
\* and a conflict otherwise.
MergeCandidateOrigins(origins) ==
    {[name |-> n,
      source |-> (CHOOSE o \in origins : o.name = n).source,
      conflict |-> Cardinality({o.source : o \in {p \in origins : p.name = n}}) > 1,
      complete |-> \A o \in origins : o.name = n => o.complete,
      correlations |-> UNION {o.correlations : o \in {p \in origins : p.name = n}}] :
        n \in {o.name : o \in origins}}

CandidateOrigins(plan, baseline, current, evidence) ==
    {o \in MergeCandidateOrigins(SourceOrigins(plan, evidence)
                                 \cup RepositoryOrigins(plan, baseline, current)
                                 \cup ProviderOrigins(plan, evidence)) :
        o.conflict \/ ~AuthoritativePreExisting(baseline, o.name)}

\* Mutant: an artifact without a receipt is passed over.
Mutant_OriginUnavailable(plan, baseline, current, evidence) == FALSE

\* A dependency built here and present now, of which no receipt tells.
OriginUnavailable(plan, baseline, current, evidence) ==
    \E i \in DOMAIN plan.edges :
       /\ AurSourced(plan.edges[i]) /\ BuildOrCheck(plan.edges[i].role)
       /\ ~NonCandidate(plan.edges[i], baseline, current)
       /\ ~(\E r \in evidence.source : SourceCorrelationComplete(plan, r)
                                       /\ i \in CorrelatedSourceEdges(plan, r.item))

(***************************************************************************)
(* Classification of one candidate                                         *)
(***************************************************************************)
StructuralReasons(o, current) ==
    CurrentState(current, o.name) = "Present" /\ current[1][o.name][1].ver = "v2"

ProtectionReasons(o, baseline, current, shared, policy) ==
    \/ BaselineObservation(baseline, o.name) = "PreExisting"
    \/ CurrentState(current, o.name) = "Absent"
    \/ CurrentState(current, o.name) = "Present" /\ current[1][o.name][1].reason = "Explicit"
    \/ \E c \in o.correlations : c.role \in {"Root", "Runtime"}
    \/ shared = "StillRequired"
    \/ policy = "Protected"

UnknownReasons(o, baseline, current, shared, policy) ==
    \/ baseline = <<>> \/ current = <<>>
    \/ ~Verified(current[1][o.name][1])
    \/ ~o.complete
    \/ ~(\E c \in o.correlations : BuildOrCheck(c.role))
    \/ \E c \in o.correlations : ~c.verified
    \/ shared = "Unknown" \/ policy = "Unknown"

Classify(o, baseline, current, shared, policy) ==
    IF o.conflict \/ StructuralReasons(o, current) THEN "Invalid"
    ELSE IF ProtectionReasons(o, baseline, current, shared, policy) THEN "Protected"
    ELSE IF UnknownReasons(o, baseline, current, shared, policy) THEN "Unknown" ELSE "Eligible"

\* What is known of the candidates after the whole invocation.  policyOf maps
\* a name to the protection observed of it.
Assess(plan, succeeded, baseline, current, evidence, policyOf) ==
    LET origins == CandidateOrigins(plan, baseline, current, evidence)
        complete(o) == AggregateComplete(plan, succeeded, baseline, current, evidence,
                                         <<policyOf[o.name]>>)
        assessed == {[name |-> o.name,
                      class |-> Classify(o, baseline, current,
                                         SharedRequirement(plan, o.name, o.source, complete(o)),
                                         policyOf[o.name])] : o \in origins}
    IN [assessments |-> assessed,
        complete |->
           /\ ~OriginUnavailable(plan, baseline, current, evidence)
           /\ \A i \in DOMAIN plan.edges : RepoSourced(plan.edges[i]) => plan.edges[i].exact
           /\ \A o \in origins : ~o.conflict /\ complete(o)
           /\ \A a \in assessed : a.class \notin {"Unknown", "Invalid"}
           /\ origins = {} =>
                 /\ AggregateComplete(plan, succeeded, baseline, current, evidence, <<>>)
                 /\ \A i \in DOMAIN plan.edges : NonCandidate(plan.edges[i], baseline, current)]
=============================================================================
