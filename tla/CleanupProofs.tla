---------------------------- MODULE CleanupProofs ---------------------------
(***************************************************************************)
(* What a build with --rmdeps offers to remove and what it removes, for    *)
(* every plan, every package database and any number of steps of others:   *)
(* OfferedIsComplete and RemovedIsOurs of DependencyCleanup; and, in the   *)
(* second part, what the client of a transaction with a receipt reports:   *)
(* ReceiptTruthful of AlpmReceipt.                                         *)
(*                                                                         *)
(* The argument is about the assessment.  A package may come to it from up *)
(* to three sides, with different edges of the plan, and the roles are     *)
(* counted only for edges of its source: that no edge of another source    *)
(* names the same package follows from the coverage of the edges, which    *)
(* the completeness of the whole evidence requires, and from the absence   *)
(* of a conflict.                                                          *)
(***************************************************************************)
EXTENDS DependencyCleanup, AlpmReceipt, FiniteSetTheorems, TLAPS

-----------------------------------------------------------------------------
(* Plans and edges. *)

LEMMA EdgeTypes ==
  ASSUME plan \in Plans, NEW i \in DOMAIN plan.edges
  PROVE  /\ plan.edges[i].name \in Pkgs /\ plan.edges[i].exact \in BOOLEAN
         /\ plan.edges[i].role \in {"Runtime", "Build", "Check"}
         /\ plan.edges[i].kind \in {"Installed", "Repo", "Aur", "Local", "Provided"}
         /\ plan.edges[i].kind = "Provided" => plan.edges[i].origin \in {"aur", "repo"}
<1>1. plan \in BuildPlans /\ plan.edges \in Seq(Edges)
  BY CleanupAssumption DEF BuildPlans
<1>2. plan.edges[i] \in Edges
  BY <1>1
<1>3. plan.edges[i].kind = "Provided" => plan.edges[i].origin \in {"aur", "repo"}
  BY CleanupAssumption
<1> QED BY <1>2, <1>3 DEF Edges

LEMMA TargetTypes ==
  ASSUME plan \in Plans, NEW t \in plan.targets
  PROVE  t.roles \subseteq {"Root", "Runtime", "Build", "Check"}
BY CleanupAssumption DEF BuildPlans

LEMMA Sources ==
  ASSUME NEW e, e.kind \in {"Installed", "Repo", "Aur", "Local", "Provided"}
  PROVE  /\ AurSourced(e) <=> SourceOf(e) = "aur"
         /\ RepoSourced(e) <=> SourceOf(e) = "repo"
         /\ AurSourced(e) \/ RepoSourced(e) => e.kind \notin {"Installed", "Local"}
BY DEF SourceOf, AurSourced, RepoSourced

(* An edge of the plan that the invocation can have installed n for. *)
Installing(i, n) ==
  /\ i \in DOMAIN plan.edges /\ plan.edges[i].name = n
  /\ \/ RepoSourced(plan.edges[i])
     \/ AurSourced(plan.edges[i]) /\ BuildOrCheck(plan.edges[i].role)

Origins ==
  SourceOrigins(plan, evidence) \cup RepositoryOrigins(plan, baseline, current)
    \cup ProviderOrigins(plan, evidence)

LEMMA OriginSources ==
  ASSUME NEW p \in Origins
  PROVE  p.source \in {"aur", "repo"}
<1>1. CASE p \in SourceOrigins(plan, evidence)
  BY <1>1 DEF SourceOrigins
<1>2. CASE p \in RepositoryOrigins(plan, baseline, current)
  BY <1>2 DEF RepositoryOrigins
<1>3. CASE p \in ProviderOrigins(plan, evidence)
  BY <1>3 DEF ProviderOrigins
<1> QED BY <1>1, <1>2, <1>3 DEF Origins

(* What a verified correlation of an origin stands for. *)
LEMMA OriginEdge ==
  ASSUME plan \in Plans, NEW p \in Origins, NEW c \in p.correlations, c.verified
  PROVE  \E i : Installing(i, p.name) /\ SourceOf(plan.edges[i]) = p.source
<1>1. CASE p \in SourceOrigins(plan, evidence)
  <2>1. PICK r \in evidence.source :
          p = [name |-> plan.order[r.item], source |-> "aur", complete |-> TRUE,
               correlations |-> {[edge |-> i, role |-> plan.edges[i].role, verified |-> TRUE] :
                                   i \in CorrelatedSourceEdges(plan, r.item)}]
    BY <1>1 DEF SourceOrigins
  <2>2. p.name = plan.order[r.item] /\ p.source = "aur"
    BY <2>1
  <2>3. PICK i \in CorrelatedSourceEdges(plan, r.item) : TRUE
    BY <2>1
  <2>4. /\ i \in DOMAIN plan.edges /\ AurSourced(plan.edges[i])
        /\ plan.edges[i].name = p.name /\ BuildOrCheck(plan.edges[i].role)
    BY <2>2, <2>3 DEF CorrelatedSourceEdges, AttachDependencyEdges
  <2> QED BY <2>2, <2>4, EdgeTypes, Sources DEF Installing
<1>2. CASE p \in RepositoryOrigins(plan, baseline, current)
  <2>1. PICK j \in DOMAIN plan.edges :
          /\ RepoSourced(plan.edges[j])
          /\ p = [name |-> plan.edges[j].name, source |-> "repo",
                  complete |-> CoverageComplete(plan, plan.edges[j]),
                  correlations |-> RepositoryCorrelations(plan, plan.edges[j], baseline, current)]
    BY <1>2 DEF RepositoryOrigins
  <2>2. /\ p.name = plan.edges[j].name /\ p.source = "repo"
        /\ c \in RepositoryCorrelations(plan, plan.edges[j], baseline, current)
    BY <2>1
  <2>3. PICK i \in EdgesNamed(plan, plan.edges[j].name) :
          SameIdentity(plan.edges[i], plan.edges[j])
    <3> DEFINE ok(i) == /\ StructurallyVerified(plan, i)
                        /\ SameIdentity(plan.edges[i], plan.edges[j])
                        /\ baseline # <<>> /\ current # <<>>
    <3>1. PICK i \in EdgesNamed(plan, plan.edges[j].name) :
            c = [edge |-> i, role |-> plan.edges[i].role, verified |-> ok(i)]
      BY <2>2 DEF RepositoryCorrelations
    <3>2. c.verified = ok(i)
      <4> HIDE DEF ok
      <4> QED BY <3>1
    <3> QED BY <3>2
  <2>4. /\ i \in DOMAIN plan.edges /\ plan.edges[i].name = p.name
        /\ SourceOf(plan.edges[i]) = SourceOf(plan.edges[j])
    BY <2>2, <2>3 DEF EdgesNamed, SameIdentity
  <2> QED BY <2>1, <2>2, <2>4, EdgeTypes, Sources DEF Installing
<1>3. CASE p \in ProviderOrigins(plan, evidence)
  <2>1. PICK i \in ProviderEdges(plan) :
          p = [name |-> plan.edges[i].name, source |-> "repo", complete |-> TRUE,
               correlations |-> {[edge |-> i, role |-> plan.edges[i].role, verified |-> TRUE]}]
    BY <1>3 DEF ProviderOrigins
  <2>2. p.name = plan.edges[i].name /\ p.source = "repo"
    BY <2>1
  <2>3. i \in DOMAIN plan.edges /\ RepoSourced(plan.edges[i])
    BY <2>1 DEF ProviderEdges, SelectedProvider, RepoSourced
  <2> QED BY <2>2, <2>3, EdgeTypes, Sources DEF Installing
<1> QED BY <1>1, <1>2, <1>3 DEF Origins

(* Without a conflict the origins of a name have one source. *)
LEMMA OneSource ==
  ASSUME NEW n, NEW p \in Origins, NEW q \in Origins, p.name = n, q.name = n,
         ~(Cardinality({o.source : o \in {x \in Origins : x.name = n}}) > 1)
  PROVE  p.source = q.source
<1> DEFINE S == {o.source : o \in {x \in Origins : x.name = n}}
<1>1. S \subseteq {"aur", "repo"} /\ p.source \in S /\ q.source \in S
  BY OriginSources
<1>2. ASSUME p.source # q.source
      PROVE  FALSE
  <2> HIDE DEF S
  <2>1. S = {"aur"} \cup {"repo"} /\ "repo" \notin {"aur"}
    BY <1>1, <1>2
  <2>2. IsFiniteSet({"aur"}) /\ Cardinality({"aur"}) = 1
    BY FS_Singleton
  <2>3. Cardinality({"aur"} \cup {"repo"}) = 2
    <3>1. Cardinality({"aur"} \cup {"repo"}) = Cardinality({"aur"}) + 1
      BY <2>2, FS_AddElement
    <3> QED BY <2>2, <3>1
  <2>4. Cardinality(S) = 2 /\ ~(Cardinality(S) > 1)
    BY <2>1, <2>3 DEF S
  <2> QED BY <2>4
<1> QED BY <1>2

-----------------------------------------------------------------------------
(* The assessment. *)

Snapshots == {<<>>} \cup {<<d>> : d \in Databases}

(* Brought by this invocation, to build with it and for nothing else. *)
Ours(n) ==
  /\ n \in Pkgs /\ baseline[1][n] = <<>> /\ OnlyToBuild(n)
  /\ current[1][n] = <<[ver |-> "v1", reason |-> "Dep"]>>
  /\ succeeded = DOMAIN plan.order

(* The edges of a name that the evidence covers are of one source. *)
LEMMA Covered ==
  ASSUME plan \in Plans, NEW n, NEW i, Installing(i, n), NEW x, EdgesAccounted(plan, <<x>>)
  PROVE  \A j \in EdgesNamed(plan, n) : SourceOf(plan.edges[j]) = SourceOf(plan.edges[i])
<1> DEFINE e == plan.edges[i]
           class == EdgeClassification(e, <<x>>)
<1>1. i \in DOMAIN plan.edges /\ e.name = n
  BY DEF Installing
<1>2. /\ class \notin {"Unsupported", "InvalidOrUnknown"}
      /\ class = "Supported" => CoverageComplete(plan, e)
  BY <1>1 DEF EdgesAccounted
<1>3. /\ e.exact \in BOOLEAN
      /\ e.kind \in {"Installed", "Repo", "Aur", "Local", "Provided"}
  BY <1>1, EdgeTypes
<1>4. e.kind \notin {"Installed", "Local"}
  BY <1>3, Sources DEF Installing
<1>5. ~e.exact => class = "InvalidOrUnknown"
  BY DEF EdgeClassification
<1>6. e.exact => class = "Supported"
  <2>1. CASE RepoSourced(e)
    <3>1. ~AurSourced(e)
      BY <2>1, <1>3, Sources
    <3> QED BY <1>4, <2>1, <3>1 DEF EdgeClassification
  <2>2. CASE AurSourced(e) /\ BuildOrCheck(e.role)
    <3>1. ~RepoSourced(e)
      BY <2>2, <1>3, Sources
    <3> QED BY <1>4, <2>2, <3>1 DEF EdgeClassification
  <2> QED BY <2>1, <2>2 DEF Installing
<1>7. CoverageComplete(plan, e)
  BY <1>2, <1>3, <1>5, <1>6
<1> QED BY <1>1, <1>7 DEF CoverageComplete, SameIdentity

LEMMA EligibleIsOurs ==
  ASSUME plan \in Plans, baseline \in Snapshots, current \in Snapshots,
         NEW x, NEW o \in CandidateOrigins(plan, baseline, current, evidence),
         NEW shared,
         shared = SharedRequirement(plan, o.name, o.source,
                    AggregateComplete(plan, succeeded, baseline, current, evidence, <<x>>)),
         Classify(o, baseline, current, shared, x) = "Eligible"
  PROVE  Ours(o.name)
<1> DEFINE n == o.name
<1>1. /\ ~o.conflict /\ ~StructuralReasons(o, current)
      /\ ~ProtectionReasons(o, baseline, current, shared, x)
      /\ ~UnknownReasons(o, baseline, current, shared, x)
  BY DEF Classify
<1>2. PICK m \in {p.name : p \in Origins} :
        o = [name |-> m,
             source |-> (CHOOSE p \in Origins : p.name = m).source,
             conflict |-> Cardinality({p.source : p \in {q \in Origins : q.name = m}}) > 1,
             complete |-> \A p \in Origins : p.name = m => p.complete,
             correlations |-> UNION {p.correlations : p \in {q \in Origins : q.name = m}}]
  BY DEF CandidateOrigins, MergeCandidateOrigins, Origins
<1>3. /\ n = m /\ o.source = (CHOOSE p \in Origins : p.name = m).source
      /\ o.conflict = (Cardinality({p.source : p \in {q \in Origins : q.name = m}}) > 1)
      /\ o.correlations = UNION {p.correlations : p \in {q \in Origins : q.name = m}}
  BY <1>2
<1>4. PICK i : Installing(i, n) /\ SourceOf(plan.edges[i]) = o.source
  <2>1. PICK c \in o.correlations : c.verified
    BY <1>1 DEF UnknownReasons
  <2>2. PICK p \in Origins : p.name = m /\ c \in p.correlations
    BY <1>3, <2>1
  <2>3. PICK i : Installing(i, n) /\ SourceOf(plan.edges[i]) = p.source
    BY <1>3, <2>1, <2>2, OriginEdge
  <2> DEFINE q == CHOOSE r \in Origins : r.name = m
  <2>4. q \in Origins /\ q.name = m
    BY <1>2
  <2>5. o.source = p.source
    <3>1. o.source = q.source /\ ~(Cardinality({r.source : r \in {s \in Origins : s.name = m}}) > 1)
      BY <1>1, <1>3
    <3> HIDE DEF q
    <3> QED BY <2>2, <2>4, <3>1, OneSource
  <2> QED BY <2>3, <2>5
<1>5. baseline # <<>> /\ baseline[1][n] = <<>>
  <2>1. baseline # <<>> /\ BaselineObservation(baseline, n) # "PreExisting"
    BY <1>1 DEF UnknownReasons, ProtectionReasons
  <2> QED BY <2>1 DEF BaselineObservation
<1>6. n \in Pkgs
  BY <1>4, EdgeTypes DEF Installing
<1>7. current[1][n] = <<[ver |-> "v1", reason |-> "Dep"]>>
  <2>1. /\ current # <<>> /\ CurrentState(current, n) # "Absent"
        /\ current[1][n][1].ver # "unverified"
    BY <1>1 DEF UnknownReasons, ProtectionReasons, Verified
  <2>2. CurrentState(current, n) = "Present" /\ current[1][n] # <<>>
    BY <2>1 DEF CurrentState
  <2>3. current[1][n][1].ver # "v2" /\ current[1][n][1].reason # "Explicit"
    BY <1>1, <2>2 DEF StructuralReasons, ProtectionReasons
  <2>4. current[1] \in Databases
    BY <2>1 DEF Snapshots
  <2>5. PICK r \in [ver : {"v1", "v2", "unverified"}, reason : {"Dep", "Explicit"}] :
          current[1][n] = <<r>>
    BY <1>6, <2>2, <2>4 DEF Databases, PackageStates
  <2>6. r.ver = "v1" /\ r.reason = "Dep"
    BY <2>1, <2>3, <2>5
  <2>7. r = [ver |-> "v1", reason |-> "Dep"]
    BY <2>6
  <2> QED BY <2>5, <2>7
<1> DEFINE relevant == {j \in EdgesNamed(plan, n) : SourceOf(plan.edges[j]) = o.source}
           roles == (UNION {t.roles : t \in TargetsNamed(plan, n)})
                    \cup {plan.edges[j].role : j \in relevant}
           whole == AggregateComplete(plan, succeeded, baseline, current, evidence, <<x>>)
<1>8. roles \cap {"Root", "Runtime"} = {} /\ whole
  <2>1. shared \notin {"StillRequired", "Unknown"}
    BY <1>1 DEF UnknownReasons, ProtectionReasons
  <2> HIDE DEF whole
  <2> QED BY <2>1 DEF SharedRequirement, whole
<1>9. succeeded = DOMAIN plan.order /\ EdgesAccounted(plan, <<x>>)
  BY <1>8 DEF AggregateComplete, PhasesComplete
<1>10. \A j \in EdgesNamed(plan, n) : SourceOf(plan.edges[j]) = o.source
  BY <1>4, <1>9, Covered
<1>11. \A j \in EdgesNamed(plan, n) : BuildOrCheck(plan.edges[j].role)
  <2>1. ASSUME NEW j \in EdgesNamed(plan, n)
        PROVE  BuildOrCheck(plan.edges[j].role)
    <3>1. plan.edges[j].role \notin {"Root", "Runtime"}
      <4>1. j \in relevant
        BY <1>10
      <4> HIDE DEF relevant
      <4>2. plan.edges[j].role \in {plan.edges[k].role : k \in relevant}
        BY <4>1
      <4>3. plan.edges[j].role \in roles
        BY <4>2
      <4> HIDE DEF roles
      <4> QED BY <1>8, <4>3
    <3>2. plan.edges[j].role \in {"Runtime", "Build", "Check"}
      BY EdgeTypes DEF EdgesNamed
    <3> QED BY <3>1, <3>2 DEF BuildOrCheck
  <2> QED BY <2>1
<1>12. \A t \in TargetsNamed(plan, n) : \A r \in t.roles : BuildOrCheck(r)
  <2>1. ASSUME NEW t \in TargetsNamed(plan, n), NEW r \in t.roles
        PROVE  BuildOrCheck(r)
    <3>1. r \notin {"Root", "Runtime"}
      BY <1>8
    <3>2. r \in {"Root", "Runtime", "Build", "Check"}
      BY TargetTypes DEF TargetsNamed
    <3> QED BY <3>1, <3>2 DEF BuildOrCheck
  <2> QED BY <2>1
<1>13. \E j \in EdgesNamed(plan, n) : plan.edges[j].kind # "Installed"
  BY <1>4, EdgeTypes, Sources DEF Installing, EdgesNamed
<1> QED BY <1>5, <1>6, <1>7, <1>9, <1>11, <1>12, <1>13 DEF Ours, OnlyToBuild

(* Whatever the invocation brought only to build with has an origin. *)
LEMMA EveryOrigin ==
  ASSUME plan \in Plans, NEW x, EdgesAccounted(plan, <<x>>),
         baseline # <<>>, current # <<>>, NEW n \in Pkgs, OnlyToBuild(n),
         baseline[1][n] = <<>>, current[1][n] # <<>>,
         ~OriginUnavailable(plan, baseline, current, evidence)
  PROVE  \E o \in CandidateOrigins(plan, baseline, current, evidence) : o.name = n
<1>1. PICK i \in DOMAIN plan.edges : plan.edges[i].name = n /\ plan.edges[i].kind # "Installed"
  BY DEF OnlyToBuild, EdgesNamed
<1> DEFINE e == plan.edges[i]
           class == EdgeClassification(e, <<x>>)
<1>2. BuildOrCheck(e.role)
  BY <1>1 DEF OnlyToBuild, EdgesNamed
<1>3. /\ e.exact \in BOOLEAN /\ e.kind \in {"Installed", "Repo", "Aur", "Local", "Provided"}
      /\ e.kind = "Provided" => e.origin \in {"aur", "repo"}
  BY <1>1, EdgeTypes
<1>4. class \notin {"Unsupported", "InvalidOrUnknown"}
  BY <1>1 DEF EdgesAccounted
<1>5. e.exact
  BY <1>3, <1>4 DEF EdgeClassification
<1>6. e.kind # "Local"
  <2>1. e.kind = "Local" => ~AurSourced(e) /\ ~RepoSourced(e) /\ e.kind # "Installed"
    BY DEF AurSourced, RepoSourced
  <2>2. e.kind = "Local" => class = "Unsupported"
    BY <1>5, <2>1 DEF EdgeClassification
  <2> QED BY <1>4, <2>2
<1>7. AurSourced(e) \/ RepoSourced(e)
  BY <1>1, <1>3, <1>6 DEF AurSourced, RepoSourced
<1>8. /\ BaselineObservation(baseline, n) = "NewlyObserved"
      /\ CurrentState(current, n) = "Present" /\ ~AuthoritativePreExisting(baseline, n)
  BY DEF BaselineObservation, CurrentState, AuthoritativePreExisting
<1>9. \E p \in Origins : p.name = n
  <2>1. CASE RepoSourced(e)
    <3> DEFINE p == [name |-> e.name, source |-> "repo", complete |-> CoverageComplete(plan, e),
                     correlations |-> RepositoryCorrelations(plan, e, baseline, current)]
    <3>1. i \in {j \in DOMAIN plan.edges :
                   /\ RepoSourced(plan.edges[j]) /\ plan.edges[j].exact
                   /\ BaselineObservation(baseline, plan.edges[j].name) # "PreExisting"
                   /\ CurrentState(current, plan.edges[j].name) # "Absent"}
      BY <1>1, <1>5, <1>8, <2>1
    <3>2. p \in RepositoryOrigins(plan, baseline, current)
      BY <3>1 DEF RepositoryOrigins
    <3>3. p.name = n
      BY <1>1
    <3> QED BY <3>2, <3>3 DEF Origins
  <2>2. CASE AurSourced(e)
    <3>1. ~NonCandidate(e, baseline, current)
      BY <1>1, <1>2, <1>8 DEF NonCandidate, BuildOrCheck
    <3>2. PICK r \in evidence.source : i \in CorrelatedSourceEdges(plan, r.item)
      BY <1>1, <1>2, <2>2, <3>1 DEF OriginUnavailable
    <3> DEFINE p == [name |-> plan.order[r.item], source |-> "aur", complete |-> TRUE,
                     correlations |-> {[edge |-> j, role |-> plan.edges[j].role, verified |-> TRUE] :
                                          j \in CorrelatedSourceEdges(plan, r.item)}]
    <3>3. p \in SourceOrigins(plan, evidence)
      BY DEF SourceOrigins
    <3>4. p.name = n
      BY <1>1, <3>2 DEF CorrelatedSourceEdges, AttachDependencyEdges
    <3> QED BY <3>3, <3>4 DEF Origins
  <2> QED BY <1>7, <2>1, <2>2
<1> DEFINE merged(m) ==
             [name |-> m,
              source |-> (CHOOSE p \in Origins : p.name = m).source,
              conflict |-> Cardinality({p.source : p \in {q \in Origins : q.name = m}}) > 1,
              complete |-> \A p \in Origins : p.name = m => p.complete,
              correlations |-> UNION {p.correlations : p \in {q \in Origins : q.name = m}}]
           o == merged(n)
<1>10. o.name = n
  OBVIOUS
<1>11. MergeCandidateOrigins(Origins) = {merged(m) : m \in {p.name : p \in Origins}}
  BY DEF MergeCandidateOrigins
<1> HIDE DEF merged
<1>12. o \in CandidateOrigins(plan, baseline, current, evidence)
  <2>1. n \in {p.name : p \in Origins}
    BY <1>9
  <2>2. o \in MergeCandidateOrigins(Origins)
    BY <1>11, <2>1
  <2> QED BY <1>8, <1>10, <2>2 DEF CandidateOrigins, Origins
<1> QED BY <1>10, <1>12

(* What the assessment says. *)
LEMMA AssessmentSays ==
  ASSUME plan \in Plans, baseline \in Snapshots, current \in Snapshots,
         \A t \in evidence.tokens : t.done, AssessCandidates
  PROVE  /\ \A n \in EligibleNames' : Ours(n)
         /\ PreviewState' = "Ready" =>
              /\ succeeded = DOMAIN plan.order
              /\ \A n \in Pkgs : OnlyToBuild(n) /\ baseline[1][n] = <<>> /\ current[1][n] # <<>> =>
                   n \in {a.name : a \in collection'[1].assessments}
<1> DEFINE policyOf == [n \in Pkgs |-> PolicyProtection(n)]
           origins == CandidateOrigins(plan, baseline, current, evidence)
           whole(o) == AggregateComplete(plan, succeeded, baseline, current, evidence,
                                         <<policyOf[o.name]>>)
           class(o) == Classify(o, baseline, current,
                                SharedRequirement(plan, o.name, o.source, whole(o)),
                                policyOf[o.name])
           assessed == {[name |-> o.name, class |-> class(o)] : o \in origins}
           c == Assess(plan, succeeded, baseline, current, evidence, policyOf)
<1>1. collection' = <<c>> /\ collection'[1] = c
  BY DEF AssessCandidates
<1>2. /\ c.assessments = assessed
      /\ c.complete => /\ ~OriginUnavailable(plan, baseline, current, evidence)
                       /\ \A o \in origins : whole(o)
  BY DEF Assess
<1> HIDE DEF c, policyOf
<1>3. ASSUME NEW n \in EligibleNames'
      PROVE  /\ Ours(n)
             /\ \E o \in origins : TRUE
  <2>1. PICK a \in assessed : a.name = n /\ a.class = "Eligible"
    BY <1>1, <1>2, <1>3 DEF EligibleNames
  <2> HIDE DEF class, origins
  <2>2. PICK o \in origins : a = [name |-> o.name, class |-> class(o)]
    BY <2>1
  <2>3. o.name = n /\ class(o) = "Eligible"
    BY <2>1, <2>2
  <2> QED BY <2>2, <2>3, EligibleIsOurs DEF class, origins
<1>4. ASSUME PreviewState' = "Ready"
      PROVE  /\ succeeded = DOMAIN plan.order
             /\ \A n \in Pkgs : OnlyToBuild(n) /\ baseline[1][n] = <<>> /\ current[1][n] # <<>> =>
                   n \in {a.name : a \in collection'[1].assessments}
  <2>1. c.complete /\ EligibleNames' # {}
    BY <1>1, <1>4 DEF PreviewState
  <2>2. PICK o \in origins : TRUE
    BY <1>3, <2>1
  <2>3. whole(o)
    BY <1>2, <2>1
  <2>4. /\ baseline # <<>> /\ current # <<>> /\ succeeded = DOMAIN plan.order
        /\ EdgesAccounted(plan, <<policyOf[o.name]>>)
    BY <2>3 DEF AggregateComplete, PhasesComplete
  <2>5. ASSUME NEW n \in Pkgs, OnlyToBuild(n), baseline[1][n] = <<>>, current[1][n] # <<>>
        PROVE  n \in {a.name : a \in collection'[1].assessments}
    <3>1. PICK p \in origins : p.name = n
      BY <1>2, <2>1, <2>4, <2>5, EveryOrigin
    <3> DEFINE a == [name |-> p.name, class |-> class(p)]
    <3> HIDE DEF class, origins
    <3>2. a \in assessed /\ a.name = n
      BY <3>1
    <3> HIDE DEF a, assessed
    <3> QED BY <1>1, <1>2, <3>2
  <2> QED BY <2>4, <2>5
<1> QED BY <1>3, <1>4

-----------------------------------------------------------------------------
(* The package database. *)

LEMMA StatesShape ==
  ASSUME NEW v \in {"v1", "v2", "unverified"}, NEW r \in {"Dep", "Explicit"}
  PROVE  <<[ver |-> v, reason |-> r]>> \in PackageStates
BY DEF PackageStates

LEMMA InstalledTypes ==
  ASSUME NEW d \in Databases, NEW S, NEW r \in {"Dep", "Explicit"}
  PROVE  Installed(d, S, r) \in Databases
<1>1. ASSUME NEW p \in Pkgs
      PROVE  Installed(d, S, r)[p] \in PackageStates
  <2>1. d[p] \in PackageStates
    BY DEF Databases
  <2> DEFINE why == IF p \in S THEN r ELSE "Dep"
  <2>2. why \in {"Dep", "Explicit"}
    OBVIOUS
  <2>3. Installed(d, S, r)[p] = IF d[p] # <<>> \/ p \notin Closure(S) THEN d[p]
                                ELSE <<[ver |-> "v1", reason |-> why]>>
    BY DEF Installed
  <2> HIDE DEF why
  <2> QED BY <2>1, <2>2, <2>3, StatesShape
<1>2. Installed(d, S, r) = [p \in Pkgs |-> Installed(d, S, r)[p]]
  BY DEF Installed
<1> QED BY <1>1, <1>2 DEF Databases

LEMMA ArtifactTypes ==
  ASSUME db \in Databases
  PROVE  ArtifactInstalled \in Databases
<1> DEFINE n == plan.order[item]
           d == Installed(db, {n}, "Dep")
           s == <<[ver |-> "v1", reason |-> ReasonAfterInstall(n)]>>
<1>1. d \in Databases
  BY InstalledTypes
<1>2. ArtifactInstalled = [d EXCEPT ![n] = s]
  BY DEF ArtifactInstalled
<1>3. ASSUME n \in Pkgs
      PROVE  s \in PackageStates
  <2>1. CASE db[n] = <<>>
    BY <2>1, StatesShape DEF ReasonAfterInstall
  <2>2. CASE db[n] # <<>>
    <3>1. PICK r \in [ver : {"v1", "v2", "unverified"}, reason : {"Dep", "Explicit"}] :
            db[n] = <<r>>
      BY <1>3, <2>2 DEF Databases, PackageStates
    <3>2. db[n][1].reason \in {"Dep", "Explicit"}
      BY <3>1
    <3> QED BY <2>2, <3>2, StatesShape DEF ReasonAfterInstall
  <2> QED BY <2>1, <2>2
<1> HIDE DEF d, s, n
<1> QED BY <1>1, <1>2, <1>3 DEF Databases

LEMMA OtherTypes ==
  ASSUME db \in Databases, OtherUser
  PROVE  db' \in Databases
<1>1. PICK p \in Pkgs :
        \/ \E r \in {"Dep", "Explicit"} : db' = Installed(db, {p}, r)
        \/ /\ db[p] # <<>> /\ \E v \in {"v2", "unverified"} : db' = [db EXCEPT ![p][1].ver = v]
        \/ /\ db[p] # <<>> /\ db' = [db EXCEPT ![p][1].reason = "Explicit"]
        \/ db' = [db EXCEPT ![p] = <<>>]
  BY DEF OtherUser
<1>2. CASE \E r \in {"Dep", "Explicit"} : db' = Installed(db, {p}, r)
  BY <1>2, InstalledTypes
<1>3. ASSUME NEW s \in PackageStates, db' = [db EXCEPT ![p] = s]
      PROVE  db' \in Databases
  BY <1>3 DEF Databases
<1>4. CASE db' = [db EXCEPT ![p] = <<>>]
  BY <1>3, <1>4 DEF PackageStates
<1>5. ASSUME db[p] # <<>>
      PROVE  /\ \A v \in {"v2", "unverified"} : [db[p] EXCEPT ![1].ver = v] \in PackageStates
             /\ [db[p] EXCEPT ![1].reason = "Explicit"] \in PackageStates
  <2>1. PICK r \in [ver : {"v1", "v2", "unverified"}, reason : {"Dep", "Explicit"}] :
          db[p] = <<r>>
    BY <1>5 DEF Databases, PackageStates
  <2>2. ASSUME NEW v \in {"v2", "unverified"}
        PROVE  [db[p] EXCEPT ![1].ver = v] \in PackageStates
    <3>1. [db[p] EXCEPT ![1].ver = v] = <<[r EXCEPT !.ver = v]>>
      BY <2>1
    <3>2. [r EXCEPT !.ver = v] \in [ver : {"v1", "v2", "unverified"}, reason : {"Dep", "Explicit"}]
      OBVIOUS
    <3> QED BY <3>1, <3>2 DEF PackageStates
  <2>3. [db[p] EXCEPT ![1].reason = "Explicit"] \in PackageStates
    <3>1. [db[p] EXCEPT ![1].reason = "Explicit"] = <<[r EXCEPT !.reason = "Explicit"]>>
      BY <2>1
    <3>2. [r EXCEPT !.reason = "Explicit"] \in
            [ver : {"v1", "v2", "unverified"}, reason : {"Dep", "Explicit"}]
      OBVIOUS
    <3> QED BY <3>1, <3>2 DEF PackageStates
  <2> QED BY <2>2, <2>3
<1>6. CASE /\ db[p] # <<>>
           /\ \/ \E v \in {"v2", "unverified"} : db' = [db EXCEPT ![p][1].ver = v]
              \/ db' = [db EXCEPT ![p][1].reason = "Explicit"]
  <2>1. PICK s \in PackageStates : db' = [db EXCEPT ![p] = s]
    BY <1>5, <1>6
  <2> QED BY <1>3, <2>1
<1> QED BY <1>1, <1>2, <1>4, <1>6

-----------------------------------------------------------------------------
(* The invariant. *)

CleanupTypes ==
  /\ plan \in Plans /\ world \in Worlds /\ db \in Databases
  /\ baseline \in Snapshots /\ current \in Snapshots

(* What is decided is decided late, and stays. *)
OrderOK ==
  /\ stage \notin {"revalidate", "remove", "done"} => approved = <<>>
  /\ stage \notin {"remove", "done"} => revalidation = <<>>
  /\ stage # "done" => removed = {}
  /\ stage = "assess" => \A t \in evidence.tokens : t.done
  /\ stage = "revalidate" => approved # <<>>

DecidedOK ==
  /\ stage = "preview" => OfferedIsComplete /\ \A n \in EligibleNames : Ours(n)
  /\ approved # <<>> => \A n \in approved[1] : Ours(n)
  /\ revalidation # <<>> =>
       /\ approved # <<>>
       /\ \A n \in DOMAIN revalidation[1] :
            /\ n \in approved[1]
            /\ revalidation[1][n] = "Ready" => n \notin Held \cup BaseDevel
  /\ RemovedIsOurs

CleanupInv == CleanupTypes /\ OrderOK /\ DecidedOK

(* A candidate that passes the second look is not protected. *)
LEMMA ReadyIsFree ==
  ASSUME world \in Worlds, NEW n, CandidateStatus(n) = "Ready"
  PROVE  n \notin Held \cup BaseDevel
<1>1. PolicyProtection(n) = "NotProtected" /\ n \notin Held
  BY DEF CandidateStatus
<1>2. /\ world.installed \in {"present", "absent", "failed"}
      /\ world.sync \in {"present", "partial", "absent", "failed"}
      /\ world.group \in {"present", "absent"}
  BY CleanupAssumption
<1>3. n \in BaseDevel => /\ InstalledAuthority(n) # "NotProtected"
                         /\ ConfiguredSyncAuthority(n) # "NotProtected"
                         /\ GroupAuthority(n) # "NotProtected"
  BY <1>2 DEF InstalledAuthority, ConfiguredSyncAuthority, GroupAuthority, Membership
<1> QED BY <1>1, <1>3 DEF PolicyProtection

LEMMA CleanupInit == Init => CleanupInv
<1> SUFFICES ASSUME Init
             PROVE  CleanupInv
  OBVIOUS
<1>1. CleanupTypes
  BY CleanupAssumption DEF Init, CleanupTypes, Snapshots
<1>2. OrderOK /\ DecidedOK
  BY DEF Init, OrderOK, DecidedOK, RemovedIsOurs
<1> QED BY <1>1, <1>2 DEF CleanupInv

(* Before the assessment nothing is decided. *)
LEMMA EarlyStep ==
  ASSUME CleanupInv, stage \notin {"preview", "revalidate", "remove", "done"},
         UNCHANGED <<plan, world, approved, revalidation, removed>>,
         db' \in Databases, baseline' \in Snapshots, current' \in Snapshots,
         stage' \notin {"preview", "revalidate"},
         stage' = "assess" => \A t \in evidence'.tokens : t.done
  PROVE  CleanupInv'
<1>1. CleanupTypes'
  BY DEF CleanupInv, CleanupTypes
<1>2. approved' = <<>> /\ revalidation' = <<>> /\ removed' = {}
  BY DEF CleanupInv, OrderOK
<1>3. OrderOK' /\ DecidedOK'
  BY <1>2 DEF OrderOK, DecidedOK, RemovedIsOurs
<1> QED BY <1>1, <1>3 DEF CleanupInv

(* The evidence is not touched after the assessment, so what was found of a *)
(* package stays true. *)
Settled == UNCHANGED <<plan, world, succeeded, baseline, current, evidence, collection>>

LEMMA SettledOurs ==
  ASSUME Settled
  PROVE  /\ \A n : Ours(n) <=> Ours(n)'
         /\ EligibleNames' = EligibleNames /\ PreviewState' = PreviewState
<1>1. \A n : OnlyToBuild(n) <=> OnlyToBuild(n)'
  BY DEF Settled, OnlyToBuild
<1>2. EligibleNames' = EligibleNames
  BY DEF Settled, EligibleNames
<1>3. PreviewState' = PreviewState
  BY <1>2 DEF Settled, PreviewState
<1> QED BY <1>1, <1>2, <1>3 DEF Settled, Ours

LEMMA BuildKeeps ==
  ASSUME CleanupInv,
         \/ RecordBaseline \/ ExecuteProviderTransaction \/ BuildItem \/ BuildFails
         \/ InstallArtifact \/ InstallArtifactTrusted \/ InstallFails
  PROVE  CleanupInv'
<1>1. db \in Databases /\ baseline \in Snapshots /\ current \in Snapshots
  BY DEF CleanupInv, CleanupTypes
<1>2. ProviderReason \in {"Dep", "Explicit"}
  BY DEF ProviderReason
<1>3. /\ Installed(db, SelectedNames, ProviderReason) \in Databases
      /\ Installed(db, SyncDependencies, "Dep") \in Databases
      /\ ArtifactInstalled \in Databases
  BY <1>1, <1>2, InstalledTypes, ArtifactTypes
<1>4. CASE RecordBaseline
  <2>1. baseline' \in Snapshots
    BY <1>1, <1>4 DEF RecordBaseline, Snapshots
  <2> QED BY <1>1, <1>4, <2>1, EarlyStep DEF RecordBaseline, Unobserved
<1>5. CASE ExecuteProviderTransaction
  <2>1. db' \in Databases /\ stage' \in {"build", "done"}
    BY <1>1, <1>3, <1>5 DEF ExecuteProviderTransaction, Abandon
  <2>2. stage = "providers" /\ baseline' = baseline /\ Unobserved
    BY <1>5 DEF ExecuteProviderTransaction
  <2> QED BY <1>1, <2>1, <2>2, EarlyStep DEF Unobserved
<1>6. CASE BuildItem
  BY <1>1, <1>3, <1>6, EarlyStep DEF BuildItem, Unobserved
<1>7. CASE BuildFails
  <2>1. db' \in Databases
    BY <1>1, <1>3, <1>7 DEF BuildFails
  <2> QED BY <1>1, <1>7, <2>1, EarlyStep DEF BuildFails, Abandon, Unobserved
<1>8. CASE InstallArtifact \/ InstallArtifactTrusted
  <2>1. stage = "install" /\ ItemDone /\ baseline' = baseline /\ Unobserved
    BY <1>8 DEF InstallArtifact, InstallArtifactTrusted
  <2>2. db' \in Databases /\ stage' \in {"observe", "build"}
    BY <1>3, <2>1 DEF ItemDone
  <2> QED BY <1>1, <2>1, <2>2, EarlyStep DEF Unobserved
<1>9. CASE InstallFails
  <2>1. db' \in Databases
    BY <1>1, <1>3, <1>9 DEF InstallFails
  <2> QED BY <1>1, <1>9, <2>1, EarlyStep DEF InstallFails, Abandon, Unobserved
<1> QED BY <1>4, <1>5, <1>6, <1>7, <1>8, <1>9

LEMMA ObserveKeeps ==
  ASSUME CleanupInv, ObserveCurrent
  PROVE  CleanupInv'
<1>1. stage = "observe" /\ db \in Databases /\ baseline \in Snapshots /\ current \in Snapshots
  BY DEF CleanupInv, CleanupTypes, ObserveCurrent
<1>2. CASE /\ \A t \in evidence.tokens : t.done
           /\ current' \in {<<>>, <<db>>} /\ stage' = "assess"
  <2>1. current' \in Snapshots
    BY <1>1, <1>2 DEF Snapshots
  <2> QED BY <1>1, <1>2, <2>1, EarlyStep DEF ObserveCurrent
<1>3. CASE collection' = <<Incomplete>> /\ stage' = "preview" /\ current' = current
  <2>1. /\ collection'[1].assessments = {} /\ collection'[1].complete = FALSE
    BY <1>3 DEF Incomplete
  <2>2. EligibleNames' = {} /\ PreviewState' = "Blocked"
    BY <2>1 DEF EligibleNames, PreviewState
  <2>3. approved' = <<>> /\ revalidation' = <<>> /\ removed' = {}
    BY <1>1 DEF CleanupInv, OrderOK, ObserveCurrent
  <2>4. CleanupTypes'
    BY <1>3 DEF CleanupInv, CleanupTypes, ObserveCurrent
  <2>5. OrderOK' /\ DecidedOK'
    BY <1>3, <2>2, <2>3 DEF OrderOK, DecidedOK, RemovedIsOurs, OfferedIsComplete
  <2> QED BY <2>4, <2>5 DEF CleanupInv
<1> QED BY <1>2, <1>3 DEF ObserveCurrent

LEMMA AssessKeeps ==
  ASSUME CleanupInv, AssessCandidates
  PROVE  CleanupInv'
<1>1. /\ stage = "assess" /\ stage' = "preview" /\ plan \in Plans
      /\ baseline \in Snapshots /\ current \in Snapshots
      /\ \A t \in evidence.tokens : t.done
  BY DEF CleanupInv, CleanupTypes, OrderOK, AssessCandidates
<1>2. /\ \A n \in EligibleNames' : Ours(n)
      /\ PreviewState' = "Ready" =>
           /\ succeeded = DOMAIN plan.order
           /\ \A n \in Pkgs : OnlyToBuild(n) /\ baseline[1][n] = <<>> /\ current[1][n] # <<>> =>
                n \in {a.name : a \in collection'[1].assessments}
  BY <1>1, AssessmentSays
<1>3. UNCHANGED <<plan, world, db, succeeded, baseline, current, evidence,
                  approved, revalidation, removed>>
  BY DEF AssessCandidates
<1>4. \A n : (OnlyToBuild(n) <=> OnlyToBuild(n)') /\ (Ours(n) <=> Ours(n)')
  BY <1>3 DEF OnlyToBuild, Ours
<1>5. approved' = <<>> /\ revalidation' = <<>> /\ removed' = {}
  BY <1>1, <1>3 DEF CleanupInv, OrderOK
<1>6. CleanupTypes'
  BY <1>3 DEF CleanupInv, CleanupTypes
<1>7. OfferedIsComplete'
  BY <1>1, <1>2, <1>3, <1>4 DEF OfferedIsComplete
<1>8. OrderOK' /\ DecidedOK'
  BY <1>1, <1>2, <1>4, <1>5, <1>7 DEF OrderOK, DecidedOK, RemovedIsOurs
<1> QED BY <1>6, <1>8 DEF CleanupInv

LEMMA InteractKeeps ==
  ASSUME CleanupInv, Interact
  PROVE  CleanupInv'
<1>1. /\ stage = "preview" /\ stage' \in {"revalidate", "done"}
      /\ Settled /\ UNCHANGED <<db, revalidation, removed>>
      /\ approved' \in {approved, <<EligibleNames>>}
      /\ stage' = "revalidate" => approved' # <<>>
  BY DEF Interact, Abandon, Settled
<1>2. /\ approved = <<>> /\ revalidation' = <<>> /\ removed' = {}
      /\ \A n \in EligibleNames : Ours(n)
  BY <1>1 DEF CleanupInv, OrderOK, DecidedOK
<1>3. CleanupTypes'
  BY <1>1 DEF CleanupInv, CleanupTypes, Settled
<1>4. approved' # <<>> => \A n \in approved'[1] : Ours(n)'
  BY <1>1, <1>2, SettledOurs
<1>5. OrderOK' /\ DecidedOK'
  BY <1>1, <1>2, <1>4 DEF OrderOK, DecidedOK, RemovedIsOurs
<1> QED BY <1>3, <1>5 DEF CleanupInv

LEMMA RevalidateKeeps ==
  ASSUME CleanupInv, Revalidate
  PROVE  CleanupInv'
<1>1. /\ stage = "revalidate" /\ stage' = "remove" /\ world \in Worlds
      /\ Settled /\ UNCHANGED <<db, approved, removed>>
  BY DEF CleanupInv, CleanupTypes, Revalidate, Settled
<1>2. CleanupTypes'
  BY <1>1 DEF CleanupInv, CleanupTypes, Settled
<1>3. approved' # <<>> => \A n \in approved'[1] : Ours(n)'
  BY <1>1, SettledOurs DEF CleanupInv, DecidedOK
<1>4. removed' = {}
  BY <1>1 DEF CleanupInv, OrderOK
<1>5. ASSUME revalidation' # <<>>
      PROVE  /\ approved' # <<>>
             /\ \A n \in DOMAIN revalidation'[1] :
                  /\ n \in approved'[1]
                  /\ revalidation'[1][n] = "Ready" => n \notin Held \cup BaseDevel
  <2> DEFINE ready == {n \in approved[1] : CandidateStatus(n) = "Ready"}
             status(n) == IF n \in ready /\ n \notin WithoutRequired(ready) THEN "StillRequired"
                          ELSE CandidateStatus(n)
             f == [n \in approved[1] |-> status(n)]
  <2>1. revalidation' = <<f>>
    BY <1>5 DEF Revalidate
  <2>2. \A n : status(n) = "Ready" => n \notin Held \cup BaseDevel
    BY <1>1, ReadyIsFree
  <2> HIDE DEF status
  <2>3. /\ revalidation'[1] = f /\ DOMAIN f = approved[1]
        /\ \A n \in approved[1] : f[n] = status(n)
    BY <2>1
  <2>4. \A n \in DOMAIN revalidation'[1] :
           /\ n \in approved'[1]
           /\ revalidation'[1][n] = "Ready" => n \notin Held \cup BaseDevel
    <3> HIDE DEF f
    <3> QED BY <1>1, <2>2, <2>3
  <2>5. approved' # <<>>
    BY <1>1 DEF CleanupInv, OrderOK
  <2> QED BY <2>4, <2>5
<1>6. OrderOK' /\ DecidedOK'
  BY <1>1, <1>3, <1>4, <1>5 DEF OrderOK, DecidedOK, RemovedIsOurs
<1> QED BY <1>2, <1>6 DEF CleanupInv

LEMMA RemoveKeeps ==
  ASSUME CleanupInv, RemoveRevalidated
  PROVE  CleanupInv'
<1>1. /\ stage = "remove" /\ stage' = "done"
      /\ Settled /\ UNCHANGED <<approved, revalidation>>
      /\ removed = {} /\ db \in Databases
  BY DEF CleanupInv, CleanupTypes, OrderOK, RemoveRevalidated, Abandon, Settled
<1>2. db' \in Databases
  <2>1. CASE db' = db
    BY <1>1, <2>1
  <2>2. CASE db' = [p \in Pkgs |-> IF p \in ReadyNames THEN <<>> ELSE db[p]]
    BY <1>1, <2>2 DEF Databases, PackageStates
  <2> QED BY <2>1, <2>2 DEF RemoveRevalidated
<1>3. CleanupTypes'
  BY <1>1, <1>2 DEF CleanupInv, CleanupTypes, Settled
<1>4. approved' # <<>> => \A n \in approved'[1] : Ours(n)'
  BY <1>1, SettledOurs DEF CleanupInv, DecidedOK
<1>5. removed' # {} => revalidation # <<>> /\ removed' = ReadyNames
  BY <1>1 DEF RemoveRevalidated
<1>6. RemovedIsOurs'
  <2>1. ASSUME NEW n \in removed'
        PROVE  Ours(n)' /\ n \in approved'[1] /\ n \notin Held \cup BaseDevel
    <3>1. n \in DOMAIN revalidation[1] /\ revalidation[1][n] = "Ready" /\ revalidation # <<>>
      BY <1>5, <2>1 DEF ReadyNames
    <3>2. approved # <<>> /\ n \in approved[1] /\ n \notin Held \cup BaseDevel
      BY <3>1 DEF CleanupInv, DecidedOK
    <3> QED BY <1>1, <1>4, <3>2
  <2> QED BY <2>1 DEF RemovedIsOurs, Ours
<1>7. OrderOK' /\ DecidedOK'
  BY <1>1, <1>4, <1>6 DEF CleanupInv, OrderOK, DecidedOK
<1> QED BY <1>3, <1>7 DEF CleanupInv

(* Nothing of what is decided depends on the database as it is now. *)
LEMMA OthersKeep ==
  ASSUME CleanupInv, Settled,
         UNCHANGED <<stage, approved, revalidation, removed>>, db' \in Databases
  PROVE  CleanupInv'
<1>1. CleanupTypes'
  BY DEF CleanupInv, CleanupTypes, Settled
<1>2. OrderOK'
  BY DEF CleanupInv, OrderOK, Settled
<1>3. \A n : (OnlyToBuild(n) <=> OnlyToBuild(n)') /\ (Ours(n) <=> Ours(n)')
  BY SettledOurs DEF OnlyToBuild, Settled
<1>4. OfferedIsComplete => OfferedIsComplete'
  BY <1>3, SettledOurs DEF OfferedIsComplete, Settled
<1>5. RemovedIsOurs => RemovedIsOurs'
  BY <1>3 DEF RemovedIsOurs, Settled
<1>6. DecidedOK'
  BY <1>3, <1>4, <1>5, SettledOurs DEF CleanupInv, DecidedOK
<1> QED BY <1>1, <1>2, <1>6 DEF CleanupInv

LEMMA CleanupStep == CleanupInv /\ [Next]_vars => CleanupInv'
<1> SUFFICES ASSUME CleanupInv, [Next]_vars
             PROVE  CleanupInv'
  OBVIOUS
<1>1. CASE \/ RecordBaseline \/ ExecuteProviderTransaction \/ BuildItem \/ BuildFails
           \/ InstallArtifact \/ InstallArtifactTrusted \/ InstallFails
  BY <1>1, BuildKeeps
<1>2. CASE ObserveCurrent
  BY <1>2, ObserveKeeps
<1>3. CASE AssessCandidates
  BY <1>3, AssessKeeps
<1>4. CASE Interact
  BY <1>4, InteractKeeps
<1>5. CASE Revalidate
  BY <1>5, RevalidateKeeps
<1>6. CASE RemoveRevalidated
  BY <1>6, RemoveKeeps
<1>7. CASE OtherUser
  <2>1. db' \in Databases
    BY <1>7, OtherTypes DEF CleanupInv, CleanupTypes
  <2> QED BY <1>7, <2>1, OthersKeep DEF OtherUser, Settled
<1>8. CASE UNCHANGED vars
  BY <1>8, OthersKeep DEF vars, Settled, CleanupInv, CleanupTypes
<1> QED BY <1>1, <1>2, <1>3, <1>4, <1>5, <1>6, <1>7, <1>8 DEF Next, Done

(* An offer to remove packages comes only from a complete picture: the whole *)
(* invocation has succeeded, no receipt is missing and every package it      *)
(* brought only to build with has been assessed, whichever transaction       *)
(* installed it (remote_aur_cleanup_candidate_collector.cpp).                *)
THEOREM OffersAreComplete == Spec => []OfferedIsComplete
<1>1. CleanupInv => OfferedIsComplete
  BY DEF CleanupInv, DecidedOK, OfferedIsComplete
<1> QED BY <1>1, CleanupInit, CleanupStep, PTL DEF Spec

(* What pacman -R is given was not there before the invocation, is needed by *)
(* the plan only to build or check, was the planned version, installed as a  *)
(* dependency, when it was shown, was approved, and is protected neither by  *)
(* base-devel nor by HoldPkg, whatever others do to the database meanwhile   *)
(* (dependency_cleanup_execution.cpp).                                       *)
THEOREM RemovesOnlyOurs == Spec => []RemovedIsOurs
<1>1. CleanupInv => RemovedIsOurs
  BY DEF CleanupInv, DecidedOK
<1> QED BY <1>1, CleanupInit, CleanupStep, PTL DEF Spec

(***************************************************************************)
(* What the client of a transaction with a receipt reports is so, for      *)
(* every request, every set of packages installed before, and any number   *)
(* of failures.                                                            *)
(*                                                                         *)
(* The store has no lock, so that the argument is one about order.  The    *)
(* hook publishes only a partial receipt that is there, and looks at the   *)
(* name of its directory after it has created it.  A helper that has       *)
(* emptied the directory it retired found in it what it had seen while it  *)
(* was active: a hook that had looked at the name before must then have    *)
(* lost its partial receipt, and one that looks later finds the directory  *)
(* retired.                                                                *)
(***************************************************************************)

Files == Prepared \cup {"partial", "receipt"}
Statuses ==
  {"InvalidRequest", "TrustedExecutableUnavailable", "TokenGenerationFailed",
   "PrepareFailed", "PacmanFailed", "OutcomeUnknown", "ConsumeFailed",
   "MalformedReceipt", "AbortFailed", "Complete", "Missing"}
Outcomes == {"none", "NotAttempted", "Succeeded", "Failed", "Unknown"}
Observations == {"none", "Complete", "Missing", "Incomplete"}
Results ==
  {NoResult} \cup [status : Statuses, outcome : Outcomes, observation : Observations]
Nameable == (UNION {Names(r) : r \in Requests}) \cup {Dependency}
Receipts == [state : {"Complete", "Missing"}, names : SUBSET Nameable]
Working == {"retire", "check", "remove"}

ClientStates ==
  [pc : {"request", "prepare", "start", "pacman", "consume", "abort", "done"},
   request : Requests, then : Results, result : Results]
DirStates ==
  [place : {"none", "preparing", "active", "used"}, files : SUBSET Files,
   names : SUBSET Nameable]
HelperStates ==
  [cmd : {"none", "consume", "abort"}, pc : {"idle", "open", "ended"} \cup Working,
   seen : SUBSET Files, out : {<<>>} \cup {<<r>> : r \in Receipts}]
PacmanStates ==
  [state : {"idle", "running", "hooks", "ended"}, new : SUBSET Nameable, code : {0, 1}]

ReceiptTypes ==
  /\ client \in ClientStates /\ tdir \in DirStates /\ helper \in HelperStates
  /\ pacman \in PacmanStates
  /\ recorder \in {"off", "opened", "created", "checked", "ended"}

(* pacman and its hook.  A hook runs once something is installed, and one  *)
(* that pacman has waited for is over.                                     *)
HookOK ==
  /\ recorder # "off" => pacman.state \in {"hooks", "ended"}
  /\ recorder \in {"opened", "created", "checked"} => NeedsTargets(pacman.new)
  /\ pacman.state = "ended" /\ pacman.code = 0 => recorder \in {"off", "ended"}
  /\ pacman.code # 0 => pacman.state = "ended"

(* What was recorded is what was installed. *)
RecordOK ==
  "partial" \in tdir.files \/ "receipt" \in tdir.files =>
    /\ recorder \in {"created", "checked", "ended"}
    /\ tdir.names = pacman.new /\ pacman.new # {}

(* Where the client is, and what there is by then. *)
Before == {"request", "prepare", "start"}
StageOK ==
  /\ client.pc \in {"request", "prepare"} => tdir.place = "none"
  /\ client.pc \in Before => pacman.state = "idle"
  /\ client.pc \in Before \cup {"pacman"} => helper.pc = "idle"
  /\ client.pc \in {"start", "pacman"} => tdir.place = "active"
  /\ client.pc = "pacman" => pacman.state # "idle"
  /\ client.pc = "consume" =>
       /\ helper.pc # "idle"
       /\ pacman.state = "ended" /\ pacman.code = 0 /\ tdir.place \in {"active", "used"}
  /\ client.pc = "abort" => helper.pc # "idle"
  /\ client.pc = "done" => helper.pc \in {"idle", "ended"}
  /\ helper.pc \in {"check", "remove"} => tdir.place = "used"
  /\ pacman.state # "idle" => tdir.place \in {"active", "used"}

(* What a helper that has succeeded leaves. *)
Emptied ==
  /\ tdir.place = "used" /\ "receipt" \notin tdir.files
  /\ recorder = "checked" => "partial" \notin tdir.files

HelperOK ==
  /\ helper.pc \in {"idle", "open"} => helper.out = <<>>
  /\ helper.out # <<>> /\ helper.out[1].state = "Complete" =>
       recorder # "off" /\ helper.out[1].names = pacman.new /\ pacman.new # {}
  /\ helper.pc = "ended" /\ helper.out # <<>> => Emptied

(* What an outcome means, for good. *)
OutcomeTrue(outcome) ==
  /\ outcome = "NotAttempted" => pacman.state = "idle"
  /\ outcome = "Succeeded" => pacman.state = "ended" /\ pacman.code = 0
  /\ outcome = "Failed" => pacman.state = "ended" /\ pacman.code # 0
  /\ outcome \in {"Succeeded", "Failed", "Unknown"} => tdir.place \in {"active", "used"}

ClientOK ==
  /\ client.pc = "abort" =>
       OutcomeTrue(client.then.outcome) /\ client.then.status \in Statuses \ {"Complete"}
  /\ client.pc = "done" =>
       /\ OutcomeTrue(client.result.outcome)
       /\ client.result.status = "Complete" =>
            /\ pacman.state = "ended" /\ pacman.code = 0
            /\ helper.out # <<>> /\ helper.out[1].state = "Complete"
       /\ client.result.status \notin {"AbortFailed", "PrepareFailed", "OutcomeUnknown"} =>
            tdir.place = "none" \/ (helper.pc = "ended" /\ helper.out # <<>>)

(* The inductive invariant. *)
ReceiptInv ==
  ReceiptTypes /\ HookOK /\ RecordOK /\ StageOK /\ HelperOK /\ ClientOK

-----------------------------------------------------------------------------
(* How the client goes on. *)

LEMMA EndsEffect ==
  ASSUME ReceiptTypes, NEW s \in Statuses, NEW o \in Outcomes, NEW b \in Observations,
         Ends(s, o, b)
  PROVE  /\ client' \in ClientStates /\ client'.pc = "done"
         /\ client'.result.status = s /\ client'.result.outcome = o
<1> DEFINE r == [status |-> s, outcome |-> o, observation |-> b]
<1>1. r \in Results /\ r.status = s /\ r.outcome = o
  BY DEF Results
<1>2. client' = [client EXCEPT !.pc = "done", !.result = r]
  BY DEF Ends
<1> HIDE DEF r
<1>3. client' \in ClientStates /\ client'.pc = "done" /\ client'.result = r
  BY <1>1, <1>2 DEF ReceiptTypes, ClientStates
<1> QED BY <1>1, <1>3

LEMMA AbortEffect ==
  ASSUME ReceiptTypes, NEW s \in Statuses, NEW o \in Outcomes, NEW b \in Observations,
         AbortThen(s, o, b)
  PROVE  /\ client' \in ClientStates /\ client'.pc = "abort"
         /\ client'.then.status = s /\ client'.then.outcome = o
         /\ helper' \in HelperStates /\ helper'.pc = "open" /\ helper'.out = <<>>
<1> DEFINE r == [status |-> s, outcome |-> o, observation |-> b]
<1>1. r \in Results /\ r.status = s /\ r.outcome = o
  BY DEF Results
<1>2. client' = [client EXCEPT !.pc = "abort", !.then = r]
  BY DEF AbortThen
<1> HIDE DEF r
<1>3. client' \in ClientStates /\ client'.pc = "abort" /\ client'.then = r
  BY <1>1, <1>2 DEF ReceiptTypes, ClientStates
<1>4. helper' \in HelperStates /\ helper'.pc = "open" /\ helper'.out = <<>>
  BY DEF AbortThen, Idle, HelperStates
<1> QED BY <1>1, <1>3, <1>4

(* pacman installs only packages with a name. *)
LEMMA InstallsNameable ==
  ASSUME ReceiptTypes
  PROVE  ToInstall(client.request) \subseteq Nameable
<1>1. client.request \in Requests
  BY DEF ReceiptTypes, ClientStates
<1>2. \A S : \A T \in S : T \subseteq UNION S
  OBVIOUS
<1>3. Names(client.request) \subseteq UNION {Names(r) : r \in Requests}
  BY <1>1, <1>2
<1> QED BY <1>3 DEF ToInstall, Nameable

-----------------------------------------------------------------------------
(* The steps. *)

-----------------------------------------------------------------------------
(* The client. *)

LEMMA ExecuteBeginsStep ==
  ASSUME ReceiptInv, ExecuteBegins
  PROVE  ReceiptInv'
<1> USE DEF ReceiptInv, ExecuteBegins
<1>1. \/ /\ UNCHANGED helper /\ client' = [client EXCEPT !.pc = "prepare"]
      \/ /\ UNCHANGED helper /\ client' \in ClientStates /\ client'.pc = "done"
         /\ client'.result.outcome = "none"
         /\ client'.result.status \notin {"Complete", "AbortFailed", "PrepareFailed", "OutcomeUnknown"}
  <2>1. ASSUME NEW s \in {"InvalidRequest", "TrustedExecutableUnavailable", "TokenGenerationFailed"},
               Ends(s, "none", "none")
        PROVE  /\ client' \in ClientStates /\ client'.pc = "done"
               /\ client'.result.outcome = "none" /\ client'.result.status = s
    BY <2>1, EndsEffect DEF Statuses, Outcomes, Observations
  <2> QED BY <2>1
<1>2. ReceiptTypes'
  BY <1>1 DEF ReceiptTypes, ClientStates
<1>3. StageOK'
  BY <1>1 DEF ReceiptTypes, ClientStates, StageOK, Before
<1>4. HelperOK'
  BY DEF HelperOK, Emptied
<1>5. ClientOK'
  BY <1>1 DEF ReceiptTypes, ClientStates, ClientOK, StageOK, OutcomeTrue
<1>6. HookOK' /\ RecordOK'
  BY DEF HookOK, RecordOK
<1> QED BY <1>1, <1>2, <1>3, <1>4, <1>5, <1>6

LEMMA PrepareStep ==
  ASSUME ReceiptInv, Prepare
  PROVE  ReceiptInv'
<1> USE DEF ReceiptInv, Prepare
<1>1. PICK e \in PrepareEndings :
         /\ tdir' = [tdir EXCEPT !.place = e.place, !.files = e.files]
         /\ \/ e.code = 0 /\ client' = [client EXCEPT !.pc = "start"] /\ UNCHANGED helper
            \/ Ends("PrepareFailed", "NotAttempted", "Missing") /\ UNCHANGED helper
            \/ AbortThen("PrepareFailed", "NotAttempted", "Missing")
  OBVIOUS
<1>2. /\ e.place \in {"none", "preparing", "active", "used"} /\ e.files \subseteq Prepared
      /\ e.code = 0 => e.place = "active"
  BY <1>1 DEF PrepareEndings, Prepared
<1>3. tdir' \in DirStates /\ tdir'.place = e.place /\ tdir'.files \subseteq Prepared
  BY <1>1, <1>2 DEF ReceiptTypes, DirStates, Files, Prepared
<1>4. /\ client' \in ClientStates /\ helper' \in HelperStates
      /\ \/ e.code = 0 /\ client'.pc = "start" /\ UNCHANGED helper
         \/ /\ client'.pc = "done" /\ UNCHANGED helper
            /\ client'.result.status = "PrepareFailed" /\ client'.result.outcome = "NotAttempted"
         \/ /\ client'.pc = "abort" /\ helper'.pc = "open" /\ helper'.out = <<>>
            /\ client'.then.status = "PrepareFailed" /\ client'.then.outcome = "NotAttempted"
  <2>1. CASE client' = [client EXCEPT !.pc = "start"] /\ UNCHANGED helper /\ e.code = 0
    BY <2>1 DEF ReceiptTypes, ClientStates
  <2>2. CASE Ends("PrepareFailed", "NotAttempted", "Missing") /\ UNCHANGED helper
    BY <2>2, EndsEffect DEF ReceiptTypes, Statuses, Outcomes, Observations
  <2>3. CASE AbortThen("PrepareFailed", "NotAttempted", "Missing")
    BY <2>3, AbortEffect DEF Statuses, Outcomes, Observations
  <2> QED BY <1>1, <2>1, <2>2, <2>3
<1>5. ReceiptTypes'
  BY <1>3, <1>4 DEF ReceiptTypes
<1>6. RecordOK'
  BY <1>3 DEF RecordOK, Prepared
<1>7. StageOK'
  BY <1>2, <1>3, <1>4 DEF StageOK, Before
<1>8. HelperOK'
  BY <1>4 DEF HelperOK, StageOK, Before
<1>9. ClientOK'
  BY <1>4 DEF ClientOK, StageOK, OutcomeTrue, Before, Statuses
<1>10. HookOK'
  BY DEF HookOK
<1> QED BY <1>1, <1>2, <1>3, <1>4, <1>5, <1>6, <1>7, <1>8, <1>9, <1>10

LEMMA StartPacmanStep ==
  ASSUME ReceiptInv, StartPacman
  PROVE  ReceiptInv'
<1> USE DEF ReceiptInv, StartPacman
<1>1. /\ client' \in ClientStates /\ helper' \in HelperStates /\ pacman' \in PacmanStates
      /\ \/ /\ client'.pc = "pacman" /\ UNCHANGED helper
            /\ pacman' = [pacman EXCEPT !.state = "running"]
         \/ /\ client'.pc = "abort" /\ helper'.pc = "open" /\ helper'.out = <<>>
            /\ client'.then.status = "PrepareFailed" /\ client'.then.outcome = "NotAttempted"
            /\ UNCHANGED pacman
  <2>1. CASE client' = [client EXCEPT !.pc = "pacman"] /\ UNCHANGED helper
               /\ pacman' = [pacman EXCEPT !.state = "running"]
    BY <2>1 DEF ReceiptTypes, ClientStates, PacmanStates
  <2>2. CASE AbortThen("PrepareFailed", "NotAttempted", "Missing") /\ UNCHANGED pacman
    BY <2>2, AbortEffect DEF ReceiptTypes, Statuses, Outcomes, Observations
  <2> QED BY <2>1, <2>2
<1>2. ReceiptTypes'
  BY <1>1 DEF ReceiptTypes
<1>3. HookOK'
  BY <1>1 DEF ReceiptTypes, PacmanStates, HookOK, StageOK, Before
<1>4. RecordOK'
  BY <1>1 DEF RecordOK, HookOK, StageOK, Before
<1>5. StageOK'
  BY <1>1 DEF ReceiptTypes, PacmanStates, StageOK, Before
<1>6. HelperOK'
  BY <1>1 DEF HelperOK, StageOK, Before
<1>7. ClientOK'
  BY <1>1 DEF ClientOK, StageOK, OutcomeTrue, Before, Statuses
<1> QED BY <1>1, <1>2, <1>3, <1>4, <1>5, <1>6, <1>7

LEMMA LosePacmanStep ==
  ASSUME ReceiptInv, LosePacman
  PROVE  ReceiptInv'
<1> USE DEF ReceiptInv, LosePacman
<1>1. /\ client' \in ClientStates /\ client'.pc = "abort" /\ helper' \in HelperStates
      /\ client'.then.status = "OutcomeUnknown" /\ client'.then.outcome = "Unknown"
      /\ helper'.pc = "open" /\ helper'.out = <<>>
  BY AbortEffect DEF Statuses, Outcomes, Observations
<1>2. ReceiptTypes'
  BY <1>1 DEF ReceiptTypes
<1>3. StageOK'
  BY <1>1 DEF StageOK, Before
<1>4. HelperOK'
  BY <1>1 DEF HelperOK
<1>5. ClientOK'
  BY <1>1 DEF ClientOK, StageOK, OutcomeTrue, Statuses
<1>6. HookOK' /\ RecordOK'
  BY DEF HookOK, RecordOK
<1> QED BY <1>1, <1>2, <1>3, <1>4, <1>5, <1>6

LEMMA PacmanReportsStep ==
  ASSUME ReceiptInv, PacmanReports
  PROVE  ReceiptInv'
<1> USE DEF ReceiptInv, PacmanReports
<1>1. /\ client' \in ClientStates /\ helper' \in HelperStates
      /\ helper'.pc = "open" /\ helper'.out = <<>>
      /\ \/ /\ pacman.code # 0 /\ client'.pc = "abort"
            /\ client'.then.status = "PacmanFailed" /\ client'.then.outcome = "Failed"
         \/ pacman.code = 0 /\ client'.pc = "consume"
  <2>1. CASE pacman.code # 0 /\ AbortThen("PacmanFailed", "Failed", "Missing")
    BY <2>1, AbortEffect DEF Statuses, Outcomes, Observations
  <2>2. CASE /\ pacman.code = 0 /\ client' = [client EXCEPT !.pc = "consume"]
             /\ helper' = [Idle EXCEPT !.cmd = "consume", !.pc = "open"]
    BY <2>2 DEF ReceiptTypes, ClientStates, HelperStates, Idle
  <2> QED BY <2>1, <2>2
<1>2. ReceiptTypes'
  BY <1>1 DEF ReceiptTypes
<1>3. StageOK'
  BY <1>1 DEF StageOK, Before
<1>4. HelperOK'
  BY <1>1 DEF HelperOK
<1>5. ClientOK'
  BY <1>1 DEF ClientOK, StageOK, OutcomeTrue, Statuses
<1>6. HookOK' /\ RecordOK'
  BY DEF HookOK, RecordOK
<1> QED BY <1>1, <1>2, <1>3, <1>4, <1>5, <1>6

LEMMA ConsumeReturnsStep ==
  ASSUME ReceiptInv, ConsumeReturns
  PROVE  ReceiptInv'
<1> USE DEF ReceiptInv, ConsumeReturns
<1>1. /\ client' \in ClientStates /\ helper' \in HelperStates
      /\ \/ /\ client'.pc = "done" /\ UNCHANGED helper
            /\ helper.pc = "ended" /\ helper.out # <<>>
            /\ client'.result.outcome = "Succeeded"
            /\ client'.result.status = "Complete" => helper.out[1].state = "Complete"
         \/ /\ client'.pc = "abort" /\ helper'.pc = "open" /\ helper'.out = <<>>
            /\ client'.then.status = "ConsumeFailed" /\ client'.then.outcome = "Succeeded"
  <2>1. CASE /\ helper.pc = "ended" /\ helper.out # <<>> /\ UNCHANGED helper
             /\ Ends(helper.out[1].state, "Succeeded", helper.out[1].state)
    <3>1. helper.out[1].state \in {"Complete", "Missing"}
      BY <2>1 DEF ReceiptTypes, HelperStates, Receipts
    <3> QED BY <2>1, <3>1, EndsEffect DEF ReceiptTypes, Statuses, Outcomes, Observations
  <2>2. CASE /\ helper.pc = "ended" /\ helper.out # <<>> /\ UNCHANGED helper
             /\ Ends("MalformedReceipt", "Succeeded", "Incomplete")
    BY <2>2, EndsEffect DEF ReceiptTypes, Statuses, Outcomes, Observations
  <2>3. CASE AbortThen("ConsumeFailed", "Succeeded", "Incomplete")
    BY <2>3, AbortEffect DEF Statuses, Outcomes, Observations
  <2> QED BY <2>1, <2>2, <2>3
<1>2. ReceiptTypes'
  BY <1>1 DEF ReceiptTypes
<1>3. StageOK'
  BY <1>1 DEF StageOK, Before
<1>4. HelperOK'
  BY <1>1 DEF HelperOK, Emptied
<1>5. ClientOK'
  BY <1>1 DEF ClientOK, StageOK, OutcomeTrue, Statuses
<1>6. HookOK' /\ RecordOK'
  BY DEF HookOK, RecordOK
<1> QED BY <1>1, <1>2, <1>3, <1>4, <1>5, <1>6

LEMMA AbortReturnsStep ==
  ASSUME ReceiptInv, AbortReturns
  PROVE  ReceiptInv'
<1> USE DEF ReceiptInv, AbortReturns
<1>1. /\ client' \in ClientStates /\ helper' \in HelperStates
      /\ \/ /\ client'.pc = "done" /\ UNCHANGED helper /\ helper.pc = "ended"
            /\ client'.result.outcome = client.then.outcome
            /\ \/ client'.result.status = "AbortFailed"
               \/ helper.out # <<>> /\ client'.result.status = client.then.status
         \/ /\ UNCHANGED client /\ helper'.pc = "open" /\ helper'.out = <<>>
  <2>1. CASE /\ helper.pc = "ended" /\ UNCHANGED helper
             /\ Ends(IF helper.out # <<>> THEN client.then.status ELSE "AbortFailed",
                     client.then.outcome, client.then.observation)
    <3>1. client.then \in [status : Statuses, outcome : Outcomes, observation : Observations]
      BY DEF ReceiptTypes, ClientStates, Results, NoResult, Statuses, ClientOK
    <3> DEFINE s == IF helper.out # <<>> THEN client.then.status ELSE "AbortFailed"
    <3>2. s \in Statuses /\ client.then.outcome \in Outcomes
          /\ client.then.observation \in Observations
      BY <3>1 DEF Statuses
    <3>3. /\ client' \in ClientStates /\ client'.pc = "done"
          /\ client'.result.status = s /\ client'.result.outcome = client.then.outcome
      BY <2>1, <3>2, EndsEffect
    <3> QED BY <2>1, <3>3 DEF ReceiptTypes
  <2>2. CASE UNCHANGED client /\ helper' = [Idle EXCEPT !.cmd = "abort", !.pc = "open"]
    BY <2>2 DEF ReceiptTypes, HelperStates, Idle
  <2> QED BY <2>1, <2>2
<1>2. ReceiptTypes'
  BY <1>1 DEF ReceiptTypes
<1>3. StageOK'
  BY <1>1 DEF StageOK, Before
<1>4. HelperOK'
  BY <1>1 DEF HelperOK, Emptied
<1>5. ClientOK'
  BY <1>1 DEF ClientOK, StageOK, OutcomeTrue
<1>6. HookOK' /\ RecordOK'
  BY DEF HookOK, RecordOK
<1> QED BY <1>1, <1>2, <1>3, <1>4, <1>5, <1>6

-----------------------------------------------------------------------------
(* The helper that consumes or aborts. *)

LEMMA HelperOpensStep ==
  ASSUME ReceiptInv, HelperOpens
  PROVE  ReceiptInv'
<1> USE DEF ReceiptInv, HelperOpens
<1>1. /\ helper' \in HelperStates
      /\ \/ helper'.pc = "ended" /\ helper'.out = <<>>
         \/ /\ helper'.pc = "retire" /\ tdir.place = "active"
            /\ helper'.out = <<MachineReceipt(tdir.files, tdir.names)>>
  <2>1. MachineReceipt(tdir.files, tdir.names) \in Receipts
    BY DEF MachineReceipt, Receipts, ReceiptTypes, DirStates
  <2>2. CASE Refused(helper.cmd)
    BY <2>2 DEF HelperExits, ReceiptTypes, HelperStates
  <2>3. CASE ~Refused(helper.cmd)
    BY <2>1, <2>3 DEF Refused, Opens, ReceiptTypes, HelperStates, DirStates, Working
  <2> QED BY <2>2, <2>3
<1>2. ReceiptTypes'
  BY <1>1 DEF ReceiptTypes
<1>3. StageOK'
  BY <1>1 DEF StageOK, Before
<1>4. HelperOK'
  BY <1>1 DEF HelperOK, MachineReceipt, RecordOK
<1>5. ClientOK'
  BY <1>1 DEF ClientOK, StageOK, OutcomeTrue
<1>6. HookOK' /\ RecordOK'
  BY DEF HookOK, RecordOK
<1> QED BY <1>1, <1>2, <1>3, <1>4, <1>5, <1>6

LEMMA RetireTransactionStep ==
  ASSUME ReceiptInv, RetireTransaction
  PROVE  ReceiptInv'
<1> USE DEF ReceiptInv, RetireTransaction
<1>1. ReceiptTypes'
  BY DEF ReceiptTypes, DirStates, HelperStates, Working
<1>2. RecordOK'
  BY DEF ReceiptTypes, RecordOK, DirStates
<1>3. StageOK'
  BY DEF ReceiptTypes, StageOK, DirStates, HelperStates, Before
<1>4. HelperOK'
  BY DEF ReceiptTypes, HelperOK, DirStates, HelperStates
<1>5. ClientOK'
  BY DEF ReceiptTypes, ClientOK, StageOK, OutcomeTrue, DirStates, HelperStates
<1>6. HookOK'
  BY DEF HookOK
<1> QED BY <1>1, <1>2, <1>3, <1>4, <1>5, <1>6

LEMMA CleanupRetiredChecksStep ==
  ASSUME ReceiptInv, CleanupRetiredChecks
  PROVE  ReceiptInv'
<1> USE DEF ReceiptInv, CleanupRetiredChecks, HelperExits
<1>1. ReceiptTypes'
  BY DEF ReceiptTypes, HelperStates, Working
<1>2. StageOK'
  BY DEF ReceiptTypes, StageOK, HelperStates, Before
<1>3. HelperOK'
  BY DEF ReceiptTypes, HelperOK, HelperStates
<1>4. ClientOK'
  BY DEF ReceiptTypes, ClientOK, StageOK, OutcomeTrue, HelperStates
<1>5. HookOK' /\ RecordOK'
  BY DEF HookOK, RecordOK
<1> QED BY <1>1, <1>2, <1>3, <1>4, <1>5

LEMMA CleanupRetiredRemovesStep ==
  ASSUME ReceiptInv, CleanupRetiredRemoves
  PROVE  ReceiptInv'
<1> USE DEF ReceiptInv, CleanupRetiredRemoves, HelperExits
<1>1. tdir' \in DirStates
  BY DEF ReceiptTypes, DirStates
<1>2. helper' \in HelperStates
  BY DEF ReceiptTypes, HelperStates
<1>3. RecordOK'
  BY DEF ReceiptTypes, RecordOK, DirStates
<1>4. StageOK'
  BY DEF ReceiptTypes, StageOK, DirStates, HelperStates, Before
<1>5. HelperOK'
  BY DEF ReceiptTypes, HelperOK, DirStates, HelperStates, StageOK, Emptied
<1>6. ClientOK'
  BY DEF ReceiptTypes, ClientOK, StageOK, OutcomeTrue, DirStates, HelperStates
<1>7. ReceiptTypes'
  BY <1>1, <1>2 DEF ReceiptTypes
<1>8. HookOK'
  BY DEF HookOK
<1> QED BY <1>1, <1>2, <1>3, <1>4, <1>5, <1>6, <1>7, <1>8

LEMMA HelperFailsStep ==
  ASSUME ReceiptInv, HelperFails
  PROVE  ReceiptInv'
<1> USE DEF ReceiptInv, HelperFails, HelperExits
<1>1. tdir' \in DirStates /\ tdir'.place = tdir.place /\ tdir'.names = tdir.names /\ tdir'.files \subseteq tdir.files
  BY DEF ReceiptTypes, DirStates
<1>2. helper' \in HelperStates /\ helper'.pc = "ended" /\ helper'.out = <<>>
  BY DEF ReceiptTypes, HelperStates
<1>3. RecordOK'
  BY <1>1 DEF RecordOK
<1>4. StageOK'
  BY <1>1, <1>2 DEF StageOK, Before
<1>5. HelperOK'
  BY <1>2 DEF HelperOK
<1>6. ClientOK'
  BY <1>1, <1>2 DEF ClientOK, StageOK, OutcomeTrue
<1>7. ReceiptTypes'
  BY <1>1, <1>2 DEF ReceiptTypes
<1>8. HookOK'
  BY DEF HookOK
<1> QED BY <1>1, <1>2, <1>3, <1>4, <1>5, <1>6, <1>7, <1>8

-----------------------------------------------------------------------------
(* The hook. *)

LEMMA RecordOpensStep ==
  ASSUME ReceiptInv, RecordOpens
  PROVE  ReceiptInv'
<1> USE DEF ReceiptInv, RecordOpens, Opens
<1>1. ReceiptTypes'
  BY DEF ReceiptTypes
<1>2. HookOK'
  BY DEF ReceiptTypes, HookOK
<1>3. RecordOK'
  BY DEF ReceiptTypes, RecordOK, Prepared
<1>4. HelperOK'
  BY DEF ReceiptTypes, HelperOK, Emptied
<1>5. StageOK' /\ ClientOK'
  BY DEF StageOK, ClientOK, OutcomeTrue
<1> QED BY <1>1, <1>2, <1>3, <1>4, <1>5

LEMMA RecordCreatesPartialStep ==
  ASSUME ReceiptInv, RecordCreatesPartial
  PROVE  ReceiptInv'
<1> USE DEF ReceiptInv, RecordCreatesPartial
<1>1. ReceiptTypes'
  BY DEF ReceiptTypes, DirStates, PacmanStates, Files
<1>2. HookOK'
  BY DEF ReceiptTypes, HookOK
<1>3. RecordOK'
  BY DEF ReceiptTypes, RecordOK, HookOK, NeedsTargets, DirStates
<1>4. StageOK'
  BY DEF ReceiptTypes, StageOK, DirStates
<1>5. HelperOK'
  BY DEF ReceiptTypes, HelperOK, Emptied, DirStates
<1>6. ClientOK'
  BY DEF ReceiptTypes, ClientOK, OutcomeTrue, DirStates
<1> QED BY <1>1, <1>2, <1>3, <1>4, <1>5, <1>6

LEMMA RecordChecksNameStep ==
  ASSUME ReceiptInv, RecordChecksName
  PROVE  ReceiptInv'
<1> USE DEF ReceiptInv, RecordChecksName
<1>1. ReceiptTypes'
  BY DEF ReceiptTypes
<1>2. HookOK'
  BY DEF ReceiptTypes, HookOK
<1>3. RecordOK'
  BY DEF ReceiptTypes, RecordOK
<1>4. HelperOK'
  BY DEF ReceiptTypes, HelperOK, Emptied
<1>5. StageOK' /\ ClientOK'
  BY DEF StageOK, ClientOK, OutcomeTrue
<1> QED BY <1>1, <1>2, <1>3, <1>4, <1>5

LEMMA RecordPublishesStep ==
  ASSUME ReceiptInv, RecordPublishes
  PROVE  ReceiptInv'
<1> USE DEF ReceiptInv, RecordPublishes
<1>1. ReceiptTypes'
  BY DEF ReceiptTypes, DirStates, Files
<1>2. HookOK'
  BY DEF ReceiptTypes, HookOK
<1>3. RecordOK'
  BY DEF ReceiptTypes, RecordOK, DirStates
<1>4. StageOK'
  BY DEF ReceiptTypes, StageOK, DirStates
<1>5. HelperOK'
  BY DEF ReceiptTypes, HelperOK, Emptied, DirStates
<1>6. ClientOK'
  BY DEF ReceiptTypes, ClientOK, OutcomeTrue, DirStates
<1> QED BY <1>1, <1>2, <1>3, <1>4, <1>5, <1>6

LEMMA RecordFailsStep ==
  ASSUME ReceiptInv, RecordFails
  PROVE  ReceiptInv'
<1> USE DEF ReceiptInv, RecordFails
<1>1. ReceiptTypes'
  BY DEF ReceiptTypes
<1>2. HookOK'
  BY DEF ReceiptTypes, HookOK
<1>3. RecordOK'
  BY DEF ReceiptTypes, RecordOK
<1>4. HelperOK'
  BY DEF ReceiptTypes, HelperOK, Emptied
<1>5. StageOK' /\ ClientOK'
  BY DEF StageOK, ClientOK, OutcomeTrue
<1> QED BY <1>1, <1>2, <1>3, <1>4, <1>5

-----------------------------------------------------------------------------
(* pacman. *)

LEMMA PacmanCommitsStep ==
  ASSUME ReceiptInv, PacmanCommits
  PROVE  ReceiptInv'
<1> USE DEF ReceiptInv, PacmanCommits
<1>1. ReceiptTypes'
  BY InstallsNameable DEF ReceiptTypes, PacmanStates
<1>2. HookOK'
  BY DEF ReceiptTypes, HookOK, PacmanStates
<1>3. RecordOK'
  BY DEF ReceiptTypes, RecordOK, HookOK
<1>4. StageOK'
  BY DEF ReceiptTypes, StageOK, PacmanStates
<1>5. HelperOK'
  BY DEF ReceiptTypes, HelperOK, HookOK, Emptied
<1>6. ClientOK'
  BY DEF ReceiptTypes, ClientOK, OutcomeTrue, PacmanStates
<1> QED BY <1>1, <1>2, <1>3, <1>4, <1>5, <1>6

LEMMA PacmanEndsStep ==
  ASSUME ReceiptInv, PacmanEnds
  PROVE  ReceiptInv'
<1> USE DEF ReceiptInv, PacmanEnds
<1>1. ReceiptTypes'
  BY DEF ReceiptTypes, PacmanStates
<1>2. HookOK'
  BY DEF ReceiptTypes, HookOK, PacmanStates
<1>3. RecordOK'
  BY DEF ReceiptTypes, RecordOK, PacmanStates
<1>4. StageOK'
  BY DEF ReceiptTypes, StageOK, PacmanStates
<1>5. HelperOK'
  BY DEF ReceiptTypes, HelperOK, PacmanStates, Emptied
<1>6. ClientOK'
  BY DEF ReceiptTypes, ClientOK, OutcomeTrue, PacmanStates
<1> QED BY <1>1, <1>2, <1>3, <1>4, <1>5, <1>6

LEMMA PacmanFailsStep ==
  ASSUME ReceiptInv, PacmanFails
  PROVE  ReceiptInv'
<1> USE DEF ReceiptInv, PacmanFails
<1>1. /\ pacman' \in PacmanStates /\ pacman'.state = "ended" /\ pacman'.code = 1
      /\ recorder # "off" => pacman'.new = pacman.new
  BY InstallsNameable DEF ReceiptTypes, PacmanStates, HookOK
<1>2. HookOK'
  BY <1>1 DEF HookOK
<1>3. RecordOK'
  BY <1>1 DEF RecordOK
<1>4. StageOK'
  BY <1>1 DEF StageOK
<1>5. HelperOK'
  BY <1>1 DEF HelperOK, Emptied
<1>6. ClientOK'
  BY <1>1 DEF ClientOK, OutcomeTrue
<1>7. ReceiptTypes'
  BY <1>1 DEF ReceiptTypes
<1> QED BY <1>1, <1>2, <1>3, <1>4, <1>5, <1>6, <1>7

-----------------------------------------------------------------------------

LEMMA ReceiptStart == ReceiptInit => ReceiptInv
<1> SUFFICES ASSUME ReceiptInit PROVE ReceiptInv
  OBVIOUS
<1>1. PICK r \in Requests :
        client = [pc |-> "request", request |-> r, then |-> NoResult, result |-> NoResult]
  BY DEF ReceiptInit
<1>2. client \in ClientStates
  BY <1>1 DEF ClientStates, Results
<1>3. tdir \in DirStates /\ helper \in HelperStates /\ pacman \in PacmanStates
  BY DEF ReceiptInit, Idle, DirStates, HelperStates, PacmanStates
<1>4. ReceiptTypes
  BY <1>2, <1>3 DEF ReceiptTypes, ReceiptInit
<1>5. HookOK /\ RecordOK
  BY DEF ReceiptInit, HookOK, RecordOK
<1>6. StageOK /\ HelperOK /\ ClientOK
  BY <1>1 DEF ReceiptInit, StageOK, Before, HelperOK, ClientOK, Idle
<1> QED BY <1>4, <1>5, <1>6 DEF ReceiptInv

LEMMA ReceiptStep ==
  ASSUME ReceiptInv, [ReceiptNext]_receiptVars
  PROVE  ReceiptInv'
<1>1. CASE UNCHANGED receiptVars
  BY <1>1 DEF receiptVars, ReceiptInv, ReceiptTypes, HookOK, RecordOK, StageOK,
     HelperOK, Emptied, ClientOK, OutcomeTrue
<1>2. CASE ReceiptDone
  BY <1>1, <1>2 DEF ReceiptDone
<1>3. CASE ReceiptNext /\ ~ReceiptDone
  BY <1>3, ExecuteBeginsStep, PrepareStep, StartPacmanStep, LosePacmanStep,
     PacmanReportsStep, ConsumeReturnsStep, AbortReturnsStep, HelperOpensStep,
     RetireTransactionStep, CleanupRetiredChecksStep,
     CleanupRetiredRemovesStep, HelperFailsStep, RecordOpensStep,
     RecordCreatesPartialStep, RecordChecksNameStep, RecordPublishesStep,
     RecordFailsStep, PacmanCommitsStep, PacmanEndsStep, PacmanFailsStep
     DEF ReceiptNext
<1> QED BY <1>1, <1>2, <1>3

LEMMA ReceiptTruth == ReceiptInv => ReceiptTruthful
<1> SUFFICES ASSUME ReceiptInv, client.pc = "done" PROVE ReceiptTruthful
  BY DEF ReceiptTruthful
<1>1. client.result.status = "Complete" =>
        /\ pacman.state = "ended" /\ pacman.code = 0
        /\ helper.out[1].names = pacman.new /\ pacman.new # {}
  BY DEF ReceiptInv, ClientOK, HelperOK
<1>2. tdir.place = "none" => "receipt" \notin tdir.files
  BY DEF ReceiptInv, RecordOK, HookOK, StageOK
<1>3. client.result.status \notin {"AbortFailed", "PrepareFailed", "OutcomeUnknown"} =>
        tdir.place # "active" /\ "receipt" \notin tdir.files
  BY <1>2 DEF ReceiptInv, ClientOK, HelperOK, Emptied
<1>4. OutcomeTrue(client.result.outcome)
  BY DEF ReceiptInv, ClientOK
<1> QED BY <1>1, <1>3, <1>4 DEF ReceiptTruthful, OutcomeTrue

(* Whatever fails, whichever answers are lost, and although a hook may      *)
(* outlive what the client sees of pacman: a complete receipt names exactly *)
(* what this transaction installed, the reported outcome is what happened,  *)
(* and nothing of the token is left to be consumed                          *)
(* (execute_with_token, and the consume and abort of the helper).           *)
THEOREM ReceiptIsTrue == ReceiptSpec => []ReceiptTruthful
<1>1. ReceiptInit => ReceiptInv
  BY ReceiptStart
<1>2. ReceiptInv /\ [ReceiptNext]_receiptVars => ReceiptInv'
  BY ReceiptStep
<1>3. ReceiptInv => ReceiptTruthful
  BY ReceiptTruth
<1> QED BY <1>1, <1>2, <1>3, PTL DEF ReceiptSpec
=============================================================================
