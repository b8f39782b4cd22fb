-------------------------- MODULE DependencyCleanup --------------------------
(***************************************************************************)
(* A source build with --rmdeps (build_source_target): the packages that   *)
(* were there are noted, providers and work items are installed, what the  *)
(* invocation brought is assessed, shown, confirmed, looked at again and   *)
(* removed with one pacman -R.  Other users of the package database act    *)
(* between any two of these steps.                                         *)
(***************************************************************************)
EXTENDS CleanupAssessment

CONSTANTS Pkgs,       \* package names
          Plans,      \* the build plans looked at
          Needs,      \* run time dependencies: a set of <<consumer, dependency>>
          BaseDevel,  \* members of base-devel
          Held,       \* names a HoldPkg pattern matches
          Worlds,     \* what is known of base-devel: [installed, sync, group]
          FirstDbs,   \* package databases at the start
          MaxOther    \* bound on the steps of other users

Edges ==
    [parent : Pkgs, kind : {"Installed", "Repo", "Aur", "Local", "Provided"},
     origin : {"none", "aur", "repo"}, selected : BOOLEAN,
     role : {"Runtime", "Build", "Check"}, name : Pkgs, exact : BOOLEAN]
BuildPlans ==
    [edges : Seq(Edges), order : Seq(Pkgs),
     targets : SUBSET [name : Pkgs, roles : SUBSET {"Root", "Runtime", "Build", "Check"}]]

PackageStates ==
    {<<>>} \cup {<<r>> : r \in [ver : {"v1", "v2", "unverified"}, reason : {"Dep", "Explicit"}]}
Databases == [Pkgs -> PackageStates]

ASSUME CleanupAssumption ==
    /\ Needs \subseteq Pkgs \X Pkgs /\ BaseDevel \subseteq Pkgs /\ Held \subseteq Pkgs
    /\ MaxOther \in Nat /\ Plans \subseteq BuildPlans
    /\ \A p \in Plans : \A i \in DOMAIN p.edges :
          p.edges[i].kind = "Provided" => p.edges[i].origin \in {"aur", "repo"}
    /\ \A d \in FirstDbs : d \in Databases
    /\ Worlds \subseteq [installed : {"present", "absent", "failed"},
                         sync : {"present", "partial", "absent", "failed"},
                         group : {"present", "absent"}]

VARIABLES plan, world, db, stage, item, succeeded, baseline, current, evidence,
          collection, \* the assessment, <<>> before it
          approved,   \* <<>> or <<the names shown and approved>>
          revalidation, \* <<>> or <<status of each approved name>>
          removed, exit, others
vars == <<plan, world, db, stage, item, succeeded, baseline, current, evidence,
          collection, approved, revalidation, removed, exit, others>>

Present(d) == {p \in Pkgs : d[p] # <<>>}
ConsumersIn(d, n) == {p \in Present(d) : <<p, n>> \in Needs}
DependenciesOf(S) == {q \in Pkgs : \E p \in S : <<p, q>> \in Needs}

\* The run time dependencies pacman brings along: two levels are all there
\* are in the packages looked at.
Closure(S) == S \cup DependenciesOf(S) \cup DependenciesOf(DependenciesOf(S))

\* pacman -S --needed: what is missing of S is installed for the reason
\* given, what it needs as a dependency.
Installed(d, S, reason) ==
    [p \in Pkgs |-> IF d[p] # <<>> \/ p \notin Closure(S) THEN d[p]
                    ELSE <<[ver |-> "v1", reason |-> IF p \in S THEN reason ELSE "Dep"]>>]

NoEvidence == [source |-> {}, provider |-> <<>>, tokens |-> {}]

Init ==
    /\ plan \in Plans /\ world \in Worlds /\ db \in FirstDbs
    /\ stage = "baseline" /\ item = 1 /\ succeeded = {}
    /\ baseline = <<>> /\ current = <<>> /\ evidence = NoEvidence
    /\ collection = <<>> /\ approved = <<>> /\ revalidation = <<>>
    /\ removed = {} /\ exit = "none" /\ others = 0

Unobserved == UNCHANGED <<plan, world, current, collection, approved, revalidation, removed, others>>

(***************************************************************************)
(* The build                                                               *)
(***************************************************************************)
\* Before the first change.  A snapshot that fails is kept as a failure and
\* the build goes on.
RecordBaseline ==
    /\ stage = "baseline" /\ stage' = "providers"
    /\ baseline' \in {<<>>, <<db>>}
    /\ UNCHANGED <<db, item, succeeded, evidence, exit>> /\ Unobserved

SelectedNames == {plan.edges[i].name : i \in ProviderEdges(plan)}

\* Providers keep their reason when they are installed explicitly; a mix of
\* both cannot be put in one command.
ProviderDirective ==
    LET explicit == {n \in SelectedNames : db[n] # <<>> /\ db[n][1].reason = "Explicit"}
    IN IF explicit = {} THEN "AsDep" ELSE IF explicit = SelectedNames THEN "Default" ELSE "Mixed"

Abandon(code) == stage' = "done" /\ exit' = code

\* The receipt counts when the transaction is complete and has installed
\* every provider that was asked for.
CloseExecutionEvidence(fresh) ==
    IF SelectedNames \subseteq fresh
    THEN evidence' = [evidence EXCEPT
            !.provider = <<fresh>>,
            !.tokens = @ \cup {[owner |-> "Provider", item |-> k, done |-> TRUE] :
                                  k \in {j \in DOMAIN plan.order :
                                           AttachSelectedProviders(plan, j) # {}}}]
    ELSE UNCHANGED evidence

ProviderReason == IF ProviderDirective = "AsDep" THEN "Dep" ELSE "Explicit"

\* With a receipt, without one (the helper could not start: the ordinary
\* transaction is run instead; or the receipt is missing), or not at all.
ExecuteProviderTransaction ==
    /\ stage = "providers"
    /\ \/ /\ SelectedNames = {} /\ stage' = "build"
          /\ UNCHANGED <<db, evidence, exit>>
       \/ /\ SelectedNames # {} /\ ProviderDirective # "Mixed"
          /\ db' = Installed(db, SelectedNames, ProviderReason) /\ stage' = "build"
          /\ \/ CloseExecutionEvidence(Present(db') \ Present(db))
             \/ UNCHANGED evidence
          /\ UNCHANGED exit
       \/ /\ SelectedNames # {} /\ Abandon("failed")
          /\ db' \in {db, Installed(db, SelectedNames, ProviderReason)}
          /\ UNCHANGED evidence
    /\ UNCHANGED <<item, succeeded, baseline>> /\ Unobserved

\* What makepkg --syncdeps asks pacman for, and what it cannot get there.
ItemEdges == {plan.edges[i] : i \in {j \in DOMAIN plan.edges : plan.edges[j].parent = plan.order[item]}}
SyncDependencies == {e.name : e \in {f \in ItemEdges : RepoSourced(f)}}
UnsyncableMissing == {e.name : e \in {f \in ItemEdges : ~RepoSourced(f)}} \ Present(db)

BuildItem ==
    /\ stage = "build" /\ UnsyncableMissing = {}
    /\ db' = Installed(db, SyncDependencies, "Dep") /\ stage' = "install"
    /\ UNCHANGED <<item, succeeded, baseline, evidence, exit>> /\ Unobserved

\* Review, build or artifacts fail; dependencies may be installed by then.
BuildFails ==
    /\ stage = "build" /\ Abandon("failed")
    /\ db' \in {db} \cup (IF UnsyncableMissing = {} THEN {Installed(db, SyncDependencies, "Dep")} ELSE {})
    /\ UNCHANGED <<item, succeeded, baseline, evidence>> /\ Unobserved

IsRoot(n) == \E t \in TargetsNamed(plan, n) : "Root" \in t.roles

\* --asdeps for a dependency that is not installed yet, --asexplicit for a
\* root that was a dependency, and otherwise the reason it has.
ReasonAfterInstall(n) ==
    IF IsRoot(n) THEN "Explicit" ELSE IF db[n] = <<>> THEN "Dep" ELSE db[n][1].reason

ArtifactInstalled ==
    LET n == plan.order[item]
    IN [Installed(db, {n}, "Dep") EXCEPT ![n] = <<[ver |-> "v1", reason |-> ReasonAfterInstall(n)]>>]

\* The last item succeeds only here.
ItemDone == /\ succeeded' = succeeded \cup {item}
            /\ item' = IF item = Len(plan.order) THEN item ELSE item + 1
            /\ stage' = IF item = Len(plan.order) THEN "observe" ELSE "build"
            /\ db' = ArtifactInstalled

\* An ordinary pacman -U, also where the trusted helper could not begin.
InstallArtifact ==
    /\ stage = "install" /\ ItemDone
    /\ UNCHANGED <<baseline, evidence, exit>> /\ Unobserved

\* Through the trusted helper.  The token is registered before pacman runs
\* and completed with its receipt; a receipt that is lost after pacman
\* succeeded leaves the item installed and the token open.
InstallArtifactTrusted ==
    /\ stage = "install" /\ ShouldUseTrustedInstall(plan, item)
    /\ ItemDone
    /\ \E done \in BOOLEAN :
          evidence' = [evidence EXCEPT
             !.tokens = @ \cup {[owner |-> "Source", item |-> item, done |-> done]},
             !.source = @ \cup
                IF done /\ plan.order[item] \in Present(db') \ Present(db)
                THEN {[item |-> item, installed |-> Present(db') \ Present(db)]} ELSE {}]
    /\ UNCHANGED <<baseline, exit>> /\ Unobserved

InstallFails ==
    /\ stage = "install" /\ Abandon("failed")
    /\ db' \in {db, ArtifactInstalled}
    /\ UNCHANGED <<item, succeeded, baseline, evidence>> /\ Unobserved

(***************************************************************************)
(* Assessment                                                              *)
(***************************************************************************)
Incomplete == [assessments |-> {}, complete |-> FALSE]

\* Only when everything succeeded and no token is open is the state of the
\* packages taken; else nothing is known.
ObserveCurrent ==
    /\ stage = "observe"
    /\ \/ /\ \A t \in evidence.tokens : t.done
          /\ current' \in {<<>>, <<db>>} /\ stage' = "assess" /\ UNCHANGED collection
       \/ /\ \E t \in evidence.tokens : ~t.done
          /\ collection' = <<Incomplete>> /\ stage' = "preview" /\ UNCHANGED current
    /\ UNCHANGED <<plan, world, db, item, succeeded, baseline, evidence,
                   approved, revalidation, removed, exit, others>>

\* Membership in base-devel.  The installed package is asked first; then the
\* one in the configured repositories, some of which may not be readable:
\* then only that a package is a member is certain; then the old group,
\* which the package itself must declare.
Membership(n) == IF n \in BaseDevel THEN "Protected" ELSE "NotProtected"

InstalledAuthority(n) ==
    CASE world.installed = "present" -> Membership(n)
      [] world.installed = "absent" -> "Absent"
      [] world.installed = "failed" -> "Unknown"

ConfiguredSyncAuthority(n) ==
    CASE world.sync = "present" -> Membership(n)
      [] world.sync = "partial" -> IF n \in BaseDevel THEN "Protected" ELSE "Unknown"
      [] world.sync = "absent" -> "Absent"
      [] world.sync = "failed" -> "Unknown"

GroupAuthority(n) == IF world.group = "present" THEN Membership(n) ELSE "Unknown"

PolicyProtection(n) ==
    IF db[n] = <<>> THEN "Unknown"
    ELSE IF InstalledAuthority(n) # "Absent" THEN InstalledAuthority(n)
    ELSE IF ConfiguredSyncAuthority(n) # "Absent" THEN ConfiguredSyncAuthority(n)
    ELSE GroupAuthority(n)

AssessCandidates ==
    /\ stage = "assess" /\ stage' = "preview"
    /\ collection' = <<Assess(plan, succeeded, baseline, current, evidence,
                              [n \in Pkgs |-> PolicyProtection(n)])>>
    /\ UNCHANGED <<plan, world, db, item, succeeded, baseline, current, evidence,
                   approved, revalidation, removed, exit, others>>

(***************************************************************************)
(* Confirmation                                                            *)
(***************************************************************************)
EligibleNames == {a.name : a \in {b \in collection[1].assessments : b.class = "Eligible"}}

PreviewState ==
    IF ~collection[1].complete
       \/ \E a \in collection[1].assessments : a.class \in {"Unknown", "Invalid"}
    THEN "Blocked" ELSE IF EligibleNames = {} THEN "NoCandidates" ELSE "Ready"

\* What the result of the command says of each ending.
ExitStatus(ending) ==
    IF ending \in {"Blocked", "InteractionUnavailable", "RemovalFailed", "CleanupBlocked"}
    THEN "1" ELSE "0"

Interact ==
    /\ stage = "preview"
    /\ \/ /\ PreviewState # "Ready" /\ Abandon(ExitStatus(PreviewState)) /\ UNCHANGED approved
       \/ /\ PreviewState = "Ready"
          /\ \E ending \in {"InteractionUnavailable", "Declined", "Cancelled", "Blocked"} :
                Abandon(ExitStatus(ending))
          /\ UNCHANGED approved
       \/ /\ PreviewState = "Ready" /\ stage' = "revalidate"
          /\ approved' = <<EligibleNames>> /\ UNCHANGED exit
    /\ UNCHANGED <<plan, world, db, item, succeeded, baseline, current, evidence,
                   collection, revalidation, removed, others>>

(***************************************************************************)
(* A second look before anything is removed                                *)
(***************************************************************************)
\* Mutant: HoldPkg is not looked at.
Mutant_CandidateStatus(n) ==
    IF db[n] = <<>> THEN "AlreadyAbsent"
    ELSE IF db[n] # current[1][n] THEN "IdentityChanged"
    ELSE IF PolicyProtection(n) # "NotProtected" THEN "Protected" ELSE "Ready"

CandidateStatus(n) ==
    IF db[n] = <<>> THEN "AlreadyAbsent"
    ELSE IF ~Verified(db[n][1]) THEN "Unknown"
    ELSE IF db[n][1].ver # current[1][n][1].ver THEN "IdentityChanged"
    ELSE IF db[n][1].reason # "Dep" THEN "InstallReasonChanged"
    ELSE IF PolicyProtection(n) # "NotProtected"
         THEN IF PolicyProtection(n) = "Protected" THEN "Protected" ELSE "Unknown"
    ELSE IF n \in Held THEN "Protected" ELSE "Ready"

\* Mutant: consumers are looked at once.
Mutant_WithoutRequired(ready) == {n \in ready : ConsumersIn(db, n) \subseteq ready}

\* Candidates that something else needs are left, and then those that they
\* in turn need, until nothing changes.
WithoutRequired(ready) ==
    LET pass[k \in 0..Cardinality(Pkgs)] ==
            IF k = 0 THEN ready
            ELSE {n \in pass[k - 1] : ConsumersIn(db, n) \subseteq pass[k - 1]}
    IN pass[Cardinality(Pkgs)]

Revalidate ==
    /\ stage = "revalidate" /\ stage' = "remove"
    /\ \/ LET ready == {n \in approved[1] : CandidateStatus(n) = "Ready"}
          IN revalidation' =
                <<[n \in approved[1] |->
                     IF n \in ready /\ n \notin WithoutRequired(ready) THEN "StillRequired"
                     ELSE CandidateStatus(n)]>>
       \/ revalidation' = <<>>    \* hold patterns or snapshot not available
    /\ UNCHANGED <<plan, world, db, item, succeeded, baseline, current, evidence,
                   collection, approved, removed, exit, others>>

ReadyNames == {n \in DOMAIN revalidation[1] : revalidation[1][n] = "Ready"}

\* pacman -R takes all of them or none.
Removable(d, S) == S \subseteq Present(d) /\ \A n \in S : ConsumersIn(d, n) \subseteq S

RemoveRevalidated ==
    /\ stage = "remove"
    /\ \/ /\ revalidation = <<>> /\ Abandon(ExitStatus("CleanupBlocked"))
          /\ UNCHANGED <<db, removed>>
       \/ /\ revalidation # <<>> /\ ReadyNames = {} /\ Abandon(ExitStatus("NoCandidatesReady"))
          /\ UNCHANGED <<db, removed>>
       \/ /\ revalidation # <<>> /\ ReadyNames # {} /\ Removable(db, ReadyNames)
          /\ db' = [p \in Pkgs |-> IF p \in ReadyNames THEN <<>> ELSE db[p]]
          /\ removed' = ReadyNames /\ Abandon(ExitStatus("Removed"))
       \/ /\ revalidation # <<>> /\ ReadyNames # {} /\ Abandon(ExitStatus("RemovalFailed"))
          /\ UNCHANGED <<db, removed>>
    /\ UNCHANGED <<plan, world, item, succeeded, baseline, current, evidence,
                   collection, approved, revalidation, others>>

(***************************************************************************)
(* Other users of the package database: an installation, an upgrade, a     *)
(* change of the install reason, a removal that breaks nothing.            *)
(***************************************************************************)
OtherUser ==
    /\ others < MaxOther /\ others' = others + 1 /\ stage # "done"
    /\ \E p \in Pkgs :
          \/ /\ db[p] = <<>> /\ \E r \in {"Dep", "Explicit"} : db' = Installed(db, {p}, r)
          \/ /\ db[p] # <<>> /\ \E v \in {"v2", "unverified"} : db' = [db EXCEPT ![p][1].ver = v]
          \/ /\ db[p] # <<>> /\ db[p][1].reason = "Dep"
             /\ db' = [db EXCEPT ![p][1].reason = "Explicit"]
          \/ /\ db[p] # <<>> /\ Removable(db, {p}) /\ db' = [db EXCEPT ![p] = <<>>]
    /\ UNCHANGED <<plan, world, stage, item, succeeded, baseline, current, evidence,
                   collection, approved, revalidation, removed, exit>>

Done == stage = "done" /\ UNCHANGED vars

Next ==
    \/ RecordBaseline \/ ExecuteProviderTransaction \/ BuildItem \/ BuildFails
    \/ InstallArtifact \/ InstallArtifactTrusted \/ InstallFails
    \/ ObserveCurrent \/ AssessCandidates \/ Interact \/ Revalidate \/ RemoveRevalidated
    \/ OtherUser \/ Done

Spec == Init /\ [][Next]_vars

(***************************************************************************)
(* Properties                                                              *)
(***************************************************************************)
\* Packages the plan needs to build or check and for nothing else.
OnlyToBuild(n) ==
    /\ \E i \in EdgesNamed(plan, n) : plan.edges[i].kind # "Installed"
    /\ \A i \in EdgesNamed(plan, n) : BuildOrCheck(plan.edges[i].role)
    /\ \A t \in TargetsNamed(plan, n) : \A r \in t.roles : BuildOrCheck(r)

\* An offer to remove packages comes only from a complete picture: the whole
\* invocation succeeded, no receipt is missing, and every package that the
\* plan needs only to build, that was not there before and is there after,
\* has been assessed, whichever of provider transaction, makepkg or artifact
\* installation brought it, and whether or not the trusted helper worked.
OfferedIsComplete ==
    stage = "preview" /\ PreviewState = "Ready" =>
       /\ succeeded = DOMAIN plan.order /\ \A t \in evidence.tokens : t.done
       /\ \A n \in Pkgs : OnlyToBuild(n) /\ baseline[1][n] = <<>> /\ current[1][n] # <<>> =>
             n \in {a.name : a \in collection[1].assessments}

\* What is removed was not there before the invocation, is needed by the plan
\* only to build or check, was a dependency of the planned version when it
\* was shown, was approved, and is protected neither by base-devel nor by
\* HoldPkg, whatever others do to the database meanwhile.
RemovedIsOurs ==
    \A n \in removed :
       /\ baseline[1][n] = <<>> /\ OnlyToBuild(n)
       /\ current[1][n] = <<[ver |-> "v1", reason |-> "Dep"]>>
       /\ n \in approved[1] /\ n \notin Held \cup BaseDevel
       /\ succeeded = DOMAIN plan.order
=============================================================================
