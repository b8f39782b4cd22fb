-------------------------- MODULE DevelAssessment --------------------------
(***************************************************************************)
(* What becomes of a development package once it is built, and how moguet  *)
(* later tells whether upstream has moved past it.                         *)
(*                                                                         *)
(* reviewed_devel_source_build_execution.cpp installs the built archive    *)
(* through the trusted transport, observes the installed record, and       *)
(* publishes the provenance: this recipe, this commit, this installed      *)
(* record.  devel_package_assessment.cpp reads provenance, installed       *)
(* record and reviewed recipe, asks the remote for its commit, and reads   *)
(* all three again before it answers.  The three live in three stores that *)
(* pacman, reviews and other invocations change at any time.               *)
(***************************************************************************)
EXTENDS DevelSourceBuild

CONSTANT Pkg           \* the package; its base may have other children

VARIABLES installed,   \* <<>> or the installed record, see InstalledRecord
          child,       \* the child's provenance unit: <<>> or <<[gen, valid, doc]>>
          legacy,      \* the unit of the whole base, kept for the first child
          x,           \* installation and publication, see NoInstall
          a            \* an assessment by any invocation, see NoAssessment

stores == <<installed, child, legacy>>
develVars == <<tree, fresh, moves, b, reviewed, e, upstream, installed, child, legacy, x, a>>

\* origin and recipe say what the record's files were really built from; the
\* program cannot see them.
InstalledRecord(gen, version, mtree, origin, recipe) ==
    [gen |-> gen, version |-> version, mtree |-> mtree, origin |-> origin, recipe |-> recipe]

NoInstall == [stage |-> "idle", baseline |-> <<>>, anchor |-> <<>>, op |-> "not attempted",
              bound |-> <<>>, read |-> <<>>, legacy |-> FALSE, publication |-> "not attempted"]

NoAssessment ==
    [stage |-> "idle", trial |-> FALSE, prov |-> <<>>, inst |-> <<>>, rev |-> <<>>, remote |-> 0,
     after |-> <<>>, instAfter |-> <<>>, result |-> "none",
     truth |-> [origin |-> 0, recipe |-> 0, reviewed |-> 0, gen |-> 0, known |-> FALSE]]

(***************************************************************************)
(* The provenance units                                                    *)
(***************************************************************************)
\* The child's own unit; without one the base's, unless it is known to be
\* another child's.  An empty base's unit is the first child's slot.
LegacyIsTheirs == legacy # <<>> /\ legacy[1].valid /\ legacy[1].doc.name # Pkg
RoutesToLegacy == child = <<>> /\ ~LegacyIsTheirs

lookup_child == IF RoutesToLegacy THEN legacy ELSE child

Loaded(read) == read # <<>> /\ read[1].valid

(***************************************************************************)
(* Installation of the archive                                             *)
(***************************************************************************)
InstallStep(from) == x.stage = from /\ UNCHANGED <<e, reviewed, upstream, child, legacy, a>>

\* Any early return: whatever is left of the build is cleaned up.
StopInstall ==
    /\ x' = [x EXCEPT !.stage = "over"] /\ EndBuild(TRUE)
    /\ UNCHANGED installed /\ Untouched

Going(next) == x' = next /\ UNCHANGED <<b, installed>> /\ Untouched

\* One archive per package; several packages only on the pinned route.
ArtifactCorrelation ==
    LET children == e.analysis[1].children IN
    /\ e.stage = "built" /\ InstallStep("idle")
    /\ IF Pkg \in children /\ (e.pinned \/ Cardinality(children) = 1)
       THEN Going([x EXCEPT !.stage = "correlated"]) ELSE StopInstall

\* An automatic update must be newer than what is installed by now.
AutomaticVersionHolds(automatic) ==
    automatic => installed # <<>> /\ e.version > installed[1].version

\* supported: a database world as configured, and an install reason that
\* needs no flag.
InstallPolicy(automatic, supported) ==
    /\ InstallStep("correlated")
    /\ IF AutomaticVersionHolds(automatic) /\ supported
       THEN Going([x EXCEPT !.stage = "permitted"]) ELSE StopInstall

\* The archive is still the hashed one under its name; its bytes are sealed.
SnapshotHolds ==
    /\ Exists(ArchivePath) /\ tree[ArchivePath].id = e.archive[1].id
    /\ tree[ArchivePath].stamp = e.archive[1].stamp /\ tree[ArchivePath].data = e.digest

SealArchive ==
    /\ InstallStep("permitted")
    /\ Going([x EXCEPT !.stage = IF SnapshotHolds THEN "snapshot" ELSE "finalize"])

\* The helper's transaction, as TrustedInstallTransport has it: whatever it
\* reports, it may have installed the sealed bytes.
execute_exact(outcome, effect) ==
    LET new == InstalledRecord(fresh, VersionIn(e.digest), e.digest, e.builtFrom, b.recipe) IN
    /\ InstallStep("snapshot")
    /\ outcome = "succeeded" => effect
    /\ installed' = IF effect THEN <<new>> ELSE installed
    /\ x' = [x EXCEPT !.op = outcome, !.baseline = installed,
                      !.anchor = IF outcome = "succeeded" THEN <<new>> ELSE <<>>,
                      !.stage = IF outcome = "succeeded" THEN "transacted" ELSE "finalize"]
    /\ fresh' = fresh + 1 /\ UNCHANGED <<b, tree, moves>>

\* The record as it is now must be the one the receipt anchored.
require_semantic_identity(n) == n.version = e.version
BindingHolds ==
    /\ installed # <<>> /\ require_semantic_identity(installed[1])
    /\ installed[1].gen = x.anchor[1].gen /\ installed[1].mtree = x.anchor[1].mtree
    /\ x.anchor[1].mtree = e.digest
    /\ x.baseline # <<>> => x.baseline[1].gen # x.anchor[1].gen

InstalledArtifactBindingObserver ==
    /\ InstallStep("transacted")
    /\ Going([x EXCEPT !.stage = "finalize", !.bound = IF BindingHolds THEN installed ELSE <<>>])

\* finalize and the start of publish: only a complete proof is published.
finalize ==
    /\ InstallStep("finalize")
    /\ IF x.op = "succeeded" /\ x.bound # <<>>
       THEN Going([x EXCEPT !.stage = "proved"]) ELSE StopInstall

(***************************************************************************)
(* Publication                                                             *)
(***************************************************************************)
make_devel_build_provenance ==
    [name |-> Pkg, recipe |-> b.recipe, revgen |-> b.gen, revision |-> e.proof,
     instgen |-> x.bound[1].gen, mtree |-> x.bound[1].mtree, version |-> x.bound[1].version]

PredecessorRead ==
    /\ InstallStep("proved")
    /\ IF lookup_child # <<>> /\ ~Loaded(lookup_child)
       THEN StopInstall
       ELSE Going([x EXCEPT !.stage = "read", !.read = lookup_child])

\* publish_child_devel_build_provenance looks the unit up again ...
RoutePublication ==
    /\ InstallStep("read")
    /\ Going([x EXCEPT !.stage = "routed", !.legacy = RoutesToLegacy])

\* ... and replaces in that unit exactly what was read.
publish_provenance ==
    LET unit == IF x.legacy THEN legacy ELSE child
        next == <<[gen |-> IF unit = <<>> THEN 1 ELSE unit[1].gen + 1, valid |-> TRUE,
                   doc |-> make_devel_build_provenance]>>
    IN /\ x.stage = "routed"
       /\ unit # <<>> => Loaded(unit) /\ unit[1].doc.name = Pkg
       /\ unit = x.read
       /\ IF x.legacy THEN legacy' = next /\ UNCHANGED child ELSE child' = next /\ UNCHANGED legacy
       /\ x' = [x EXCEPT !.stage = "over", !.publication = "complete"]
       /\ EndBuild(TRUE)
       /\ UNCHANGED <<e, reviewed, upstream, installed, a>> /\ Untouched

\* The swap may fail, or its outcome stay unknown with or without effect.
PublicationFails(effect) ==
    LET unit == IF x.legacy THEN legacy ELSE child
        next == <<[gen |-> IF unit = <<>> THEN 1 ELSE unit[1].gen + 1, valid |-> TRUE,
                   doc |-> make_devel_build_provenance]>>
    IN /\ x.stage = "routed"
       /\ effect => unit = x.read
       /\ legacy' = IF effect /\ x.legacy THEN next ELSE legacy
       /\ child' = IF effect /\ ~x.legacy THEN next ELSE child
       /\ x' = [x EXCEPT !.stage = "over", !.publication = IF effect THEN "unknown" ELSE "failed"]
       /\ EndBuild(TRUE)
       /\ UNCHANGED <<e, reviewed, upstream, installed, a>> /\ Untouched

InstallAndPublish ==
    \/ ArtifactCorrelation
    \/ \E automatic, supported \in BOOLEAN : InstallPolicy(automatic, supported)
    \/ SealArchive
    \/ \E outcome \in {"succeeded", "failed", "unknown", "not attempted"}, effect \in BOOLEAN :
         /\ effect => outcome \notin {"not attempted", "failed"}
         /\ execute_exact(outcome, effect)
    \/ InstalledArtifactBindingObserver \/ finalize
    \/ PredecessorRead \/ RoutePublication \/ publish_provenance
    \/ \E effect \in BOOLEAN : PublicationFails(effect)

(***************************************************************************)
(* The remote's answer to git ls-remote.  A record names a ref and is an   *)
(* object id or a symbolic ref; "bad" stands for a line of no such form.   *)
(***************************************************************************)
OidRecords(records, ref) ==
    {i \in DOMAIN records : records[i].form = "oid" /\ records[i].ref = ref}

ObservedRef(selector) == IF selector = "default" THEN "HEAD" ELSE "branch"

\* A branch is answered by its one record, HEAD by one or by a symbolic ref
\* to a branch and then the record.
parse_git_remote_revision_observation(selector, exit, records) ==
    LET n == Len(records)
        ref == ObservedRef(selector)
        oids == {i \in DOMAIN records : records[i].form = "oid"}
        paired == /\ selector = "default" /\ n = 2 /\ records[1].form = "symref"
                  /\ records[1].ref = "HEAD" /\ OidRecords(records, "HEAD") = {2}
    IN CASE exit = 2 -> IF records = <<>> THEN "not found" ELSE "malformed"
         [] exit \notin {0, 2} -> "failed"
         [] exit = 0 /\ (records = <<>> \/ \E i \in DOMAIN records : records[i].form = "bad")
              -> "malformed"
         [] OTHER -> IF (n = 1 /\ OidRecords(records, ref) = {1}) \/ paired THEN "observed"
                     ELSE IF \/ Cardinality(OidRecords(records, ref)) > 1
                             \/ Cardinality(OidRecords(records, ref)) = 1 /\ Cardinality(oids) > 1
                          THEN "ambiguous" ELSE "malformed"

\* What git may print: the ref asked for is answered with the commit it has.
RemoteRecords ==
    [form : {"oid", "symref"}, ref : {"HEAD", "branch"}] \cup {[form |-> "bad", ref |-> "HEAD"]}
RemoteAnswers == {<<>>} \cup {<<r>> : r \in RemoteRecords}
                   \cup {<<r, s>> : r \in RemoteRecords, s \in RemoteRecords}

RemoteKinds ==
    {parse_git_remote_revision_observation(selector, exit, records) :
        selector \in {"default", "branch"}, exit \in {0, 1, 2}, records \in RemoteAnswers}

(***************************************************************************)
(* The assessment                                                          *)
(***************************************************************************)
AssessStep(from) == a.stage = from /\ UNCHANGED <<b, e, reviewed, upstream, x>>
                                   /\ UNCHANGED stores /\ Untouched

Answer(result) == a' = [a EXCEPT !.stage = "done", !.result = result]

compare_installed_artifact_binding(doc, n) ==
    n.gen = doc.instgen /\ n.mtree = doc.mtree /\ n.version = doc.version

installed_matches(doc, observed) ==
    observed # <<>> /\ compare_installed_artifact_binding(doc, observed[1])

compare_reviewed_source_state_record_binding(doc, read) ==
    read.recipe = doc.recipe /\ read.gen = doc.revgen

\* No record, an unreadable one and any other one need a check by the user.
reviewed_matches(doc, read) == compare_reviewed_source_state_record_binding(doc, read)

\* devel: the name or a sibling's says that the package follows upstream.
ReadProvenance(devel) ==
    /\ AssessStep("idle")
    /\ IF Loaded(lookup_child)
       THEN a' = [a EXCEPT !.stage = "provenance", !.prov = lookup_child]
       ELSE Answer(IF lookup_child = <<>> /\ ~devel THEN "not applicable" ELSE "requires check")

ReadInstalled ==
    /\ ~a.trial /\ AssessStep("provenance")
    /\ IF installed_matches(a.prov[1].doc, installed)
       THEN a' = [a EXCEPT !.stage = "installed", !.inst = installed]
       ELSE Answer("requires check")

ReadReviewed ==
    /\ ~a.trial /\ AssessStep("installed")
    /\ IF reviewed_matches(a.prov[1].doc, reviewed)
       THEN a' = [a EXCEPT !.stage = "reviewed", !.rev = <<reviewed>>]
       ELSE Answer("requires check")

\* What is true while the remote answers.
Truth ==
    [origin |-> IF installed = <<>> THEN 0 ELSE installed[1].origin,
     recipe |-> IF installed = <<>> THEN 0 ELSE installed[1].recipe,
     reviewed |-> reviewed.recipe, gen |-> IF installed = <<>> THEN 0 ELSE installed[1].gen,
     known |-> lookup_child # <<>>]

observe_git_remote_revision(kind) ==
    /\ ~a.trial /\ AssessStep("reviewed")
    /\ IF kind = "observed"
       THEN a' = [a EXCEPT !.stage = "remote", !.remote = upstream, !.truth = Truth]
       ELSE Answer("unknown")

PostProvenance ==
    /\ AssessStep("remote")
    /\ a' = [a EXCEPT !.stage = "post provenance", !.after = lookup_child]

PostInstalled ==
    /\ AssessStep("post provenance")
    /\ a' = [a EXCEPT !.stage = "post installed", !.instAfter = installed]

\* Mutant: the installed record is not looked at again.
Mutant_PostChecks(doc) ==
    a.after = a.prov /\ reviewed_matches(doc, reviewed)

\* The provenance is the very record read before, and both others match it.
PostChecks(doc) ==
    /\ a.after = a.prov
    /\ installed_matches(doc, a.instAfter)
    /\ reviewed_matches(doc, reviewed)

PostReviewed ==
    /\ ~a.trial /\ AssessStep("post installed")
    /\ LET doc == a.prov[1].doc IN
       IF ~PostChecks(doc) THEN Answer("requires check")
       ELSE Answer(IF doc.revision = a.remote THEN "up to date" ELSE "update available")

(***************************************************************************)
(* observe_devel_tracking_bootstrap: a package without provenance is shown *)
(* to be worth a first tracked build, every reading made twice.            *)
(***************************************************************************)
BeginBootstrap ==
    /\ AssessStep("idle")
    /\ IF lookup_child = <<>> THEN a' = [a EXCEPT !.stage = "provenance", !.trial = TRUE]
                              ELSE Answer("unavailable")

BootstrapLocalState ==
    /\ a.trial /\ AssessStep("provenance")
    /\ IF installed # <<>>
       THEN a' = [a EXCEPT !.stage = "reviewed", !.inst = installed, !.rev = <<reviewed>>]
       ELSE Answer("unavailable")

bootstrap_source_unavailable_reason(info) ==
    \/ info.sources = <<>> \/ Pkg \notin info.children
    \/ ~(ToSet(info.sources) \subseteq {"git", "local"})
    \/ Cardinality({i \in DOMAIN info.sources : info.sources[i] = "git"}) # 1

\* The recipe is the one the AUR has at that moment.
observe_recipe(recipe, answered) ==
    /\ a.trial /\ AssessStep("reviewed")
    /\ IF answered /\ ~bootstrap_source_unavailable_reason(Metadata[Snapshots[recipe][SRCINFO].data])
       THEN a' = [a EXCEPT !.stage = "remote", !.truth = Truth]
       ELSE Answer("unavailable")

BootstrapPostChecks ==
    /\ a.trial /\ AssessStep("post installed")
    /\ Answer(IF a.after = <<>> /\ a.instAfter = a.inst /\ <<reviewed>> = a.rev
              THEN "trial" ELSE "unavailable")

Assessment ==
    \/ \E devel \in BOOLEAN : ReadProvenance(devel)
    \/ ReadInstalled \/ ReadReviewed
    \/ \E kind \in RemoteKinds : observe_git_remote_revision(kind)
    \/ PostProvenance \/ PostInstalled \/ PostReviewed
    \/ BeginBootstrap \/ BootstrapLocalState
    \/ \E recipe \in {r \in DOMAIN Snapshots : UsableSnapshot(Snapshots[r])}, answered \in BOOLEAN :
         observe_recipe(recipe, answered)
    \/ BootstrapPostChecks

(***************************************************************************)
(* Other programs and other invocations                                    *)
(***************************************************************************)
Elsewhere == UNCHANGED <<b, e, x, a, tree, upstream>> /\ moves < MaxForeign
               /\ moves' = moves + 1 /\ fresh' = fresh + 1

\* Another transaction removes the package, installs it again, or installs
\* one of the same version built elsewhere from some commit.
OtherInstall ==
    /\ Elsewhere /\ UNCHANGED <<reviewed, child, legacy>>
    /\ \/ installed # <<>> /\ installed' = <<>>
       \/ installed # <<>> /\ installed' = <<[installed[1] EXCEPT !.gen = fresh]>>
       \/ \E origin \in 1..MaxCommit :
            installed' = <<InstalledRecord(fresh, 1, fresh, origin, 1)>>

\* Another review accepts another recipe, or the same one again.
ReviewAdvances ==
    /\ Elsewhere /\ UNCHANGED stores
    /\ \E recipe \in DOMAIN Snapshots : reviewed' = [gen |-> fresh, recipe |-> recipe]

\* A sibling takes the free slot of the base, or a record of this child is
\* damaged.
OtherPublication ==
    /\ Elsewhere /\ UNCHANGED <<installed, reviewed>>
    /\ \/ /\ legacy = <<>> /\ UNCHANGED child
          /\ legacy' = <<[gen |-> 1, valid |-> TRUE,
                          doc |-> [name |-> "sibling", recipe |-> 1, revgen |-> 1, revision |-> 1,
                                   instgen |-> 0, mtree |-> 0, version |-> 0]]>>
       \/ /\ legacy # <<>> /\ legacy[1].valid /\ UNCHANGED child
          /\ legacy' = <<[legacy[1] EXCEPT !.valid = FALSE]>>

DevelForeign == OtherInstall \/ ReviewAdvances \/ OtherPublication

(***************************************************************************)
(* What an assessment claims was so at the moment the remote answered: the *)
(* installed package was built from a known commit of the recipe reviewed  *)
(* then, and that commit is or is not the remote's.  A trial is offered    *)
(* only for an installed package that had no provenance at that moment.    *)
(***************************************************************************)
AssessmentIsTruthful ==
    /\ a.result \in {"up to date", "update available"} =>
         /\ a.truth.origin # 0 /\ a.truth.known
         /\ a.result = "up to date" <=> a.truth.origin = a.remote
         /\ a.truth.recipe = a.truth.reviewed
    /\ a.result = "trial" => ~a.truth.known /\ a.truth.gen = a.inst[1].gen
=============================================================================
