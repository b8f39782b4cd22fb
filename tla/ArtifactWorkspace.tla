------------------------- MODULE ArtifactWorkspace -------------------------
(***************************************************************************)
(* artifact_workspace.cpp, the drivers separated_*_source_build.cpp and    *)
(* the two install executors: makepkg writes its packages into a private   *)
(* directory, what it wrote is validated, its identity read, and exactly   *)
(* the requested packages go to the installer; then the directory goes.    *)
(* Other processes of the user may rewrite, replace, add and remove files  *)
(* between any two steps, and install packages.                            *)
(*                                                                         *)
(* A package base is installed as sealed bytes.  The single form, for a    *)
(* package named like its base, hands pacman the path: see the README.     *)
(***************************************************************************)
EXTENDS DirectoryTree

CONSTANTS ArtifactRoot,   \* path of the private root of workspaces
          WorkLeaf,       \* the name mkdtemp chooses
          Leaves,         \* names makepkg may announce
          Archives,       \* content -> [name, version] of readable archives
          Rewrites        \* contents other processes may write

ASSUME ArtifactAssumption == Leaves \subseteq Seq(Nat)

VARIABLES w,              \* the build unit, see Unit
          rootId,         \* retained identity of the root
          db              \* name -> <<>> or <<[version, reason]>>

artifactVars == <<w, rootId, db>>

\* wanted: what the plan asks for; version 0 is any, and rpc # 0 marks an
\* automatic update that saw that AUR version while had was installed.
Unit(single, wanted) ==
    [stage |-> "start", single |-> single, wanted |-> wanted, made |-> <<>>,
     expected |-> <<>>, records |-> <<>>, identities |-> <<>>, chosen |-> <<>>,
     states |-> <<>>, directive |-> "none", input |-> <<>>, given |-> <<>>,
     plan |-> <<>>, retained |-> FALSE, build |-> "NotAttempted",
     install |-> "NotAttempted", cleaned |-> "no"]

WorkDir == Append(ArtifactRoot, WorkLeaf)
ArtifactAt(leaf) == Append(WorkDir, leaf)
SignatureLeaf(leaf) == leaf + 4

Advance(next) == w' = next /\ UNCHANGED <<rootId, db>>

(***************************************************************************)
(* The workspace                                                           *)
(***************************************************************************)
SameObject(a, b) == a.ino = b.ino /\ a.kind = b.kind

root_unchanged ==
    Exists(ArtifactRoot) /\ SameObject(rootId, tree[ArtifactRoot])
      /\ tree[ArtifactRoot].own /\ tree[ArtifactRoot].mode = "private"

\* The retained descriptor and the name are the same private directory.
require_unchanged_identity ==
    /\ root_unchanged /\ Exists(WorkDir) /\ SameObject(w.made[1], tree[WorkDir])
    /\ tree[WorkDir].own /\ tree[WorkDir].mode = "private"

create_artifact_workspace ==
    /\ w.stage = "start" /\ root_unchanged /\ ~Exists(WorkDir)
    /\ LET new == Made("dir", "private", 0) IN
       /\ tree' = AddEntry(tree, WorkDir, new)
       /\ Advance([w EXCEPT !.stage = "made", !.made = <<new>>])
    /\ fresh' = fresh + 1 /\ UNCHANGED moves

\* The directory just made is opened and compared; if it is another one, the
\* rollback removes the name only while it still shows the created status.
open_artifact_workspace ==
    /\ w.stage = "made" /\ require_unchanged_identity
    /\ Advance([w EXCEPT !.stage = "created"]) /\ Untouched

CreatedWorkspaceRollback ==
    /\ w.stage = "made" /\ ~require_unchanged_identity
    /\ LET mine == /\ root_unchanged /\ Exists(WorkDir) /\ NamesOf(tree, WorkDir) = {}
                   /\ SameObject(w.made[1], tree[WorkDir])
                   /\ tree[WorkDir].own /\ tree[WorkDir].mode = w.made[1].mode
       IN /\ tree' = IF mine THEN DropEntry(tree, WorkDir) ELSE tree
          /\ fresh' = IF mine THEN fresh + 1 ELSE fresh
    /\ Advance([w EXCEPT !.stage = "failed"]) /\ UNCHANGED moves

CreateFails ==
    /\ w.stage = "start" /\ ~(root_unchanged /\ ~Exists(WorkDir))
    /\ Advance([w EXCEPT !.stage = "failed"]) /\ Untouched

(***************************************************************************)
(* What makepkg announces, and the build                                   *)
(***************************************************************************)
\* A path that is not that of an entry of the workspace is written 0.
require_direct_expected_path(leaf) == leaf # 0

\* One path a line, each once.
parse_packagelist_records(leaves) == IsInjective(leaves)

Unused(leaf) == ~Exists(ArtifactAt(leaf)) /\ ~Exists(ArtifactAt(SignatureLeaf(leaf)))

\* A set of packages: not empty, distinct, directly in the workspace, no
\* package with the name of another's signature, and nothing there yet.
validate_makepkg_packagelist_output_set(leaves) ==
    /\ parse_packagelist_records(leaves) /\ leaves # <<>>
    /\ \A i \in DOMAIN leaves : require_direct_expected_path(leaves[i])
    /\ {SignatureLeaf(leaves[i]) : i \in DOMAIN leaves} \cap ToSet(leaves) = {}
    /\ \A i \in DOMAIN leaves : Unused(leaves[i])

validate_makepkg_packagelist_output(leaves) ==
    /\ parse_packagelist_records(leaves) /\ Len(leaves) = 1
    /\ require_direct_expected_path(leaves[1]) /\ Unused(leaves[1])

\* The command runs in the retained checkout, between two looks at the
\* workspace.
capture_makepkg_output == w.stage = "created" /\ require_unchanged_identity

Announced(leaves) == [w EXCEPT !.stage = "listed", !.expected = leaves, !.build = "Started"]

query_makepkg_packagelist(leaves) ==
    /\ capture_makepkg_output /\ w.single /\ validate_makepkg_packagelist_output(leaves)
    /\ Advance(Announced(leaves)) /\ Untouched

query_makepkg_packagelist_set(leaves) ==
    /\ capture_makepkg_output /\ ~w.single /\ validate_makepkg_packagelist_output_set(leaves)
    /\ Advance(Announced(leaves)) /\ Untouched

\* makepkg: one new file per announced package, signed or not.
BuildResults(contents, signed) ==
    LET put[i \in 0..Len(w.expected)] ==
          IF i = 0 THEN tree
          ELSE LET leaf == w.expected[i]
                   one == Put(put[i - 1], ArtifactAt(leaf),
                              [Made("file", "plain", contents[i]) EXCEPT !.id = fresh + i,
                                                                         !.ino = fresh + i])
               IN IF signed THEN Put(one, ArtifactAt(SignatureLeaf(leaf)),
                                     [Made("file", "plain", contents[i]) EXCEPT
                                         !.id = fresh + 4 + i, !.ino = fresh + 4 + i])
                  ELSE one
    IN put[Len(w.expected)]

\* The checkout is bracketed by the reviewed source build, modelled there.
run_makepkg_build_only(contents, signed) ==
    /\ w.stage = "listed" /\ require_unchanged_identity
    /\ tree' = BuildResults(contents, signed) /\ fresh' = fresh + 9 /\ UNCHANGED moves
    /\ Advance([w EXCEPT !.stage = "built", !.retained = TRUE])

BuildFails ==
    /\ w.stage \in {"created", "listed"}
    /\ Advance([w EXCEPT !.stage = IF w.single /\ w.stage = "created" THEN "drop" ELSE "failed",
                         !.retained = ~(w.single /\ w.stage = "created"),
                         !.build = IF w.stage = "listed" THEN "Failed" ELSE @])
    /\ Untouched

(***************************************************************************)
(* Validation of what was built                                            *)
(***************************************************************************)
require_regular_owned_entry(n) == n.kind = "file" /\ n.own

OptionalAt(p) == IF Exists(p) THEN <<tree[p]>> ELSE <<>>

inspect_expected_artifact(leaf) ==
    LET signature == OptionalAt(ArtifactAt(SignatureLeaf(leaf))) IN
    /\ Exists(ArtifactAt(leaf)) /\ require_regular_owned_entry(tree[ArtifactAt(leaf)])
    /\ \A i \in DOMAIN signature : require_regular_owned_entry(signature[i])

require_only_expected_workspace_entries_for_set(leaves) ==
    NamesOf(tree, WorkDir) \subseteq
       UNION {{leaves[i], SignatureLeaf(leaves[i])} : i \in DOMAIN leaves}

inspect_post_build_artifact_set(leaves) ==
    /\ \A i \in DOMAIN leaves : inspect_expected_artifact(leaves[i])
    /\ require_only_expected_workspace_entries_for_set(leaves)

require_only_expected_workspace_entries(leaf) ==
    NamesOf(tree, WorkDir) \subseteq {leaf, SignatureLeaf(leaf)}

inspect_post_build_artifact(leaf) ==
    LET signature == OptionalAt(ArtifactAt(SignatureLeaf(leaf))) IN
    /\ Exists(ArtifactAt(leaf)) /\ require_regular_owned_entry(tree[ArtifactAt(leaf)])
    /\ signature # <<>> => require_regular_owned_entry(signature[1])
    /\ require_only_expected_workspace_entries(leaf)

\* The announced set still is one of this workspace.
require_matching_workspace ==
    /\ require_unchanged_identity /\ w.expected # <<>> /\ IsInjective(w.expected)
    /\ {SignatureLeaf(w.expected[i]) : i \in DOMAIN w.expected} \cap ToSet(w.expected) = {}

MayValidate ==
    IF w.single THEN require_unchanged_identity /\ inspect_post_build_artifact(w.expected[1])
    ELSE require_matching_workspace /\ inspect_post_build_artifact_set(w.expected)

\* A record keeps descriptors, so its inode numbers are not used again; the
\* single form keeps none of the signature.
Record(leaf, signature) ==
    [leaf |-> leaf, art |-> tree[ArtifactAt(leaf)], sig |-> signature, sealed |-> <<>>]

Validated(records) ==
    [w EXCEPT !.stage = "validated", !.build = "Succeeded", !.install = "Started",
              !.records = records]

validate_for_owners ==
    /\ w.stage = "built" /\ ~w.single /\ MayValidate
    /\ Advance(Validated([i \in DOMAIN w.expected |->
           Record(w.expected[i], OptionalAt(ArtifactAt(SignatureLeaf(w.expected[i]))))]))
    /\ Untouched

validate_single_for_owners ==
    /\ w.stage = "built" /\ w.single /\ MayValidate
    /\ Advance(Validated(<<Record(w.expected[1], <<>>)>>)) /\ Untouched

ValidationRefused ==
    /\ w.stage = "built" /\ ~MayValidate
    /\ Advance([w EXCEPT !.stage = "failed", !.build = "Succeeded"]) /\ Untouched

require_named_entry_unchanged(node, p) ==
    Exists(p) /\ require_regular_owned_entry(tree[p]) /\ SameObject(node, tree[p])

\* Names still show the retained objects, a signature is there exactly when
\* it was, and nothing else is.
RecordHolds(r) ==
    LET signature == ArtifactAt(SignatureLeaf(r.leaf)) IN
    /\ require_named_entry_unchanged(r.art, ArtifactAt(r.leaf))
    /\ Len(OptionalAt(signature)) = Len(r.sig)
    /\ \A i \in DOMAIN r.sig : require_named_entry_unchanged(r.sig[i], signature)

\* The single form looks at the signature afresh each time.
require_single_validity ==
    /\ w.records # <<>> /\ MayValidate
    /\ SameObject(w.records[1].art, tree[ArtifactAt(w.records[1].leaf)])

require_set_validity ==
    /\ w.records # <<>> /\ MayValidate
    /\ \A i \in DOMAIN w.records : RecordHolds(w.records[i])

require_validity == IF w.single THEN require_single_validity ELSE require_set_validity

\* What a retained descriptor reads now.
BytesOf(node, p) == IF Exists(p) /\ tree[p].id = node.id THEN tree[p].data ELSE node.data

CurrentBytes(r) ==
    [archive |-> BytesOf(r.art, ArtifactAt(r.leaf)),
     signature |-> IF r.sig = <<>> THEN 0
                   ELSE BytesOf(r.sig[1], ArtifactAt(SignatureLeaf(r.leaf)))]

(***************************************************************************)
(* Preparation of a package base                                           *)
(***************************************************************************)
Refuse(stages, holds) ==
    /\ w.stage \in stages /\ ~holds
    /\ Advance([w EXCEPT !.stage = "failed", !.install = "Failed"]) /\ Untouched

\* Copies into sealed memory, then a comparison of copies and files.
bind_install_content ==
    /\ w.stage = "validated" /\ ~w.single /\ require_validity
    /\ Advance([w EXCEPT !.stage = "sealed",
                         !.records = [i \in DOMAIN w.records |->
                             [w.records[i] EXCEPT !.sealed = <<CurrentBytes(w.records[i])>>]]])
    /\ Untouched

require_same_install_content(r) == r.sealed = <<CurrentBytes(r)>>

require_install_content ==
    /\ require_validity
    /\ \A i \in DOMAIN w.records : require_same_install_content(w.records[i])

content_bound ==
    /\ w.stage = "sealed" /\ require_install_content
    /\ Advance([w EXCEPT !.stage = "bound"]) /\ Untouched

\* Mutant: the identity is read from the file in the workspace.
Mutant_metadata_path_at(i) == CurrentBytes(w.records[i]).archive

\* The archive an identity is read from: the sealed copy once there is one.
metadata_path_at(i) ==
    LET r == w.records[i] IN
    IF r.sealed # <<>> THEN r.sealed[1].archive ELSE CurrentBytes(r).archive

query_with_libalpm(content) ==
    IF content \in DOMAIN Archives THEN <<Archives[content]>> ELSE <<>>

MayIdentify == require_validity /\ query_with_libalpm(metadata_path_at(Len(w.identities) + 1)) # <<>>

query_artifact_package_identities ==
    /\ w.stage = IF w.single THEN "validated" ELSE "bound"
    /\ Len(w.identities) < Len(w.records) /\ MayIdentify
    /\ Advance([w EXCEPT !.identities =
                    @ \o query_with_libalpm(metadata_path_at(Len(@) + 1))])
    /\ Untouched

\* One produced package for every requested name; the others stay behind.
Producing(name) == {i \in DOMAIN w.identities : w.identities[i].name = name}

select_package_base_artifacts ==
    /\ \A i, j \in DOMAIN w.identities : w.identities[i].name = w.identities[j].name => i = j
    /\ \A i, j \in DOMAIN w.wanted : w.wanted[i].name = w.wanted[j].name => i = j
    /\ \A i \in DOMAIN w.wanted : Producing(w.wanted[i].name) # {}

validate_single_output_artifact ==
    Len(w.identities) = 1 /\ w.identities[1].name = w.wanted[1].name

correlate_package_base_artifact_identities ==
    [i \in DOMAIN w.wanted |-> CHOOSE k \in DOMAIN w.identities :
        w.identities[k].name = w.wanted[i].name]

Selectable ==
    /\ IF w.single THEN validate_single_output_artifact ELSE select_package_base_artifacts
    /\ ~w.single => \A i \in DOMAIN w.wanted :
          w.wanted[i].version # 0 =>
             w.identities[correlate_package_base_artifact_identities[i]].version = w.wanted[i].version

map_installed_artifact_policy_state(id) ==
    IF db[id.name] = <<>> THEN [version |-> "NotInstalled", reason |-> "none"]
    ELSE [version |-> IF db[id.name][1].version = id.version THEN "SameVersion" ELSE "DifferentVersion",
          reason |-> db[id.name][1].reason]

\* An automatic update goes on only from the version the plan saw, to a
\* newer one that is no older than what the AUR announced.
validate_automatic_aur_version_install(want, id) ==
    want.rpc # 0 =>
       /\ db[id.name] # <<>> /\ db[id.name][1].version = want.had
       /\ id.version > db[id.name][1].version /\ id.version >= want.rpc

resolve_install_reason_directive(want, s) ==
    CASE want.reason = "explicit" /\ s.reason = "dependency" -> "asexplicit"
      [] want.reason = "dependency" /\ s.version = "NotInstalled" -> "asdeps"
      [] OTHER -> "default"

FinalReason(directive, s) ==
    CASE directive = "asexplicit" -> "explicit"
      [] directive = "asdeps" -> "dependency"
      [] OTHER -> IF s.version = "NotInstalled" THEN "explicit" ELSE s.reason

\* One pacman transaction takes one directive.
reduce_transaction_directive(directives, finals) ==
    CASE \A i \in DOMAIN directives : directives[i] = "default" -> "default"
      [] \A i \in DOMAIN finals : finals[i] = "explicit" -> "asexplicit"
      [] \A i \in DOMAIN finals : finals[i] = "dependency" -> "asdeps"
      [] OTHER -> "mixed"

PlanInstall ==
    LET chosen == correlate_package_base_artifact_identities
        states == [i \in DOMAIN chosen |->
                      map_installed_artifact_policy_state(w.identities[chosen[i]])]
        directives == [i \in DOMAIN chosen |->
                          resolve_install_reason_directive(w.wanted[i], states[i])]
    IN [chosen |-> chosen, states |-> states,
        directive |-> reduce_transaction_directive(directives,
                         [i \in DOMAIN chosen |-> FinalReason(directives[i], states[i])])]

Identified ==
    /\ w.stage = IF w.single THEN "validated" ELSE "bound"
    /\ Len(w.identities) = Len(w.records)

Preparable ==
    /\ Selectable
    /\ \A i \in DOMAIN w.wanted :
          w.single \/ validate_automatic_aur_version_install(w.wanted[i],
                         w.identities[correlate_package_base_artifact_identities[i]])
    /\ PlanInstall.directive # "mixed"

prepare_package_base_artifact_install ==
    /\ Identified /\ Preparable /\ (w.single \/ require_install_content)
    /\ Advance([w EXCEPT !.stage = "prepared", !.chosen = PlanInstall.chosen,
                         !.states = [i \in DOMAIN w.wanted |->
                                        db[w.identities[PlanInstall.chosen[i]].name]],
                         !.directive = PlanInstall.directive])
    /\ Untouched

PreparationFails ==
    \/ Refuse({"validated"}, w.single \/ require_validity)
    \/ Refuse({"sealed"}, require_install_content)
    \/ /\ Len(w.identities) < Len(w.records)
       /\ Refuse({IF w.single THEN "validated" ELSE "bound"}, MayIdentify)
    \/ Identified /\ Refuse({w.stage}, Preparable /\ (w.single \/ require_install_content))

(***************************************************************************)
(* Execution                                                               *)
(***************************************************************************)
\* The selection still describes the records, the plan is the plan again.
require_install_draft_coherence ==
    /\ require_validity /\ Len(w.identities) = Len(w.records)
    /\ \A i \in DOMAIN w.chosen : w.identities[w.chosen[i]].name = w.wanted[i].name

require_execution_coherence == require_install_content /\ require_install_draft_coherence

\* The sealed copies of the selected packages, one after the other.
create_install_input ==
    [i \in DOMAIN w.chosen |-> w.records[w.chosen[i]].sealed[1]]

legacy_install_command ==
    /\ w.stage = "prepared" /\ ~w.single /\ require_execution_coherence
    /\ Advance([w EXCEPT !.stage = "staged", !.input = create_install_input]) /\ Untouched

\* The state is Consumed before the helper runs: there is no second try.
execute_prepared_package_base_artifact_install(ok) ==
    /\ w.stage = "staged" /\ require_execution_coherence
    /\ w' = [w EXCEPT !.stage = IF ok THEN "installed" ELSE "failed", !.given = w.input,
                      !.install = IF ok THEN "Succeeded" ELSE "Failed"]
    /\ db' = IF ok THEN [n \in DOMAIN db |->
                 IF \E i \in DOMAIN w.chosen : w.identities[w.chosen[i]].name = n
                 THEN <<[version |-> w.identities[CHOOSE k \in ToSet(w.chosen) :
                                        w.identities[k].name = n].version,
                         reason |-> IF w.directive = "asdeps" THEN "dependency" ELSE "explicit"]>>
                 ELSE db[n]]
             ELSE db
    /\ UNCHANGED rootId /\ Untouched

\* The single form: pacman reads the path.
execute_prepared_artifact_install(ok) ==
    /\ w.stage = "prepared" /\ w.single /\ require_validity
    /\ Advance([w EXCEPT !.stage = IF ok THEN "installed" ELSE "failed",
                         !.install = IF ok THEN "Succeeded" ELSE "Failed"])
    /\ Untouched

ExecutionFails ==
    \/ Refuse({"prepared"}, IF w.single THEN require_validity ELSE require_execution_coherence)
    \/ Refuse({"staged"}, require_execution_coherence)

(***************************************************************************)
(* Cleanup: after an install, or by the destructor of an unused workspace. *)
(* Planned directories are held open, planned files are known by number.   *)
(***************************************************************************)
preflight_directory_contents_at ==
    [p \in Beneath(tree, WorkDir) \ {WorkDir} |-> tree[p]]

\* Directories are opened without crossing into another filesystem.
open_cleanup_child_directory(p) == tree[p].kind = "dir" => tree[p].here

MayPlanCleanup ==
    /\ w.stage = "installed" /\ ~w.single => require_validity
    /\ require_unchanged_identity
    /\ \A p \in Beneath(tree, WorkDir) : open_cleanup_child_directory(p)

cleanup_workspace ==
    /\ w.stage \in {"installed", "drop"} /\ MayPlanCleanup
    /\ Advance([w EXCEPT !.stage = "planned", !.plan = preflight_directory_contents_at,
                         !.records = <<>>, !.input = <<>>])
    /\ Untouched

require_cleanup_entry_unchanged(p) == Exists(p) /\ SameObject(w.plan[p], tree[p])

require_cleanup_plan_unchanged ==
    /\ require_unchanged_identity
    /\ Beneath(tree, WorkDir) \ {WorkDir} = DOMAIN w.plan
    /\ \A p \in DOMAIN w.plan : require_cleanup_entry_unchanged(p)

cleanup_plan_holds ==
    /\ w.stage = "planned" /\ require_cleanup_plan_unchanged
    /\ Advance([w EXCEPT !.stage = "removing"]) /\ Untouched

\* One entry, deepest first, with its ancestors up to the workspace.
require_cleanup_target_unchanged(p) ==
    /\ require_unchanged_identity
    /\ \A q \in DOMAIN w.plan : IsPrefix(q, p) => require_cleanup_entry_unchanged(q)
    /\ NamesOf(tree, p) = {}

NextTarget == CHOOSE p \in DOMAIN w.plan : \A q \in DOMAIN w.plan : Len(q) <= Len(p)

remove_preflighted_directory_contents ==
    /\ w.stage = "removing" /\ DOMAIN w.plan # {}
    /\ require_cleanup_target_unchanged(NextTarget)
    /\ tree' = DropEntry(tree, NextTarget) /\ fresh' = fresh + 1 /\ UNCHANGED moves
    /\ Advance([w EXCEPT !.plan = Without(@, NextTarget)])

remove_workspace_directory ==
    /\ w.stage = "removing" /\ DOMAIN w.plan = {}
    /\ require_unchanged_identity /\ NamesOf(tree, WorkDir) = {}
    /\ tree' = DropEntry(tree, WorkDir) /\ fresh' = fresh + 1 /\ UNCHANGED moves
    /\ Advance([w EXCEPT !.stage = "done", !.cleaned = "yes"])

ArtifactCleanupFails ==
    /\ \/ w.stage \in {"installed", "drop"} /\ ~MayPlanCleanup
       \/ w.stage = "planned" /\ ~require_cleanup_plan_unchanged
       \/ /\ w.stage = "removing"
          /\ ~IF DOMAIN w.plan # {} THEN require_cleanup_target_unchanged(NextTarget)
              ELSE require_unchanged_identity /\ NamesOf(tree, WorkDir) = {}
    /\ Advance([w EXCEPT !.stage = "done", !.cleaned = "failed"]) /\ Untouched

(***************************************************************************)
(* Everyone else                                                           *)
(***************************************************************************)
ArtifactPins ==
    {rootId.ino} \cup {w.made[i].ino : i \in DOMAIN w.made}
      \cup UNION {{w.records[i].art.ino} \cup {w.records[i].sig[k].ino : k \in DOMAIN w.records[i].sig}
                    : i \in DOMAIN w.records}

\* A file is rewritten in place, perhaps back to what it was.
RewriteArtifact(p, content) ==
    /\ moves < MaxForeign /\ Exists(p) /\ tree[p].kind = "file" /\ tree[p].data # content
    /\ tree' = Changed(tree, p, [tree[p] EXCEPT !.data = content])
    /\ moves' = moves + 1 /\ fresh' = fresh + 1 /\ UNCHANGED artifactVars

OtherTransaction(name, version) ==
    /\ moves < MaxForeign /\ db[name] # <<>> /\ db[name][1].version # version
    /\ db' = [db EXCEPT ![name] = <<[version |-> version, reason |-> @[1].reason]>>]
    /\ moves' = moves + 1 /\ UNCHANGED <<w, rootId, tree, fresh>>

ArtifactStep ==
    \/ create_artifact_workspace \/ open_artifact_workspace \/ CreatedWorkspaceRollback
    \/ CreateFails \/ BuildFails
    \/ \E leaves \in Leaves : \/ query_makepkg_packagelist(leaves)
                              \/ query_makepkg_packagelist_set(leaves)
    \/ w.stage = "listed" /\ \E contents \in [DOMAIN w.expected -> DOMAIN Archives], signed \in BOOLEAN :
          run_makepkg_build_only(contents, signed)
    \/ validate_for_owners \/ validate_single_for_owners \/ ValidationRefused \/ bind_install_content \/ content_bound
    \/ query_artifact_package_identities \/ prepare_package_base_artifact_install
    \/ PreparationFails \/ legacy_install_command
    \/ \E ok \in BOOLEAN : \/ execute_prepared_package_base_artifact_install(ok)
                           \/ execute_prepared_artifact_install(ok)
    \/ ExecutionFails \/ cleanup_workspace \/ cleanup_plan_holds
    \/ remove_preflighted_directory_contents \/ remove_workspace_directory
    \/ ArtifactCleanupFails

(***************************************************************************)
(* One build unit of any plan, in any tree and over any package database,  *)
(* next to everything else the user runs.                                  *)
(***************************************************************************)
Wants == [name : STRING, version : Nat, reason : {"explicit", "dependency"}, rpc : Nat, had : Nat]

InstalledStates == {<<>>} \cup {<<r>> : r \in [version : Nat, reason : {"explicit", "dependency"}]}

UnitInit ==
    /\ TreeOK /\ moves = 0 /\ rootId \in Nodes
    /\ \E single \in BOOLEAN, wanted \in Seq(Wants) : w = Unit(single, wanted)
    /\ \E names \in SUBSET STRING : db \in [names -> InstalledStates]

UnitForeign ==
    \/ Foreign(DOMAIN tree, ArtifactPins) /\ UNCHANGED artifactVars
    \/ \E p \in DOMAIN tree, c \in Rewrites : RewriteArtifact(p, c)
    \/ \E name \in DOMAIN db, version \in Nat : OtherTransaction(name, version)

UnitNext == ArtifactStep \/ UnitForeign

UnitSpec == UnitInit /\ [][UnitNext]_<<tree, fresh, moves, artifactVars>>

(***************************************************************************)
(* Property                                                                *)
(***************************************************************************)
\* Whatever other processes write into the workspace after its validation,
\* the bytes the helper is given are one archive for each requested package,
\* each of the very bytes whose identity was read and selected; an expected
\* version is that version, and an automatic update is newer than what
\* preparation found installed and not older than what the AUR announced.
InstalledIsInspected ==
    w.given # <<>> =>
       /\ Len(w.given) = Len(w.wanted)
       /\ \A i \in DOMAIN w.wanted :
             /\ w.given[i].archive \in DOMAIN Archives
             /\ LET is == Archives[w.given[i].archive]
                    want == w.wanted[i]
                IN /\ is.name = want.name /\ is = w.identities[w.chosen[i]]
                   /\ want.version \in {0, is.version}
                   /\ want.rpc # 0 => /\ is.version > w.states[i][1].version
                                      /\ is.version >= want.rpc
=============================================================================
