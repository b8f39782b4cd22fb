-------------------------- MODULE DevelSourceBuild --------------------------
(***************************************************************************)
(* evaluated_devel_source_build.cpp and pinned_submodule_*.cpp: a package  *)
(* that follows a moving upstream is built in the private build root, and  *)
(* the commit it was really built from is proved: mirror and workspace     *)
(* name one commit before the build and the same one after it.  A source   *)
(* with submodules takes the pinned route: the commits of all repositories *)
(* are acquired first, shown to the user, and materialised as reviewed.    *)
(*                                                                         *)
(* A commit is a number that grows as upstream moves.  The data of a       *)
(* repository directory is the commit it names, the data of a package      *)
(* archive is Archived(commit, version).                                   *)
(***************************************************************************)
EXTENDS DevelBuildContext

CONSTANTS Metadata,            \* PKGBUILD or .SRCINFO content -> [sources, children, version]
          PkgverUpdate(_, _),  \* content of PKGBUILD after makepkg saw a commit
          Submodules,          \* commit of a repository -> commits its links name
          Declared,            \* commit -> commits its .gitmodules declares
          MaxDepth, MaxNodes,  \* bounds of a closure
          MaxCommit            \* how far upstream moves

VARIABLES e,                   \* the build, see NoBuild
          upstream             \* the commit the remote branch names

NoBuild ==
    [stage |-> "idle", pinned |-> FALSE, copied |-> <<>>, entries |-> <<>>, analysis |-> <<>>,
     closure |-> <<>>, work |-> <<>>, native |-> FALSE, refuse |-> FALSE, version |-> 0,
     mirror |-> <<>>, proof |-> 0, started |-> FALSE, archive |-> <<>>, digest |-> 0,
     builtFrom |-> 0]

WorkingRecipe == Append(PartAt(BuilddirPart), 1)
WorkingFile(name) == Append(WorkingRecipe, name)
Workspace == Append(PartAt(BuilddirPart), 2)
PinnedLeaf == Append(PartAt(BuilddirPart), 3)
Mirror == Append(PartAt(SrcdestPart), 1)
ArchivePath == Append(PartAt(PkgdestPart), 1)

Archived(commit, version) == 10 * commit + version
Readable(content) == content \in 10..99
VersionIn(content) == content % 10

(***************************************************************************)
(* Failure: the context goes unless something in it is not proved ours.    *)
(***************************************************************************)
EmptyPkgdest == NamesOf(tree, PartAt(PkgdestPart)) = {}

observe_recipe_tree ==
    [name \in NamesOf(tree, WorkingRecipe) |->
        [kind |-> tree[WorkingFile(name)].kind, mode |-> tree[WorkingFile(name)].mode,
         data |-> tree[WorkingFile(name)].data]]

require_exact_working_recipe == observe_recipe_tree = e.entries

\* SelectionState::revalidate
BuildHolds ==
    /\ ContextHolds
    /\ e.copied # <<>> => Retained(WorkingRecipe, e.copied[1]) /\ require_exact_working_recipe

\* Where the pinned workspace lies: makepkg's place once prepared.
PinnedAt == IF e.native THEN Workspace ELSE PinnedLeaf

PinnedUnproven ==
    \/ e.refuse
    \/ e.work # <<>> /\ ~Retained(PinnedAt, e.work[1])
    \/ e.work # <<>> /\ ~e.native /\ Exists(PinnedAt) /\ NamesOf(tree, PinnedAt) # {}

prepare_cleanup(completed) == BuildHolds /\ (completed \/ EmptyPkgdest)

Unproven(reason) ==
    IF e.pinned THEN PinnedUnproven \/ e.started \/ ~prepare_cleanup(FALSE)
    ELSE reason \in {"inventory", "replacement", "ambiguous", "containment"}
           \/ e.started \/ ~EmptyPkgdest

cleanup_after_failure(reason) ==
    /\ e' = [e EXCEPT !.stage = "failed"]
    /\ b' = [b EXCEPT !.clean = "wanted", !.refused = @ \/ Unproven(reason)]

\* Revalidation reports a replaced working recipe as a containment failure.
Reason(otherwise) ==
    IF e.copied # <<>> /\ ContextHolds /\ ~Retained(WorkingRecipe, e.copied[1])
    THEN "containment" ELSE otherwise

\* One step of the build: it holds and goes on, or fails for the reason.
Attempt(from, holds, next, reason) ==
    /\ e.stage = from
    /\ IF holds THEN e' = next /\ UNCHANGED b ELSE cleanup_after_failure(reason)
    /\ UNCHANGED <<reviewed, upstream>> /\ Untouched

\* One that changes the tree when it holds.
AttemptWith(from, holds, next, after, reason) ==
    /\ e.stage = from
    /\ IF holds THEN e' = next /\ tree' = after /\ fresh' = fresh + 10 /\ UNCHANGED b
                ELSE cleanup_after_failure(reason) /\ UNCHANGED <<tree, fresh>>
    /\ UNCHANGED <<reviewed, upstream, moves>>

(***************************************************************************)
(* Selection                                                               *)
(***************************************************************************)
\* A working copy whose PKGBUILD makepkg may rewrite; all else is sealed.
create_working_recipe(pinned) ==
    LET names == NamesOf(tree, PartAt(RecipePart))
        dir == Made("dir", "plain", 0)
        copy(name) == [tree[RecipeFile(name)] EXCEPT
                          !.id = fresh + name, !.ino = fresh + name,
                          !.mode = IF name = PKGBUILD THEN "plain" ELSE "sealed"]
        after == [p \in {WorkingFile(name) : name \in names} |-> copy(Last(p))]
                    @@ Put(tree, WorkingRecipe, dir)
    IN /\ b.stage = "ready"
       /\ AttemptWith("idle", BuildHolds /\ NamesOf(tree, PartAt(BuilddirPart)) = {},
            [e EXCEPT !.stage = "copied", !.pinned = pinned, !.copied = <<dir>>,
                      !.entries = [name \in names |->
                         [kind |-> "file", mode |-> copy(name).mode, data |-> copy(name).data]]],
            after, "recipe")

\* What the reviewed .SRCINFO and makepkg's evaluation must agree on: one
\* floating git source, every other source a tracked local file.
analyze_source_projection(reviewedInfo, evaluatedInfo) ==
    /\ reviewedInfo.sources = evaluatedInfo.sources
    /\ reviewedInfo.children = evaluatedInfo.children /\ reviewedInfo.children # {}
    /\ evaluatedInfo.sources # <<>> /\ ToSet(evaluatedInfo.sources) \subseteq {"git", "local"}
    /\ Cardinality({i \in DOMAIN evaluatedInfo.sources : evaluatedInfo.sources[i] = "git"}) = 1

ReviewedSrcinfo == tree[RecipeFile(SRCINFO)].data
WorkingPkgbuild == tree[WorkingFile(PKGBUILD)].data

\* What is kept of an evaluation: the sources and the declared packages.
Analysis ==
    [sources |-> Metadata[WorkingPkgbuild].sources, children |-> Metadata[WorkingPkgbuild].children]

\* makepkg --printsrcinfo fails on a PKGBUILD it cannot read.
ProjectionHolds ==
    /\ BuildHolds /\ {ReviewedSrcinfo, WorkingPkgbuild} \subseteq DOMAIN Metadata
    /\ analyze_source_projection(Metadata[ReviewedSrcinfo], Metadata[WorkingPkgbuild])

select_evaluated_devel_source ==
    Attempt("copied", ProjectionHolds /\ EmptyPkgdest,
            [e EXCEPT !.stage = "selected", !.analysis = <<Analysis>>],
            IF ProjectionHolds THEN "inventory" ELSE Reason("source"))

(***************************************************************************)
(* The pinned route                                                        *)
(***************************************************************************)
\* Every way down from a root, at most MaxDepth + 1 links long.
Descents(root) ==
    LET down[k \in 0..(MaxDepth + 1)] ==
          IF k = 0 THEN {<<root>>}
          ELSE {Append(p, c) : p \in {q \in down[k - 1] : IsInjective(q)},
                               c \in UNION {Submodules[Last(q)] : q \in down[k - 1]}}
    IN {p \in UNION {down[k] : k \in DOMAIN down} :
          \A i \in 1..(Len(p) - 1) : p[i + 1] \in Submodules[p[i]]}

\* traverse: no repository contains itself, none lies too deep, and every
\* link is declared.
traverse(root) ==
    /\ \A p \in Descents(root) : IsInjective(p) /\ Len(p) <= MaxDepth + 1
    /\ \A p \in Descents(root) : Submodules[Last(p)] = Declared[Last(p)]
    /\ Cardinality(Descents(root)) <= MaxNodes

acquire_pinned_submodule_closure(fetched) ==
    /\ e.pinned
    /\ Attempt("selected", fetched /\ traverse(upstream),
               [e EXCEPT !.stage = "acquired", !.closure = <<upstream>>], "closure")

review_pinned_submodule_closure(accepted) ==
    Attempt("acquired", accepted, [e EXCEPT !.stage = "accepted"], "closure")

\* A name that is already taken is not ours, and neither is the context then.
materialize_pinned_submodule_workspace(transferred) ==
    LET n == Made("dir", "private", e.closure[1])
        made == [e EXCEPT !.work = <<n>>]
        mayMake == ContextHolds /\ ~Exists(PinnedLeaf)
    IN /\ e.stage = "accepted"
       /\ e' = IF mayMake THEN [made EXCEPT !.stage = IF transferred THEN "ready" ELSE "failed"]
                          ELSE [e EXCEPT !.stage = "failed"]
       /\ b' = IF mayMake /\ transferred THEN b
               ELSE [b EXCEPT !.clean = "wanted",
                              !.refused = @ \/ (ContextHolds /\ Exists(PinnedLeaf))
                                            \/ ~prepare_cleanup(FALSE)]
       /\ tree' = IF mayMake THEN Put(tree, PinnedLeaf, n) ELSE tree
       /\ fresh' = IF mayMake THEN fresh + 10 ELSE fresh
       /\ UNCHANGED <<reviewed, upstream, moves>>

\* The worktree is the retained one, at the accepted commit; before makepkg
\* has run nothing else may be in it.
prove(clean) ==
    /\ Retained(PinnedAt, e.work[1]) /\ tree[PinnedAt].own /\ tree[PinnedAt].mode # "shared"
    /\ tree[PinnedAt].data = e.closure[1]
    /\ clean => NamesOf(tree, PinnedAt) = {}
    /\ e.mirror # <<>> => Retained(Mirror, e.mirror[1]) /\ tree[Mirror].data = e.closure[1]

\* The workspace moves to where makepkg looks for it, with a mirror of its
\* own; entries that were there before are not ours.
prepare_native ==
    LET free == NamesOf(tree, PartAt(SrcdestPart)) = {} /\ ~Exists(Workspace)
        mirror == [Made("dir", "private", e.closure[1]) EXCEPT !.id = fresh + 1, !.ino = fresh + 1]
        moved == Put(Without(tree, PinnedLeaf), Workspace, tree[PinnedLeaf])
    IN /\ e.stage = "ready"
       /\ \/ /\ BuildHolds /\ EmptyPkgdest /\ prove(TRUE) /\ free
             /\ AttemptWith("ready", TRUE, [e EXCEPT !.stage = "prepare", !.native = TRUE,
                                                     !.mirror = <<mirror>>],
                            Put(moved, Mirror, mirror), "native")
          \/ /\ ~(BuildHolds /\ EmptyPkgdest /\ prove(TRUE) /\ free)
             /\ e' = [e EXCEPT !.stage = "failed", !.refuse = ~free]
             /\ b' = [b EXCEPT !.clean = "wanted",
                               !.refused = @ \/ ~free \/ Unproven("native")]
             /\ UNCHANGED <<reviewed, upstream>> /\ Untouched

(***************************************************************************)
(* Preparation, build and proof                                            *)
(***************************************************************************)
begin_unpinned ==
    /\ ~e.pinned
    /\ Attempt("selected", BuildHolds /\ EmptyPkgdest, [e EXCEPT !.stage = "prepare"],
               IF BuildHolds THEN "inventory" ELSE Reason("context"))

\* makepkg --nobuild: the mirror follows upstream (not with --holdver), the
\* workspace the mirror, and pkgver() rewrites the working PKGBUILD.
makepkg_nobuild(succeeds) ==
    LET commit == IF e.pinned /\ Exists(Mirror) THEN tree[Mirror].data ELSE upstream
        repo(p, i) == IF Exists(p) THEN [tree[p] EXCEPT !.data = commit, !.stamp = fresh]
                      ELSE [Made("dir", "plain", commit) EXCEPT !.id = fresh + i, !.ino = fresh + i]
        recipe == [tree[WorkingFile(PKGBUILD)] EXCEPT
                      !.data = PkgverUpdate(WorkingPkgbuild, commit), !.stamp = fresh]
    IN AttemptWith("prepare", succeeds /\ BuildHolds, [e EXCEPT !.stage = "fetched"],
                   Put(Put(Put(tree, Mirror, repo(Mirror, 1)), Workspace, repo(Workspace, 2)),
                       WorkingFile(PKGBUILD), recipe),
                   Reason("process"))

\* seal_dynamic_pkgbuild: nothing but PKGBUILD differs, and only if allowed.
SealHolds(allowChange) ==
    /\ DOMAIN observe_recipe_tree = DOMAIN e.entries
    /\ \A name \in DOMAIN e.entries :
         IF name = PKGBUILD
         THEN /\ observe_recipe_tree[name].kind = "file" /\ observe_recipe_tree[name].mode = "plain"
              /\ allowChange \/ observe_recipe_tree[name].data = e.entries[name].data
         ELSE observe_recipe_tree[name] = e.entries[name]

Sealed == Put(tree, WorkingFile(PKGBUILD), [tree[WorkingFile(PKGBUILD)] EXCEPT !.mode = "sealed"])
SealedEntries ==
    [observe_recipe_tree EXCEPT ![PKGBUILD].mode = "sealed"]

seal_dynamic_pkgbuild ==
    AttemptWith("fetched", SealHolds(TRUE) /\ EmptyPkgdest,
                [e EXCEPT !.stage = "sealed", !.entries = SealedEntries], Sealed,
                IF SealHolds(TRUE) THEN "inventory" ELSE "recipe")

\* --printsrcinfo and --packagelist again: the sources did not change, and
\* the version to expect is known.
prepared_package_expectations ==
    Attempt("sealed", ProjectionHolds /\ <<Analysis>> = e.analysis
                        /\ EmptyPkgdest,
            [e EXCEPT !.stage = "expected", !.version = Metadata[WorkingPkgbuild].version],
            IF ProjectionHolds THEN "inventory" ELSE Reason("source"))

require_safe_directory(n) == n.kind = "dir" /\ n.own /\ n.here /\ n.mode # "shared"

\* Exactly one mirror, and exactly one workspace among safe directories.
locate_git_mirror ==
    /\ NamesOf(tree, PartAt(SrcdestPart)) = {Last(Mirror)} /\ require_safe_directory(tree[Mirror])

locate_git_workspace ==
    /\ Exists(Workspace)
    /\ \A p \in Beneath(tree, PartAt(BuilddirPart)) :
         tree[p].kind = "dir" => require_safe_directory(tree[p])
    /\ tree[Workspace].kind = "dir"

\* One commit in both repositories.
observe_git_proof_point ==
    tree[Mirror].data = tree[Workspace].data /\ tree[Mirror].data \in 1..MaxCommit

LocateHolds ==
    IF e.pinned THEN prove(FALSE) ELSE locate_git_mirror /\ locate_git_workspace

LocateReason ==
    CASE LocateHolds -> IF observe_git_proof_point THEN "inventory" ELSE "revision"
      [] ~LocateHolds /\ Cardinality(NamesOf(tree, PartAt(SrcdestPart))) > 1 -> "ambiguous"
      [] ~LocateHolds /\ Exists(Mirror) /\ Exists(Workspace) /\ tree[Workspace].kind = "dir"
            -> "containment"
      [] OTHER -> "unavailable"

ProveBeforeBuild ==
    Attempt("expected", LocateHolds /\ observe_git_proof_point /\ EmptyPkgdest,
            [e EXCEPT !.stage = "proved", !.proof = tree[Workspace].data,
                      !.mirror = <<tree[Mirror]>>, !.work = <<tree[Workspace]>>],
            LocateReason)

make_pkgbuild_mutable_for_build ==
    AttemptWith("proved", require_exact_working_recipe,
                [e EXCEPT !.stage = "mutable", !.started = TRUE,
                          !.entries = [e.entries EXCEPT ![PKGBUILD].mode = "plain"]],
                Put(tree, WorkingFile(PKGBUILD),
                    [tree[WorkingFile(PKGBUILD)] EXCEPT !.mode = "plain"]), "recipe")

\* makepkg --noextract builds what the workspace holds at this moment.
makepkg_noextract(succeeds) ==
    AttemptWith("mutable", succeeds /\ BuildHolds /\ Exists(Workspace),
                [e EXCEPT !.stage = "packaged", !.builtFrom = tree[Workspace].data],
                AddEntry(tree, ArchivePath,
                         Made("file", "plain", Archived(tree[Workspace].data, e.version))),
                "process")

require_named_directory_unchanged(p, n) == Retained(p, n)

PostBuildHolds ==
    /\ SealHolds(FALSE) /\ ContextHolds
    /\ require_named_directory_unchanged(Mirror, e.mirror[1])
    /\ require_named_directory_unchanged(Workspace, e.work[1])
    /\ e.pinned => prove(FALSE)
    /\ observe_git_proof_point

\* Mutant: any commit will do after the build.
Mutant_prove_actual_built_git_revision == tree[Workspace].data \in 1..MaxCommit

\* The commit is proved only if both proof points name it.
prove_actual_built_git_revision == tree[Workspace].data = e.proof

ProveAfterBuild ==
    AttemptWith("packaged", PostBuildHolds /\ prove_actual_built_git_revision,
                [e EXCEPT !.stage = "same revision", !.entries = SealedEntries], Sealed,
                "revision")

open_fresh_artifact ==
    /\ NamesOf(tree, PartAt(PkgdestPart)) = {Last(ArchivePath)}
    /\ tree[ArchivePath].kind = "file" /\ tree[ArchivePath].own /\ tree[ArchivePath].here

HashHolds ==
    /\ open_fresh_artifact /\ Readable(tree[ArchivePath].data)
    /\ VersionIn(tree[ArchivePath].data) = e.version

hash_artifact_archive ==
    Attempt("same revision", HashHolds,
            [e EXCEPT !.stage = "hashed", !.archive = <<tree[ArchivePath]>>,
                      !.digest = tree[ArchivePath].data], "replacement")

require_artifact_unchanged ==
    Attempt("hashed", open_fresh_artifact /\ tree[ArchivePath] = e.archive[1],
            [e EXCEPT !.stage = "built"], "replacement")

BuildStep ==
    \/ \E pinned \in BOOLEAN : create_working_recipe(pinned)
    \/ select_evaluated_devel_source
    \/ \E fetched \in BOOLEAN : acquire_pinned_submodule_closure(fetched)
    \/ \E accepted \in BOOLEAN : review_pinned_submodule_closure(accepted)
    \/ (\E transferred \in BOOLEAN : materialize_pinned_submodule_workspace(transferred))
    \/ prepare_native \/ begin_unpinned
    \/ \E succeeds \in BOOLEAN : makepkg_nobuild(succeeds) \/ makepkg_noextract(succeeds)
    \/ seal_dynamic_pkgbuild \/ prepared_package_expectations \/ ProveBeforeBuild
    \/ make_pkgbuild_mutable_for_build \/ ProveAfterBuild
    \/ hash_artifact_archive \/ require_artifact_unchanged

\* EvaluatedDevelSourceBuildProof::cleanup, once the package is dealt with.
EndBuild(completed) ==
    b' = [b EXCEPT !.clean = "wanted",
                   !.refused = @ \/ (e.pinned /\ (PinnedUnproven \/ ~prepare_cleanup(completed)))]

BuildPins == ContextPins \cup {n.ino : n \in ToSet(e.copied) \cup ToSet(e.work)
                                               \cup ToSet(e.mirror) \cup ToSet(e.archive)}

(***************************************************************************)
(* Other processes                                                         *)
(***************************************************************************)
UpstreamMoves ==
    /\ upstream < MaxCommit /\ upstream' = upstream + 1
    /\ UNCHANGED <<b, e, reviewed>> /\ Untouched

\* Another git moves mirror and workspace to what upstream has by now.
Retarget ==
    /\ moves < MaxForeign /\ Exists(Mirror) /\ Exists(Workspace)
    /\ tree[Workspace].data # upstream
    /\ tree' = Put(Put(tree, Mirror, [tree[Mirror] EXCEPT !.data = upstream, !.stamp = fresh]),
                   Workspace, [tree[Workspace] EXCEPT !.data = upstream, !.stamp = fresh])
    /\ fresh' = fresh + 1 /\ moves' = moves + 1
    /\ UNCHANGED <<b, e, reviewed, upstream>>

\* Another package of the same version takes the archive's name.
SwapArchive ==
    /\ moves < MaxForeign /\ e.archive # <<>> /\ Exists(ArchivePath)
    /\ tree' = Changed(tree, ArchivePath,
                       [tree[ArchivePath] EXCEPT !.data = Archived(MaxCommit, e.version)])
    /\ fresh' = fresh + 1 /\ moves' = moves + 1
    /\ UNCHANGED <<b, e, reviewed, upstream>>

BuildForeign(touch) ==
    Foreign(touch, BuildPins) /\ UNCHANGED <<b, e, reviewed, upstream>>
=============================================================================
