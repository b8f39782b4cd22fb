------------------------- MODULE DevelBuildContext -------------------------
(***************************************************************************)
(* invocation_owned_source_build_context.cpp: the private build root of a  *)
(* development package.  Under a directory made for this invocation lie    *)
(* the sealed copy of the reviewed recipe and makepkg's three directories; *)
(* all are held by descriptor, compared with their names before every use, *)
(* and removed only when everything in them is proved to be theirs.        *)
(*                                                                         *)
(* Beside the modes of DirectoryTree there is "sealed", 0500 or 0400.      *)
(***************************************************************************)
EXTENDS DirectoryTree

CONSTANTS BuildRoot,     \* path of the root; its parent exists
          Snapshots,     \* reviewed recipe -> name -> [kind, data]
          MaxCleanup     \* entries one cleanup may visit

VARIABLES b,             \* the context, see NoContext
          reviewed       \* the reviewed source record: [gen, recipe]

PKGBUILD == 1
SRCINFO == 2

RecipePart == 1
PkgdestPart == 2
BuilddirPart == 3
SrcdestPart == 4

\* kept: the retained root and then its parts, in the order they are made.
NoContext ==
    [stage |-> "start", recipe |-> 0, gen |-> 0, parent |-> <<>>, kept |-> <<>>, child |-> <<>>,
     plan |-> <<>>, refused |-> FALSE, clean |-> "no"]

PartAt(i) == Append(BuildRoot, i)
RecipeFile(name) == Append(PartAt(RecipePart), name)

Becomes(next) == b' = next /\ UNCHANGED reviewed

(***************************************************************************)
(* Identities                                                              *)
(***************************************************************************)
same_node(x, y) == x.ino = y.ino /\ x.kind = y.kind

Retained(p, n) == Exists(p) /\ same_node(n, tree[p])

\* A parent that others may write to is accepted only with the sticky bit.
parent_policy_failure(n) == ~n.own \/ n.mode = "shared"

require_parent_identity ==
    LET p == Front(BuildRoot) IN
    Retained(p, b.parent[1]) /\ tree[p].kind = "dir" /\ ~parent_policy_failure(tree[p])

require_safe_directory_identity(p, n, mode) ==
    Retained(p, n) /\ tree[p].kind = "dir" /\ tree[p].here /\ tree[p].own /\ tree[p].mode = mode

require_owned_directory(p, n) == require_safe_directory_identity(p, n, n.mode)

require_top_level_identity ==
    /\ Len(b.kept) = 5 /\ require_parent_identity
    /\ require_owned_directory(BuildRoot, b.kept[1])
    /\ \A i \in 1..4 : require_owned_directory(PartAt(i), b.kept[i + 1])
    /\ NamesOf(tree, BuildRoot) = 1..4

(***************************************************************************)
(* Creation                                                                *)
(***************************************************************************)
\* Only files, and among them PKGBUILD and .SRCINFO.
UsableSnapshot(snapshot) ==
    /\ \A name \in DOMAIN snapshot : snapshot[name].kind = "file"
    /\ {PKGBUILD, SRCINFO} \subseteq DOMAIN snapshot

\* The reviewed record and the recipe it names are bound, then the root is made.
create_private_root ==
    /\ b.stage = "start"
    /\ UsableSnapshot(Snapshots[reviewed.recipe])
    /\ Exists(Front(BuildRoot)) /\ ~Exists(BuildRoot)
    /\ ~parent_policy_failure(tree[Front(BuildRoot)])
    /\ tree' = AddEntry(tree, BuildRoot, Made("dir", "private", 0))
    /\ Becomes([b EXCEPT !.stage = "made", !.recipe = reviewed.recipe, !.gen = reviewed.gen,
                         !.parent = <<tree[Front(BuildRoot)]>>])
    /\ fresh' = fresh + 1 /\ UNCHANGED moves

CreationRefused ==
    /\ b.stage = "start"
    /\ \/ ~UsableSnapshot(Snapshots[reviewed.recipe])
       \/ ~Exists(Front(BuildRoot))
       \/ Exists(Front(BuildRoot)) /\ parent_policy_failure(tree[Front(BuildRoot)])
    /\ Becomes([b EXCEPT !.stage = "failed"]) /\ Untouched

\* A directory is ours once a descriptor and the name agree on it.
Adoptable(p) == Exists(p) /\ tree[p].kind = "dir" /\ tree[p].own /\ tree[p].here

retain_private_root ==
    /\ b.stage = "made" /\ Adoptable(BuildRoot)
    /\ LET n == [tree[BuildRoot] EXCEPT !.mode = "private"] IN
       /\ tree' = Put(tree, BuildRoot, n)
       /\ Becomes([b EXCEPT !.stage = "parts", !.kept = <<n>>])
    /\ UNCHANGED <<fresh, moves>>

\* What is at the name is not provably ours: it is left alone.
throw_unretained_created_root_failure ==
    /\ b.stage = "made" /\ ~Adoptable(BuildRoot)
    /\ Becomes([b EXCEPT !.stage = "failed"]) /\ Untouched

NextPart == PartAt(Len(b.kept))

create_owned_child_directory ==
    /\ b.stage = "parts" /\ Len(b.kept) < 5
    /\ require_safe_directory_identity(BuildRoot, b.kept[1], "private") /\ ~Exists(NextPart)
    /\ tree' = AddEntry(tree, NextPart, Made("dir", "private", 0))
    /\ Becomes([b EXCEPT !.stage = "part made"])
    /\ fresh' = fresh + 1 /\ UNCHANGED moves

retain_child_directory ==
    /\ b.stage = "part made" /\ Adoptable(NextPart)
    /\ Becomes([b EXCEPT !.stage = "part held", !.child = <<tree[NextPart]>>]) /\ Untouched

\* The mode is set through the descriptor, whatever the name shows by now.
set_created_directory_mode ==
    /\ b.stage = "part held"
    /\ tree' = IF Retained(NextPart, b.child[1])
               THEN Put(tree, NextPart, [tree[NextPart] EXCEPT !.mode = "private"]) ELSE tree
    /\ Becomes([b EXCEPT !.stage = "part private"])
    /\ UNCHANGED <<fresh, moves>>

ChildIsSafe == require_safe_directory_identity(NextPart, b.child[1], "private")

complete_child_directory ==
    /\ b.stage = "part private" /\ ChildIsSafe
    /\ Becomes([b EXCEPT !.stage = "parts", !.kept = Append(@, tree[NextPart]), !.child = <<>>])
    /\ Untouched

\* The provisional child could not be completed: its own rollback removes the
\* name while it still shows the retained, empty directory.
ProvisionalOwnedChildDirectory ==
    /\ b.stage = "part private" /\ ~ChildIsSafe
    /\ LET mine == /\ require_safe_directory_identity(BuildRoot, b.kept[1], "private")
                   /\ Adoptable(NextPart) /\ Retained(NextPart, b.child[1])
                   /\ NamesOf(tree, NextPart) = {}
       IN /\ tree' = IF mine THEN DropEntry(tree, NextPart) ELSE tree
          /\ fresh' = IF mine THEN fresh + 1 ELSE fresh
    /\ Becomes([b EXCEPT !.stage = "aborting", !.clean = "wanted", !.child = <<>>])
    /\ UNCHANGED moves

PartsComplete ==
    /\ b.stage = "parts" /\ Len(b.kept) = 5 /\ require_top_level_identity
    /\ Becomes([b EXCEPT !.stage = "roots"]) /\ Untouched

\* One file per entry of the snapshot, made exclusively; then all is sealed.
materialize_snapshot_directory ==
    /\ b.stage = "roots" /\ require_top_level_identity
    /\ LET snapshot == Snapshots[b.recipe]
           file(name) == [Made("file", "sealed", snapshot[name].data) EXCEPT !.id = fresh + name,
                                                                             !.ino = fresh + name]
           sealed == [tree[PartAt(RecipePart)] EXCEPT !.mode = "sealed", !.stamp = fresh]
           added == {RecipeFile(name) : name \in DOMAIN snapshot}
       IN /\ added \cap DOMAIN tree = {}
          /\ tree' = [p \in added |-> file(Last(p))] @@ Put(tree, PartAt(RecipePart), sealed)
          /\ Becomes([b EXCEPT !.stage = "filled", !.kept[2] = sealed])
    /\ fresh' = fresh + 10 /\ UNCHANGED moves

\* Every entry is there, alone, sealed and unchanged.
ValidSnapshotDirectory ==
    LET snapshot == Snapshots[b.recipe] IN
    /\ NamesOf(tree, PartAt(RecipePart)) = DOMAIN snapshot
    /\ \A name \in DOMAIN snapshot :
         LET n == tree[RecipeFile(name)]
         IN n.kind = "file" /\ n.own /\ n.here /\ n.mode = "sealed" /\ n.data = snapshot[name].data

ContextHolds == require_top_level_identity /\ ValidSnapshotDirectory

SnapshotValidated ==
    /\ b.stage = "filled" /\ ContextHolds
    /\ Becomes([b EXCEPT !.stage = "validated"]) /\ Untouched

\* The checkout the recipe came from is proved again (ReviewedSourceBuild has
\* that proof), and the copy once more after it.
revalidate_reviewed_recipe_source(proved) ==
    /\ b.stage = "validated"
    /\ Becomes(IF proved /\ ContextHolds
               THEN [b EXCEPT !.stage = "ready"]
               ELSE [b EXCEPT !.stage = "aborting", !.clean = "wanted"])
    /\ Untouched

\* Any other failure once the root is retained.
abort_construction ==
    /\ \/ /\ b.stage = "parts" /\ Len(b.kept) < 5
          /\ ~(require_safe_directory_identity(BuildRoot, b.kept[1], "private")
                 /\ ~Exists(NextPart))
       \/ b.stage = "part made" /\ ~Adoptable(NextPart)
       \/ b.stage = "parts" /\ Len(b.kept) = 5 /\ ~require_top_level_identity
       \/ /\ b.stage = "roots"
          /\ \/ ~require_top_level_identity
             \/ {RecipeFile(name) : name \in DOMAIN Snapshots[b.recipe]} \cap DOMAIN tree # {}
       \/ b.stage = "filled" /\ ~ContextHolds
    /\ Becomes([b EXCEPT !.stage = "aborting", !.clean = "wanted"]) /\ Untouched

ContextCreation ==
    \/ create_private_root \/ CreationRefused \/ retain_private_root
    \/ throw_unretained_created_root_failure \/ create_owned_child_directory
    \/ retain_child_directory \/ set_created_directory_mode \/ complete_child_directory
    \/ ProvisionalOwnedChildDirectory
    \/ PartsComplete \/ materialize_snapshot_directory \/ SnapshotValidated
    \/ \E proved \in BOOLEAN : revalidate_reviewed_recipe_source(proved)
    \/ abort_construction

(***************************************************************************)
(* Cleanup: one plan of everything below the root, validated as a whole    *)
(* and then removed bottom up, every entry compared before it goes.        *)
(***************************************************************************)
KeptParts == 1..(Len(b.kept) - 1)

require_owned_directory_for_cleanup(p, n) == Retained(p, n) /\ Adoptable(p)

PlannedPaths == Beneath(tree, BuildRoot) \ {BuildRoot}

MayPlanContextCleanup ==
    /\ ~b.refused /\ require_parent_identity
    /\ require_owned_directory_for_cleanup(BuildRoot, b.kept[1])
    /\ \A i \in KeptParts : require_owned_directory_for_cleanup(PartAt(i), b.kept[i + 1])
    /\ NamesOf(tree, BuildRoot) = KeptParts
    /\ \A p \in PlannedPaths : tree[p].own /\ tree[p].here

WithinBudget == Cardinality(PlannedPaths) <= MaxCleanup

\* plan_cleanup_node: every directory is made accessible on the way.
plan_cleanup_node ==
    /\ b.clean = "wanted" /\ MayPlanContextCleanup /\ WithinBudget
    /\ tree' = [p \in DOMAIN tree |->
                  IF p \in {BuildRoot} \cup PlannedPaths /\ tree[p].kind = "dir"
                  THEN [tree[p] EXCEPT !.mode = "private"] ELSE tree[p]]
    /\ Becomes([b EXCEPT !.clean = "planned", !.plan = [p \in PlannedPaths |-> tree[p]]])
    /\ UNCHANGED <<fresh, moves>>

require_cleanup_node_unchanged(p) ==
    Retained(p, b.plan[p]) /\ tree[p].own /\ tree[p].here

validate_cleanup_plan ==
    /\ b.clean = "planned" /\ require_parent_identity
    /\ \A p \in DOMAIN b.plan : require_cleanup_node_unchanged(p)
    /\ PlannedPaths = DOMAIN b.plan
    /\ Becomes([b EXCEPT !.clean = "removing"]) /\ Untouched

\* The next entry: a planned one below which nothing is planned any more.
NextRemoval ==
    CHOOSE p \in DOMAIN b.plan : \A q \in DOMAIN b.plan : IsPrefix(p, q) => p = q

remove_cleanup_plan ==
    /\ b.clean = "removing" /\ b.plan # <<>>
    /\ LET p == NextRemoval IN
       /\ require_cleanup_node_unchanged(p) /\ NamesOf(tree, p) = {}
       /\ tree' = DropEntry(tree, p)
       /\ Becomes([b EXCEPT !.plan = Without(@, p)])
    /\ fresh' = fresh + 1 /\ UNCHANGED moves

remove_private_root ==
    /\ b.clean = "removing" /\ b.plan = <<>>
    /\ require_parent_identity /\ NamesOf(tree, BuildRoot) = {}
    /\ require_owned_directory_for_cleanup(BuildRoot, b.kept[1])
    /\ tree' = DropEntry(tree, BuildRoot)
    /\ Becomes([b EXCEPT !.clean = "done"])
    /\ fresh' = fresh + 1 /\ UNCHANGED moves

\* What is left stays where it is; a budget that ran out refuses for good.
ContextCleanupFails ==
    /\ \/ b.clean = "wanted" /\ ~(MayPlanContextCleanup /\ WithinBudget)
       \/ /\ b.clean = "planned"
          /\ ~(/\ require_parent_identity /\ PlannedPaths = DOMAIN b.plan
               /\ \A p \in DOMAIN b.plan : require_cleanup_node_unchanged(p))
       \/ /\ b.clean = "removing" /\ b.plan # <<>>
          /\ ~(require_cleanup_node_unchanged(NextRemoval) /\ NamesOf(tree, NextRemoval) = {})
       \/ /\ b.clean = "removing" /\ b.plan = <<>>
          /\ ~(/\ require_parent_identity /\ NamesOf(tree, BuildRoot) = {}
               /\ require_owned_directory_for_cleanup(BuildRoot, b.kept[1]))
    /\ Becomes([b EXCEPT !.clean = "failed",
                         !.refused = @ \/ (b.clean = "wanted" /\ MayPlanContextCleanup)])
    /\ Untouched

ContextCleanup ==
    \/ plan_cleanup_node \/ validate_cleanup_plan \/ remove_cleanup_plan
    \/ remove_private_root \/ ContextCleanupFails

CleanupOver == b.clean \in {"done", "failed"}

\* Inode numbers held by descriptors.
ContextPins ==
    {n.ino : n \in ToSet(b.kept) \cup ToSet(b.child) \cup ToSet(b.parent)}
=============================================================================
