------------------------ MODULE LocalSourceWorkspace ------------------------
(***************************************************************************)
(* local_source_workspace.cpp: a private copy of a local source directory, *)
(* made while the user may edit the source, and the one attempt to dispose *)
(* of it.  The directory is made and guarded by TrustedCache ("copy"); the *)
(* copy is a walk over the source, then a second walk that validates every *)
(* entry against the manifest of the first.  Disposal ("dispose") starts   *)
(* from a workspace that a build has used.                                 *)
(***************************************************************************)
EXTENDS TrustedCache

CONSTANT SourceRoot      \* the path of the local source directory

VARIABLES steps,         \* stack of tasks of the copy
          manifest,      \* relative path -> what was read and what was made
          sourceSeen,    \* the retained identity of the source directory
          counted,       \* entries the second walk has validated
          moments        \* what the source held at each moment of the copy

copyVars == <<steps, manifest, sourceSeen, counted, moments>>

From(r) == SourceRoot \o r
To(r) == Final \o r

\* Identity, type, owner, permissions and times, never the content.
observe_node_identity(n) ==
    [ino |-> n.ino, kind |-> n.kind, own |-> n.own, mode |-> n.mode, here |-> n.here,
     stamp |-> n.stamp]

require_unchanged_node(expected, p) ==
    Exists(p) /\ observe_node_identity(tree[p]) = observe_node_identity(expected)

require_admissible_source_node(n) ==
    n.kind # "other" /\ n.here /\ n.own /\ (n.kind # "link" => n.mode # "shared")

\* A link is copied only if its target stays inside the source; data 0 is a
\* target that does not.
require_contained_symlink_target(n) == n.data # 0

\* The names of a directory, in order.
enumerate_directory(p) == NamesOf(tree, p)

(***************************************************************************)
(* Boundary: the cache is not the source and does not lie inside it, by    *)
(* path and by identity.                                                   *)
(***************************************************************************)
source_unchanged ==
    /\ Exists(SourceRoot) /\ tree[SourceRoot].ino = sourceSeen.ino
    /\ tree[SourceRoot].kind = "dir" /\ tree[SourceRoot].own

require_source_and_cache_boundary ==
    /\ source_unchanged /\ require_root_unchanged
    /\ rootSeen.ino # sourceSeen.ino /\ ~IsPrefix(SourceRoot, CacheRoot)

require_directory_identity_outside_source_subtree ==
    \A p \in Beneath(tree, SourceRoot) :
       tree[p].kind = "dir" =>
          require_admissible_source_node(tree[p]) /\ tree[p].ino # rootSeen.ino

require_directory_identity_outside_local_source_tree ==
    /\ source_unchanged /\ require_admissible_source_node(tree[SourceRoot])
    /\ rootSeen.ino # tree[SourceRoot].ino
    /\ require_directory_identity_outside_source_subtree

require_local_source_cache_separation ==
    /\ require_source_and_cache_boundary
    /\ require_directory_identity_outside_local_source_tree

(***************************************************************************)
(* The copy                                                                *)
(***************************************************************************)
Step(do, r, n, names) == [do |-> do, at |-> r, was |-> n, names |-> names]

EachOf(do, r, names) ==
    [i \in 1..Cardinality(names) |-> Step(do, Append(r, InOrder(names)[i]), <<>>, {})]

Proceed(more) == steps' = more \o Tail(steps)

\* What the source holds: the shape and content a reader could have seen.
Content(root) ==
    [r \in {SubSeq(p, Len(root) + 1, Len(p)) : p \in Beneath(tree, root)} |->
        [kind |-> tree[root \o r].kind,
         data |-> IF tree[root \o r].kind = "dir" THEN 0 ELSE tree[root \o r].data]]

BeginHolds ==
    /\ require_local_source_cache_separation
    /\ revalidate_trusted_cache_path(Final, made[1])
    /\ require_admissible_source_node(tree[SourceRoot])

materialize_local_source_workspace ==
    /\ cacheOp = "copy" /\ Goes("guarded", "copying") /\ BeginHolds
    /\ steps' = <<Step("enter", <<>>, <<tree[SourceRoot]>>, {})>>
    /\ moments' = {Content(SourceRoot)}
    /\ UNCHANGED <<manifest, sourceSeen, counted, todo, made>> /\ Untouched

\* copy_directory_contents, before and after the entries.
EnterHolds(t) ==
    /\ require_unchanged_node(t.was[1], From(t.at))
    /\ require_admissible_source_node(tree[From(t.at)])

copy_directory_contents(t) ==
    LET names == enumerate_directory(From(t.at)) IN
    /\ Proceed(Append(EachOf("copy", t.at, names), Step("leave", t.at, t.was, names)))
    /\ UNCHANGED manifest /\ Untouched

LeaveHolds(t) ==
    enumerate_directory(From(t.at)) = t.names /\ require_unchanged_node(t.was[1], From(t.at))

leave_directory_contents(t) == Proceed(<<>>) /\ UNCHANGED manifest /\ Untouched

record_manifest_entry(r, source, destination) ==
    manifest' = Put(manifest, r, [from |-> source, to |-> destination])

\* copy_entry: the destination is made here, exclusively; its content, and
\* the manifest entry of a file or a directory, follow.
CopyHolds(t) ==
    /\ Exists(From(t.at)) /\ require_admissible_source_node(tree[From(t.at)])
    /\ ~Exists(To(t.at)) /\ Exists(Front(To(t.at)))
    /\ tree[From(t.at)].kind = "link" => require_contained_symlink_target(tree[From(t.at)])

copy_entry(t) ==
    LET n == tree[From(t.at)]
        new == Made(n.kind, "private", IF n.kind = "link" THEN n.data ELSE 0)
    IN /\ tree' = AddEntry(tree, To(t.at), new)
       /\ fresh' = fresh + 1 /\ UNCHANGED moves
       /\ Proceed(CASE n.kind = "file" -> <<Step("file", t.at, <<n, new>>, {})>>
                    [] n.kind = "dir"  -> <<Step("enter", t.at, <<n>>, {}),
                                            Step("directory", t.at, <<n, new>>, {})>>
                    [] n.kind = "link" -> <<>>)
       /\ IF n.kind = "link" THEN record_manifest_entry(t.at, n, new) ELSE UNCHANGED manifest

\* The end of copy_regular_file: the source did not change while it was read,
\* and the destination is still the file that was made.
require_destination_file(t) ==
    /\ Exists(To(t.at)) /\ same_identity_and_type(t.was[2], tree[To(t.at)])
    /\ tree[To(t.at)].own /\ tree[To(t.at)].here

CopiedHolds(t) ==
    require_unchanged_node(t.was[1], From(t.at)) /\ require_destination_file(t)

copy_regular_file(t) ==
    LET new == [tree[To(t.at)] EXCEPT !.data = tree[From(t.at)].data, !.mode = t.was[1].mode,
                                      !.stamp = fresh]
    IN /\ tree' = Put(tree, To(t.at), new)
       /\ fresh' = fresh + 1 /\ UNCHANGED moves
       /\ record_manifest_entry(t.at, t.was[1], new)
       /\ Proceed(<<>>)

copy_directory(t) ==
    LET new == [tree[To(t.at)] EXCEPT !.stamp = fresh]
    IN /\ tree' = Put(tree, To(t.at), new)
       /\ fresh' = fresh + 1 /\ UNCHANGED moves
       /\ record_manifest_entry(t.at, t.was[1], new)
       /\ Proceed(<<>>)

CopyStepHolds(t) ==
    CASE t.do = "enter" -> EnterHolds(t)
      [] t.do = "leave" -> LeaveHolds(t)
      [] t.do = "copy" -> CopyHolds(t)
      [] t.do \in {"file", "directory"} -> CopiedHolds(t)
      [] OTHER -> TRUE

CopyNode ==
    /\ stage = "copying" /\ steps # <<>> /\ CopyStepHolds(Head(steps))
    /\ LET t == Head(steps) IN
       \/ t.do = "enter" /\ copy_directory_contents(t)
       \/ t.do = "leave" /\ leave_directory_contents(t)
       \/ t.do = "copy" /\ copy_entry(t)
       \/ t.do = "file" /\ copy_regular_file(t)
       \/ t.do = "directory" /\ copy_directory(t)
    /\ UNCHANGED <<cacheVars, sourceSeen, counted, moments>>

\* Any failure before the commit lets the guard remove the directory.
Abandon ==
    /\ stage' = "undo" /\ steps' = <<>>
    /\ UNCHANGED <<cacheOp, rootSeen, targets, entries, todo, plan, made, lease, theirs,
                   recorded, removed, manifest, sourceSeen, counted, moments>>
    /\ Untouched

CopyFails ==
    /\ \/ cacheOp = "copy" /\ stage = "guarded" /\ ~BeginHolds
       \/ stage = "copying" /\ steps # <<>> /\ ~CopyStepHolds(Head(steps))
    /\ Abandon

(***************************************************************************)
(* validate_snapshot_directory: source and copy against the manifest       *)
(***************************************************************************)
\* Mutant: the copy is handed out without the second walk.
Mutant_BeginValidation ==
    /\ stage = "copying" /\ steps = <<>> /\ stage' = "validating"
    /\ steps' = <<>> /\ counted' = Cardinality(DOMAIN manifest)
    /\ UNCHANGED <<cacheOp, rootSeen, targets, entries, todo, plan, made, lease, theirs,
                   recorded, removed, manifest, sourceSeen, moments>>
    /\ Untouched

BeginValidation ==
    /\ stage = "copying" /\ steps = <<>> /\ stage' = "validating"
    /\ steps' = <<Step("directory", <<>>, <<sourceSeen>>, {})>>
    /\ UNCHANGED <<cacheOp, rootSeen, targets, entries, todo, plan, made, lease, theirs,
                   recorded, removed, manifest, sourceSeen, counted, moments>>
    /\ Untouched

SourceOf(r) == IF r = <<>> THEN sourceSeen ELSE manifest[r].from

\* The names of a directory, its status and that of its copy.
SameNames(r, names) ==
    enumerate_directory(From(r)) = names /\ enumerate_directory(To(r)) = names

ValidateDirectoryHolds(t) ==
    /\ require_unchanged_node(SourceOf(t.at), From(t.at))
    /\ require_admissible_source_node(tree[From(t.at)])
    /\ Exists(To(t.at)) /\ tree[To(t.at)].kind = "dir" /\ tree[To(t.at)].own
    /\ tree[To(t.at)].here /\ SameNames(t.at, enumerate_directory(From(t.at)))

validate_snapshot_directory(t) ==
    LET names == enumerate_directory(From(t.at)) IN
    /\ Proceed(Append(EachOf("entry", t.at, names),
                      Step("leave", t.at, <<tree[To(t.at)]>>, names)))
    /\ UNCHANGED counted

\* One entry: known to the manifest, unchanged in the source, the object the
\* manifest names in the copy, and of equal content.
require_matching_file_contents(r) == tree[From(r)].data = tree[To(r)].data

require_manifest_entry(r) == r \in DOMAIN manifest

require_destination_named_identity(r) == require_unchanged_node(manifest[r].to, To(r))

ValidateEntryHolds(t) ==
    /\ require_manifest_entry(t.at) /\ require_unchanged_node(manifest[t.at].from, From(t.at))
    /\ require_admissible_source_node(tree[From(t.at)])
    /\ require_destination_named_identity(t.at)
    /\ tree[From(t.at)].kind # "dir" => require_matching_file_contents(t.at)

validate_snapshot_entry(t) ==
    /\ Proceed(IF tree[From(t.at)].kind = "dir"
               THEN <<Step("directory", t.at, <<>>, {}), Step("again", t.at, <<>>, {})>> ELSE <<>>)
    /\ counted' = counted + 1

\* After its entries a directory is looked at once more.
ValidateLeaveHolds(t) ==
    /\ Exists(From(t.at)) /\ SameNames(t.at, t.names)
    /\ require_unchanged_node(SourceOf(t.at), From(t.at))
    /\ require_unchanged_node(t.was[1], To(t.at))

ValidationHolds(t) ==
    CASE t.do = "directory" -> ValidateDirectoryHolds(t)
      [] t.do \in {"entry", "again"} -> ValidateEntryHolds(t)
      [] t.do = "leave" -> ValidateLeaveHolds(t)

ValidateNode ==
    /\ stage = "validating" /\ steps # <<>> /\ ValidationHolds(Head(steps))
    /\ LET t == Head(steps) IN
       \/ t.do = "directory" /\ validate_snapshot_directory(t)
       \/ t.do = "entry" /\ validate_snapshot_entry(t)
       \/ t.do \in {"leave", "again"} /\ Proceed(<<>>) /\ UNCHANGED counted
    /\ UNCHANGED <<cacheVars, manifest, sourceSeen, moments>> /\ Untouched

\* The last checks, and the guard commits.
FinishHolds ==
    /\ counted = Cardinality(DOMAIN manifest) /\ source_unchanged
    /\ revalidate_trusted_cache_path(Final, made[1]) /\ require_root_unchanged

FinishCopy ==
    /\ stage = "validating" /\ steps = <<>> /\ FinishHolds
    /\ Goes("validating", "held")
    /\ UNCHANGED <<todo, made, copyVars>> /\ Untouched

ValidationFails ==
    /\ stage = "validating"
    /\ IF steps # <<>> THEN ~ValidationHolds(Head(steps)) ELSE ~FinishHolds
    /\ Abandon

(***************************************************************************)
(* cleanup: one attempt, with plans of its own for what the build left in  *)
(* the workspace (modes are not compared, directories are made accessible  *)
(* first), then the directory itself through TrustedCache.                 *)
(***************************************************************************)
\* prepare_for_owned_cleanup: the retained directory is the named one.
MayPrepare ==
    /\ require_root_unchanged /\ Exists(Final)
    /\ same_identity_and_type(made[1], tree[Final]) /\ tree[Final].own /\ tree[Final].here

\* 0700 for every directory on the way.
make_owned_cleanup_directory_accessible(t, dirs) ==
    [p \in DOMAIN t |-> IF p \in dirs /\ t[p].kind = "dir" THEN [t[p] EXCEPT !.mode = "private"]
                                                           ELSE t[p]]

\* A file handle outlives the number of the inode, where there are handles.
observe_cleanup_file_handle(n) == IF Handles THEN <<n.id>> ELSE <<>>

SameHandle(a, b) ==
    observe_cleanup_file_handle(a) # <<>>
      /\ observe_cleanup_file_handle(a) = observe_cleanup_file_handle(b)

require_owned_cleanup_identity(p, n) ==
    /\ Exists(p) /\ same_identity_and_type(n, tree[p]) /\ SameHandle(n, tree[p])
    /\ tree[p].own /\ tree[p].here

open_owned_cleanup_directory(p, n) ==
    tree[p].kind = "dir" /\ require_owned_cleanup_identity(p, n)

open_owned_cleanup_parent_lineage(p) ==
    /\ MayPrepare
    /\ \A q \in DOMAIN plan : IsStrictPrefix(q, p) => /\ Exists(q)
                                                     /\ open_owned_cleanup_directory(q, plan[q])

Lineage(p) == {q \in DOMAIN tree : IsPrefix(Final, q) /\ IsPrefix(q, p)}

\* Tasks on the contents: preflight, revalidation, removal.
OwnedHolds(t) ==
    CASE t.do = "owned plan" ->
           /\ open_owned_cleanup_parent_lineage(t.at) /\ Exists(t.at)
           /\ observe_cleanup_file_handle(tree[t.at]) # <<>>
           /\ tree[t.at].own /\ tree[t.at].here
      [] t.do \in {"owned check", "owned close"} ->
           /\ open_owned_cleanup_parent_lineage(t.at)
           /\ t.at # Final => require_owned_cleanup_identity(t.at, plan[t.at])
           /\ tree[t.at].kind = "dir" => NamesOf(tree, t.at) = NamesOf(plan, t.at)
      [] t.do = "owned remove" ->
           /\ open_owned_cleanup_parent_lineage(t.at) /\ t.at \in DOMAIN plan
           /\ require_owned_cleanup_identity(t.at, plan[t.at])
      [] t.do = "owned unlink" ->
           /\ open_owned_cleanup_parent_lineage(t.at) /\ t.at \in DOMAIN plan
           /\ require_owned_cleanup_identity(t.at, plan[t.at])
           /\ NamesOf(tree, t.at) = {}
      [] OTHER -> TRUE

preflight_owned_workspace_node(p) ==
    /\ tree' = make_owned_cleanup_directory_accessible(tree, Lineage(p))
    /\ plan' = Put(plan, p, tree[p]) /\ recorded' = recorded \cup {tree[p].id}
    /\ Continue(IF tree[p].kind = "dir"
                THEN Append(Tasks("owned plan", p, NamesOf(tree, p)), Task("owned close", p))
                ELSE <<>>)
    /\ UNCHANGED <<fresh, moves, removed>>

revalidate_owned_workspace_node(p) ==
    /\ Continue(IF plan[p].kind = "dir"
                THEN Append(Tasks("owned check", p, NamesOf(plan, p)), Task("owned close", p))
                ELSE <<>>)
    /\ UNCHANGED <<plan, recorded, removed>> /\ Untouched

remove_preflighted_owned_workspace_node(p) ==
    /\ Continue(Append(Tasks("owned remove", p, NamesOf(plan, p)), Task("owned unlink", p)))
    /\ UNCHANGED <<plan, recorded, removed>> /\ Untouched

unlink_owned_workspace_node(p) ==
    /\ tree' = DropEntry(tree, p) /\ fresh' = fresh + 1
    /\ removed' = removed \cup {[id |-> tree[p].id, leased |-> FALSE]}
    /\ Continue(<<>>) /\ UNCHANGED <<plan, recorded, moves>>

OwnedNode ==
    /\ cacheOp = "dispose" /\ stage = "emptying" /\ todo # <<>> /\ OwnedHolds(Head(todo))
    /\ LET t == Head(todo) IN
       \/ t.do = "owned plan" /\ preflight_owned_workspace_node(t.at)
       \/ t.do = "owned check" /\ revalidate_owned_workspace_node(t.at)
       \/ t.do = "owned close" /\ Continue(<<>>) /\ UNCHANGED <<plan, recorded, removed>> /\ Untouched
       \/ t.do = "owned remove" /\ remove_preflighted_owned_workspace_node(t.at)
       \/ t.do = "owned unlink" /\ unlink_owned_workspace_node(t.at)
    /\ UNCHANGED <<cacheOp, stage, rootSeen, targets, entries, made, lease, theirs, copyVars>>

\* remove_owned_workspace_contents: all plans, all checks, then all removals.
remove_owned_workspace_contents ==
    /\ cacheOp = "dispose" /\ stage = "start" /\ MayPrepare
    /\ LET names == NamesOf(tree, Final) IN
       todo' = Tasks("owned plan", Final, names) \o <<Task("owned close", Final)>>
                 \o Tasks("owned check", Final, names) \o <<Task("owned close", Final)>>
                 \o Tasks("owned remove", Final, names)
    /\ tree' = make_owned_cleanup_directory_accessible(tree, {Final})
    /\ stage' = "emptying"
    /\ UNCHANGED <<cacheOp, rootSeen, targets, entries, plan, made, lease, theirs, recorded,
                   removed, copyVars, fresh, moves>>

\* The empty directory goes through remove_trusted_cache_path.
cleanup ==
    /\ cacheOp = "dispose" /\ stage = "emptying" /\ todo = <<>>
    /\ MayPrepare /\ NamesOf(tree, Final) = {} /\ inspect_cache_child(Final, "ExistingDirectory")
    /\ stage' = "removing" /\ plan' = <<>>
    /\ todo' = <<Task("plan", Final), Task("keep", Final), Task("remove", Final)>>
    /\ UNCHANGED <<cacheOp, rootSeen, targets, entries, made, lease, theirs, recorded, removed,
                   copyVars>>
    /\ Untouched

CleanupFinished ==
    /\ cacheOp = "dispose" /\ stage = "removing" /\ todo = <<>> /\ stage' = "done"
    /\ UNCHANGED <<cacheOp, rootSeen, targets, entries, todo, plan, made, lease, theirs, recorded,
                   removed, copyVars>>
    /\ Untouched

\* CleanupAttempted: the workspace is reported and never tried again.
CleanupFails ==
    /\ cacheOp = "dispose"
    /\ \/ stage = "start" /\ ~MayPrepare
       \/ /\ stage = "emptying"
          /\ IF todo # <<>> THEN ~OwnedHolds(Head(todo))
             ELSE ~(/\ MayPrepare /\ NamesOf(tree, Final) = {}
                    /\ inspect_cache_child(Final, "ExistingDirectory"))
    /\ Throw /\ UNCHANGED copyVars

SourceForeign(touch) ==
    /\ Foreign(touch, Pins \cup {sourceSeen.ino}) /\ UNCHANGED <<cacheVars, steps, manifest, sourceSeen, counted>>
    /\ moments' = IF stage \in {"copying", "validating"} THEN moments \cup {Content(SourceRoot)'}
                                                         ELSE moments

CopyIdle ==
    /\ steps = <<>> /\ manifest = <<>> /\ counted = 0 /\ moments = {}

WorkspaceStep ==
    \/ materialize_local_source_workspace \/ CopyNode \/ CopyFails \/ BeginValidation
    \/ ValidateNode \/ ValidationFails \/ FinishCopy \/ remove_owned_workspace_contents
    \/ OwnedNode \/ cleanup \/ CleanupFinished \/ CleanupFails

(***************************************************************************)
(* One operation on the cache, from any tree, next to everything else the  *)
(* user runs.                                                              *)
(***************************************************************************)
WorkspaceInit ==
    /\ TreeOK /\ Exists(CacheRoot) /\ CacheIdle /\ CopyIdle
    /\ cacheOp \in {"clean", "create", "copy", "dispose"}
    /\ IF cacheOp = "dispose" THEN Exists(Final) /\ made = <<tree[Final]>> ELSE made = <<>>
    /\ sourceSeen \in Nodes

WorkspaceForeign ==
    \/ /\ cacheOp \in {"clean", "create"} /\ UNCHANGED copyVars
       /\ \/ CacheForeign(DOMAIN tree) \/ TheirRelease
          \/ \E p \in ChildrenOf(tree, CacheRoot) : TheirLease(p)
    \/ cacheOp \in {"copy", "dispose"} /\ SourceForeign(DOMAIN tree)

WorkspaceNext == (CacheNext /\ UNCHANGED copyVars) \/ WorkspaceStep \/ WorkspaceForeign

workspaceVars == <<tree, fresh, moves, cacheVars, copyVars>>

WorkspaceSpec == WorkspaceInit /\ [][WorkspaceNext]_workspaceVars

(***************************************************************************)
(* Property                                                                *)
(***************************************************************************)
\* A workspace that materialize_local_source_workspace hands out is what the
\* source directory held at one single moment of the copy: entries that were
\* read at different times, while the user edits, adds and removes files,
\* never end up side by side in the copy that is built.
SnapshotIsConsistent ==
    stage = "held" =>
       [r \in DOMAIN manifest |->
           [kind |-> manifest[r].to.kind,
            data |-> IF manifest[r].to.kind = "dir" THEN 0 ELSE manifest[r].to.data]]
         \in {[r \in DOMAIN m \ {<<>>} |-> m[r]] : m \in moments}
=============================================================================
