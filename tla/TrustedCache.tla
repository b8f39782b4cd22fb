---------------------------- MODULE TrustedCache ----------------------------
(***************************************************************************)
(* trusted_cache.cpp: the directory that holds checkouts and workspaces.   *)
(* Its operations, while other processes of the same user work in it:      *)
(*                                                                         *)
(*   clean   list every entry, plan its removal node by node, ask the      *)
(*           user, check every plan again, remove what was planned         *)
(*   create  make a private directory under a temporary name, publish it   *)
(*           under its own, let a guard remove it unless the caller        *)
(*           (a clone, a copy) commits                                     *)
(*                                                                         *)
(* The recursive walks are a stack of tasks, so that other processes act   *)
(* between any two nodes.  The checks of one node and the unlinkat that    *)
(* follows them are one step: the window between those calls is the        *)
(* kernel's, the code has nothing smaller than it.                         *)
(***************************************************************************)
EXTENDS DirectoryTree

CONSTANTS CacheRoot,    \* the path of the cache directory
          NewLeaf,      \* the name a caller creates
          StageLeaf,    \* the temporary name of mkdtemp
          Handles       \* whether the file system gives file handles

ASSUME CacheAssumption ==
    CacheRoot \in Seq(Nat) /\ NewLeaf \in Nat /\ StageLeaf \in Nat /\ Handles \in BOOLEAN

VARIABLES cacheOp,      \* "clean", "create", "none"
          stage,        \* where the operation is
          rootSeen,     \* the retained identity of the cache directory
          targets,      \* entries still to be visited in this stage
          entries,      \* entries that have a plan
          todo,         \* stack of tasks of the recursive walk
          plan,         \* path -> node recorded by preflight
          made,         \* <<>> or the status of the directory we created, then
                        \* of the one the guard retains
          lease,        \* <<>> or the entry being visited: its status and
                        \* whether it is under our flock
          theirs,       \* ids of directories under the flock of another Moguet
          recorded,     \* ids of all objects a preflight has recorded
          removed       \* [id, leased] of every object unlinked by a walk

cacheVars == <<cacheOp, stage, rootSeen, targets, entries, todo, plan, made,
               lease, theirs, recorded, removed>>

(***************************************************************************)
(* What a status must satisfy                                              *)
(***************************************************************************)
same_identity_and_type(a, b) == a.kind = b.kind /\ a.ino = b.ino

require_safe_directory_permissions(n) == n.mode \in {"private", "plain"}

require_safe_direct_child_status(n) ==
    /\ n.kind \in {"dir", "file"} /\ n.own /\ n.here /\ n.mode # "shared"
    /\ n.kind = "dir" => require_safe_directory_permissions(n)

require_safe_removal_node_status(n) ==
    /\ n.here /\ n.own /\ n.kind \in {"dir", "file", "link"}
    /\ n.kind # "link" => n.mode # "shared"
    /\ n.kind = "dir" => require_safe_directory_permissions(n)

\* The retained descriptors and the names of the whole lineage agree.
require_root_unchanged ==
    /\ Exists(CacheRoot)
    /\ LET r == tree[CacheRoot] IN
       same_identity_and_type(r, rootSeen) /\ r.own /\ require_safe_directory_permissions(r)

Leaf(name) == Append(CacheRoot, name)

\* A name is one component below the root; Missing names do not exist, and
\* the others are safe direct children.
validated_child_leaf(p) == Len(p) = Len(CacheRoot) + 1 /\ IsPrefix(CacheRoot, p)

inspect_cache_child(p, requirement) ==
    /\ require_root_unchanged /\ validated_child_leaf(p)
    /\ IF Exists(p)
       THEN /\ requirement # "Missing" /\ require_safe_direct_child_status(tree[p])
            /\ requirement = "ExistingDirectory" => tree[p].kind = "dir"
       ELSE requirement \notin {"Existing", "ExistingDirectory"}

require_same_cache_path_identity(expected, now) ==
    same_identity_and_type(expected, now) /\ expected.mode = now.mode /\ now.own

\* The same path, validated once more under its identity.
revalidate_trusted_cache_path(p, expected) ==
    /\ inspect_cache_child(p, "ExistingDirectory")
    /\ require_same_cache_path_identity(expected, tree[p])

open_validated_child_directory(p, expected) == revalidate_trusted_cache_path(p, expected)

(***************************************************************************)
(* Removal plans.  The generation of a node is its file handle, asked for  *)
(* first as a file identity and, where the kernel refuses that, in the     *)
(* standard form; without handles nothing is removed.                      *)
(***************************************************************************)
\* Mutant: a name with the right inode number is taken for the object.
Mutant_observe_removal_generation(n) == 0

observe_removal_generation(n) == n.id

require_expected_removal_node_status(node, now) ==
    /\ same_identity_and_type(node, now) /\ now.here /\ now.own
    /\ require_safe_removal_node_status(now) /\ node.mode = now.mode

require_named_removal_node_identity(p, node) ==
    /\ Exists(p) /\ require_expected_removal_node_status(node, tree[p]) /\ Handles
    /\ observe_removal_generation(tree[p]) = observe_removal_generation(node)

open_verified_removal_node(p) ==
    p \in DOMAIN plan /\ require_named_removal_node_identity(p, plan[p])

directory_entry_names(p) == NamesOf(tree, p)

require_removal_directory_inventory(p) == directory_entry_names(p) = NamesOf(plan, p)

\* Every directory from the cache root down to the parent of p is as planned.
open_removal_parent_lineage(p) ==
    /\ require_root_unchanged
    /\ \A q \in DOMAIN plan : IsStrictPrefix(q, p) => open_verified_removal_node(q)

Tasks(kind, p, names) == [i \in 1..Cardinality(names) |->
                            [do |-> kind, at |-> Append(p, InOrder(names)[i])]]

Task(kind, p) == [do |-> kind, at |-> p]

\* The walk goes on with more, then with the rest of the stack.
Continue(more) == todo' = more \o Tail(todo)

\* preflight_removal_node: record the node, then its children, then look at
\* the node again.
MayRecord(p) == Exists(p) /\ require_safe_removal_node_status(tree[p]) /\ Handles

preflight_removal_node(p) ==
    /\ MayRecord(p)
    /\ plan' = Put(plan, p, tree[p]) /\ recorded' = recorded \cup {tree[p].id}
    /\ Continue(IF tree[p].kind = "dir"
                THEN Append(Tasks("plan", p, directory_entry_names(p)), Task("close", p))
                ELSE <<>>)
    /\ UNCHANGED removed /\ Untouched

\* The end of a directory, in preflight and in revalidation.
AsPlanned(p) ==
    /\ open_verified_removal_node(p)
    /\ plan[p].kind = "dir" => require_removal_directory_inventory(p)

close_removal_node(p) ==
    AsPlanned(p) /\ Continue(<<>>) /\ UNCHANGED <<plan, recorded, removed>> /\ Untouched

revalidate_removal_node(p) ==
    /\ AsPlanned(p)
    /\ Continue(IF plan[p].kind = "dir"
                THEN Append(Tasks("check", p, NamesOf(plan, p)), Task("close", p))
                ELSE <<>>)
    /\ UNCHANGED <<plan, recorded, removed>> /\ Untouched

\* remove_removal_node, on the way in: the lineage, the whole subtree, the
\* children.
remove_removal_node(p) ==
    /\ open_removal_parent_lineage(p)
    /\ Continue(<<Task("check", p)>> \o Tasks("remove", p, NamesOf(plan, p))
                   \o <<Task("unlink", p)>>)
    /\ UNCHANGED <<plan, recorded, removed>> /\ Untouched

\* remove_removal_node, on the way out.
MayUnlink(p) ==
    /\ open_removal_parent_lineage(p) /\ open_verified_removal_node(p)
    /\ plan[p].kind = "dir" => directory_entry_names(p) = {}

TopOf(p) == tree[SubSeq(p, 1, Len(CacheRoot) + 1)]

unlink_removal_node(p) ==
    /\ MayUnlink(p)
    /\ tree' = DropEntry(tree, p)
    /\ fresh' = fresh + 1
    /\ removed' = removed \cup {[id |-> tree[p].id, leased |-> TopOf(p).id \in theirs]}
    /\ Continue(<<>>) /\ UNCHANGED <<plan, recorded, moves>>

\* make_removal_plan ends: the plan is of the path that was inspected.
MayKeepPlan(p) ==
    p \in DOMAIN plan /\
    same_identity_and_type(plan[p], IF cacheOp = "clean" THEN lease[1].node ELSE made[1])

keep_plan(p) == MayKeepPlan(p) /\ Continue(<<>>) /\ UNCHANGED <<plan, recorded, removed>> /\ Untouched

\* One node of the recursive walk.
WalkNode ==
    /\ todo # <<>>
    /\ LET t == Head(todo) IN
       \/ t.do = "plan"   /\ preflight_removal_node(t.at)
       \/ t.do = "close"  /\ close_removal_node(t.at)
       \/ t.do = "check"  /\ revalidate_removal_node(t.at)
       \/ t.do = "remove" /\ remove_removal_node(t.at)
       \/ t.do = "unlink" /\ unlink_removal_node(t.at)
       \/ t.do = "keep"   /\ keep_plan(t.at)
    /\ UNCHANGED <<cacheOp, stage, rootSeen, targets, entries, made, lease, theirs>>

\* A TrustedCacheError: the operation ends, its lease with it.
Throw ==
    /\ stage' = "failed" /\ lease' = <<>> /\ todo' = <<>> /\ targets' = <<>>
    /\ UNCHANGED <<cacheOp, rootSeen, entries, plan, made, theirs, recorded, removed>>
    /\ Untouched

\* What was planned is still what is under the lease.
MayRelease(p) ==
    stage = "plan" /\ lease[1].locked =>
       /\ open_verified_removal_node(p)
       /\ observe_removal_generation(plan[p]) = observe_removal_generation(lease[1].node)

WalkFails ==
    /\ todo # <<>>
    /\ LET t == Head(todo) IN
       ~CASE t.do = "plan" -> MayRecord(t.at)
          [] t.do \in {"close", "check"} -> AsPlanned(t.at)
          [] t.do = "remove" -> open_removal_parent_lineage(t.at)
          [] t.do = "unlink" -> MayUnlink(t.at)
          [] t.do = "keep" -> MayKeepPlan(t.at)
          [] t.do = "release" -> MayRelease(t.at)
          [] OTHER -> TRUE
    /\ Throw

(***************************************************************************)
(* clean: cmd_clean, preflight_cache_cleanup, remove_preflighted_cache_paths*)
(***************************************************************************)
Steady == UNCHANGED <<cacheOp, rootSeen, made, theirs, recorded, removed>> /\ Untouched

preflight_cache_cleanup ==
    /\ cacheOp = "clean" /\ stage = "start"
    /\ require_root_unchanged
    /\ targets' = InOrder(directory_entry_names(CacheRoot))
    /\ stage' = "plan"
    /\ UNCHANGED <<entries, todo, plan, lease>> /\ Steady

\* The flock of an entry that is a directory, taken without waiting; files
\* have none.  What is under the lock is what the name still says.
LeaseFree(p) == tree[p].kind = "dir" => tree[p].id \notin theirs

acquire_removal_lease(p) ==
    /\ require_root_unchanged /\ Exists(p) /\ LeaseFree(p)
    /\ require_safe_direct_child_status(tree[p])
    /\ lease' = <<[node |-> tree[p], locked |-> tree[p].kind = "dir"]>>

make_removal_plan(p) ==
    inspect_cache_child(p, IF tree[p].kind = "dir" THEN "ExistingDirectory" ELSE "Existing")

Work == [plan |-> <<"plan", "keep", "release">>, check |-> <<"check", "release">>,
         remove |-> <<"remove", "release">>]

\* The next entry of a stage: inspected when it is planned, compared with
\* its plan when it is checked and when it is removed.
MayTakeTarget ==
    LET p == Leaf(Head(targets)) IN
    /\ require_root_unchanged /\ Exists(p) /\ LeaseFree(p)
    /\ require_safe_direct_child_status(tree[p])
    /\ IF stage = "plan" THEN make_removal_plan(p) ELSE open_verified_removal_node(p)

TakeTarget ==
    /\ cacheOp = "clean" /\ stage \in DOMAIN Work
    /\ targets # <<>> /\ todo = <<>>
    /\ MayTakeTarget
    /\ LET p == Leaf(Head(targets)) IN
       /\ acquire_removal_lease(p)
       /\ todo' = [i \in DOMAIN Work[stage] |-> Task(Work[stage][i], p)]
    /\ UNCHANGED <<stage, targets, entries, plan>> /\ Steady

TargetRefused ==
    /\ cacheOp = "clean" /\ stage \in DOMAIN Work
    /\ targets # <<>> /\ todo = <<>> /\ ~MayTakeTarget
    /\ Throw

ReleaseTarget ==
    /\ todo # <<>> /\ Head(todo).do = "release" /\ MayRelease(Head(todo).at)
    /\ lease' = <<>> /\ Continue(<<>>) /\ targets' = Tail(targets)
    /\ entries' = IF stage = "plan" THEN Append(entries, Head(targets)) ELSE entries
    /\ UNCHANGED <<stage, plan>> /\ Steady

StageDone(st) == cacheOp = "clean" /\ stage = st /\ targets = <<>> /\ todo = <<>>

\* Every entry is planned; with nothing to remove nobody is asked.
PlansComplete ==
    /\ StageDone("plan") /\ require_root_unchanged
    /\ stage' = IF entries = <<>> THEN "done" ELSE "confirm"
    /\ UNCHANGED <<targets, entries, todo, plan, lease>> /\ Steady

\* Every plan belongs to the root that is to be cleaned.
require_cleanup_root_lineage == \A p \in DOMAIN plan : IsStrictPrefix(CacheRoot, p)

cmd_clean(accepted) ==
    /\ cacheOp = "clean" /\ stage = "confirm"
    /\ accepted => require_cleanup_root_lineage /\ require_root_unchanged
    /\ stage' = IF accepted THEN "check" ELSE "done"
    /\ targets' = IF accepted THEN entries ELSE <<>>
    /\ UNCHANGED <<entries, todo, plan, lease>> /\ Steady

\* Every plan held once more before the first node goes.
remove_preflighted_cache_paths ==
    /\ StageDone("check") /\ require_root_unchanged
    /\ stage' = "remove" /\ targets' = entries
    /\ UNCHANGED <<entries, todo, plan, lease>> /\ Steady

CleanDone ==
    /\ StageDone("remove") /\ stage' = "done"
    /\ UNCHANGED <<targets, entries, todo, plan, lease>> /\ Steady

RootRefused ==
    /\ \/ cacheOp = "clean" /\ stage \in {"start", "confirm"}
       \/ StageDone("plan") \/ StageDone("check")
    /\ ~require_root_unchanged
    /\ Throw

(***************************************************************************)
(* create: create_trusted_cache_directory, DirCleanupGuard                 *)
(***************************************************************************)
Final == Leaf(NewLeaf)
Staging == Leaf(StageLeaf)

\* A clone or a fetch ("create"), and the copy of a local source ("copy").
Creates == {"create", "copy"}

Goes(from, to) ==
    /\ cacheOp \in Creates /\ stage = from /\ stage' = to
    /\ UNCHANGED <<cacheOp, rootSeen, targets, entries, plan, lease, theirs, recorded, removed>>

\* mkdtemp in the retained directory.
create_trusted_cache_directory ==
    /\ Goes("start", "made")
    /\ inspect_cache_child(Final, "Missing") /\ ~Exists(Staging)
    /\ tree' = AddEntry(tree, Staging, Made("dir", "private", 0))
    /\ fresh' = fresh + 1 /\ UNCHANGED <<moves, todo, made>>

CreateRefused ==
    /\ cacheOp \in Creates /\ stage = "start"
    /\ ~inspect_cache_child(Final, "Missing")
    /\ Throw

\* The status that identifies the directory from here on.
ReadStaging ==
    /\ stage = "made" /\ Exists(Staging)
    /\ Goes("made", IF /\ require_safe_direct_child_status(tree[Staging])
                       /\ tree[Staging].kind = "dir" /\ tree[Staging].mode = "private"
                    THEN "staged" ELSE "unstage")
    /\ made' = <<tree[Staging]>> /\ UNCHANGED todo /\ Untouched

StagingLost == cacheOp \in Creates /\ stage = "made" /\ ~Exists(Staging) /\ Throw

MayPublish ==
    /\ require_root_unchanged /\ Exists(Staging)
    /\ same_identity_and_type(made[1], tree[Staging])
    /\ require_safe_direct_child_status(tree[Staging]) /\ tree[Staging].mode = "private"
    /\ ~Exists(Final)

\* renameat2 with RENAME_NOREPLACE: the directory and all that is in it.
Rebased(p, from, to) == to \o SubSeq(p, Len(from) + 1, Len(p))

Renamed(from, to) ==
    LET stays == DOMAIN tree \ Beneath(tree, from) IN
    [q \in stays \cup {Rebased(p, from, to) : p \in Beneath(tree, from)} |->
        tree[IF q \in stays THEN q ELSE Rebased(q, to, from)]]

PublishStaging ==
    /\ Goes("staged", "published") /\ MayPublish
    /\ tree' = EntriesChanged(Renamed(Staging, Final), CacheRoot)
    /\ fresh' = fresh + 1 /\ UNCHANGED <<moves, todo, made>>

PublishRefused ==
    Goes("staged", "unstage") /\ ~MayPublish /\ UNCHANGED <<todo, made>> /\ Untouched

RevalidatePublished ==
    /\ Goes("published", IF revalidate_trusted_cache_path(Final, made[1])
                         THEN "created" ELSE "unpublish")
    /\ UNCHANGED <<todo, made>> /\ Untouched

\* An error after mkdtemp: the empty directory goes if it still is the one
\* that was made; anything else stays and is reported.
rollback_staged_cache_directory(p) ==
    LET goes == /\ require_root_unchanged /\ Exists(p)
                /\ same_identity_and_type(made[1], tree[p]) /\ tree[p].kind = "dir"
                /\ tree[p].own /\ tree[p].here /\ tree[p].mode = "private"
                /\ directory_entry_names(p) = {}
    IN /\ tree' = IF goes THEN DropEntry(tree, p) ELSE tree
       /\ fresh' = IF goes THEN fresh + 1 ELSE fresh
       /\ UNCHANGED <<moves, todo, made>>

RollbackStaged ==
    \/ Goes("unstage", "failed") /\ rollback_staged_cache_directory(Staging)
    \/ Goes("unpublish", "failed") /\ rollback_staged_cache_directory(Final)

\* The guard keeps a descriptor of the directory and its mode.
DirCleanupGuard ==
    /\ Goes("created", "guarded") /\ revalidate_trusted_cache_path(Final, made[1])
    /\ made' = <<tree[Final]>>
    /\ UNCHANGED todo /\ Untouched

GuardRefused ==
    /\ cacheOp \in Creates /\ stage = "created"
    /\ ~revalidate_trusted_cache_path(Final, made[1]) /\ Throw

\* The caller fills the directory ...
Fill ==
    /\ cacheOp = "create" /\ Goes("guarded", "guarded")
    /\ Exists(Final) /\ tree[Final].id = made[1].id /\ ~Exists(Append(Final, 1))
    /\ tree' = AddEntry(tree, Append(Final, 1), Made("file", "plain", 1))
    /\ fresh' = fresh + 1 /\ UNCHANGED <<moves, todo, made>>

\* ... and keeps it, or lets the guard go without a commit.
Commit == cacheOp = "create" /\ Goes("guarded", "done") /\ UNCHANGED <<todo, made>> /\ Untouched

MayRollBack ==
    /\ require_root_unchanged /\ inspect_cache_child(Final, "ExistingDirectory")
    /\ same_identity_and_type(made[1], tree[Final]) /\ tree[Final].mode = made[1].mode

rollback_trusted_cache_path ==
    /\ \E from \in {"guarded", "undo"} : Goes(from, "rollback")
    /\ MayRollBack
    /\ todo' = <<Task("plan", Final), Task("keep", Final), Task("check", Final), Task("remove", Final)>>
    /\ UNCHANGED made /\ Untouched

RollbackRefused ==
    /\ cacheOp \in Creates /\ stage \in {"guarded", "undo"} /\ ~MayRollBack /\ Throw

RollbackDone ==
    Goes("rollback", "rolled back") /\ todo = <<>> /\ UNCHANGED <<todo, made>> /\ Untouched

(***************************************************************************)
(* The other Moguet, and everything else the user runs                     *)
(***************************************************************************)
Pins == {rootSeen.ino} \cup {l.node.ino : l \in {k \in Range(lease) : k.locked}}
          \cup (IF stage \in {"staged", "published", "guarded", "undo", "rollback", "copying",
                              "validating", "held"}
                THEN {n.ino : n \in Range(made)} ELSE {})

CacheForeign(touch) ==
    Foreign(touch, Pins) /\ UNCHANGED cacheVars

\* flock excludes what is under our lease.
TheirLease(p) ==
    /\ moves < MaxForeign /\ Exists(p) /\ tree[p].kind = "dir"
    /\ tree[p].id \notin theirs \cup {l.node.id : l \in Range(lease)}
    /\ theirs' = theirs \cup {tree[p].id}
    /\ moves' = moves + 1
    /\ UNCHANGED <<cacheOp, stage, rootSeen, targets, entries, todo, plan, made, lease,
                   recorded, removed, tree, fresh>>

TheirRelease ==
    /\ theirs # {} /\ moves < MaxForeign
    /\ theirs' = {} /\ moves' = moves + 1
    /\ UNCHANGED <<cacheOp, stage, rootSeen, targets, entries, todo, plan, made, lease,
                   recorded, removed, tree, fresh>>

CacheIdle ==
    /\ stage = "start" /\ rootSeen = tree[CacheRoot] /\ targets = <<>> /\ entries = <<>>
    /\ todo = <<>> /\ plan = <<>> /\ lease = <<>> /\ theirs = {}
    /\ recorded = {} /\ removed = {}

CleanStep ==
    \/ preflight_cache_cleanup \/ TakeTarget \/ TargetRefused \/ ReleaseTarget
    \/ PlansComplete \/ (\E yes \in BOOLEAN : cmd_clean(yes))
    \/ remove_preflighted_cache_paths \/ CleanDone \/ RootRefused

CreateStep ==
    \/ create_trusted_cache_directory \/ CreateRefused \/ ReadStaging \/ StagingLost
    \/ PublishStaging \/ PublishRefused \/ RevalidatePublished \/ RollbackStaged
    \/ DirCleanupGuard \/ GuardRefused \/ Fill \/ Commit \/ rollback_trusted_cache_path
    \/ RollbackRefused \/ RollbackDone

CacheNext == WalkNode \/ WalkFails \/ CleanStep \/ CreateStep

(***************************************************************************)
(* Property                                                                *)
(***************************************************************************)
\* The recursive removals of trusted_cache.cpp unlink only objects that
\* preflight recorded, although names are replaced, inode numbers are used
\* again and entries appear between preflight, the user's answer and the
\* removal; an entry that another Moguet has under its flock is not cleaned,
\* and a rollback removes only the directory its guard retains.
RemovesOnlyPlanned ==
    /\ {r.id : r \in removed} \subseteq recorded
    /\ cacheOp = "clean" => \A r \in removed : ~r.leased
    /\ stage = "rolled back" => plan[Final].id = made[1].id
=============================================================================
