---------------------------- MODULE UserDirectory ---------------------------
(***************************************************************************)
(* xdg_paths.cpp and xdg_directory_safety.cpp: how an invocation finds,    *)
(* makes and holds a directory of its user, and the lock it takes there,   *)
(* as source_preference.cpp and local_patch_association.cpp take it; and   *)
(* xdg_state_log.cpp, the client that needs no lock.                       *)
(*                                                                         *)
(* Names: 5 is .config, 1 the application, 1 and 2 below it sources.d and  *)
(* patches.d.  XDG_CONFIG_HOME, when it is set, is HOME/.config.           *)
(***************************************************************************)
EXTENDS DirectoryTree

CONSTANTS Home,        \* the path of HOME
          Invokers     \* invocations of moguet

VARIABLES u,           \* invocation -> what it does and holds
          records,     \* data of a record we wrote -> what the record says
          destroyed    \* what our unlinks took away, and what was known of it

userVars == <<u, records, destroyed>>

Alter(i, r) == u' = [u EXCEPT ![i] = r]

\* An invocation before its first step.
Invocation(op, store, env) ==
    [op |-> op, store |-> store, env |-> env, st |-> "start", out |-> "none",
     create |-> store = "log", want |-> "SH", next |-> "inspect", held |-> <<>>, seenDir |-> <<>>,
     made |-> FALSE, lock |-> "none", entry |-> <<>>, temp |-> <<>>, published |-> FALSE,
     content |-> <<>>, draft |-> <<>>, previous |-> <<>>, files |-> <<>>, root |-> <<>>, whole |-> FALSE]

\* The next stage, with nothing but u changed.
Moves(i, st) == Alter(i, [u[i] EXCEPT !.st = st])
Looks == Untouched /\ UNCHANGED <<records, destroyed>>

Halt(i, out) == [u[i] EXCEPT !.st = "end", !.out = out, !.lock = "none"]

\* An operation that throws: a lock goes with its descriptor, and a
\* temporary that was not published is taken back.
Fail(i) == IF u[i].temp # <<>> /\ ~u[i].published
           THEN [u[i] EXCEPT !.st = "unwind"]
           ELSE Halt(i, IF u[i].published THEN "uncertain" ELSE "failed")

(***************************************************************************)
(* Paths                                                                   *)
(***************************************************************************)
Config == 5
Application == 1

\* An absolute path without dots, or nothing.
require_absolute_base_path(value) == value # "malformed"

\* [anchor, components]: what must exist, and what may be made below it.
resolve_base_directory(env) ==
    IF env.xdg \notin {"unset", "empty"}
    THEN IF require_absolute_base_path(env.xdg)
         THEN <<[anchor |-> Append(Home, Config), components |-> <<>>]>> ELSE <<>>
    ELSE IF env.home \notin {"unset", "empty"} /\ require_absolute_base_path(env.home)
         THEN <<[anchor |-> Home, components |-> <<Config>>]>> ELSE <<>>

\* sources.d and patches.d lie below the application's own directory.
make_creation_boundary(base, leaf) ==
    [base EXCEPT !.components = base.components \o <<Application>> \o leaf]

StoreLeaf(store) == IF store = "log" THEN <<>> ELSE IF store = "sources.d" THEN <<1>> ELSE <<2>>

StoreDirectory(store) == Home \o <<Config, Application>> \o StoreLeaf(store)

\* The boundary must name the directory that the store expects.
validate_creation_boundary(boundary, store) ==
    /\ boundary.anchor \o boundary.components = StoreDirectory(store)
    /\ Len(boundary.components) > Len(StoreLeaf(store))

(***************************************************************************)
(* Directories.  The lineage is the sequence of directories an invocation  *)
(* holds open, each with the status it had; a descriptor of a directory    *)
(* whose name is gone shows only that the name is not it.                  *)
(***************************************************************************)
same_filesystem_identity(n, m) == n.ino = m.ino /\ n.kind = m.kind

validate_directory_security(n, was_created, requires_private_mode) ==
    /\ n.own /\ n.mode \in {"private", "plain"}
    /\ was_created \/ requires_private_mode => n.mode = "private"

require_retained_lineage_unchanged(held) ==
    \A k \in DOMAIN held :
        /\ Exists(held[k].at) /\ tree[held[k].at].kind = "dir"
        /\ same_filesystem_identity(held[k].node, tree[held[k].at])
        /\ validate_directory_security(tree[held[k].at], FALSE, held[k].private)

\* PreparedDirectory::require_unchanged_directory: the lineage once more, and
\* the directory itself in its parent.
require_unchanged_directory(i) ==
    Len(u[i].held) >= 2 /\ require_retained_lineage_unchanged(u[i].held)

RetainedDirectory(p, private) == [at |-> p, node |-> tree[p], private |-> private]

open_existing_anchor(i) ==
    LET boundary == make_creation_boundary(resolve_base_directory(u[i].env)[1], StoreLeaf(u[i].store)) IN
    /\ u[i].st = "start"
    /\ Looks
    /\ IF /\ resolve_base_directory(u[i].env) # <<>>
          /\ validate_creation_boundary(boundary, u[i].store)
          /\ Exists(boundary.anchor) /\ tree[boundary.anchor].kind = "dir"
          /\ validate_directory_security(tree[boundary.anchor], FALSE, FALSE)
       THEN Alter(i, [u[i] EXCEPT !.st = "walk", !.held = <<RetainedDirectory(boundary.anchor, FALSE)>>])
       ELSE Alter(i, Halt(i, "failed"))

\* The next component below what is held.
Component(i) == Append(Last(u[i].held).at, StoreDirectory(u[i].store)[Len(Last(u[i].held).at) + 1])

IsFinal(i) == Component(i) = StoreDirectory(u[i].store)

\* The log's directory may be readable by others, a store's may not.
RequiresPrivate(i) == IsFinal(i) /\ u[i].store # "log"

inspect_managed_component(i) == Exists(Component(i))

\* Missing: an operation that only reads reports it, the others may make it.
InspectComponent(i) ==
    /\ u[i].st = "walk" /\ Looks
    /\ IF inspect_managed_component(i)
       THEN Alter(i, [u[i] EXCEPT !.st = "opening", !.seenDir = <<tree[Component(i)]>>, !.made = FALSE])
       ELSE IF require_retained_lineage_unchanged(u[i].held)
            THEN Moves(i, IF u[i].create THEN "making" ELSE "absent")
            ELSE Alter(i, Halt(i, "failed"))

MakeComponent(i) ==
    /\ u[i].st = "making" /\ UNCHANGED <<moves, records, destroyed>>
    /\ IF Exists(Component(i))
       THEN Alter(i, [u[i] EXCEPT !.st = "made", !.made = FALSE]) /\ UNCHANGED <<tree, fresh>>
       ELSE \/ /\ Exists(Last(u[i].held).at)
               /\ tree' = AddEntry(tree, Component(i), Made("dir", "private", 0))
               /\ fresh' = fresh + 1 /\ Alter(i, [u[i] EXCEPT !.st = "made", !.made = TRUE])
            \/ Alter(i, Halt(i, "failed")) /\ UNCHANGED <<tree, fresh>>

\* prepare_directory_state: observe what is there after the mkdirat.
ObserveMade(i) ==
    /\ u[i].st = "made" /\ Looks
    /\ IF inspect_managed_component(i)
       THEN Alter(i, [u[i] EXCEPT !.st = "opening", !.seenDir = <<tree[Component(i)]>>])
       ELSE Alter(i, Halt(i, "failed"))

\* Opened, the descriptor and the name show what was observed.
open_observed_directory(i) ==
    LET p == Component(i) IN
    /\ Exists(p) /\ tree[p].kind = "dir" /\ same_filesystem_identity(u[i].seenDir[1], tree[p])
    /\ validate_directory_security(tree[p], u[i].made, RequiresPrivate(i))

\* The component is kept.  The last one completes the directory, which is
\* adopted only when the whole lineage still holds.
AdoptComponent(i) ==
    LET held == Append(u[i].held, RetainedDirectory(Component(i), RequiresPrivate(i))) IN
    /\ u[i].st = "opening" /\ Looks
    /\ IF /\ validate_directory_security(u[i].seenDir[1], u[i].made, RequiresPrivate(i))
          /\ open_observed_directory(i)
          /\ IsFinal(i) => require_retained_lineage_unchanged(held)
       THEN Alter(i, [u[i] EXCEPT !.held = held, !.seenDir = <<>>,
                                  !.st = IF IsFinal(i) THEN "lock" ELSE "walk"])
       ELSE Alter(i, Halt(i, "failed"))

DirectoryOf(i) == Last(u[i].held).at

\* Both stores take the flock of their directory, then look at it again.
lock_source_preference_directory(i) ==
    /\ u[i].st = "lock" /\ Looks
    /\ ~ \E j \in Invokers \ {i} :
          /\ u[j].lock # "none" /\ Last(u[j].held).node.id = Last(u[i].held).node.id
          /\ "EX" \in {u[i].want, u[j].lock}
    /\ IF require_unchanged_directory(i)
       THEN Alter(i, [u[i] EXCEPT !.lock = u[i].want, !.st = u[i].next])
       ELSE Alter(i, Fail(i))

(***************************************************************************)
(* Files in such a directory                                               *)
(***************************************************************************)
\* A regular file of the user with mode 0600.
validate_entry_status(n) == n.kind = "file" /\ n.own /\ n.mode = "private"

\* Same inode, same metadata, same times: all that a status shows.
same_state(n, m) == [n EXCEPT !.id = 0] = [m EXCEPT !.id = 0]

\* As after a rename: the change time is allowed to differ.
same_relocated_state(n, m) == same_state([n EXCEPT !.stamp = 0], [m EXCEPT !.stamp = 0])

\* The file behind a descriptor: what its name shows while it has one,
\* otherwise what was last known of it.
Descriptor(n) ==
    IF \E p \in DOMAIN tree : tree[p].id = n.id
    THEN tree[CHOOSE p \in DOMAIN tree : tree[p].id = n.id] ELSE n

Named(p, n) == Exists(p) /\ same_state(tree[p], n)

TempLeaf(i) == Append(DirectoryOf(i), 20 + i)

\* Names that a listing of a store refuses.
IsResidue(p) == Last(p) > 20

\* Inode numbers that open descriptors keep from being used again.
UserPins == UNION {{u[i].held[k].node.ino : k \in DOMAIN u[i].held}
               \cup {u[i].entry[k].ino : k \in DOMAIN u[i].entry}
               \cup {u[i].temp[k].ino : k \in DOMAIN u[i].temp} : i \in {j \in Invokers : u[j].st # "end"}}

\* An unlink of the name p by i, which knew the content seen (or made it).
Destroy(i, p, ours, seen) ==
    /\ tree' = DropEntry(tree, p)
    /\ destroyed' = destroyed \cup {[ours |-> ours, data |-> tree[p].data, seen |-> seen]}

\* Exchange of two names: both files keep all but their change time.
Exchanged(p, q) ==
    EntriesChanged(Put(Put(tree, q, [tree[p] EXCEPT !.stamp = fresh]), p, [tree[q] EXCEPT !.stamp = fresh]), Front(p))

Relocated(p, q) ==
    EntriesChanged(Put(Without(tree, p), q, [tree[p] EXCEPT !.stamp = fresh]), Front(q))

\* A temporary that was never published is removed while it is still ours.
RemoveTemp(i) ==
    /\ u[i].st = "unwind" /\ Alter(i, Halt(i, "failed")) /\ UNCHANGED <<moves, records>>
    /\ IF Exists(TempLeaf(i)) /\ same_state(tree[TempLeaf(i)], Descriptor(u[i].temp[1]))
       THEN Destroy(i, TempLeaf(i), tree[TempLeaf(i)].id = u[i].temp[1].id, {}) /\ fresh' = fresh + 1
       ELSE UNCHANGED <<tree, fresh, destroyed>>

\* The process is killed: its lock goes, its files stay.
Kill(i) ==
    /\ u[i].st \notin {"end", "start"} /\ moves < MaxForeign
    /\ moves' = moves + 1 /\ Alter(i, Halt(i, "killed"))
    /\ UNCHANGED <<tree, fresh, records, destroyed>>

PrepareDirectory(i) ==
    \/ open_existing_anchor(i) \/ InspectComponent(i) \/ MakeComponent(i)
    \/ ObserveMade(i) \/ AdoptComponent(i)

(***************************************************************************)
(* The state log.  Its entry is the open file; records are appended only   *)
(* after the name and the descriptor agree.                                *)
(***************************************************************************)
LogFile(i) == Append(DirectoryOf(i), 9)

validate_log_file_status(n) == n.kind = "file" /\ n.own /\ n.mode = "private"

\* StateLogDirectoryAccess: a descriptor of its own for the directory.
DuplicateDirectory(i) ==
    /\ u[i].st = "lock" /\ u[i].store = "log" /\ Looks
    /\ IF require_unchanged_directory(i) THEN Moves(i, "log open") ELSE Alter(i, Fail(i))

open_existing_log_file(i) ==
    /\ u[i].st = "log open" /\ Exists(LogFile(i)) /\ Looks
    /\ IF validate_log_file_status(tree[LogFile(i)])
       THEN Alter(i, [u[i] EXCEPT !.st = "log check", !.entry = <<tree[LogFile(i)]>>])
       ELSE Alter(i, Fail(i))

\* With O_EXCL: a file that appears meanwhile is opened as an existing one.
create_log_file(i) ==
    /\ u[i].st = "log open" /\ ~Exists(LogFile(i)) /\ UNCHANGED <<moves, records, destroyed>>
    /\ \/ /\ Exists(DirectoryOf(i))
          /\ tree' = AddEntry(tree, LogFile(i), Made("file", "private", 0)) /\ fresh' = fresh + 1
          /\ Alter(i, [u[i] EXCEPT !.st = "log check", !.entry = <<tree'[LogFile(i)]>>])
       \/ Alter(i, Fail(i)) /\ UNCHANGED <<tree, fresh>>

\* The name still is the file that was opened.
revalidate_log_name(i) ==
    /\ Exists(LogFile(i)) /\ same_filesystem_identity(u[i].entry[1], tree[LogFile(i)])
    /\ validate_log_file_status(tree[LogFile(i)])

\* StateLogFileAccess: the file, its name and the directory agree.
OpenStateLog(i) ==
    /\ u[i].st = "log check" /\ Looks
    /\ IF revalidate_log_name(i) /\ require_unchanged_directory(i)
       THEN Moves(i, "log write") ELSE Alter(i, Fail(i))

\* The log holds its directory and not the lineage above it.
validate_retained_directory(i) ==
    Exists(DirectoryOf(i)) /\ validate_directory_security(tree[DirectoryOf(i)], FALSE, FALSE)

append_record_for_logger(i) ==
    /\ u[i].st = "log write" /\ UNCHANGED <<moves, records, destroyed>>
    /\ \/ /\ revalidate_log_name(i) /\ validate_retained_directory(i)
          /\ tree' = Changed(tree, LogFile(i), [tree[LogFile(i)] EXCEPT !.data = fresh])
          /\ fresh' = fresh + 1 /\ Alter(i, Halt(i, "ok"))
       \/ Alter(i, Fail(i)) /\ UNCHANGED <<tree, fresh>>

StateLog(i) ==
    \/ DuplicateDirectory(i) \/ open_existing_log_file(i) \/ create_log_file(i)
    \/ OpenStateLog(i) \/ append_record_for_logger(i)
=============================================================================
