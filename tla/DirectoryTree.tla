--------------------------- MODULE DirectoryTree ---------------------------
(***************************************************************************)
(* A directory tree as the code that owns workspaces and caches sees it,   *)
(* and what other processes of the same user may do to it between two of   *)
(* its system calls.  A path is a sequence of names, a name a number whose *)
(* order is the order of sorted directory listings.  A node has            *)
(*                                                                         *)
(*   id     the object, never used again: what a file handle tells apart   *)
(*   ino    the inode number, used again once its object is gone and no    *)
(*          descriptor holds it                                            *)
(*   kind   "dir", "file", "link" or "other"                               *)
(*   own    whether it belongs to the effective user                       *)
(*   mode   "private" (0700), "plain" (what a umask of 022 gives),         *)
(*          "closed" (the owner lacks a permission), "shared" (writable by *)
(*          others)                                                        *)
(*   here   whether it lies on the device of the root                      *)
(*   data   what it holds: the content of a file, the target of a link     *)
(*   stamp  its change time, a fresh number for every change               *)
(***************************************************************************)
EXTENDS Naturals, Sequences, FiniteSets, TLC, SequencesExt

CONSTANT MaxForeign   \* how many steps other processes take

VARIABLES tree,       \* path -> node, for every path that exists
          fresh,      \* the next number for an object or a change
          moves       \* foreign steps so far

Exists(p) == p \in DOMAIN tree

ChildrenOf(t, p) == {q \in DOMAIN t : Len(q) = Len(p) + 1 /\ IsPrefix(p, q)}

NamesOf(t, p) == {Last(q) : q \in ChildrenOf(t, p)}

Beneath(t, p) == {q \in DOMAIN t : IsPrefix(p, q)}

\* A set of names in the order in which the code visits them.
InOrder(names) == SetToSortSeq(names, LAMBDA a, b : a < b)

Without(t, p) == [q \in DOMAIN t \ Beneath(t, p) |-> t[q]]

Put(t, p, n) == [q \in {p} \cup DOMAIN t |-> IF q = p THEN n ELSE t[q]]

\* The object at p changes: every change leaves its time.
Changed(t, p, n) == Put(t, p, [n EXCEPT !.stamp = fresh])

\* The entries of the directory p change, and with them its change time.
EntriesChanged(t, p) == IF p \in DOMAIN t THEN Changed(t, p, t[p]) ELSE t

\* An object made now, by us or by another process.
Made(kind, mode, data) ==
    [id |-> fresh, ino |-> fresh, kind |-> kind, own |-> TRUE, mode |-> mode,
     here |-> TRUE, data |-> data, stamp |-> fresh]

AddEntry(t, p, n) == EntriesChanged(Put(t, p, n), Front(p))

DropEntry(t, p) == EntriesChanged(Without(t, p), Front(p))

(***************************************************************************)
(* Other processes.  A replacement may get the inode number of the object  *)
(* it replaces, unless a descriptor in pins still holds that number.       *)
(***************************************************************************)
Replacements(p, pins) ==
    {[Made(kind, "private", 0) EXCEPT !.ino = i] :
        kind \in {tree[p].kind, "file"},
        i \in {fresh} \cup ({tree[p].ino} \ pins)}

Removals(touch) == {DropEntry(tree, p) : p \in touch}

Swaps(touch, pins) ==
    UNION {{AddEntry(Without(tree, p), p, n) : n \in Replacements(p, pins)} : p \in touch}

Edits(touch) ==
    {Changed(tree, p, [tree[p] EXCEPT !.data = fresh]) : p \in {q \in touch : tree[q].kind = "file"}}

Exposures(touch) == {Changed(tree, p, [tree[p] EXCEPT !.mode = "shared"]) : p \in touch}

Additions(touch) ==
    {AddEntry(tree, Append(p, 9), Made("file", "plain", 0)) :
        p \in {q \in touch : tree[q].kind = "dir" /\ ~Exists(Append(q, 9))}}

ForeignResults(touch, pins) ==
    Removals(touch) \cup Swaps(touch, pins) \cup Edits(touch) \cup Exposures(touch) \cup Additions(touch)

\* touch: the paths other processes reach.
Foreign(touch, pins) ==
    /\ moves < MaxForeign
    /\ tree' \in ForeignResults(touch \cap DOMAIN tree, pins)
    /\ moves' = moves + 1
    /\ fresh' = fresh + 1

Untouched == UNCHANGED <<tree, fresh, moves>>

(***************************************************************************)
(* A tree in which every path is a sequence of names, every object has an  *)
(* identity and an inode number of its own, and fresh numbers are new.     *)
(***************************************************************************)
Nodes ==
    [id : Nat, ino : Nat, kind : {"dir", "file", "link", "other"}, own : BOOLEAN,
     mode : {"private", "plain", "closed", "shared"}, here : BOOLEAN, data : Nat, stamp : Nat]

TreeOK ==
    /\ DOMAIN tree \subseteq Seq(Nat) /\ IsFiniteSet(DOMAIN tree)
    /\ tree \in [DOMAIN tree -> Nodes] /\ fresh \in Nat
    /\ \A p \in DOMAIN tree : tree[p].id < fresh /\ tree[p].ino < fresh
    /\ \A p, q \in DOMAIN tree : p # q => tree[p].id # tree[q].id /\ tree[p].ino # tree[q].ino
=============================================================================
