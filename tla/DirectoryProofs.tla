--------------------------- MODULE DirectoryProofs ---------------------------
(***************************************************************************)
(* Directories that other processes of the user change at any time.  The   *)
(* first part shows that the removals in the cache and the disposal of a   *)
(* copied source remove only what was planned (RemovesOnlyPlanned), the    *)
(* second that a package base is installed as it was inspected             *)
(* (InstalledIsInspected), the third that the user's stores lose nothing   *)
(* an operation had not read (NothingUnseenDestroyed) and answer only      *)
(* patches that lay there together (AcquiredSeriesExisted).                *)
(***************************************************************************)
EXTENDS LocalSourceWorkspace, ArtifactWorkspace, SourcePreference, PatchAssociation,
        FiniteSetTheorems, TLAPS

(***************************************************************************)
(* Sequences whose elements nothing is known of: a path whose last name    *)
(* comes from a sorted listing.                                            *)
(***************************************************************************)
ASeq(s) == \E S : s \in Seq(S)

\* A sequence is what its length and its elements say.
LEMMA ASeqFacts ==
    ASSUME NEW s, ASeq(s)
    PROVE  /\ Len(s) \in Nat /\ DOMAIN s = 1..Len(s)
           /\ s = <<>> <=> Len(s) = 0
<1>1. PICK S : s \in Seq(S)
    BY DEF ASeq
<1> QED
    BY <1>1

LEMMA ASeqFun ==
    ASSUME NEW x, ASeq(x)
    PROVE  x = [i \in 1..Len(x) |-> x[i]]
<1>1. PICK S : x \in Seq(S)
    BY DEF ASeq
<1> QED
    BY <1>1

\* Two sequences of equal length and equal elements are equal.
LEMMA SameSequence ==
    ASSUME NEW s, NEW t, ASeq(s), ASeq(t), Len(s) = Len(t), \A i \in 1..Len(s) : s[i] = t[i]
    PROVE  s = t
<1> DEFINE f == [i \in 1..Len(s) |-> s[i]]
           g == [i \in 1..Len(t) |-> t[i]]
<1>1. f = g
    OBVIOUS
<1>2. s = f
    BY ASeqFun
<1>3. t = g
    BY ASeqFun
<1> HIDE DEF f, g
<1> QED
    BY <1>1, <1>2, <1>3

\* A path with one more name.
LEMMA AppendFacts ==
    ASSUME NEW s, ASeq(s), NEW x
    PROVE  /\ ASeq(Append(s, x)) /\ Len(Append(s, x)) = Len(s) + 1
           /\ \A i \in 1..Len(s) : Append(s, x)[i] = s[i]
           /\ Append(s, x)[Len(s) + 1] = x
<1>1. PICK S : s \in Seq(S)
    BY DEF ASeq
<1>2. s \in Seq(S \cup {x}) /\ x \in S \cup {x}
    BY <1>1
<1>3. Append(s, x) \in Seq(S \cup {x})
    BY <1>2
<1> QED
    BY <1>2, <1>3 DEF ASeq

\* Two sequences one after the other.
LEMMA ConcatFacts ==
    ASSUME NEW s, NEW t, ASeq(s), ASeq(t)
    PROVE  /\ ASeq(s \o t) /\ Len(s \o t) = Len(s) + Len(t)
           /\ \A i \in 1..Len(s) : (s \o t)[i] = s[i]
           /\ \A i \in 1..Len(t) : (s \o t)[Len(s) + i] = t[i]
<1>1. PICK S : s \in Seq(S)
    BY DEF ASeq
<1>2. PICK T : t \in Seq(T)
    BY DEF ASeq
<1>3. s \in Seq(S \cup T) /\ t \in Seq(S \cup T)
    BY <1>1, <1>2
<1>4. s \o t \in Seq(S \cup T)
    BY <1>3
<1> QED
    BY <1>3, <1>4 DEF ASeq

\* The rest of a sequence from a place on.
LEMMA SubSeqFacts ==
    ASSUME NEW s, ASeq(s), NEW m \in 1..(Len(s) + 1), NEW n \in 0..Len(s), m <= n + 1
    PROVE  /\ ASeq(SubSeq(s, m, n)) /\ Len(SubSeq(s, m, n)) = n - m + 1
           /\ \A i \in 1..(n - m + 1) : SubSeq(s, m, n)[i] = s[m + i - 1]
<1>1. PICK S : s \in Seq(S)
    BY DEF ASeq
<1>2. \A i \in m..n : s[i] \in S
    BY <1>1
<1>3. SubSeq(s, m, n) \in Seq(S) /\ Len(SubSeq(s, m, n)) = n - m + 1
    BY <1>1, <1>2
<1> QED
    BY <1>1, <1>2, <1>3 DEF ASeq

\* The rest of a stack.
LEMMA TailFacts ==
    ASSUME NEW s, ASeq(s), s # <<>>
    PROVE  /\ ASeq(Tail(s)) /\ Len(Tail(s)) = Len(s) - 1 /\ Len(s) >= 1
           /\ \A i \in 1..(Len(s) - 1) : Tail(s)[i] = s[i + 1]
           /\ Head(s) = s[1]
<1>1. PICK S : s \in Seq(S)
    BY DEF ASeq
<1> QED
    BY <1>1 DEF ASeq

\* What the walk pushes on its stack, and what stays on it.
LEMMA ContinueFacts ==
    ASSUME NEW more, NEW old, NEW new, ASeq(more), ASeq(old), old # <<>>, new = more \o Tail(old)
    PROVE  /\ ASeq(new) /\ Len(new) = Len(more) + Len(old) - 1
           /\ \A i \in 1..Len(more) : new[i] = more[i]
           /\ \A i \in (Len(more) + 1)..Len(new) : new[i] = old[i - Len(more) + 1]
<1>1. ASeq(Tail(old)) /\ Len(Tail(old)) = Len(old) - 1 /\ Len(old) >= 1
      /\ \A i \in 1..(Len(old) - 1) : Tail(old)[i] = old[i + 1]
    BY TailFacts
<1>2. Len(more) \in Nat /\ Len(old) \in Nat
    BY ASeqFacts
<1>3. ASeq(new) /\ Len(new) = Len(more) + Len(old) - 1 /\ \A i \in 1..Len(more) : new[i] = more[i]
    BY <1>1, <1>2, ConcatFacts
<1>4. ASSUME NEW i \in (Len(more) + 1)..Len(new) PROVE new[i] = old[i - Len(more) + 1]
    <2> DEFINE j == i - Len(more)
    <2>1. j \in 1..(Len(old) - 1) /\ i = Len(more) + j
        BY <1>2, <1>3
    <2>2. new[Len(more) + j] = Tail(old)[j]
        BY <2>1, <1>1, ConcatFacts
    <2> QED
        BY <2>1, <2>2, <1>1
<1> QED
    BY <1>3, <1>4

(***************************************************************************)
(* Trees of different objects                                              *)
(***************************************************************************)
TreeInv(t, f) ==
    /\ \A p \in DOMAIN t : ASeq(p)
    /\ IsFiniteSet(DOMAIN t) /\ t \in [DOMAIN t -> Nodes] /\ f \in Nat
    /\ \A p \in DOMAIN t : t[p].id < f /\ t[p].ino < f
    /\ \A p, q \in DOMAIN t : p # q => t[p].id # t[q].id /\ t[p].ino # t[q].ino

SameNode(n, m) == n.id = m.id /\ n.ino = m.ino /\ n.kind = m.kind

\* t holds objects of s, under the names they have in s.
Kept(s, t) ==
    /\ DOMAIN t \subseteq DOMAIN s /\ t \in [DOMAIN t -> Nodes]
    /\ \A p \in DOMAIN t : SameNode(t[p], s[p])

\* Every object of t is one of s, or it is the new one: then its inode number
\* is new as well, or that of an object of s that nothing pins.
Evolves(s, t, f, pins) ==
    \A p \in DOMAIN t :
       \/ \E q \in DOMAIN s : SameNode(t[p], s[q])
       \/ /\ t[p].id = f
          /\ t[p].ino = f \/ \E q \in DOMAIN s : t[p].ino = s[q].ino /\ s[q].ino \notin pins

LEMMA KeptInv ==
    ASSUME NEW s, NEW t, NEW f, NEW g \in Nat, TreeInv(s, f), Kept(s, t), f <= g
    PROVE  TreeInv(t, g)
<1>1. IsFiniteSet(DOMAIN t)
    BY FS_Subset DEF TreeInv, Kept
<1>2. \A p \in DOMAIN t : p \in DOMAIN s /\ t[p].id = s[p].id /\ t[p].ino = s[p].ino
    BY DEF Kept, SameNode
<1>3. \A p \in DOMAIN t : t[p].id < g /\ t[p].ino < g
    <2> SUFFICES ASSUME NEW p \in DOMAIN t PROVE t[p].id < g /\ t[p].ino < g
        OBVIOUS
    <2>1. s[p] \in Nodes /\ s[p].id < f /\ s[p].ino < f /\ f \in Nat
        BY <1>2 DEF TreeInv
    <2> QED
        BY <1>2, <2>1 DEF Nodes
<1> QED
    BY <1>1, <1>2, <1>3 DEF TreeInv, Kept

LEMMA KeptEvolves ==
    ASSUME NEW s, NEW t, NEW f, NEW pins, Kept(s, t)
    PROVE  Evolves(s, t, f, pins)
BY DEF Kept, Evolves

LEMMA KeptTrans ==
    ASSUME NEW s, NEW t, NEW r, Kept(s, t), Kept(t, r)
    PROVE  Kept(s, r)
BY DEF Kept, SameNode

LEMMA KeptSame ==
    ASSUME NEW s, NEW f, TreeInv(s, f)
    PROVE  Kept(s, s)
BY DEF Kept, SameNode, TreeInv

LEMMA PutFacts ==
    ASSUME NEW t, NEW p, NEW n
    PROVE  /\ DOMAIN Put(t, p, n) = {p} \cup DOMAIN t /\ Put(t, p, n)[p] = n
           /\ \A q \in DOMAIN t : q # p => Put(t, p, n)[q] = t[q]
BY DEF Put

\* An object that changes stays the object it is.
LEMMA PutKept ==
    ASSUME NEW s, s \in [DOMAIN s -> Nodes], NEW p \in DOMAIN s, NEW n \in Nodes, SameNode(n, s[p])
    PROVE  Kept(s, Put(s, p, n))
<1>1. \A q \in DOMAIN s : SameNode(s[q], s[q])
    BY DEF SameNode
<1>2. DOMAIN Put(s, p, n) = DOMAIN s
    BY DEF Put
<1>3. Put(s, p, n) \in [DOMAIN s -> Nodes]
    BY DEF Put
<1>4. \A q \in DOMAIN s : Put(s, p, n)[q] = IF q = p THEN n ELSE s[q]
    BY DEF Put
<1> QED
    BY <1>1, <1>2, <1>3, <1>4 DEF Kept

LEMMA ChangedKept ==
    ASSUME NEW s, s \in [DOMAIN s -> Nodes], NEW p \in DOMAIN s, NEW n \in Nodes, SameNode(n, s[p]),
           fresh \in Nat
    PROVE  Kept(s, Changed(s, p, n))
<1>1. [n EXCEPT !.stamp = fresh] \in Nodes /\ SameNode([n EXCEPT !.stamp = fresh], s[p])
    BY DEF Nodes, SameNode
<1> QED
    BY <1>1, PutKept DEF Changed

LEMMA EntriesKept ==
    ASSUME NEW s, s \in [DOMAIN s -> Nodes], NEW p, fresh \in Nat
    PROVE  Kept(s, EntriesChanged(s, p)) /\ DOMAIN EntriesChanged(s, p) = DOMAIN s
<1>1. CASE p \in DOMAIN s
    <2>1. s[p] \in Nodes /\ SameNode(s[p], s[p])
        BY <1>1 DEF SameNode
    <2>2. Kept(s, Changed(s, p, s[p]))
        BY <1>1, <2>1, ChangedKept
    <2>3. DOMAIN Changed(s, p, s[p]) = DOMAIN s
        BY <1>1 DEF Changed, Put
    <2> QED
        BY <1>1, <2>2, <2>3 DEF EntriesChanged
<1>2. CASE p \notin DOMAIN s
    BY <1>2 DEF EntriesChanged, Kept, SameNode
<1> QED
    BY <1>1, <1>2

LEMMA WithoutKept ==
    ASSUME NEW s, s \in [DOMAIN s -> Nodes], NEW p
    PROVE  Kept(s, Without(s, p))
BY DEF Kept, Without, SameNode

LEMMA DropKept ==
    ASSUME NEW s, s \in [DOMAIN s -> Nodes], NEW p, fresh \in Nat
    PROVE  Kept(s, DropEntry(s, p))
<1>1. Kept(s, Without(s, p)) /\ Without(s, p) \in [DOMAIN Without(s, p) -> Nodes]
    BY WithoutKept DEF Kept
<1>2. Kept(Without(s, p), DropEntry(s, p))
    BY <1>1, EntriesKept DEF DropEntry
<1> QED
    BY <1>1, <1>2, KeptTrans

\* A new object under a new name.
LEMMA PutInv ==
    ASSUME NEW s, TreeInv(s, fresh), NEW p, ASeq(p), p \notin DOMAIN s, NEW n \in Nodes,
           n.id = fresh, n.ino <= fresh, \A q \in DOMAIN s : s[q].ino # n.ino
    PROVE  TreeInv(Put(s, p, n), fresh + 1)
<1>1. IsFiniteSet(DOMAIN s \cup {p})
    BY FS_AddElement DEF TreeInv
<1>2. DOMAIN Put(s, p, n) = DOMAIN s \cup {p} /\ fresh \in Nat /\ fresh + 1 \in Nat
    BY DEF Put, TreeInv
<1>3. \A q \in DOMAIN s : Put(s, p, n)[q] = s[q] /\ s[q] \in Nodes /\ s[q].id < fresh /\ s[q].ino < fresh
    BY DEF Put, TreeInv
<1>4. Put(s, p, n)[p] = n
    BY DEF Put
<1>5. Put(s, p, n) \in [DOMAIN s \cup {p} -> Nodes]
    BY <1>3 DEF Put
<1>6. ASSUME NEW q \in DOMAIN s \cup {p} PROVE Put(s, p, n)[q].id < fresh + 1 /\ Put(s, p, n)[q].ino < fresh + 1
    BY <1>2, <1>3, <1>4 DEF Nodes
<1>7. ASSUME NEW q \in DOMAIN s \cup {p}, NEW r \in DOMAIN s \cup {p}, q # r
      PROVE  Put(s, p, n)[q].id # Put(s, p, n)[r].id /\ Put(s, p, n)[q].ino # Put(s, p, n)[r].ino
    <2>1. \A x \in DOMAIN s : s[x].id # fresh
        BY <1>3, <1>2 DEF Nodes
    <2>2. CASE q \in DOMAIN s /\ r \in DOMAIN s
        BY <2>2, <1>3, <1>7 DEF TreeInv
    <2>3. CASE q = p /\ r \in DOMAIN s
        BY <2>1, <2>3, <1>3, <1>4
    <2>4. CASE r = p /\ q \in DOMAIN s
        BY <2>1, <2>4, <1>3, <1>4
    <2> QED
        BY <2>2, <2>3, <2>4, <1>7
<1>8. \A q \in DOMAIN s \cup {p} : ASeq(q)
    BY DEF TreeInv
<1> QED
    BY <1>1, <1>2, <1>5, <1>6, <1>7, <1>8 DEF TreeInv

LEMMA AddFacts ==
    ASSUME NEW s, TreeInv(s, fresh), NEW p, ASeq(p), p \notin DOMAIN s, NEW n \in Nodes,
           n.id = fresh, n.ino <= fresh, \A q \in DOMAIN s : s[q].ino # n.ino
    PROVE  /\ TreeInv(AddEntry(s, p, n), fresh + 1)
           /\ DOMAIN AddEntry(s, p, n) = DOMAIN s \cup {p}
           /\ SameNode(AddEntry(s, p, n)[p], n)
           /\ \A q \in DOMAIN s : SameNode(AddEntry(s, p, n)[q], s[q])
<1> DEFINE t == Put(s, p, n)
<1>1. TreeInv(t, fresh + 1) /\ fresh \in Nat
    BY PutInv DEF TreeInv
<1>2. DOMAIN t = DOMAIN s \cup {p} /\ t[p] = n /\ \A q \in DOMAIN s : t[q] = s[q]
    BY DEF Put
<1>3. Kept(t, EntriesChanged(t, Front(p))) /\ DOMAIN EntriesChanged(t, Front(p)) = DOMAIN t
    <2> HIDE DEF t
    <2>1. t \in [DOMAIN t -> Nodes]
        BY <1>1 DEF TreeInv
    <2> QED
        BY <1>1, <2>1, EntriesKept
<1>4. TreeInv(EntriesChanged(t, Front(p)), fresh + 1)
    <2> HIDE DEF t
    <2> QED
        BY <1>1, <1>3, KeptInv
<1> QED
    BY <1>2, <1>3, <1>4 DEF AddEntry, Kept

LEMMA MadeNode ==
    ASSUME fresh \in Nat, NEW kind \in {"dir", "file", "link", "other"},
           NEW mode \in {"private", "plain", "closed", "shared"}, NEW data \in Nat
    PROVE  /\ Made(kind, mode, data) \in Nodes /\ Made(kind, mode, data).id = fresh
           /\ Made(kind, mode, data).ino = fresh /\ Made(kind, mode, data).kind = kind
BY DEF Made, Nodes

\* An object made now has numbers that no other has.
LEMMA AddMade ==
    ASSUME TreeInv(tree, fresh), NEW p, ASeq(p), p \notin DOMAIN tree,
           NEW kind \in {"dir", "file", "link", "other"},
           NEW mode \in {"private", "plain", "closed", "shared"}, NEW data \in Nat, NEW pins
    PROVE  /\ TreeInv(AddEntry(tree, p, Made(kind, mode, data)), fresh + 1)
           /\ Evolves(tree, AddEntry(tree, p, Made(kind, mode, data)), fresh, pins)
<1> DEFINE n == Made(kind, mode, data)
           t == AddEntry(tree, p, n)
<1>1. n \in Nodes /\ n.id = fresh /\ n.ino = fresh /\ fresh \in Nat /\ n.ino <= fresh
    BY MadeNode DEF TreeInv
<1>2. \A q \in DOMAIN tree : tree[q].ino # n.ino
    <2>1. \A q \in DOMAIN tree : tree[q] \in Nodes /\ tree[q].ino < fresh
        BY DEF TreeInv
    <2> QED
        BY <1>1, <2>1 DEF Nodes
<1> HIDE DEF n
<1>3. /\ TreeInv(t, fresh + 1) /\ DOMAIN t = DOMAIN tree \cup {p} /\ SameNode(t[p], n)
      /\ \A q \in DOMAIN tree : SameNode(t[q], tree[q])
    BY <1>1, <1>2, AddFacts
<1> HIDE DEF t
<1>4. Evolves(tree, t, fresh, pins)
    BY <1>1, <1>3 DEF Evolves, SameNode
<1> QED
    BY <1>3, <1>4 DEF n, t

LEMMA NotBeneath ==
    ASSUME NEW t, NEW p, ASeq(p)
    PROVE  p \notin DOMAIN Without(t, p)
<1>1. Len(p) \in Nat
    BY ASeqFacts
<1>2. IsPrefix(p, p)
    BY <1>1 DEF IsPrefix
<1> QED
    BY <1>2 DEF Without, Beneath

\* A replacement may take over the number of what it replaces.
LEMMA ReplacedInv ==
    ASSUME TreeInv(tree, fresh), NEW p \in DOMAIN tree, NEW pins, NEW n \in Replacements(p, pins)
    PROVE  /\ TreeInv(AddEntry(Without(tree, p), p, n), fresh + 1)
           /\ Evolves(tree, AddEntry(Without(tree, p), p, n), fresh, pins)
<1> DEFINE s == Without(tree, p)
           t == AddEntry(s, p, n)
<1>1. PICK kind \in {tree[p].kind, "file"}, i \in {fresh} \cup ({tree[p].ino} \ pins) :
         n = [Made(kind, "private", 0) EXCEPT !.ino = i]
    BY DEF Replacements
<1>2. tree[p] \in Nodes /\ fresh \in Nat /\ tree[p].ino < fresh /\ ASeq(p) /\ tree \in [DOMAIN tree -> Nodes]
    BY DEF TreeInv
<1>3. i \in Nat /\ i <= fresh /\ kind \in {"dir", "file", "link", "other"}
    BY <1>2 DEF Nodes
<1>4. n \in Nodes /\ n.id = fresh /\ n.ino = i
    BY <1>1, <1>2, <1>3 DEF Made, Nodes
<1>5. Kept(tree, s)
    BY <1>2, WithoutKept
<1>6. TreeInv(s, fresh)
    BY <1>2, <1>5, KeptInv
<1>7. p \notin DOMAIN s
    BY <1>2, NotBeneath
<1>8. \A q \in DOMAIN s : s[q].ino # n.ino
    <2> SUFFICES ASSUME NEW q \in DOMAIN s PROVE s[q].ino # n.ino
        OBVIOUS
    <2>1. q \in DOMAIN tree /\ s[q].ino = tree[q].ino /\ tree[q].ino < fresh /\ tree[q].ino \in Nat /\ q # p
        BY <1>5, <1>7 DEF Kept, SameNode, TreeInv, Nodes
    <2>2. tree[q].ino # tree[p].ino
        BY <2>1 DEF TreeInv
    <2> QED
        BY <2>1, <2>2, <1>4, <1>2
<1> HIDE DEF s
<1>9. /\ TreeInv(t, fresh + 1) /\ DOMAIN t = DOMAIN s \cup {p} /\ SameNode(t[p], n)
      /\ \A q \in DOMAIN s : SameNode(t[q], s[q])
    BY <1>2, <1>3, <1>4, <1>6, <1>7, <1>8, AddFacts
<1> HIDE DEF t
<1>10. \A q \in DOMAIN s : q \in DOMAIN tree /\ SameNode(t[q], tree[q])
    BY <1>5, <1>9 DEF Kept, SameNode
<1>11. t[p].id = fresh /\ (t[p].ino = fresh \/ (t[p].ino = tree[p].ino /\ tree[p].ino \notin pins))
    BY <1>4, <1>9 DEF SameNode
<1>12. Evolves(tree, t, fresh, pins)
    BY <1>9, <1>10, <1>11 DEF Evolves
<1> QED
    BY <1>9, <1>12 DEF s, t

LEMMA ForeignInv ==
    ASSUME TreeInv(tree, fresh), NEW touch, NEW pins, Foreign(touch, pins)
    PROVE  TreeInv(tree', fresh') /\ Evolves(tree, tree', fresh, pins) /\ fresh' = fresh + 1
<1> DEFINE Q == touch \cap DOMAIN tree
<1>1. fresh \in Nat /\ fresh + 1 \in Nat /\ fresh <= fresh + 1 /\ tree \in [DOMAIN tree -> Nodes]
    BY DEF TreeInv
<1>2. fresh' = fresh + 1 /\ tree' \in ForeignResults(Q, pins)
    BY DEF Foreign
<1>3. ASSUME NEW t, Kept(tree, t) PROVE TreeInv(t, fresh + 1) /\ Evolves(tree, t, fresh, pins)
    BY <1>1, <1>3, KeptInv, KeptEvolves
<1>4. CASE tree' \in Removals(Q)
    BY <1>1, <1>2, <1>3, <1>4, DropKept DEF Removals
<1>5. CASE tree' \in Swaps(Q, pins)
    <2>1. PICK p \in Q : \E n \in Replacements(p, pins) : tree' = AddEntry(Without(tree, p), p, n)
        BY <1>5 DEF Swaps
    <2> QED
        BY <2>1, <1>2, ReplacedInv
<1>6. CASE tree' \in Edits(Q)
    <2>1. PICK p \in Q : tree' = Changed(tree, p, [tree[p] EXCEPT !.data = fresh])
        BY <1>6 DEF Edits
    <2>2. tree[p] \in Nodes
        BY <1>1
    <2>3. [tree[p] EXCEPT !.data = fresh] \in Nodes /\ SameNode([tree[p] EXCEPT !.data = fresh], tree[p])
        BY <1>1, <2>2 DEF Nodes, SameNode
    <2>4. Kept(tree, tree')
        BY <1>1, <2>1, <2>3, ChangedKept
    <2> QED
        BY <1>2, <1>3, <2>4
<1>7. CASE tree' \in Exposures(Q)
    <2>1. PICK p \in Q : tree' = Changed(tree, p, [tree[p] EXCEPT !.mode = "shared"])
        BY <1>7 DEF Exposures
    <2>2. tree[p] \in Nodes
        BY <1>1
    <2>3. [tree[p] EXCEPT !.mode = "shared"] \in Nodes /\ SameNode([tree[p] EXCEPT !.mode = "shared"], tree[p])
        BY <1>1, <2>2 DEF Nodes, SameNode
    <2>4. Kept(tree, tree')
        BY <1>1, <2>1, <2>3, ChangedKept
    <2> QED
        BY <1>2, <1>3, <2>4
<1>8. CASE tree' \in Additions(Q)
    <2>1. PICK p \in Q : tree' = AddEntry(tree, Append(p, 9), Made("file", "plain", 0)) /\ ~Exists(Append(p, 9))
        BY <1>8 DEF Additions
    <2>2. ASeq(Append(p, 9)) /\ Append(p, 9) \notin DOMAIN tree
        BY <2>1, AppendFacts DEF TreeInv, Exists
    <2> QED
        BY <1>2, <2>1, <2>2, AddMade
<1> HIDE DEF Q
<1>9. \/ tree' \in Removals(Q) \/ tree' \in Swaps(Q, pins) \/ tree' \in Edits(Q)
      \/ tree' \in Exposures(Q) \/ tree' \in Additions(Q)
    BY <1>2 DEF ForeignResults
<1> QED
    BY <1>4, <1>5, <1>6, <1>7, <1>8, <1>9

\* A path that is moved from below one directory to below another, and back.
LEMMA RebasedBack ==
    ASSUME NEW from, NEW to, NEW p, ASeq(from), ASeq(to), ASeq(p), IsPrefix(from, p)
    PROVE  ASeq(Rebased(p, from, to)) /\ Rebased(Rebased(p, from, to), to, from) = p
<1> DEFINE x == SubSeq(p, Len(from) + 1, Len(p))
           q == to \o x
           y == SubSeq(q, Len(to) + 1, Len(q))
<1>1. Len(from) \in Nat /\ Len(to) \in Nat /\ Len(p) \in Nat /\ Len(from) <= Len(p)
    BY ASeqFacts DEF IsPrefix
<1>2. /\ ASeq(x) /\ Len(x) = Len(p) - Len(from)
      /\ \A i \in 1..(Len(p) - Len(from)) : x[i] = p[Len(from) + i]
    <2>1. Len(p) - (Len(from) + 1) + 1 = Len(p) - Len(from)
        BY <1>1
    <2>2. \A i \in 1..(Len(p) - Len(from)) : Len(from) + 1 + i - 1 = Len(from) + i
        BY <1>1
    <2>3. Len(from) + 1 \in 1..(Len(p) + 1) /\ Len(p) \in 0..Len(p) /\ Len(from) + 1 <= Len(p) + 1
        BY <1>1
    <2>4. /\ ASeq(x) /\ Len(x) = Len(p) - (Len(from) + 1) + 1
          /\ \A i \in 1..(Len(p) - (Len(from) + 1) + 1) : x[i] = p[Len(from) + 1 + i - 1]
        BY <2>3, SubSeqFacts
    <2> QED
        BY <2>1, <2>2, <2>4
<1> HIDE DEF x
<1>3. /\ ASeq(q) /\ Len(q) = Len(to) + Len(x)
      /\ \A i \in 1..Len(x) : q[Len(to) + i] = x[i]
    <2>1. ASeq(x)
        BY <1>2
    <2>2. ASeq(to \o x)
        BY <2>1, ConcatFacts
    <2>3. Len(to \o x) = Len(to) + Len(x)
        BY <2>1, ConcatFacts
    <2>4. \A i \in 1..Len(x) : (to \o x)[Len(to) + i] = x[i]
        BY <2>1, ConcatFacts
    <2> QED
        BY <2>2, <2>3, <2>4
<1> HIDE DEF q
<1>4. /\ ASeq(y) /\ Len(y) = Len(x) /\ \A i \in 1..Len(x) : y[i] = x[i]
    <2>1. Len(x) \in Nat
        BY <1>1, <1>2
    <2>2. Len(q) - (Len(to) + 1) + 1 = Len(x)
        BY <1>1, <1>3, <2>1
    <2>3. \A i \in 1..Len(x) : Len(to) + 1 + i - 1 = Len(to) + i
        BY <1>1, <2>1
    <2>4. Len(to) + 1 \in 1..(Len(q) + 1) /\ Len(q) \in 0..Len(q) /\ Len(to) + 1 <= Len(q) + 1
        BY <1>1, <1>3, <2>1
    <2>5. /\ ASeq(y) /\ Len(y) = Len(q) - (Len(to) + 1) + 1
          /\ \A i \in 1..(Len(q) - (Len(to) + 1) + 1) : y[i] = q[Len(to) + 1 + i - 1]
        BY <1>3, <2>4, SubSeqFacts
    <2> QED
        BY <1>3, <2>2, <2>3, <2>5
<1> HIDE DEF y
<1>5. from \o y = p
    <2>1. /\ ASeq(from \o y) /\ Len(from \o y) = Len(from) + Len(y)
          /\ \A i \in 1..Len(from) : (from \o y)[i] = from[i]
          /\ \A i \in 1..Len(y) : (from \o y)[Len(from) + i] = y[i]
        BY <1>4, ConcatFacts
    <2>2. Len(from \o y) = Len(p)
        BY <1>1, <1>2, <1>4, <2>1
    <2>3. \A i \in 1..Len(from) : from[i] = p[i]
        <3>1. SubSeq(from, 1, Len(from)) = SubSeq(p, 1, Len(from))
            BY DEF IsPrefix
        <3>2. \A i \in 1..(Len(from) - 1 + 1) : SubSeq(from, 1, Len(from))[i] = from[1 + i - 1]
            BY <1>1, SubSeqFacts
        <3>3. \A i \in 1..(Len(from) - 1 + 1) : SubSeq(p, 1, Len(from))[i] = p[1 + i - 1]
            BY <1>1, SubSeqFacts
        <3>4. Len(from) - 1 + 1 = Len(from) /\ \A i \in 1..Len(from) : 1 + i - 1 = i
            BY <1>1
        <3> QED
            BY <3>1, <3>2, <3>3, <3>4
    <2>4. ASSUME NEW i \in 1..Len(p) PROVE (from \o y)[i] = p[i]
        <3>1. CASE i <= Len(from)
            <4>1. i \in 1..Len(from)
                BY <1>1, <3>1
            <4> QED
                BY <4>1, <2>1, <2>3, Zenon
        <3>2. CASE i > Len(from)
            <4> DEFINE j == i - Len(from)
            <4>1. j \in 1..(Len(p) - Len(from)) /\ i = Len(from) + j
                BY <1>1, <3>2
            <4> HIDE DEF j
            <4>2. (from \o y)[Len(from) + j] = y[j] /\ y[j] = x[j] /\ x[j] = p[Len(from) + j]
                BY <1>2, <1>4, <2>1, <4>1
            <4> QED
                BY <4>1, <4>2
        <3>3. i <= Len(from) \/ i > Len(from)
            BY <1>1
        <3> QED
            BY <3>1, <3>2, <3>3
    <2> QED
        BY <2>1, <2>2, <2>4, SameSequence
<1>6. Rebased(p, from, to) = q
    BY DEF Rebased, q, x
<1>7. Rebased(q, to, from) = from \o y
    BY DEF Rebased, y
<1> QED
    BY <1>3, <1>5, <1>6, <1>7

\* A rename moves objects; it makes and loses none.
LEMMA RenamedInv ==
    ASSUME NEW f, TreeInv(tree, f), NEW from, NEW to, ASeq(from), ASeq(to)
    PROVE  /\ TreeInv(Renamed(from, to), f)
           /\ \A q \in DOMAIN Renamed(from, to) : \E p \in DOMAIN tree : Renamed(from, to)[q] = tree[p]
<1> DEFINE stays == DOMAIN tree \ Beneath(tree, from)
           goes == {Rebased(p, from, to) : p \in Beneath(tree, from)}
           src(q) == IF q \in stays THEN q ELSE Rebased(q, to, from)
           t == Renamed(from, to)
<1>1. DOMAIN t = stays \cup goes /\ \A q \in stays \cup goes : t[q] = tree[src(q)]
    BY DEF Renamed
<1>2. \A p \in Beneath(tree, from) : /\ p \in DOMAIN tree /\ ASeq(Rebased(p, from, to))
                                     /\ Rebased(Rebased(p, from, to), to, from) = p
    BY RebasedBack DEF Beneath, TreeInv
<1>3. \A q \in goes : /\ ASeq(q) /\ Rebased(q, to, from) \in Beneath(tree, from)
                      /\ Rebased(Rebased(q, to, from), from, to) = q
    BY <1>2
<1>4. \A q \in stays \cup goes : src(q) \in DOMAIN tree /\ ASeq(q)
    BY <1>2, <1>3 DEF TreeInv
<1>5. ASSUME NEW q \in stays \cup goes, NEW r \in stays \cup goes, q # r PROVE src(q) # src(r)
    <2>1. CASE q \in stays /\ r \in stays
        BY <1>5, <2>1
    <2>2. CASE q \in stays /\ r \notin stays
        BY <1>3, <2>2
    <2>3. CASE q \notin stays /\ r \in stays
        BY <1>3, <2>3
    <2>4. CASE q \notin stays /\ r \notin stays
        <3>1. q \in goes /\ r \in goes
            BY <2>4
        <3>2. Rebased(q, to, from) # Rebased(r, to, from)
            BY <1>3, <1>5, <3>1
        <3> QED
            BY <2>4, <3>2
    <2> QED
        BY <2>1, <2>2, <2>3, <2>4
<1>6. IsFiniteSet(stays) /\ IsFiniteSet(Beneath(tree, from))
    BY FS_Subset DEF TreeInv, Beneath
<1>7. IsFiniteSet(goes)
    <2> DEFINE g == [p \in Beneath(tree, from) |-> Rebased(p, from, to)]
    <2>1. g \in Surjection(Beneath(tree, from), goes)
        BY DEF Surjection
    <2> HIDE DEF g, goes
    <2> QED
        BY <1>6, <2>1, FS_Surjection
<1>8. IsFiniteSet(stays \cup goes)
    BY <1>6, <1>7, FS_Union
<1> HIDE DEF stays, goes, src, t
<1>9. t \in [DOMAIN t -> Nodes]
    <2>1. t = [q \in DOMAIN t |-> t[q]]
        BY DEF t, Renamed
    <2>2. \A q \in DOMAIN t : t[q] \in Nodes
        BY <1>1, <1>4 DEF TreeInv
    <2> QED
        BY <2>1, <2>2
<1>10. TreeInv(t, f)
    BY <1>1, <1>4, <1>5, <1>8, <1>9 DEF TreeInv
<1> QED
    BY <1>1, <1>4, <1>10 DEF t

(***************************************************************************)
(* Stacks of tasks                                                         *)
(***************************************************************************)
LEMMA NamesFinite ==
    ASSUME NEW t, IsFiniteSet(DOMAIN t), NEW p
    PROVE  IsFiniteSet(NamesOf(t, p))
<1> DEFINE C == ChildrenOf(t, p)
           g == [q \in C |-> Last(q)]
<1>1. IsFiniteSet(C)
    BY FS_Subset DEF ChildrenOf
<1>2. g \in Surjection(C, NamesOf(t, p))
    BY DEF Surjection, NamesOf
<1> HIDE DEF C, g
<1> QED
    BY <1>1, <1>2, FS_Surjection

\* r lies below p, or is p.
Under(p, r) == ASeq(r) /\ Len(p) <= Len(r) /\ \A k \in 1..Len(p) : r[k] = p[k]

LEMMA UnderSelf ==
    ASSUME NEW p, ASeq(p)
    PROVE  Under(p, p)
BY ASeqFacts DEF Under

LEMMA UnderAppend ==
    ASSUME NEW p, NEW r, ASeq(p), Under(p, r), NEW x
    PROVE  Under(p, Append(r, x))
<1>1. Len(p) \in Nat /\ Len(r) \in Nat /\ Len(p) <= Len(r) /\ ASeq(r)
    BY ASeqFacts DEF Under
<1>2. ASeq(Append(r, x)) /\ Len(Append(r, x)) = Len(r) + 1 /\ \A i \in 1..Len(r) : Append(r, x)[i] = r[i]
    BY <1>1, AppendFacts
<1> QED
    BY <1>1, <1>2 DEF Under

LEMMA TasksFacts ==
    ASSUME NEW kind, NEW p, NEW names, IsFiniteSet(names)
    PROVE  /\ ASeq(Tasks(kind, p, names))
           /\ \A i \in 1..Len(Tasks(kind, p, names)) :
                 \E x : Tasks(kind, p, names)[i] = [do |-> kind, at |-> Append(p, x)]
<1> DEFINE n == Cardinality(names)
           e(i) == [do |-> kind, at |-> Append(p, InOrder(names)[i])]
           s == [i \in 1..n |-> e(i)]
<1>1. n \in Nat
    BY FS_CardinalityType
<1> HIDE DEF n
<1>2. s \in Seq({e(i) : i \in 1..n}) /\ Len(s) = n
    <2> HIDE DEF e
    <2> QED
        BY <1>1
<1>3. \A i \in 1..n : s[i] = e(i)
    OBVIOUS
<1>4. Tasks(kind, p, names) = s
    BY DEF Tasks, n
<1> HIDE DEF s
<1> QED
    BY <1>1, <1>2, <1>3, <1>4 DEF ASeq

LEMMA EachOfFacts ==
    ASSUME NEW kind, NEW p, ASeq(p), NEW names, IsFiniteSet(names)
    PROVE  /\ ASeq(EachOf(kind, p, names))
           /\ \A i \in 1..Len(EachOf(kind, p, names)) : ASeq(EachOf(kind, p, names)[i].at)
<1> DEFINE n == Cardinality(names)
           e(i) == Step(kind, Append(p, InOrder(names)[i]), <<>>, {})
           s == [i \in 1..n |-> e(i)]
<1>1. n \in Nat
    BY FS_CardinalityType
<1> HIDE DEF n
<1>2. s \in Seq({e(i) : i \in 1..n}) /\ Len(s) = n
    <2> HIDE DEF e
    <2> QED
        BY <1>1
<1>3. \A i \in 1..n : s[i] = e(i)
    OBVIOUS
<1>4. EachOf(kind, p, names) = s
    BY DEF EachOf, n
<1>5. \A i \in 1..n : ASeq(e(i).at)
    <2> SUFFICES ASSUME NEW i \in 1..n PROVE ASeq(e(i).at)
        OBVIOUS
    <2>1. e(i).at = Append(p, InOrder(names)[i])
        BY DEF Step
    <2>2. ASeq(Append(p, InOrder(names)[i]))
        BY AppendFacts
    <2> QED
        BY <2>1, <2>2
<1> HIDE DEF s
<1> QED
    BY <1>1, <1>2, <1>3, <1>4, <1>5 DEF ASeq

\* The paths on the stack of the copy.
StepsInv ==
    ASeq(steps) /\ \A i \in 1..Len(steps) : ASeq(steps[i].at)

(***************************************************************************)
(* What a step does to the tree                                            *)
(***************************************************************************)
TreeStep == TreeInv(tree', fresh') /\ Evolves(tree, tree', fresh, Pins) /\ fresh <= fresh'

LEMMA KeptStep ==
    ASSUME TreeInv(tree, fresh), Kept(tree, tree'), fresh' = fresh \/ fresh' = fresh + 1
    PROVE  TreeStep
<1>1. fresh \in Nat /\ fresh' \in Nat /\ fresh <= fresh'
    BY DEF TreeInv
<1> QED
    BY <1>1, KeptInv, KeptEvolves DEF TreeStep

LEMMA StayStep ==
    ASSUME TreeInv(tree, fresh), tree' = tree, fresh' = fresh
    PROVE  TreeStep
BY KeptSame, KeptStep

LEMMA DropStep ==
    ASSUME TreeInv(tree, fresh), NEW p, tree' = DropEntry(tree, p), fresh' = fresh + 1
    PROVE  TreeStep
<1>1. tree \in [DOMAIN tree -> Nodes] /\ fresh \in Nat
    BY DEF TreeInv
<1> QED
    BY <1>1, DropKept, KeptStep

LEMMA AddStep ==
    ASSUME TreeInv(tree, fresh), NEW p, ASeq(p), p \notin DOMAIN tree,
           NEW kind \in {"dir", "file", "link", "other"},
           NEW mode \in {"private", "plain", "closed", "shared"}, NEW data \in Nat,
           tree' = AddEntry(tree, p, Made(kind, mode, data)), fresh' = fresh + 1
    PROVE  TreeStep
<1>1. fresh \in Nat /\ fresh <= fresh'
    BY DEF TreeInv
<1> QED
    BY <1>1, AddMade DEF TreeStep

LEMMA LeafPaths == ASeq(CacheRoot) /\ ASeq(Final) /\ ASeq(Staging) /\ ASeq(Append(Final, 1)) /\ Final \in Seq(Nat)
<1>1. CacheRoot \in Seq(Nat) /\ NewLeaf \in Nat /\ StageLeaf \in Nat
    BY CacheAssumption
<1>2. Final \in Seq(Nat) /\ Staging \in Seq(Nat)
    BY <1>1 DEF Final, Staging, Leaf
<1>3. Append(Final, 1) \in Seq(Nat)
    BY <1>2
<1> QED
    BY <1>1, <1>2, <1>3 DEF ASeq

LEMMA WalkTree ==
    ASSUME TreeInv(tree, fresh), WalkNode
    PROVE  TreeStep
<1> DEFINE t == Head(todo)
<1>1. CASE t.do = "unlink" /\ unlink_removal_node(t.at)
    BY <1>1, DropStep DEF unlink_removal_node
<1>2. CASE tree' = tree /\ fresh' = fresh
    BY <1>2, StayStep
<1>3. \/ t.do = "unlink" /\ unlink_removal_node(t.at)
      \/ preflight_removal_node(t.at) \/ close_removal_node(t.at) \/ revalidate_removal_node(t.at)
      \/ remove_removal_node(t.at) \/ keep_plan(t.at)
    BY DEF WalkNode
<1> QED
    BY <1>1, <1>2, <1>3 DEF preflight_removal_node, close_removal_node, revalidate_removal_node,
       remove_removal_node, keep_plan, Untouched

LEMMA PublishTree ==
    ASSUME TreeInv(tree, fresh), PublishStaging
    PROVE  TreeStep
<1> DEFINE t == Renamed(Staging, Final)
<1>1. tree' = EntriesChanged(t, CacheRoot) /\ fresh' = fresh + 1 /\ fresh \in Nat
    BY DEF PublishStaging, TreeInv
<1>2. TreeInv(t, fresh) /\ \A q \in DOMAIN t : \E p \in DOMAIN tree : t[q] = tree[p]
    BY LeafPaths, RenamedInv
<1> HIDE DEF t
<1>3. Kept(t, tree')
    BY <1>1, <1>2, EntriesKept DEF TreeInv
<1>4. TreeInv(tree', fresh')
    BY <1>1, <1>2, <1>3, KeptInv
<1>5. Evolves(tree, tree', fresh, Pins)
    BY <1>2, <1>3 DEF Evolves, Kept, SameNode
<1> QED
    BY <1>1, <1>4, <1>5 DEF TreeStep

LEMMA CreateTree ==
    ASSUME TreeInv(tree, fresh), CreateStep
    PROVE  TreeStep
<1>1. CASE create_trusted_cache_directory
    <2>1. Staging \notin DOMAIN tree /\ tree' = AddEntry(tree, Staging, Made("dir", "private", 0)) /\ fresh' = fresh + 1
        BY <1>1 DEF create_trusted_cache_directory, Exists
    <2> QED
        BY <2>1, LeafPaths, AddStep
<1>2. CASE PublishStaging
    BY <1>2, PublishTree
<1>3. CASE RollbackStaged
    <2>1. PICK p : rollback_staged_cache_directory(p)
        BY <1>3 DEF RollbackStaged
    <2>2. (tree' = DropEntry(tree, p) /\ fresh' = fresh + 1) \/ (tree' = tree /\ fresh' = fresh)
        BY <2>1 DEF rollback_staged_cache_directory
    <2> QED
        BY <2>2, DropStep, StayStep
<1>4. CASE Fill
    <2>1. Append(Final, 1) \notin DOMAIN tree /\ fresh' = fresh + 1
          /\ tree' = AddEntry(tree, Append(Final, 1), Made("file", "plain", 1))
        BY <1>4 DEF Fill, Exists
    <2> QED
        BY <2>1, LeafPaths, AddStep
<1>5. CASE tree' = tree /\ fresh' = fresh
    BY <1>5, StayStep
<1>6. \/ create_trusted_cache_directory \/ PublishStaging \/ RollbackStaged \/ Fill
      \/ CreateRefused \/ ReadStaging \/ StagingLost \/ PublishRefused \/ RevalidatePublished
      \/ DirCleanupGuard \/ GuardRefused \/ Commit \/ rollback_trusted_cache_path
      \/ RollbackRefused \/ RollbackDone
    BY DEF CreateStep
<1> QED
    BY <1>1, <1>2, <1>3, <1>4, <1>5, <1>6
    DEF CreateRefused, ReadStaging, StagingLost, PublishRefused, RevalidatePublished,
        DirCleanupGuard, GuardRefused, Commit, rollback_trusted_cache_path, RollbackRefused, RollbackDone,
        Throw, Untouched

LEMMA CleanTree ==
    ASSUME TreeInv(tree, fresh), CleanStep \/ WalkFails
    PROVE  TreeStep
<1>1. tree' = tree /\ fresh' = fresh
    <2>1. \/ preflight_cache_cleanup \/ TakeTarget \/ TargetRefused \/ ReleaseTarget
          \/ PlansComplete \/ (\E yes \in BOOLEAN : cmd_clean(yes))
          \/ remove_preflighted_cache_paths \/ CleanDone \/ RootRefused \/ WalkFails
        BY DEF CleanStep
    <2> QED
        BY <2>1 DEF preflight_cache_cleanup, TakeTarget, TargetRefused, ReleaseTarget, PlansComplete, cmd_clean,
           remove_preflighted_cache_paths, CleanDone, RootRefused, WalkFails, Throw, Steady, Untouched
<1> QED
    BY <1>1, StayStep

LEMMA AccessibleStep ==
    ASSUME TreeInv(tree, fresh), NEW dirs, fresh' = fresh,
           tree' = make_owned_cleanup_directory_accessible(tree, dirs)
    PROVE  TreeStep
<1>1. tree \in [DOMAIN tree -> Nodes]
    BY DEF TreeInv
<1>2. \A p \in DOMAIN tree : /\ [tree[p] EXCEPT !.mode = "private"] \in Nodes
                             /\ SameNode([tree[p] EXCEPT !.mode = "private"], tree[p])
                             /\ SameNode(tree[p], tree[p]) /\ tree[p] \in Nodes
    <2> SUFFICES ASSUME NEW p \in DOMAIN tree
                 PROVE  /\ [tree[p] EXCEPT !.mode = "private"] \in Nodes
                        /\ SameNode([tree[p] EXCEPT !.mode = "private"], tree[p])
                        /\ SameNode(tree[p], tree[p]) /\ tree[p] \in Nodes
        OBVIOUS
    <2>1. tree[p] \in Nodes
        BY <1>1
    <2> QED
        BY <2>1 DEF Nodes, SameNode
<1>3. DOMAIN tree' = DOMAIN tree /\ tree' \in [DOMAIN tree -> Nodes]
    BY <1>1, <1>2 DEF make_owned_cleanup_directory_accessible
<1>4. \A p \in DOMAIN tree : SameNode(tree'[p], tree[p])
    BY <1>2 DEF make_owned_cleanup_directory_accessible
<1> QED
    BY <1>3, <1>4, KeptStep DEF Kept

LEMMA PutStep ==
    ASSUME TreeInv(tree, fresh), NEW p \in DOMAIN tree, NEW n \in Nodes, SameNode(n, tree[p]),
           tree' = Put(tree, p, n), fresh' = fresh + 1
    PROVE  TreeStep
<1>1. tree \in [DOMAIN tree -> Nodes]
    BY DEF TreeInv
<1> QED
    BY <1>1, PutKept, KeptStep

LEMMA CopyTree ==
    ASSUME TreeInv(tree, fresh), StepsInv, CopyNode
    PROVE  TreeStep
<1> DEFINE t == Head(steps)
<1>1. steps # <<>> /\ CopyStepHolds(t) /\ tree \in [DOMAIN tree -> Nodes] /\ fresh \in Nat
    BY DEF CopyNode, TreeInv
<1>2. ASeq(t.at)
    BY <1>1, TailFacts DEF StepsInv
<1>3. ASeq(To(t.at))
    BY <1>2, LeafPaths, ConcatFacts DEF To
<1> HIDE DEF t
<1>4. CASE t.do = "copy" /\ copy_entry(t)
    <2> DEFINE n == tree[From(t.at)]
               d == IF n.kind = "link" THEN n.data ELSE 0
    <2>1. From(t.at) \in DOMAIN tree /\ To(t.at) \notin DOMAIN tree
        BY <1>1, <1>4 DEF CopyStepHolds, CopyHolds, Exists
    <2>2. n \in Nodes
        BY <1>1, <2>1
    <2>3. n.kind \in {"dir", "file", "link", "other"} /\ d \in Nat
        BY <2>2 DEF Nodes
    <2>4. tree' = AddEntry(tree, To(t.at), Made(n.kind, "private", d)) /\ fresh' = fresh + 1
        BY <1>4 DEF copy_entry
    <2> HIDE DEF n, d
    <2> QED
        BY <1>3, <2>1, <2>3, <2>4, AddStep
<1>5. CASE t.do \in {"file", "directory"} /\ (copy_regular_file(t) \/ copy_directory(t))
    <2>1. /\ To(t.at) \in DOMAIN tree /\ From(t.at) \in DOMAIN tree
          /\ observe_node_identity(tree[From(t.at)]) = observe_node_identity(t.was[1])
        BY <1>1, <1>5 DEF CopyStepHolds, CopiedHolds, require_destination_file, require_unchanged_node, Exists
    <2>2. tree[To(t.at)] \in Nodes /\ tree[From(t.at)] \in Nodes
        BY <1>1, <2>1
    <2>3. t.was[1].mode = tree[From(t.at)].mode
        BY <2>1 DEF observe_node_identity
    <2>4. CASE copy_regular_file(t)
        <3> DEFINE new == [tree[To(t.at)] EXCEPT !.data = tree[From(t.at)].data, !.mode = t.was[1].mode,
                                                 !.stamp = fresh]
        <3>1. tree' = Put(tree, To(t.at), new) /\ fresh' = fresh + 1
            BY <2>4 DEF copy_regular_file
        <3>2. new \in Nodes /\ SameNode(new, tree[To(t.at)])
            BY <1>1, <2>2, <2>3 DEF Nodes, SameNode
        <3> QED
            BY <2>1, <3>1, <3>2, PutStep
    <2>5. CASE copy_directory(t)
        <3> DEFINE new == [tree[To(t.at)] EXCEPT !.stamp = fresh]
        <3>1. tree' = Put(tree, To(t.at), new) /\ fresh' = fresh + 1
            BY <2>5 DEF copy_directory
        <3>2. new \in Nodes /\ SameNode(new, tree[To(t.at)])
            BY <1>1, <2>2 DEF Nodes, SameNode
        <3> QED
            BY <2>1, <3>1, <3>2, PutStep
    <2> QED
        BY <1>5, <2>4, <2>5
<1>6. CASE tree' = tree /\ fresh' = fresh
    BY <1>6, StayStep
<1>7. \/ t.do = "copy" /\ copy_entry(t)
      \/ t.do \in {"file", "directory"} /\ (copy_regular_file(t) \/ copy_directory(t))
      \/ copy_directory_contents(t) \/ leave_directory_contents(t)
    BY DEF CopyNode, t
<1> QED
    BY <1>4, <1>5, <1>6, <1>7 DEF copy_directory_contents, leave_directory_contents, Untouched

LEMMA OwnedTree ==
    ASSUME TreeInv(tree, fresh), OwnedNode
    PROVE  TreeStep
<1> DEFINE t == Head(todo)
<1>1. CASE preflight_owned_workspace_node(t.at)
    BY <1>1, AccessibleStep DEF preflight_owned_workspace_node
<1>2. CASE unlink_owned_workspace_node(t.at)
    BY <1>2, DropStep DEF unlink_owned_workspace_node
<1>3. CASE tree' = tree /\ fresh' = fresh
    BY <1>3, StayStep
<1>4. \/ preflight_owned_workspace_node(t.at) \/ unlink_owned_workspace_node(t.at)
      \/ revalidate_owned_workspace_node(t.at) \/ remove_preflighted_owned_workspace_node(t.at) \/ Untouched
    BY DEF OwnedNode
<1> QED
    BY <1>1, <1>2, <1>3, <1>4
    DEF revalidate_owned_workspace_node, remove_preflighted_owned_workspace_node, Untouched

LEMMA WorkTree ==
    ASSUME TreeInv(tree, fresh), StepsInv, WorkspaceStep
    PROVE  TreeStep
<1>1. CASE CopyNode
    BY <1>1, CopyTree
<1>2. CASE OwnedNode
    BY <1>2, OwnedTree
<1>3. CASE remove_owned_workspace_contents
    BY <1>3, AccessibleStep DEF remove_owned_workspace_contents
<1>4. CASE tree' = tree /\ fresh' = fresh
    BY <1>4, StayStep
<1>5. \/ CopyNode \/ OwnedNode \/ remove_owned_workspace_contents
      \/ materialize_local_source_workspace \/ CopyFails \/ BeginValidation
      \/ ValidateNode \/ ValidationFails \/ FinishCopy \/ cleanup \/ CleanupFinished \/ CleanupFails
    BY DEF WorkspaceStep
<1> QED
    BY <1>1, <1>2, <1>3, <1>4, <1>5
    DEF materialize_local_source_workspace, CopyFails, BeginValidation, ValidateNode, ValidationFails,
        FinishCopy, cleanup, CleanupFinished, CleanupFails, Abandon, Throw, Untouched

LEMMA ForeignTree ==
    ASSUME TreeInv(tree, fresh), WorkspaceForeign
    PROVE  TreeStep
<1> DEFINE more == Pins \cup {sourceSeen.ino}
<1>0. fresh \in Nat /\ fresh <= fresh + 1
    BY DEF TreeInv
<1>1. CASE CacheForeign(DOMAIN tree)
    BY <1>0, <1>1, ForeignInv DEF CacheForeign, TreeStep
<1>2. CASE SourceForeign(DOMAIN tree)
    <2>1. TreeInv(tree', fresh') /\ Evolves(tree, tree', fresh, more) /\ fresh' = fresh + 1
        BY <1>2, ForeignInv DEF SourceForeign
    <2>2. Evolves(tree, tree', fresh, Pins)
        BY <2>1 DEF Evolves
    <2> QED
        BY <1>0, <2>1, <2>2 DEF TreeStep
<1>3. CASE TheirRelease \/ \E p \in ChildrenOf(tree, CacheRoot) : TheirLease(p)
    BY <1>3, StayStep DEF TheirRelease, TheirLease
<1> QED
    BY <1>1, <1>2, <1>3 DEF WorkspaceForeign

\* Every step leaves a tree of different objects, and only the objects the
\* tree had and one new object are in it.
LEMMA NextTree ==
    ASSUME TreeInv(tree, fresh), StepsInv, WorkspaceNext
    PROVE  TreeStep
BY WalkTree, CreateTree, CleanTree, WorkTree, ForeignTree DEF WorkspaceNext, CacheNext

\* The copy pushes paths only.
LEMMA ProceedSteps ==
    ASSUME StepsInv, steps # <<>>, NEW more, ASeq(more), \A i \in 1..Len(more) : ASeq(more[i].at), Proceed(more)
    PROVE  StepsInv'
<1>1. steps' = more \o Tail(steps) /\ ASeq(steps)
    BY DEF Proceed, StepsInv
<1>2. /\ ASeq(steps') /\ Len(steps') = Len(more) + Len(steps) - 1
      /\ \A i \in 1..Len(more) : steps'[i] = more[i]
      /\ \A i \in (Len(more) + 1)..Len(steps') : steps'[i] = steps[i - Len(more) + 1]
    <2>1. ASeq(steps') /\ Len(steps') = Len(more) + Len(steps) - 1
        BY <1>1, ContinueFacts
    <2>2. \A i \in 1..Len(more) : steps'[i] = more[i]
        BY <1>1, ContinueFacts
    <2>3. \A i \in (Len(more) + 1)..Len(steps') : steps'[i] = steps[i - Len(more) + 1]
        BY <1>1, ContinueFacts
    <2> QED
        BY <2>1, <2>2, <2>3
<1>3. Len(more) \in Nat /\ Len(steps) \in Nat /\ Len(steps') \in Nat
    BY <1>1, <1>2, ASeqFacts
<1>4. ASSUME NEW i \in 1..Len(steps') PROVE ASeq(steps'[i].at)
    <2>1. CASE i \in 1..Len(more)
        BY <1>2, <2>1
    <2>2. CASE i \in (Len(more) + 1)..Len(steps')
        <3>1. i - Len(more) + 1 \in 1..Len(steps)
            BY <1>2, <1>3, <2>2
        <3> QED
            BY <1>2, <2>2, <3>1 DEF StepsInv
    <2> QED
        BY <1>3, <2>1, <2>2
<1> QED
    BY <1>2, <1>4 DEF StepsInv

LEMMA ShortSeqs ==
    ASSUME NEW x, NEW y
    PROVE  /\ ASeq(<<>>) /\ Len(<<>>) = 0
           /\ ASeq(<<x>>) /\ Len(<<x>>) = 1 /\ <<x>>[1] = x
           /\ ASeq(<<x, y>>) /\ Len(<<x, y>>) = 2 /\ <<x, y>>[1] = x /\ <<x, y>>[2] = y
<1>1. <<>> \in Seq({x}) /\ <<x>> \in Seq({x}) /\ <<x, y>> \in Seq({x, y})
    OBVIOUS
<1> QED
    BY <1>1 DEF ASeq

\* The entries of a directory, and its end.
LEMMA DirectorySteps ==
    ASSUME TreeInv(tree, fresh), NEW do, NEW last, NEW r, ASeq(r), NEW p, NEW was, NEW names
    PROVE  LET more == Append(EachOf(do, r, enumerate_directory(p)), Step(last, r, was, names)) IN
           ASeq(more) /\ \A i \in 1..Len(more) : ASeq(more[i].at)
<1> DEFINE each == EachOf(do, r, enumerate_directory(p))
           end == Step(last, r, was, names)
           more == Append(each, end)
<1>1. IsFiniteSet(enumerate_directory(p))
    BY NamesFinite DEF enumerate_directory, TreeInv
<1>0. ASeq(each)
    BY <1>1, EachOfFacts
<1>a. \A i \in 1..Len(each) : ASeq(each[i].at)
    BY <1>1, EachOfFacts
<1>3. end.at = r
    BY DEF Step
<1> HIDE DEF each, end
<1>2. ASeq(each) /\ \A i \in 1..Len(each) : ASeq(each[i].at)
    BY <1>0, <1>a
<1>4. ASeq(more) /\ Len(more) = Len(each) + 1 /\ more[Len(each) + 1] = end
      /\ \A i \in 1..Len(each) : more[i] = each[i]
    BY <1>2, AppendFacts
<1>5. Len(each) \in Nat
    BY <1>2, ASeqFacts
<1> HIDE DEF more
<1>6. ASSUME NEW i \in 1..Len(more) PROVE ASeq(more[i].at)
    <2>1. i \in 1..Len(each) \/ i = Len(each) + 1
        BY <1>4, <1>5
    <2> QED
        BY <1>2, <1>3, <1>4, <2>1
<1> QED
    BY <1>4, <1>6 DEF more, each, end

LEMMA CopySteps ==
    ASSUME TreeInv(tree, fresh), StepsInv, CopyNode \/ ValidateNode
    PROVE  StepsInv'
<1> DEFINE t == Head(steps)
<1>1. steps # <<>>
    BY DEF CopyNode, ValidateNode
<1>2. ASeq(t.at)
    BY <1>1, TailFacts DEF StepsInv
<1> HIDE DEF t
<1>3. ASSUME NEW do, NEW was, NEW names PROVE Step(do, t.at, was, names).at = t.at
    BY DEF Step
<1>4. CASE copy_directory_contents(t)
    <2> DEFINE names == enumerate_directory(From(t.at))
               more == Append(EachOf("copy", t.at, names), Step("leave", t.at, t.was, names))
    <2>1. Proceed(more)
        BY <1>4 DEF copy_directory_contents
    <2>2. ASeq(more) /\ \A i \in 1..Len(more) : ASeq(more[i].at)
        BY <1>2, DirectorySteps
    <2> HIDE DEF more
    <2> QED
        BY <1>1, <2>1, <2>2, ProceedSteps
<1>5. CASE validate_snapshot_directory(t)
    <2> DEFINE names == enumerate_directory(From(t.at))
               more == Append(EachOf("entry", t.at, names), Step("leave", t.at, <<tree[To(t.at)]>>, names))
    <2>1. Proceed(more)
        BY <1>5 DEF validate_snapshot_directory
    <2>2. ASeq(more) /\ \A i \in 1..Len(more) : ASeq(more[i].at)
        BY <1>2, DirectorySteps
    <2> HIDE DEF more
    <2> QED
        BY <1>1, <2>1, <2>2, ProceedSteps
<1>6. CASE Proceed(<<>>)
    <2>1. ASeq(<<>>) /\ Len(<<>>) = 0
        BY ShortSeqs
    <2> QED
        BY <1>1, <1>6, <2>1, ProceedSteps
<1>7. ASSUME NEW do, NEW was, NEW names, Proceed(<<Step(do, t.at, was, names)>>) PROVE StepsInv'
    <2> DEFINE e == Step(do, t.at, was, names)
    <2>1. e.at = t.at
        BY <1>3
    <2> HIDE DEF e
    <2>2. ASeq(<<e>>) /\ Len(<<e>>) = 1 /\ <<e>>[1] = e
        BY ShortSeqs
    <2>3. \A i \in 1..Len(<<e>>) : ASeq(<<e>>[i].at)
        BY <1>2, <2>1, <2>2
    <2>4. Proceed(<<e>>)
        BY <1>7 DEF e
    <2> QED
        BY <1>1, <2>2, <2>3, <2>4, ProceedSteps
<1>8. ASSUME NEW do, NEW was, NEW names, NEW do2, NEW was2, NEW names2,
             Proceed(<<Step(do, t.at, was, names), Step(do2, t.at, was2, names2)>>)
      PROVE  StepsInv'
    <2> DEFINE e == Step(do, t.at, was, names)
               g == Step(do2, t.at, was2, names2)
    <2>1. e.at = t.at /\ g.at = t.at
        BY <1>3
    <2> HIDE DEF e, g
    <2>2. ASeq(<<e, g>>) /\ Len(<<e, g>>) = 2 /\ <<e, g>>[1] = e /\ <<e, g>>[2] = g
        BY ShortSeqs
    <2>3. \A i \in 1..Len(<<e, g>>) : ASeq(<<e, g>>[i].at)
        BY <1>2, <2>1, <2>2
    <2>4. Proceed(<<e, g>>)
        BY <1>8 DEF e, g
    <2> QED
        BY <1>1, <2>2, <2>3, <2>4, ProceedSteps
<1>9. CASE t.do = "copy" /\ copy_entry(t) /\ CopyStepHolds(t)
    <2> DEFINE n == tree[From(t.at)]
    <2>1. n.kind # "other" /\ n \in Nodes
        BY <1>9 DEF CopyStepHolds, CopyHolds, require_admissible_source_node, Exists, TreeInv
    <2>2. n.kind \in {"file", "dir", "link"}
        BY <2>1 DEF Nodes
    <2>3. PICK new : Proceed(CASE n.kind = "file" -> <<Step("file", t.at, <<n, new>>, {})>>
                               [] n.kind = "dir"  -> <<Step("enter", t.at, <<n>>, {}),
                                                       Step("directory", t.at, <<n, new>>, {})>>
                               [] n.kind = "link" -> <<>>)
        BY <1>9 DEF copy_entry
    <2> HIDE DEF n
    <2>4. CASE n.kind = "file"
        BY <2>3, <2>4, <1>7
    <2>5. CASE n.kind = "dir"
        BY <2>3, <2>5, <1>8
    <2>6. CASE n.kind = "link"
        BY <2>3, <2>6, <1>6
    <2> QED
        BY <2>2, <2>4, <2>5, <2>6
<1>10. CASE validate_snapshot_entry(t)
    <2>1. CASE tree[From(t.at)].kind = "dir"
        BY <1>8, <1>10, <2>1 DEF validate_snapshot_entry
    <2>2. CASE tree[From(t.at)].kind # "dir"
        BY <1>6, <1>10, <2>2 DEF validate_snapshot_entry
    <2> QED
        BY <2>1, <2>2
<1>11. \/ copy_directory_contents(t) \/ validate_snapshot_directory(t) \/ Proceed(<<>>)
       \/ (t.do = "copy" /\ copy_entry(t) /\ CopyStepHolds(t)) \/ validate_snapshot_entry(t)
    BY DEF CopyNode, ValidateNode, t, leave_directory_contents, copy_regular_file, copy_directory
<1> QED
    BY <1>4, <1>5, <1>6, <1>9, <1>10, <1>11

LEMMA NextSteps ==
    ASSUME TreeInv(tree, fresh), StepsInv, WorkspaceNext
    PROVE  StepsInv'
<1>1. CASE CopyNode \/ ValidateNode
    BY <1>1, CopySteps
<1>2. CASE steps' = steps
    BY <1>2 DEF StepsInv
<1>3. CASE steps' = <<>>
    <2>1. ASeq(<<>>) /\ Len(<<>>) = 0
        BY ShortSeqs
    <2> QED
        BY <1>3, <2>1 DEF StepsInv
<1>4. ASSUME NEW do, NEW was, steps' = <<Step(do, <<>>, was, {})>> PROVE StepsInv'
    <2> DEFINE e == Step(do, <<>>, was, {})
    <2>1. e.at = <<>> /\ ASeq(<<>>)
        BY ShortSeqs DEF Step
    <2> HIDE DEF e
    <2>2. ASeq(<<e>>) /\ Len(<<e>>) = 1 /\ <<e>>[1] = e
        BY ShortSeqs
    <2>3. steps' = <<e>>
        BY <1>4 DEF e
    <2> QED
        BY <2>1, <2>2, <2>3 DEF StepsInv
<1>5. CASE WorkspaceStep /\ ~(CopyNode \/ ValidateNode)
    <2>1. CASE materialize_local_source_workspace
        BY <1>4, <2>1 DEF materialize_local_source_workspace
    <2>2. CASE BeginValidation
        BY <1>4, <2>2 DEF BeginValidation
    <2>3. CASE CopyFails \/ ValidationFails
        BY <1>3, <2>3 DEF CopyFails, ValidationFails, Abandon
    <2>4. CASE FinishCopy \/ remove_owned_workspace_contents
               \/ OwnedNode \/ cleanup \/ CleanupFinished \/ CleanupFails
        BY <1>2, <2>4 DEF FinishCopy, remove_owned_workspace_contents, OwnedNode, cleanup, CleanupFinished,
           CleanupFails, copyVars
    <2> QED
        BY <1>5, <2>1, <2>2, <2>3, <2>4 DEF WorkspaceStep
<1>6. CASE WorkspaceForeign \/ (CacheNext /\ UNCHANGED copyVars)
    BY <1>2, <1>6 DEF WorkspaceForeign, copyVars, SourceForeign
<1> QED
    BY <1>1, <1>5, <1>6 DEF WorkspaceNext

(***************************************************************************)
(* The inductive invariant                                                 *)
(***************************************************************************)
\* The stack of a removal walk.
TodoInv ==
    ASeq(todo) /\ \A i \in 1..Len(todo) : ASeq(todo[i].at)

\* Plans hold objects that preflight recorded, and so did every unlink.
PlanInv ==
    /\ IsFiniteSet(DOMAIN plan) /\ plan \in [DOMAIN plan -> Nodes]
    /\ \A p \in DOMAIN plan : plan[p].id \in recorded
    /\ \A r \in removed : r.id \in recorded

\* Other processes have flocks on directories only, and on none that is to come.
TheirsInv ==
    /\ \A x \in theirs : x \in Nat /\ x < fresh
    /\ \A p \in DOMAIN tree : tree[p].id \in theirs => tree[p].kind = "dir"

\* The entry that the cleaning is at, and what is under its lease.
Top == Leaf(Head(targets))
Leased == lease[1].node

\* The work on an entry is below it; it is under a lease that nobody else
\* has, and what is removed is what was planned under that lease.
EntryInv ==
    /\ stage \in {"plan", "check", "remove"}
    /\ 1 \in DOMAIN lease /\ Leased.id \notin theirs
    /\ stage = "remove" => Top \in DOMAIN plan /\ plan[Top].id = Leased.id
    /\ \A i \in 1..Len(todo) :
          /\ Under(Top, todo[i].at)
          /\ todo[i].do = "plan" => stage = "plan"
          /\ todo[i].do \in {"remove", "unlink"} => stage = "remove"
          /\ todo[i].do = "release" => i = Len(todo)

CleanInv ==
    cacheOp = "clean" => /\ \A r \in removed : ~r.leased
                         /\ todo # <<>> => EntryInv

\* The operation of a stage.
StageInv ==
    /\ cacheOp \in {"clean", "create", "copy", "dispose"}
    /\ stage \in {"copying", "validating"} => cacheOp = "copy"
    /\ stage \in {"undo", "rollback", "rolled back"} => cacheOp \in Creates

\* While the guard holds the directory, its inode number is nobody else's.
Guarded == {"guarded", "copying", "validating", "held", "undo", "rollback"}

RetainedIn(t) == \A p \in DOMAIN t : t[p].ino = made[1].ino => t[p].id = made[1].id

GuardInv ==
    /\ 1 \in DOMAIN made /\ made[1] \in Nodes /\ made[1].ino < fresh
    /\ RetainedIn(tree)

\* A rollback plans, then compares its plan with what the guard holds, and
\* plans nothing after that.
RollbackInv ==
    /\ RetainedIn(plan)
    /\ \A i \in 1..Len(todo) : /\ todo[i].do = "keep" => todo[i].at = Final
                               /\ todo[i].do # "release"
    /\ \A i, j \in 1..Len(todo) : todo[i].do = "plan" /\ todo[j].do = "keep" => i < j
    /\ \/ \E i \in 1..Len(todo) : todo[i].do = "keep"
       \/ /\ Final \in DOMAIN plan /\ plan[Final].ino = made[1].ino
          /\ \A i \in 1..Len(todo) : todo[i].do # "plan"

CreateInv ==
    cacheOp \in Creates =>
       /\ stage # "rollback" => todo = <<>>
       /\ stage \notin {"rollback", "rolled back", "failed"} => DOMAIN plan = {}
       /\ stage \in Guarded => GuardInv
       /\ stage = "rollback" => RollbackInv
       /\ stage = "rolled back" => plan[Final].id = made[1].id

WorkspaceInv ==
    /\ TreeInv(tree, fresh) /\ StepsInv /\ TodoInv /\ PlanInv /\ TheirsInv
    /\ CleanInv /\ StageInv /\ CreateInv

(***************************************************************************)
(* What a walk pushes on its stack                                         *)
(***************************************************************************)
\* Tasks of these kinds, at p and at the entries of p.
Pushes(kinds, p, more) ==
    /\ ASeq(more)
    /\ \A i \in 1..Len(more) :
          more[i].do \in kinds /\ (more[i].at = p \/ \E x : more[i].at = Append(p, x))

LEMMA PushNone ==
    ASSUME NEW kinds, NEW p
    PROVE  Pushes(kinds, p, <<>>)
<1>1. ASeq(<<>>) /\ Len(<<>>) = 0
    BY ShortSeqs
<1> QED
    BY <1>1 DEF Pushes

LEMMA PushOne ==
    ASSUME NEW kinds, NEW p, NEW kind \in kinds
    PROVE  Pushes(kinds, p, <<Task(kind, p)>>)
<1> DEFINE e == Task(kind, p)
<1>1. e.do = kind /\ e.at = p
    BY DEF Task
<1> HIDE DEF e
<1>2. ASeq(<<e>>) /\ Len(<<e>>) = 1 /\ <<e>>[1] = e
    BY ShortSeqs
<1>3. Pushes(kinds, p, <<e>>)
    BY <1>1, <1>2 DEF Pushes
<1> QED
    BY <1>3 DEF e

LEMMA PushTasks ==
    ASSUME NEW kinds, NEW p, NEW kind \in kinds, NEW names, IsFiniteSet(names)
    PROVE  Pushes(kinds, p, Tasks(kind, p, names))
<1> DEFINE s == Tasks(kind, p, names)
<1>1. ASeq(s)
    BY TasksFacts
<1>2. \A i \in 1..Len(s) : \E x : s[i] = [do |-> kind, at |-> Append(p, x)]
    BY TasksFacts
<1> HIDE DEF s
<1>3. ASSUME NEW i \in 1..Len(s) PROVE s[i].do = kind /\ \E x : s[i].at = Append(p, x)
    <2>1. PICK x : s[i] = [do |-> kind, at |-> Append(p, x)]
        BY <1>2
    <2>2. s[i].do = kind /\ s[i].at = Append(p, x)
        BY <2>1
    <2> QED
        BY <2>2
<1>4. Pushes(kinds, p, s)
    BY <1>1, <1>3 DEF Pushes
<1> QED
    BY <1>4 DEF s

LEMMA PushConcat ==
    ASSUME NEW kinds, NEW p, NEW s, NEW t, Pushes(kinds, p, s), Pushes(kinds, p, t)
    PROVE  Pushes(kinds, p, s \o t)
<1> DEFINE ok(e) == e.do \in kinds /\ (e.at = p \/ \E x : e.at = Append(p, x))
           c == s \o t
<1>1. ASeq(s) /\ ASeq(t) /\ (\A i \in 1..Len(s) : ok(s[i])) /\ (\A i \in 1..Len(t) : ok(t[i]))
    BY DEF Pushes
<1>2. ASeq(c) /\ Len(c) = Len(s) + Len(t)
    BY <1>1, ConcatFacts
<1>3. \A i \in 1..Len(s) : c[i] = s[i]
    BY <1>1, ConcatFacts
<1>4. \A i \in 1..Len(t) : c[Len(s) + i] = t[i]
    BY <1>1, ConcatFacts
<1>5. Len(s) \in Nat /\ Len(t) \in Nat
    BY <1>1, ASeqFacts
<1> HIDE DEF c, ok
<1>6. ASSUME NEW i \in 1..Len(c) PROVE ok(c[i])
    <2>1. CASE i <= Len(s)
        <3>1. i \in 1..Len(s)
            BY <1>2, <1>5, <2>1
        <3> QED
            BY <1>1, <1>3, <3>1
    <2>2. CASE i > Len(s)
        <3>1. i - Len(s) \in 1..Len(t) /\ i = Len(s) + (i - Len(s))
            BY <1>2, <1>5, <2>2
        <3> QED
            BY <1>1, <1>4, <3>1
    <2> QED
        BY <1>2, <1>5, <2>1, <2>2
<1>7. Pushes(kinds, p, c)
    BY <1>2, <1>6 DEF Pushes, ok
<1> QED
    BY <1>7 DEF c

LEMMA PushEnd ==
    ASSUME NEW kinds, NEW p, NEW s, Pushes(kinds, p, s), NEW kind \in kinds
    PROVE  Pushes(kinds, p, Append(s, Task(kind, p)))
<1> DEFINE e == Task(kind, p)
           c == Append(s, e)
<1>1. e.do = kind /\ e.at = p
    BY DEF Task
<1> HIDE DEF e
<1>2. ASeq(s) /\ Len(s) \in Nat
    BY ASeqFacts DEF Pushes
<1>3. ASeq(c) /\ Len(c) = Len(s) + 1
    BY <1>2, AppendFacts
<1>4. \A i \in 1..Len(s) : c[i] = s[i]
    BY <1>2, AppendFacts
<1>5. c[Len(s) + 1] = e
    BY <1>2, AppendFacts
<1> HIDE DEF c
<1>6. \A i \in 1..Len(c) : i \in 1..Len(s) \/ i = Len(s) + 1
    BY <1>2, <1>3
<1>7. Pushes(kinds, p, c)
    BY <1>1, <1>3, <1>4, <1>5, <1>6 DEF Pushes
<1> QED
    BY <1>7 DEF c, e

\* The tasks that replace a task on the stack.
Follows(do) ==
    CASE do = "plan" -> {"plan", "close"}
      [] do = "check" -> {"check", "close"}
      [] do = "remove" -> {"check", "remove", "unlink"}
      [] OTHER -> {}

LEMMA WalkPushes ==
    ASSUME TreeInv(tree, fresh), PlanInv, WalkNode
    PROVE  \E more : Pushes(Follows(Head(todo).do), Head(todo).at, more) /\ Continue(more)
<1> DEFINE t == Head(todo)
           p == t.at
           kinds == Follows(t.do)
<1>1. IsFiniteSet(directory_entry_names(p)) /\ IsFiniteSet(NamesOf(plan, p))
    BY NamesFinite DEF directory_entry_names, TreeInv, PlanInv
<1> SUFFICES \E more : Pushes(kinds, p, more) /\ Continue(more)
    OBVIOUS
<1> HIDE DEF t
<1>2. CASE Continue(<<>>)
    BY <1>2, PushNone
<1>3. CASE t.do = "plan" /\ preflight_removal_node(p)
    <2>1. kinds = {"plan", "close"}
        BY <1>3 DEF Follows
    <2> DEFINE s == Tasks("plan", p, directory_entry_names(p))
    <2>2. Pushes(kinds, p, s)
        BY <1>1, <2>1, PushTasks
    <2>3. Pushes(kinds, p, Append(s, Task("close", p)))
        BY <2>1, <2>2, PushEnd
    <2>4. Continue(Append(s, Task("close", p))) \/ Continue(<<>>)
        BY <1>3 DEF preflight_removal_node
    <2> QED
        BY <1>2, <2>3, <2>4
<1>4. CASE t.do = "check" /\ revalidate_removal_node(p)
    <2>1. kinds = {"check", "close"}
        BY <1>4 DEF Follows
    <2> DEFINE s == Tasks("check", p, NamesOf(plan, p))
    <2>2. Pushes(kinds, p, s)
        BY <1>1, <2>1, PushTasks
    <2>3. Pushes(kinds, p, Append(s, Task("close", p)))
        BY <2>1, <2>2, PushEnd
    <2>4. Continue(Append(s, Task("close", p))) \/ Continue(<<>>)
        BY <1>4 DEF revalidate_removal_node
    <2> QED
        BY <1>2, <2>3, <2>4
<1>5. CASE t.do = "remove" /\ remove_removal_node(p)
    <2>1. kinds = {"check", "remove", "unlink"}
        BY <1>5 DEF Follows
    <2> DEFINE s == Tasks("remove", p, NamesOf(plan, p))
               first == <<Task("check", p)>>
               last == <<Task("unlink", p)>>
    <2>2. Pushes(kinds, p, s) /\ Pushes(kinds, p, first) /\ Pushes(kinds, p, last)
        BY <1>1, <2>1, PushTasks, PushOne
    <2>3. Pushes(kinds, p, first \o s)
        BY <2>2, PushConcat
    <2>4. Pushes(kinds, p, (first \o s) \o last)
        BY <2>2, <2>3, PushConcat
    <2>5. Continue((first \o s) \o last)
        BY <1>5 DEF remove_removal_node
    <2> QED
        BY <2>4, <2>5
<1>6. \/ t.do = "plan" /\ preflight_removal_node(p)
      \/ t.do = "check" /\ revalidate_removal_node(p)
      \/ t.do = "remove" /\ remove_removal_node(p)
      \/ close_removal_node(p) \/ unlink_removal_node(p) \/ keep_plan(p)
    BY DEF WalkNode, t
<1> QED
    BY <1>2, <1>3, <1>4, <1>5, <1>6 DEF close_removal_node, unlink_removal_node, keep_plan

\* m tasks of these kinds, at p and at its entries, take the place of the
\* first one.
Pushed(kinds, p, m) ==
    /\ ASeq(todo') /\ Len(todo') = m + Len(todo) - 1
    /\ \A i \in 1..m : /\ todo'[i].do \in kinds
                       /\ todo'[i].at = p \/ \E x : todo'[i].at = Append(p, x)
    /\ \A i \in (m + 1)..Len(todo') : todo'[i] = todo[i - m + 1]

LEMMA PushedStack ==
    ASSUME ASeq(todo), todo # <<>>, NEW kinds, NEW p, NEW more, Pushes(kinds, p, more), Continue(more)
    PROVE  \E m \in Nat : Pushed(kinds, p, m)
<1>1. todo' = more \o Tail(todo) /\ ASeq(more)
    BY DEF Continue, Pushes
<1>2. ASeq(todo') /\ Len(todo') = Len(more) + Len(todo) - 1
    BY <1>1, ContinueFacts
<1>3. \A i \in 1..Len(more) : todo'[i] = more[i]
    BY <1>1, ContinueFacts
<1>4. \A i \in (Len(more) + 1)..Len(todo') : todo'[i] = todo[i - Len(more) + 1]
    BY <1>1, ContinueFacts
<1>5. Len(more) \in Nat
    BY <1>1, ASeqFacts
<1>6. Pushed(kinds, p, Len(more))
    BY <1>2, <1>3, <1>4 DEF Pushed, Pushes
<1> QED
    BY <1>5, <1>6

LEMMA PushedPaths ==
    ASSUME TodoInv, todo # <<>>, NEW kinds, NEW p, ASeq(p), NEW m \in Nat, Pushed(kinds, p, m)
    PROVE  TodoInv'
<1>1. Len(todo) \in Nat /\ Len(todo) >= 1 /\ Len(todo') \in Nat /\ Len(todo') = m + Len(todo) - 1
    BY ASeqFacts, TailFacts DEF TodoInv, Pushed
<1>2. \A x : ASeq(Append(p, x))
    BY AppendFacts
<1>3. ASSUME NEW i \in 1..Len(todo') PROVE ASeq(todo'[i].at)
    <2>1. CASE i <= m
        <3>1. i \in 1..m
            BY <2>1
        <3> QED
            BY <1>2, <3>1 DEF Pushed
    <2>2. CASE i > m
        <3>1. i \in (m + 1)..Len(todo') /\ i - m + 1 \in 1..Len(todo)
            BY <1>1, <2>2
        <3> QED
            BY <3>1 DEF Pushed, TodoInv
    <2> QED
        BY <1>1, <2>1, <2>2
<1> QED
    BY <1>3 DEF Pushed, TodoInv

LEMMA WalkStack ==
    ASSUME TreeInv(tree, fresh), TodoInv, PlanInv, WalkNode
    PROVE  /\ todo # <<>> /\ ASeq(Head(todo).at) /\ Head(todo) = todo[1]
           /\ \E m \in Nat : Pushed(Follows(Head(todo).do), Head(todo).at, m)
<1>1. todo # <<>> /\ ASeq(todo)
    BY DEF WalkNode, TodoInv
<1>2. Head(todo) = todo[1] /\ Len(todo) >= 1 /\ Len(todo) \in Nat
    BY <1>1, TailFacts, ASeqFacts
<1>3. 1 \in 1..Len(todo)
    BY <1>2
<1>4. ASeq(Head(todo).at)
    BY <1>2, <1>3 DEF TodoInv
<1>5. PICK more : Pushes(Follows(Head(todo).do), Head(todo).at, more) /\ Continue(more)
    BY WalkPushes
<1>6. \E m \in Nat : Pushed(Follows(Head(todo).do), Head(todo).at, m)
    BY <1>1, <1>5, PushedStack
<1> QED
    BY <1>1, <1>2, <1>4, <1>6

OwnedKinds == {"owned plan", "owned close", "owned check", "owned remove", "owned unlink"}

LEMMA OwnedPushes ==
    ASSUME TreeInv(tree, fresh), PlanInv, OwnedNode
    PROVE  \E more : Pushes(OwnedKinds, Head(todo).at, more) /\ Continue(more)
<1> DEFINE p == Head(todo).at
<1>1. IsFiniteSet(NamesOf(tree, p)) /\ IsFiniteSet(NamesOf(plan, p))
    BY NamesFinite DEF TreeInv, PlanInv
<1> SUFFICES \E more : Pushes(OwnedKinds, p, more) /\ Continue(more)
    OBVIOUS
<1>0. \/ preflight_owned_workspace_node(p) \/ revalidate_owned_workspace_node(p)
      \/ Continue(<<>>) \/ remove_preflighted_owned_workspace_node(p) \/ unlink_owned_workspace_node(p)
    BY DEF OwnedNode
<1> HIDE DEF p
<1>2. CASE Continue(<<>>)
    BY <1>2, PushNone
<1>3. ASSUME NEW kind \in OwnedKinds, NEW last \in OwnedKinds, NEW names, IsFiniteSet(names),
             Continue(Append(Tasks(kind, p, names), Task(last, p)))
      PROVE  \E more : Pushes(OwnedKinds, p, more) /\ Continue(more)
    <2>1. Pushes(OwnedKinds, p, Tasks(kind, p, names))
        BY <1>3, PushTasks
    <2>2. Pushes(OwnedKinds, p, Append(Tasks(kind, p, names), Task(last, p)))
        BY <2>1, PushEnd
    <2> QED
        BY <1>3, <2>2
<1>4. /\ "owned plan" \in OwnedKinds /\ "owned close" \in OwnedKinds /\ "owned check" \in OwnedKinds
      /\ "owned remove" \in OwnedKinds /\ "owned unlink" \in OwnedKinds
    BY DEF OwnedKinds
<1>5. CASE preflight_owned_workspace_node(p)
    <2>1. \/ Continue(Append(Tasks("owned plan", p, NamesOf(tree, p)), Task("owned close", p)))
          \/ Continue(<<>>)
        BY <1>5 DEF preflight_owned_workspace_node
    <2> QED
        BY <1>1, <1>2, <1>3, <1>4, <2>1
<1>6. CASE revalidate_owned_workspace_node(p)
    <2>1. \/ Continue(Append(Tasks("owned check", p, NamesOf(plan, p)), Task("owned close", p)))
          \/ Continue(<<>>)
        BY <1>6 DEF revalidate_owned_workspace_node
    <2> QED
        BY <1>1, <1>2, <1>3, <1>4, <2>1
<1>7. CASE remove_preflighted_owned_workspace_node(p)
    <2>1. Continue(Append(Tasks("owned remove", p, NamesOf(plan, p)), Task("owned unlink", p)))
        BY <1>7 DEF remove_preflighted_owned_workspace_node
    <2> QED
        BY <1>1, <1>3, <1>4, <2>1
<1> QED
    BY <1>0, <1>2, <1>5, <1>6, <1>7 DEF unlink_owned_workspace_node

\* A stack that is set up at p.
LEMMA PushedFromNothing ==
    ASSUME NEW kinds, NEW p, ASeq(p), Pushes(kinds, p, todo')
    PROVE  TodoInv'
<1>1. \A x : ASeq(Append(p, x))
    BY AppendFacts
<1> QED
    BY <1>1 DEF Pushes, TodoInv

LEMMA OwnedStart ==
    ASSUME TreeInv(tree, fresh), remove_owned_workspace_contents
    PROVE  TodoInv'
<1> DEFINE names == NamesOf(tree, Final)
           c == <<Task("owned close", Final)>>
           a == Tasks("owned plan", Final, names)
           b == Tasks("owned check", Final, names)
           d == Tasks("owned remove", Final, names)
<1>1. todo' = (((a \o c) \o b) \o c) \o d
    BY DEF remove_owned_workspace_contents
<1>2. IsFiniteSet(names)
    BY NamesFinite DEF TreeInv
<1>3. /\ "owned plan" \in OwnedKinds /\ "owned close" \in OwnedKinds /\ "owned check" \in OwnedKinds
      /\ "owned remove" \in OwnedKinds
    BY DEF OwnedKinds
<1> HIDE DEF names
<1>4. Pushes(OwnedKinds, Final, a) /\ Pushes(OwnedKinds, Final, b) /\ Pushes(OwnedKinds, Final, d)
    BY <1>2, <1>3, PushTasks
<1>5. Pushes(OwnedKinds, Final, c)
    BY <1>3, PushOne
<1> HIDE DEF a, b, c, d
<1>6. Pushes(OwnedKinds, Final, a \o c)
    BY <1>4, <1>5, PushConcat
<1>7. Pushes(OwnedKinds, Final, (a \o c) \o b)
    BY <1>4, <1>6, PushConcat
<1>8. Pushes(OwnedKinds, Final, ((a \o c) \o b) \o c)
    BY <1>5, <1>7, PushConcat
<1>9. Pushes(OwnedKinds, Final, todo')
    BY <1>1, <1>4, <1>8, PushConcat
<1> QED
    BY <1>9, LeafPaths, PushedFromNothing

LEMMA FourTasks ==
    ASSUME NEW x, NEW y, NEW z, NEW v
    PROVE  /\ ASeq(<<x, y, z>>) /\ Len(<<x, y, z>>) = 3
           /\ ASeq(<<x, y, z, v>>) /\ Len(<<x, y, z, v>>) = 4
<1>1. <<x, y, z>> \in Seq({x, y, z}) /\ <<x, y, z, v>> \in Seq({x, y, z, v})
    OBVIOUS
<1> QED
    BY <1>1 DEF ASeq

\* The work on an entry: what the stage does, at the entry, and its end.
LEMMA TakenStack ==
    ASSUME TakeTarget
    PROVE  /\ ASeq(todo') /\ stage \in {"plan", "check", "remove"}
           /\ \A i \in 1..Len(todo') :
                 /\ todo'[i].at = Top
                 /\ todo'[i].do = "plan" => stage = "plan"
                 /\ todo'[i].do \in {"remove", "unlink"} => stage = "remove"
                 /\ todo'[i].do = "release" => i = Len(todo')
<1> DEFINE p == Top
           a == Task("plan", p)
           b == Task("keep", p)
           c == Task("check", p)
           d == Task("remove", p)
           e == Task("release", p)
<1>1. todo' = [i \in DOMAIN Work[stage] |-> Task(Work[stage][i], p)] /\ stage \in DOMAIN Work
    BY DEF TakeTarget, Top
<1> HIDE DEF p
<1>2. stage \in {"plan", "check", "remove"}
    BY <1>1 DEF Work
<1>3. /\ a.at = p /\ b.at = p /\ c.at = p /\ d.at = p /\ e.at = p
      /\ a.do = "plan" /\ b.do = "keep" /\ c.do = "check" /\ d.do = "remove" /\ e.do = "release"
    BY DEF Task
<1>4. CASE stage = "plan"
    <2>1. Work[stage] = <<"plan", "keep", "release">>
        BY <1>4 DEF Work
    <2>2. todo' = <<a, b, e>>
        BY <1>1, <2>1
    <2> HIDE DEF a, b, c, d, e
    <2>3. ASeq(todo') /\ Len(todo') = 3 /\ todo'[1] = a /\ todo'[2] = b /\ todo'[3] = e
        BY <2>2, FourTasks
    <2>4. \A i \in 1..Len(todo') : i = 1 \/ i = 2 \/ i = 3
        BY <2>3
    <2> QED
        BY <1>2, <1>3, <1>4, <2>3, <2>4 DEF p
<1>5. CASE stage = "check"
    <2>1. Work[stage] = <<"check", "release">>
        BY <1>5 DEF Work
    <2>2. todo' = <<c, e>>
        BY <1>1, <2>1
    <2> HIDE DEF a, b, c, d, e
    <2>3. ASeq(todo') /\ Len(todo') = 2 /\ todo'[1] = c /\ todo'[2] = e
        BY <2>2, ShortSeqs
    <2>4. \A i \in 1..Len(todo') : i = 1 \/ i = 2
        BY <2>3
    <2> QED
        BY <1>2, <1>3, <1>5, <2>3, <2>4 DEF p
<1>6. CASE stage = "remove"
    <2>1. Work[stage] = <<"remove", "release">>
        BY <1>6 DEF Work
    <2>2. todo' = <<d, e>>
        BY <1>1, <2>1
    <2> HIDE DEF a, b, c, d, e
    <2>3. ASeq(todo') /\ Len(todo') = 2 /\ todo'[1] = d /\ todo'[2] = e
        BY <2>2, ShortSeqs
    <2>4. \A i \in 1..Len(todo') : i = 1 \/ i = 2
        BY <2>3
    <2> QED
        BY <1>2, <1>3, <1>6, <2>3, <2>4 DEF p
<1> QED
    BY <1>2, <1>4, <1>5, <1>6

\* The work of a rollback, and of the last step of a disposal.
LEMMA RollbackStack ==
    ASSUME todo' = <<Task("plan", Final), Task("keep", Final), Task("check", Final), Task("remove", Final)>>
    PROVE  /\ ASeq(todo') /\ Len(todo') = 4 /\ \A i \in 1..4 : todo'[i].at = Final
           /\ todo'[1].do = "plan" /\ todo'[2].do = "keep" /\ todo'[3].do = "check" /\ todo'[4].do = "remove"
<1> DEFINE a == Task("plan", Final)
           b == Task("keep", Final)
           c == Task("check", Final)
           d == Task("remove", Final)
<1>1. /\ a.at = Final /\ b.at = Final /\ c.at = Final /\ d.at = Final
      /\ a.do = "plan" /\ b.do = "keep" /\ c.do = "check" /\ d.do = "remove"
    BY DEF Task
<1>2. todo' = <<a, b, c, d>>
    OBVIOUS
<1> HIDE DEF a, b, c, d
<1>0. ASeq(<<a, b, c, d>>) /\ Len(<<a, b, c, d>>) = 4
    BY FourTasks
<1>3. ASeq(todo') /\ Len(todo') = 4 /\ todo'[1] = a /\ todo'[2] = b /\ todo'[3] = c /\ todo'[4] = d
    BY <1>0, <1>2
<1>4. \A i \in 1..4 : i = 1 \/ i = 2 \/ i = 3 \/ i = 4
    OBVIOUS
<1> QED
    BY <1>1, <1>3, <1>4

LEMMA CleanupStack ==
    ASSUME todo' = <<Task("plan", Final), Task("keep", Final), Task("remove", Final)>>
    PROVE  ASeq(todo') /\ \A i \in 1..Len(todo') : todo'[i].at = Final
<1> DEFINE a == Task("plan", Final)
           b == Task("keep", Final)
           d == Task("remove", Final)
<1>1. a.at = Final /\ b.at = Final /\ d.at = Final
    BY DEF Task
<1>2. todo' = <<a, b, d>>
    OBVIOUS
<1> HIDE DEF a, b, d
<1>0. ASeq(<<a, b, d>>) /\ Len(<<a, b, d>>) = 3
    BY FourTasks
<1>3. ASeq(todo') /\ Len(todo') = 3 /\ todo'[1] = a /\ todo'[2] = b /\ todo'[3] = d
    BY <1>0, <1>2
<1>4. \A i \in 1..3 : i = 1 \/ i = 2 \/ i = 3
    OBVIOUS
<1> QED
    BY <1>1, <1>3, <1>4

LEMMA TopPath == ASeq(Top)
BY LeafPaths, AppendFacts DEF Top, Leaf

LEMMA OwnedStack ==
    ASSUME TreeInv(tree, fresh), TodoInv, PlanInv, OwnedNode
    PROVE  TodoInv'
<1>1. todo # <<>> /\ ASeq(todo)
    BY DEF OwnedNode, TodoInv
<1>2. Head(todo) = todo[1] /\ Len(todo) >= 1 /\ Len(todo) \in Nat
    BY <1>1, TailFacts, ASeqFacts
<1>3. 1 \in 1..Len(todo)
    BY <1>2
<1>4. ASeq(Head(todo).at)
    BY <1>2, <1>3 DEF TodoInv
<1>5. PICK more : Pushes(OwnedKinds, Head(todo).at, more) /\ Continue(more)
    BY OwnedPushes
<1>6. \E m \in Nat : Pushed(OwnedKinds, Head(todo).at, m)
    BY <1>1, <1>5, PushedStack
<1> QED
    BY <1>1, <1>4, <1>6, PushedPaths

LEMMA ReleasedStack ==
    ASSUME TodoInv, ReleaseTarget
    PROVE  TodoInv' /\ todo # <<>> /\ Len(todo') = Len(todo) - 1 /\ Head(todo) = todo[1] /\ Len(todo) \in Nat
<1>1. todo # <<>> /\ Continue(<<>>) /\ ASeq(todo)
    BY DEF ReleaseTarget, TodoInv
<1>2. Pushes({}, <<>>, <<>>)
    BY PushNone
<1>3. PICK m \in Nat : Pushed({}, <<>>, m)
    BY <1>1, <1>2, PushedStack
<1>4. m = 0
    <2>1. CASE m > 0
        <3>1. 1 \in 1..m
            BY <2>1
        <3> QED
            BY <1>3, <3>1 DEF Pushed
    <2> QED
        BY <2>1
<1>5. ASeq(<<>>)
    BY ShortSeqs
<1>6. TodoInv'
    BY <1>1, <1>3, <1>5, PushedPaths
<1>7. Head(todo) = todo[1] /\ Len(todo) \in Nat
    BY <1>1, TailFacts, ASeqFacts
<1> QED
    BY <1>1, <1>3, <1>4, <1>6, <1>7 DEF Pushed

LEMMA NextTodo ==
    ASSUME TreeInv(tree, fresh), TodoInv, PlanInv, WorkspaceNext
    PROVE  TodoInv'
<1>1. CASE todo' = todo
    BY <1>1 DEF TodoInv
<1>2. CASE todo' = <<>>
    <2>1. ASeq(<<>>) /\ Len(<<>>) = 0
        BY ShortSeqs
    <2> QED
        BY <1>2, <2>1 DEF TodoInv
<1>3. CASE WalkNode
    BY <1>3, WalkStack, PushedPaths
<1>4. CASE OwnedNode
    BY <1>4, OwnedStack
<1>5. CASE remove_owned_workspace_contents
    BY <1>5, OwnedStart
<1>6. CASE TakeTarget
    BY <1>6, TakenStack, TopPath DEF TodoInv
<1>7. CASE ReleaseTarget
    BY <1>7, ReleasedStack
<1>8. CASE rollback_trusted_cache_path
    <2>1. ASeq(todo') /\ Len(todo') = 4 /\ \A i \in 1..4 : todo'[i].at = Final
        BY <1>8, RollbackStack DEF rollback_trusted_cache_path
    <2> QED
        BY <2>1, LeafPaths DEF TodoInv
<1>9. CASE cleanup
    <2>1. ASeq(todo') /\ \A i \in 1..Len(todo') : todo'[i].at = Final
        BY <1>9, CleanupStack DEF cleanup
    <2> QED
        BY <2>1, LeafPaths DEF TodoInv
<1>10. CASE CleanStep /\ ~TakeTarget /\ ~ReleaseTarget
    <2>1. \/ preflight_cache_cleanup \/ TargetRefused \/ PlansComplete \/ (\E yes \in BOOLEAN : cmd_clean(yes))
          \/ remove_preflighted_cache_paths \/ CleanDone \/ RootRefused
        BY <1>10 DEF CleanStep
    <2> QED
        BY <1>1, <1>2, <2>1 DEF preflight_cache_cleanup, TargetRefused, PlansComplete, cmd_clean,
           remove_preflighted_cache_paths, CleanDone, RootRefused, Throw
<1>11. CASE CreateStep /\ ~rollback_trusted_cache_path
    <2>1. \/ create_trusted_cache_directory \/ CreateRefused \/ ReadStaging \/ StagingLost
          \/ PublishStaging \/ PublishRefused \/ RevalidatePublished \/ RollbackStaged
          \/ DirCleanupGuard \/ GuardRefused \/ Fill \/ Commit \/ RollbackRefused \/ RollbackDone
        BY <1>11 DEF CreateStep
    <2> QED
        BY <1>1, <1>2, <2>1 DEF create_trusted_cache_directory, CreateRefused, ReadStaging, StagingLost,
           PublishStaging, PublishRefused, RevalidatePublished, RollbackStaged, rollback_staged_cache_directory,
           DirCleanupGuard, GuardRefused, Fill, Commit, RollbackRefused, RollbackDone, Throw
<1>12. CASE WorkspaceStep /\ ~OwnedNode /\ ~remove_owned_workspace_contents /\ ~cleanup
    <2>1. \/ materialize_local_source_workspace \/ CopyNode \/ CopyFails \/ BeginValidation
          \/ ValidateNode \/ ValidationFails \/ FinishCopy \/ CleanupFinished \/ CleanupFails
        BY <1>12 DEF WorkspaceStep
    <2> QED
        BY <1>1, <1>2, <2>1 DEF materialize_local_source_workspace, CopyNode, CopyFails, BeginValidation,
           ValidateNode, ValidationFails, FinishCopy, CleanupFinished, CleanupFails, Throw, Abandon, cacheVars
<1>13. CASE WorkspaceForeign
    BY <1>1, <1>13 DEF WorkspaceForeign, CacheForeign, SourceForeign, TheirRelease, TheirLease, cacheVars
<1>14. CASE WalkFails
    BY <1>2, <1>14 DEF WalkFails, Throw
<1> QED
    BY <1>3, <1>4, <1>5, <1>6, <1>7, <1>8, <1>9, <1>10, <1>11, <1>12, <1>13, <1>14 DEF WorkspaceNext, CacheNext

(***************************************************************************)
(* Only planned objects go                                                 *)
(***************************************************************************)
LEMMA RecordPlan ==
    ASSUME PlanInv, TreeInv(tree, fresh), NEW p \in DOMAIN tree, plan' = Put(plan, p, tree[p]),
           recorded' = recorded \cup {tree[p].id}, removed' = removed
    PROVE  PlanInv'
<1>1. tree[p] \in Nodes
    BY DEF TreeInv
<1>2. IsFiniteSet(DOMAIN plan \cup {p})
    BY FS_AddElement DEF PlanInv
<1>3. DOMAIN plan' = DOMAIN plan \cup {p} /\ plan'[p] = tree[p] /\ \A q \in DOMAIN plan : q # p => plan'[q] = plan[q]
    BY DEF Put
<1>4. plan' \in [DOMAIN plan \cup {p} -> Nodes]
    BY <1>1 DEF Put, PlanInv
<1> QED
    BY <1>2, <1>3, <1>4 DEF PlanInv

LEMMA WalkPlan ==
    ASSUME PlanInv, TreeInv(tree, fresh), WalkNode
    PROVE  PlanInv'
<1> DEFINE p == Head(todo).at
<1>1. \/ preflight_removal_node(p) \/ unlink_removal_node(p)
      \/ close_removal_node(p) \/ revalidate_removal_node(p) \/ remove_removal_node(p) \/ keep_plan(p)
    BY DEF WalkNode
<1> HIDE DEF p
<1>2. CASE preflight_removal_node(p)
    BY <1>2, RecordPlan DEF preflight_removal_node, MayRecord, Exists
<1>3. CASE unlink_removal_node(p)
    <2>1. p \in DOMAIN plan /\ tree[p].id = plan[p].id
        BY <1>3 DEF unlink_removal_node, MayUnlink, open_verified_removal_node,
           require_named_removal_node_identity, observe_removal_generation
    <2>2. plan' = plan /\ recorded' = recorded
          /\ \A r \in removed' : r \in removed \/ r.id = tree[p].id
        BY <1>3 DEF unlink_removal_node
    <2> QED
        BY <2>1, <2>2 DEF PlanInv
<1>4. CASE plan' = plan /\ recorded' = recorded /\ removed' = removed
    BY <1>4 DEF PlanInv
<1> QED
    BY <1>1, <1>2, <1>3, <1>4 DEF close_removal_node, revalidate_removal_node, remove_removal_node, keep_plan

LEMMA OwnedPlan ==
    ASSUME PlanInv, TreeInv(tree, fresh), OwnedNode
    PROVE  PlanInv'
<1> DEFINE t == Head(todo)
<1>1. \/ t.do = "owned plan" /\ preflight_owned_workspace_node(t.at)
      \/ t.do = "owned unlink" /\ unlink_owned_workspace_node(t.at)
      \/ revalidate_owned_workspace_node(t.at) \/ remove_preflighted_owned_workspace_node(t.at)
      \/ UNCHANGED <<plan, recorded, removed>>
    BY DEF OwnedNode
<1>2. OwnedHolds(t)
    BY DEF OwnedNode
<1> HIDE DEF t
<1>3. CASE t.do = "owned plan" /\ preflight_owned_workspace_node(t.at)
    <2>1. t.at \in DOMAIN tree
        BY <1>2, <1>3 DEF OwnedHolds, Exists
    <2> QED
        BY <1>3, <2>1, RecordPlan DEF preflight_owned_workspace_node
<1>4. CASE t.do = "owned unlink" /\ unlink_owned_workspace_node(t.at)
    <2>1. t.at \in DOMAIN plan /\ SameHandle(plan[t.at], tree[t.at])
        BY <1>2, <1>4 DEF OwnedHolds, require_owned_cleanup_identity
    <2>2. tree[t.at].id = plan[t.at].id
        BY <2>1 DEF SameHandle, observe_cleanup_file_handle
    <2>3. plan' = plan /\ recorded' = recorded
          /\ \A r \in removed' : r \in removed \/ r.id = tree[t.at].id
        <3> DEFINE e == [id |-> tree[t.at].id, leased |-> FALSE]
        <3>1. plan' = plan /\ recorded' = recorded /\ removed' = removed \cup {e}
            BY <1>4 DEF unlink_owned_workspace_node
        <3>2. e.id = tree[t.at].id
            OBVIOUS
        <3> HIDE DEF e
        <3> QED
            BY <3>1, <3>2
    <2> QED
        BY <2>1, <2>2, <2>3 DEF PlanInv
<1>5. CASE plan' = plan /\ recorded' = recorded /\ removed' = removed
    BY <1>5 DEF PlanInv
<1> QED
    BY <1>1, <1>3, <1>4, <1>5 DEF revalidate_owned_workspace_node, remove_preflighted_owned_workspace_node

\* The steps that neither plan nor unlink.
LEMMA OtherSteps ==
    ASSUME WorkspaceNext, ~WalkNode, ~OwnedNode, ~cleanup
    PROVE  plan' = plan /\ recorded' = recorded /\ removed' = removed
<1>1. CASE CleanStep \/ WalkFails
    <2>1. \/ preflight_cache_cleanup \/ TakeTarget \/ TargetRefused \/ ReleaseTarget
          \/ PlansComplete \/ (\E yes \in BOOLEAN : cmd_clean(yes))
          \/ remove_preflighted_cache_paths \/ CleanDone \/ RootRefused \/ WalkFails
        BY <1>1 DEF CleanStep
    <2> QED
        BY <2>1 DEF preflight_cache_cleanup, TakeTarget, TargetRefused, ReleaseTarget, PlansComplete, cmd_clean,
           remove_preflighted_cache_paths, CleanDone, RootRefused, WalkFails, Throw, Steady
<1>2. CASE CreateStep
    <2>1. \/ create_trusted_cache_directory \/ CreateRefused \/ ReadStaging \/ StagingLost
          \/ PublishStaging \/ PublishRefused \/ RevalidatePublished \/ RollbackStaged
          \/ DirCleanupGuard \/ GuardRefused \/ Fill \/ Commit \/ rollback_trusted_cache_path
          \/ RollbackRefused \/ RollbackDone
        BY <1>2 DEF CreateStep
    <2> QED
        BY <2>1 DEF create_trusted_cache_directory, CreateRefused, ReadStaging, StagingLost,
           PublishStaging, PublishRefused, RevalidatePublished, RollbackStaged,
           DirCleanupGuard, GuardRefused, Fill, Commit, rollback_trusted_cache_path,
           RollbackRefused, RollbackDone, Throw, Goes
<1>3. CASE WorkspaceStep
    <2>1. \/ materialize_local_source_workspace \/ CopyNode \/ CopyFails \/ BeginValidation
          \/ ValidateNode \/ ValidationFails \/ FinishCopy \/ CleanupFinished \/ CleanupFails
          \/ remove_owned_workspace_contents
        BY <1>3 DEF WorkspaceStep
    <2> QED
        BY <2>1 DEF materialize_local_source_workspace, CopyNode, CopyFails, BeginValidation,
           ValidateNode, ValidationFails, FinishCopy, CleanupFinished, CleanupFails,
           remove_owned_workspace_contents, Throw, Abandon, Goes, cacheVars
<1>4. CASE WorkspaceForeign
    BY <1>4 DEF WorkspaceForeign, CacheForeign, SourceForeign, TheirRelease, TheirLease, cacheVars
<1> QED
    BY <1>1, <1>2, <1>3, <1>4 DEF WorkspaceNext, CacheNext

LEMMA NextPlan ==
    ASSUME PlanInv, TreeInv(tree, fresh), WorkspaceNext
    PROVE  PlanInv'
<1>1. CASE cleanup
    <2>1. plan' = <<>> /\ recorded' = recorded /\ removed' = removed
        BY <1>1 DEF cleanup
    <2>2. DOMAIN plan' = {} /\ plan' \in [{} -> Nodes]
        BY <2>1
    <2>3. IsFiniteSet({})
        BY FS_EmptySet
    <2> QED
        BY <2>1, <2>2, <2>3 DEF PlanInv
<1>2. CASE ~WalkNode /\ ~OwnedNode /\ ~cleanup
    BY <1>2, OtherSteps DEF PlanInv
<1> QED
    BY <1>1, <1>2, WalkPlan, OwnedPlan

\* Other processes' flocks.
LEMMA NextTheirs ==
    ASSUME TreeInv(tree, fresh), TreeStep, TheirsInv, WorkspaceNext
    PROVE  TheirsInv'
<1>1. fresh \in Nat /\ fresh' \in Nat /\ fresh <= fresh'
    BY DEF TreeInv, TreeStep
<1>2. ASSUME theirs' \subseteq theirs PROVE TheirsInv'
    <2>1. \A x \in theirs' : x \in theirs /\ x \in Nat /\ x < fresh
        BY <1>2 DEF TheirsInv
    <2>2. \A x \in theirs' : x \in Nat /\ x < fresh'
        BY <1>1, <2>1
    <2>3. ASSUME NEW p \in DOMAIN tree', tree'[p].id \in theirs' PROVE tree'[p].kind = "dir"
        <3>1. tree'[p].id # fresh
            BY <1>1, <2>1, <2>3
        <3>2. PICK q \in DOMAIN tree : SameNode(tree'[p], tree[q])
            BY <2>3, <3>1 DEF TreeStep, Evolves
        <3> QED
            BY <2>1, <2>3, <3>2 DEF SameNode, TheirsInv
    <2> QED
        BY <2>2, <2>3 DEF TheirsInv
<1>3. CASE \E p \in ChildrenOf(tree, CacheRoot) : TheirLease(p)
    <2>1. PICK p : TheirLease(p)
        BY <1>3
    <2>2. /\ p \in DOMAIN tree /\ tree[p].kind = "dir" /\ theirs' = theirs \cup {tree[p].id}
          /\ tree' = tree /\ fresh' = fresh
        BY <2>1 DEF TheirLease, Exists
    <2>3. tree[p].id \in Nat /\ tree[p].id < fresh
        BY <2>2 DEF TreeInv, Nodes
    <2>4. \A q \in DOMAIN tree : tree[q].id = tree[p].id => q = p
        BY <2>2 DEF TreeInv
    <2> QED
        BY <2>2, <2>3, <2>4 DEF TheirsInv
<1>4. CASE ~\E p \in ChildrenOf(tree, CacheRoot) : TheirLease(p)
    <2>1. CASE CacheNext
        <3>1. CASE WalkNode \/ WalkFails \/ CleanStep
            <4>1. \/ preflight_cache_cleanup \/ TakeTarget \/ TargetRefused \/ ReleaseTarget
                  \/ PlansComplete \/ (\E yes \in BOOLEAN : cmd_clean(yes))
                  \/ remove_preflighted_cache_paths \/ CleanDone \/ RootRefused \/ WalkFails \/ WalkNode
                BY <3>1 DEF CleanStep
            <4> QED
                BY <1>2, <4>1 DEF preflight_cache_cleanup, TakeTarget, TargetRefused, ReleaseTarget, PlansComplete,
                   cmd_clean, remove_preflighted_cache_paths, CleanDone, RootRefused, WalkFails, WalkNode,
                   Throw, Steady
        <3>2. CASE CreateStep
            <4>1. \/ create_trusted_cache_directory \/ CreateRefused \/ ReadStaging \/ StagingLost
                  \/ PublishStaging \/ PublishRefused \/ RevalidatePublished \/ RollbackStaged
                  \/ DirCleanupGuard \/ GuardRefused \/ Fill \/ Commit \/ rollback_trusted_cache_path
                  \/ RollbackRefused \/ RollbackDone
                BY <3>2 DEF CreateStep
            <4> QED
                BY <1>2, <4>1 DEF create_trusted_cache_directory, CreateRefused, ReadStaging, StagingLost,
                   PublishStaging, PublishRefused, RevalidatePublished, RollbackStaged,
                   DirCleanupGuard, GuardRefused, Fill, Commit, rollback_trusted_cache_path,
                   RollbackRefused, RollbackDone, Throw, Goes
        <3> QED
            BY <2>1, <3>1, <3>2 DEF CacheNext
    <2>2. CASE WorkspaceStep
        <3>1. \/ materialize_local_source_workspace \/ CopyNode \/ CopyFails \/ BeginValidation
              \/ ValidateNode \/ ValidationFails \/ FinishCopy \/ CleanupFinished \/ CleanupFails
              \/ remove_owned_workspace_contents \/ OwnedNode \/ cleanup
            BY <2>2 DEF WorkspaceStep
        <3> QED
            BY <1>2, <3>1 DEF materialize_local_source_workspace, CopyNode, CopyFails, BeginValidation,
               ValidateNode, ValidationFails, FinishCopy, CleanupFinished, CleanupFails,
               remove_owned_workspace_contents, OwnedNode, cleanup, Throw, Abandon, Goes, cacheVars
    <2>3. CASE WorkspaceForeign
        BY <1>2, <1>4, <2>3 DEF WorkspaceForeign, CacheForeign, SourceForeign, TheirRelease, cacheVars
    <2> QED
        BY <2>1, <2>2, <2>3 DEF WorkspaceNext
<1> QED
    BY <1>3, <1>4

\* The stages of an operation are its own.
LEMMA NextStage ==
    ASSUME StageInv, WorkspaceNext
    PROVE  StageInv'
<1>1. CASE CleanStep \/ WalkNode \/ WalkFails
    <2>1. CASE Throw
        BY <2>1 DEF Throw, StageInv, Creates
    <2>2. CASE cacheOp' = cacheOp /\ stage' = stage
        BY <2>2 DEF StageInv, Creates
    <2>3. CASE cacheOp' = cacheOp /\ stage' \in {"plan", "done", "confirm", "check", "remove"}
        BY <2>3 DEF StageInv, Creates
    <2>4. \/ preflight_cache_cleanup \/ TakeTarget \/ TargetRefused \/ ReleaseTarget
          \/ PlansComplete \/ (\E yes \in BOOLEAN : cmd_clean(yes))
          \/ remove_preflighted_cache_paths \/ CleanDone \/ RootRefused \/ WalkFails \/ WalkNode
        BY <1>1 DEF CleanStep
    <2> QED
        BY <2>1, <2>2, <2>3, <2>4 DEF preflight_cache_cleanup, TakeTarget, TargetRefused, ReleaseTarget,
           PlansComplete, cmd_clean, remove_preflighted_cache_paths, CleanDone, RootRefused, WalkFails, WalkNode, Steady
<1>2. CASE CreateStep
    <2>1. CASE Throw
        BY <2>1 DEF Throw, StageInv, Creates
    <2>2. ASSUME NEW from, NEW to, Goes(from, to), to \notin {"copying", "validating"} PROVE StageInv'
        BY <2>2 DEF Goes, StageInv, Creates
    <2>3. \/ create_trusted_cache_directory \/ CreateRefused \/ ReadStaging \/ StagingLost
          \/ PublishStaging \/ PublishRefused \/ RevalidatePublished \/ RollbackStaged
          \/ DirCleanupGuard \/ GuardRefused \/ Fill \/ Commit \/ rollback_trusted_cache_path
          \/ RollbackRefused \/ RollbackDone
        BY <1>2 DEF CreateStep
    <2>4. CASE CreateRefused \/ StagingLost \/ GuardRefused \/ RollbackRefused
        BY <2>1, <2>4 DEF CreateRefused, StagingLost, GuardRefused, RollbackRefused
    <2>5. CASE rollback_trusted_cache_path
        <3>1. PICK from : Goes(from, "rollback")
            BY <2>5 DEF rollback_trusted_cache_path
        <3> QED
            BY <2>2, <3>1
    <2>6. CASE create_trusted_cache_directory
        BY <2>2, <2>6 DEF create_trusted_cache_directory
    <2>7. CASE ReadStaging
        BY <2>2, <2>7 DEF ReadStaging
    <2>8. CASE PublishStaging \/ PublishRefused
        BY <2>2, <2>8 DEF PublishStaging, PublishRefused
    <2>9. CASE RevalidatePublished
        BY <2>2, <2>9 DEF RevalidatePublished
    <2>10. CASE RollbackStaged
        BY <2>2, <2>10 DEF RollbackStaged
    <2>11. CASE DirCleanupGuard \/ Fill \/ Commit \/ RollbackDone
        BY <2>2, <2>11 DEF DirCleanupGuard, Fill, Commit, RollbackDone
    <2> QED
        BY <2>3, <2>4, <2>5, <2>6, <2>7, <2>8, <2>9, <2>10, <2>11
<1>3. CASE WorkspaceStep
    <2>1. CASE materialize_local_source_workspace \/ FinishCopy
        BY <2>1 DEF materialize_local_source_workspace, FinishCopy, Goes, StageInv, Creates
    <2>2. CASE CopyFails \/ ValidationFails
        BY <2>2 DEF CopyFails, ValidationFails, Abandon, StageInv, Creates
    <2>3. CASE BeginValidation
        BY <2>3 DEF BeginValidation, StageInv, Creates
    <2>4. CASE CopyNode \/ ValidateNode
        BY <2>4 DEF CopyNode, ValidateNode, cacheVars, StageInv, Creates
    <2>5. CASE remove_owned_workspace_contents \/ OwnedNode \/ cleanup \/ CleanupFinished \/ CleanupFails
        BY <2>5 DEF remove_owned_workspace_contents, OwnedNode, cleanup, CleanupFinished, CleanupFails, Throw,
           StageInv, Creates
    <2> QED
        BY <1>3, <2>1, <2>2, <2>3, <2>4, <2>5 DEF WorkspaceStep
<1>4. CASE WorkspaceForeign
    BY <1>4 DEF WorkspaceForeign, CacheForeign, SourceForeign, TheirRelease, TheirLease, cacheVars, StageInv, Creates
<1> QED
    BY <1>1, <1>2, <1>3, <1>4 DEF WorkspaceNext, CacheNext

LEMMA FollowsFacts ==
    ASSUME NEW do
    PROVE  /\ "plan" \in Follows(do) => do = "plan"
           /\ "remove" \in Follows(do) \/ "unlink" \in Follows(do) => do = "remove"
           /\ "release" \notin Follows(do) /\ "keep" \notin Follows(do)
           /\ do = "keep" => Follows(do) = {}
BY DEF Follows

\* Only preflight writes a plan.
LEMMA WalkPlans ==
    ASSUME WalkNode
    PROVE  \/ plan' = plan
           \/ /\ Head(todo).do = "plan" /\ Head(todo).at \in DOMAIN tree
              /\ plan' = Put(plan, Head(todo).at, tree[Head(todo).at])
<1> DEFINE t == Head(todo)
<1>1. \/ t.do = "plan" /\ preflight_removal_node(t.at)
      \/ plan' = plan
    BY DEF WalkNode, close_removal_node, revalidate_removal_node, remove_removal_node, unlink_removal_node, keep_plan
<1> QED
    BY <1>1 DEF preflight_removal_node, MayRecord, Exists

\* What lies below an entry has the entry in its lineage.
LEMMA TopBelow ==
    ASSUME NEW p, Under(Top, p)
    PROVE  /\ SubSeq(p, 1, Len(CacheRoot) + 1) = Top
           /\ p = Top \/ IsStrictPrefix(Top, p)
<1>1. ASeq(CacheRoot) /\ Len(CacheRoot) \in Nat
    BY LeafPaths, ASeqFacts
<1>2. ASeq(Top) /\ Len(Top) = Len(CacheRoot) + 1
    BY <1>1, AppendFacts DEF Top, Leaf
<1>3. ASeq(p) /\ Len(p) \in Nat /\ Len(Top) <= Len(p) /\ \A k \in 1..Len(Top) : p[k] = Top[k]
    BY ASeqFacts DEF Under
<1> DEFINE n == Len(Top)
           s == SubSeq(p, 1, n)
<1>4. n \in Nat /\ n \in 0..Len(p) /\ 1 \in 1..(Len(p) + 1) /\ 1 <= n + 1
    BY <1>1, <1>2, <1>3
<1>5. ASeq(s) /\ Len(s) = n - 1 + 1 /\ \A i \in 1..(n - 1 + 1) : s[i] = p[1 + i - 1]
    <2> HIDE DEF n
    <2>1. ASeq(s)
        BY <1>3, <1>4, SubSeqFacts
    <2>2. Len(s) = n - 1 + 1
        BY <1>3, <1>4, SubSeqFacts
    <2>3. \A i \in 1..(n - 1 + 1) : s[i] = p[1 + i - 1]
        BY <1>3, <1>4, SubSeqFacts
    <2> QED
        BY <2>1, <2>2, <2>3
<1>6. Len(s) = Len(Top) /\ \A i \in 1..Len(s) : s[i] = Top[i]
    <2> HIDE DEF s
    <2>1. n - 1 + 1 = n /\ \A i \in 1..n : 1 + i - 1 = i
        BY <1>4
    <2> QED
        BY <1>3, <1>5, <2>1
<1>7. s = Top
    <2> HIDE DEF s
    <2> QED
        BY <1>2, <1>5, <1>6, SameSequence
<1>8. SubSeq(Top, 1, Len(Top)) = Top
    <2> DEFINE r == SubSeq(Top, 1, n)
    <2>0. n \in 0..Len(Top) /\ 1 \in 1..(Len(Top) + 1)
        BY <1>4
    <2>1. ASeq(r) /\ Len(r) = n - 1 + 1
        BY <1>2, <1>4, <2>0, SubSeqFacts
    <2>2. \A i \in 1..(n - 1 + 1) : r[i] = Top[1 + i - 1]
        BY <1>2, <1>4, <2>0, SubSeqFacts
    <2> HIDE DEF r
    <2>3. n - 1 + 1 = n /\ \A i \in 1..n : 1 + i - 1 = i
        BY <1>4
    <2>4. r = Top
        BY <1>2, <2>1, <2>2, <2>3, SameSequence
    <2> QED
        BY <2>4 DEF r
<1>9. IsPrefix(Top, p)
    BY <1>3, <1>7, <1>8 DEF IsPrefix
<1> QED
    BY <1>2, <1>7, <1>9 DEF IsStrictPrefix

(***************************************************************************)
(* The cleaning of the cache                                               *)
(***************************************************************************)
\* What a cleaning unlinks is below an entry that nobody else has locked.
LEMMA UnlinkUnleased ==
    ASSUME EntryInv, NEW p, Under(Top, p), stage = "remove", MayUnlink(p)
    PROVE  TopOf(p).id \notin theirs
<1>1. SubSeq(p, 1, Len(CacheRoot) + 1) = Top
    BY TopBelow
<1>2. p = Top \/ IsStrictPrefix(Top, p)
    BY TopBelow
<1>3. Top \in DOMAIN plan /\ plan[Top].id = Leased.id /\ Leased.id \notin theirs
    BY DEF EntryInv
<1>4. open_verified_removal_node(Top)
    <2>1. CASE p = Top
        BY <2>1 DEF MayUnlink
    <2>2. CASE IsStrictPrefix(Top, p)
        BY <1>3, <2>2 DEF MayUnlink, open_removal_parent_lineage
    <2> QED
        BY <1>2, <2>1, <2>2
<1>5. tree[Top].id = plan[Top].id
    BY <1>4 DEF open_verified_removal_node, require_named_removal_node_identity, observe_removal_generation
<1> QED
    BY <1>1, <1>3, <1>5 DEF TopOf

LEMMA WalkUnleased ==
    ASSUME TodoInv, cacheOp = "clean", CleanInv, EntryInv, WalkNode, Head(todo) = todo[1]
    PROVE  \A r \in removed' : ~r.leased
<1> DEFINE t == Head(todo)
<1>1. \/ t.do = "unlink" /\ unlink_removal_node(t.at)
      \/ removed' = removed
    BY DEF WalkNode, preflight_removal_node, close_removal_node, revalidate_removal_node, remove_removal_node, keep_plan
<1>2. CASE removed' = removed
    BY <1>2 DEF CleanInv
<1>3. CASE t.do = "unlink" /\ unlink_removal_node(t.at)
    <2> DEFINE leased == TopOf(t.at).id \in theirs
               e == [id |-> tree[t.at].id, leased |-> leased]
    <2>1. todo # <<>> /\ ASeq(todo)
        BY DEF WalkNode, TodoInv
    <2>2. Len(todo) \in Nat /\ Len(todo) >= 1
        BY <2>1, ASeqFacts, TailFacts
    <2>3. 1 \in 1..Len(todo)
        BY <2>2
    <2>4. Under(Top, t.at) /\ stage = "remove"
        BY <1>3, <2>3 DEF EntryInv
    <2>5. MayUnlink(t.at) /\ removed' = removed \cup {e}
        BY <1>3 DEF unlink_removal_node
    <2>6. ~leased
        BY <2>4, <2>5, UnlinkUnleased
    <2> HIDE DEF leased
    <2>7. ~e.leased
        BY <2>6
    <2> HIDE DEF e
    <2> QED
        BY <2>5, <2>7 DEF CleanInv
<1> QED
    BY <1>1, <1>2, <1>3

LEMMA WalkClean ==
    ASSUME TreeInv(tree, fresh), TodoInv, PlanInv, cacheOp = "clean", CleanInv, WalkNode
    PROVE  CleanInv'
<1> DEFINE t == Head(todo)
<1>1. todo # <<>> /\ ASeq(t.at) /\ t = todo[1]
    BY WalkStack
<1>2. PICK m \in Nat : Pushed(Follows(t.do), t.at, m)
    BY WalkStack
<1>3. EntryInv
    BY <1>1 DEF CleanInv
<1>4. Len(todo) \in Nat /\ Len(todo) >= 1 /\ Len(todo') \in Nat /\ Len(todo') = m + Len(todo) - 1
    BY <1>1, <1>2, ASeqFacts, TailFacts DEF TodoInv, Pushed
<1>5. 1 \in 1..Len(todo)
    BY <1>4
<1>6. Under(Top, t.at) /\ (t.do = "plan" => stage = "plan") /\ (t.do \in {"remove", "unlink"} => stage = "remove")
    BY <1>1, <1>3, <1>5 DEF EntryInv
<1>7. /\ stage' = stage /\ lease' = lease /\ theirs' = theirs /\ targets' = targets /\ cacheOp' = cacheOp
      /\ Top' = Top /\ Leased' = Leased
    BY DEF WalkNode, Top, Leased, Leaf
<1>8. stage = "remove" => plan' = plan
    BY <1>6, WalkPlans
<1>9. \A r \in removed' : ~r.leased
    BY <1>1, <1>3, WalkUnleased
<1> HIDE DEF t
<1>10. \A x : Under(Top, Append(t.at, x))
    BY <1>6, TopPath, UnderAppend
<1>11. ASSUME NEW i \in 1..Len(todo')
       PROVE  /\ Under(Top, todo'[i].at)
              /\ todo'[i].do = "plan" => stage = "plan"
              /\ todo'[i].do \in {"remove", "unlink"} => stage = "remove"
              /\ todo'[i].do = "release" => i = Len(todo')
    <2>1. CASE i <= m
        <3>1. i \in 1..m
            BY <2>1
        <3>2. todo'[i].do \in Follows(t.do)
            BY <1>2, <3>1 DEF Pushed
        <3>3. Under(Top, todo'[i].at)
            BY <1>2, <1>6, <1>10, <3>1 DEF Pushed
        <3>4. "release" \notin Follows(t.do) /\ ("plan" \in Follows(t.do) => t.do = "plan")
              /\ ("remove" \in Follows(t.do) \/ "unlink" \in Follows(t.do) => t.do = "remove")
            BY FollowsFacts
        <3> QED
            BY <1>6, <3>2, <3>3, <3>4
    <2>2. CASE i > m
        <3> DEFINE j == i - m + 1
        <3>1. i \in (m + 1)..Len(todo') /\ j \in 1..Len(todo)
            BY <1>4, <2>2
        <3>2. todo'[i] = todo[j]
            BY <1>2, <3>1 DEF Pushed
        <3>3. j = Len(todo) => i = Len(todo')
            BY <1>4
        <3> HIDE DEF j
        <3> QED
            BY <1>3, <3>1, <3>2, <3>3 DEF EntryInv
    <2> QED
        BY <1>4, <2>1, <2>2
<1>12. EntryInv'
    BY <1>3, <1>7, <1>8, <1>11 DEF EntryInv
<1> QED
    BY <1>9, <1>12 DEF CleanInv

LEMMA TakeClean ==
    ASSUME TreeInv(tree, fresh), TheirsInv, CleanInv, TakeTarget
    PROVE  CleanInv'
<1> DEFINE n == tree[Top]
<1>1. cacheOp = "clean" /\ MayTakeTarget /\ acquire_removal_lease(Top)
    BY DEF TakeTarget, Top
<1>2. Top \in DOMAIN tree /\ LeaseFree(Top) /\ lease' = <<[node |-> n, locked |-> n.kind = "dir"]>>
    BY <1>1 DEF acquire_removal_lease, Exists
<1>3. n.id \notin theirs
    BY <1>2 DEF LeaseFree, TheirsInv
<1>4. /\ stage' = stage /\ theirs' = theirs /\ targets' = targets /\ cacheOp' = cacheOp /\ plan' = plan
      /\ removed' = removed /\ Top' = Top
    BY DEF TakeTarget, Steady, Top, Leaf
<1>5. 1 \in DOMAIN lease' /\ Leased' = n
    <2> DEFINE b == n.kind = "dir"
               l == [node |-> n, locked |-> b]
    <2>1. lease' = <<l>>
        BY <1>2
    <2>2. l.node = n
        BY Zenon
    <2> HIDE DEF l
    <2>3. 1 \in DOMAIN lease' /\ lease'[1] = l
        BY <2>1
    <2> QED
        BY <2>2, <2>3 DEF Leased
<1>6. stage = "remove" => Top \in DOMAIN plan /\ plan[Top].id = n.id
    <2> SUFFICES ASSUME stage = "remove" PROVE Top \in DOMAIN plan /\ plan[Top].id = n.id
        OBVIOUS
    <2>1. open_verified_removal_node(Top)
        BY <1>1 DEF MayTakeTarget, Top
    <2> QED
        BY <2>1 DEF open_verified_removal_node, require_named_removal_node_identity, observe_removal_generation
<1> HIDE DEF n
<1>7. /\ stage \in {"plan", "check", "remove"}
      /\ \A i \in 1..Len(todo') :
            /\ todo'[i].at = Top
            /\ todo'[i].do = "plan" => stage = "plan"
            /\ todo'[i].do \in {"remove", "unlink"} => stage = "remove"
            /\ todo'[i].do = "release" => i = Len(todo')
    BY TakenStack
<1>8. Under(Top, Top)
    BY TopPath, UnderSelf
<1>9. EntryInv'
    BY <1>3, <1>4, <1>5, <1>6, <1>7, <1>8 DEF EntryInv
<1> QED
    BY <1>1, <1>4, <1>9 DEF CleanInv

\* An invocation performs one operation.
LEMMA OneOperation ==
    ASSUME WorkspaceNext
    PROVE  cacheOp' = cacheOp
<1>1. CASE CleanStep \/ WalkNode \/ WalkFails
    <2>1. \/ preflight_cache_cleanup \/ TakeTarget \/ TargetRefused \/ ReleaseTarget
          \/ PlansComplete \/ (\E yes \in BOOLEAN : cmd_clean(yes))
          \/ remove_preflighted_cache_paths \/ CleanDone \/ RootRefused \/ WalkFails \/ WalkNode
        BY <1>1 DEF CleanStep
    <2> QED
        BY <2>1 DEF preflight_cache_cleanup, TakeTarget, TargetRefused, ReleaseTarget, PlansComplete, cmd_clean,
           remove_preflighted_cache_paths, CleanDone, RootRefused, WalkFails, WalkNode, Throw, Steady
<1>2. CASE CreateStep
    <2>1. \/ create_trusted_cache_directory \/ CreateRefused \/ ReadStaging \/ StagingLost
          \/ PublishStaging \/ PublishRefused \/ RevalidatePublished \/ RollbackStaged
          \/ DirCleanupGuard \/ GuardRefused \/ Fill \/ Commit \/ rollback_trusted_cache_path
          \/ RollbackRefused \/ RollbackDone
        BY <1>2 DEF CreateStep
    <2> QED
        BY <2>1 DEF create_trusted_cache_directory, CreateRefused, ReadStaging, StagingLost,
           PublishStaging, PublishRefused, RevalidatePublished, RollbackStaged,
           DirCleanupGuard, GuardRefused, Fill, Commit, rollback_trusted_cache_path,
           RollbackRefused, RollbackDone, Throw, Goes
<1>3. CASE WorkspaceStep
    BY <1>3 DEF WorkspaceStep, materialize_local_source_workspace, CopyNode, CopyFails, BeginValidation,
       ValidateNode, ValidationFails, FinishCopy, CleanupFinished, CleanupFails,
       remove_owned_workspace_contents, OwnedNode, cleanup, Throw, Abandon, Goes, cacheVars
<1>4. CASE WorkspaceForeign
    BY <1>4 DEF WorkspaceForeign, CacheForeign, SourceForeign, TheirRelease, TheirLease, cacheVars
<1> QED
    BY <1>1, <1>2, <1>3, <1>4 DEF WorkspaceNext, CacheNext

LEMMA NextClean ==
    ASSUME TreeInv(tree, fresh), TodoInv, PlanInv, TheirsInv, StageInv, CleanInv, WorkspaceNext
    PROVE  CleanInv'
<1>0. cacheOp' = cacheOp
    BY OneOperation
<1> SUFFICES ASSUME cacheOp = "clean" PROVE CleanInv'
    BY <1>0 DEF CleanInv
<1>1. CASE WalkNode
    BY <1>1, WalkClean
<1>2. CASE TakeTarget
    BY <1>2, TakeClean
<1>3. ASSUME removed' = removed, todo' = <<>> PROVE CleanInv'
    BY <1>3 DEF CleanInv
<1>4. CASE ReleaseTarget
    <2>1. ASeq(todo') /\ todo # <<>> /\ Len(todo') = Len(todo) - 1 /\ Head(todo) = todo[1] /\ Len(todo) \in Nat
        BY <1>4, ReleasedStack DEF TodoInv
    <2>2. Len(todo) >= 1
        BY <2>1, TailFacts DEF TodoInv
    <2>3. EntryInv /\ Head(todo).do = "release"
        BY <1>4, <2>1 DEF CleanInv, ReleaseTarget
    <2>4. 1 = Len(todo)
        BY <2>1, <2>2, <2>3 DEF EntryInv
    <2>5. Len(todo') = 0
        <3>1. Len(todo') = Len(todo) - 1
            BY <2>1
        <3>2. Len(todo) = 1
            BY <2>4
        <3> QED
            BY <3>1, <3>2, 1 - 1 = 0
    <2>6. todo' = <<>>
        BY <2>1, <2>5, ASeqFacts
    <2> QED
        BY <1>3, <1>4, <2>6 DEF ReleaseTarget, Steady
<1>5. CASE CleanStep /\ ~TakeTarget /\ ~ReleaseTarget
    <2>1. \/ preflight_cache_cleanup \/ TargetRefused \/ PlansComplete \/ (\E yes \in BOOLEAN : cmd_clean(yes))
          \/ remove_preflighted_cache_paths \/ CleanDone \/ RootRefused
        BY <1>5 DEF CleanStep
    <2>2. CASE Throw
        BY <1>3, <2>2 DEF Throw
    <2>3. CASE preflight_cache_cleanup \/ (\E yes \in BOOLEAN : cmd_clean(yes))
        <3>1. todo' = todo /\ removed' = removed /\ stage \notin {"plan", "check", "remove"}
            BY <2>3 DEF preflight_cache_cleanup, cmd_clean, Steady
        <3>2. todo = <<>>
            BY <3>1 DEF CleanInv, EntryInv
        <3> QED
            BY <1>3, <3>1, <3>2
    <2>4. CASE PlansComplete \/ remove_preflighted_cache_paths \/ CleanDone
        BY <1>3, <2>4 DEF PlansComplete, remove_preflighted_cache_paths, CleanDone, StageDone, Steady
    <2> QED
        BY <2>1, <2>2, <2>3, <2>4 DEF TargetRefused, RootRefused
<1>6. CASE WalkFails
    BY <1>3, <1>6 DEF WalkFails, Throw
<1>7. CASE CreateStep
    <2>1. cacheOp \in Creates
        <3>1. \/ create_trusted_cache_directory \/ CreateRefused \/ ReadStaging \/ StagingLost
              \/ PublishStaging \/ PublishRefused \/ RevalidatePublished \/ RollbackStaged
              \/ DirCleanupGuard \/ GuardRefused \/ Fill \/ Commit \/ rollback_trusted_cache_path
              \/ RollbackRefused \/ RollbackDone
            BY <1>7 DEF CreateStep
        <3> QED
            BY <3>1 DEF create_trusted_cache_directory, CreateRefused, ReadStaging, StagingLost,
               PublishStaging, PublishRefused, RevalidatePublished, RollbackStaged,
               DirCleanupGuard, GuardRefused, Fill, Commit, rollback_trusted_cache_path,
               RollbackRefused, RollbackDone, Goes
    <2> QED
        BY <2>1 DEF Creates
<1>8. CASE WorkspaceStep
    <2>1. cacheOp # "clean"
        BY <1>8 DEF WorkspaceStep, materialize_local_source_workspace, CopyNode, CopyFails, BeginValidation,
           ValidateNode, ValidationFails, FinishCopy, CleanupFinished, CleanupFails,
           remove_owned_workspace_contents, OwnedNode, cleanup, StageInv
    <2> QED
        BY <2>1
<1>9. CASE WorkspaceForeign
    <2>1. CASE CacheForeign(DOMAIN tree)
        BY <2>1 DEF CacheForeign, cacheVars, CleanInv, EntryInv, Top, Leased, Leaf
    <2>2. CASE TheirRelease
        <3>1. todo # <<>> /\ EntryInv => EntryInv'
            BY <2>2 DEF TheirRelease, EntryInv, Top, Leased, Leaf
        <3>2. todo' = todo /\ removed' = removed
            BY <2>2 DEF TheirRelease
        <3> QED
            BY <3>1, <3>2 DEF CleanInv
    <2>3. CASE \E p \in ChildrenOf(tree, CacheRoot) : TheirLease(p)
        <3>1. PICK p : TheirLease(p)
            BY <2>3
        <3>2. /\ todo' = todo /\ removed' = removed /\ stage' = stage /\ lease' = lease /\ targets' = targets
              /\ plan' = plan /\ Top' = Top /\ Leased' = Leased /\ theirs' = theirs \cup {tree[p].id}
              /\ tree[p].id \notin {l.node.id : l \in Range(lease)}
            BY <3>1 DEF TheirLease, Top, Leased, Leaf
        <3>3. 1 \in DOMAIN lease => tree[p].id # Leased.id
            BY <3>2 DEF Range, Leased
        <3>4. EntryInv => EntryInv'
            BY <3>2, <3>3 DEF EntryInv
        <3> QED
            BY <3>2, <3>4 DEF CleanInv
    <2> QED
        BY <1>9, <2>1, <2>2, <2>3 DEF WorkspaceForeign
<1> QED
    BY <1>1, <1>2, <1>4, <1>5, <1>6, <1>7, <1>8, <1>9 DEF WorkspaceNext, CacheNext

(***************************************************************************)
(* The creation of a directory, and its rollback                           *)
(***************************************************************************)
\* Nobody gets the inode number of the directory that the guard holds.
LEMMA GuardStays ==
    ASSUME TreeInv(tree, fresh), TreeStep, GuardInv, stage \in Guarded, made' = made
    PROVE  GuardInv'
<1>1. made[1].ino \in Pins
    <2>1. made[1].ino \in {n.ino : n \in Range(made)}
        BY DEF GuardInv, Range
    <2>2. stage \in {"staged", "published", "guarded", "undo", "rollback", "copying", "validating", "held"}
        BY DEF Guarded
    <2> QED
        BY <2>1, <2>2 DEF Pins
<1>2. fresh \in Nat /\ fresh' \in Nat /\ fresh <= fresh' /\ made[1].ino \in Nat /\ made[1].ino < fresh
    BY DEF TreeInv, TreeStep, GuardInv, Nodes
<1>3. made[1].ino < fresh' /\ made[1].ino # fresh
    BY <1>2
<1>4. ASSUME NEW p \in DOMAIN tree', tree'[p].ino = made[1].ino PROVE tree'[p].id = made[1].id
    <2>1. CASE \E q \in DOMAIN tree : SameNode(tree'[p], tree[q])
        BY <1>4, <2>1 DEF SameNode, GuardInv, RetainedIn
    <2>2. CASE tree'[p].ino = fresh
        BY <1>3, <1>4, <2>2
    <2>3. CASE \E q \in DOMAIN tree : tree'[p].ino = tree[q].ino /\ tree[q].ino \notin Pins
        BY <1>1, <1>4, <2>3
    <2> QED
        BY <2>1, <2>2, <2>3 DEF TreeStep, Evolves
<1> QED
    BY <1>3, <1>4 DEF GuardInv, RetainedIn

LEMMA WalkRollback ==
    ASSUME TreeInv(tree, fresh), TodoInv, PlanInv, cacheOp \in Creates, GuardInv, RollbackInv, WalkNode
    PROVE  RollbackInv'
<1> DEFINE t == Head(todo)
<1>1. todo # <<>> /\ ASeq(t.at) /\ t = todo[1]
    BY WalkStack
<1>2. PICK m \in Nat : Pushed(Follows(t.do), t.at, m)
    BY WalkStack
<1>3. Len(todo) \in Nat /\ Len(todo) >= 1 /\ Len(todo') \in Nat /\ Len(todo') = m + Len(todo) - 1
    BY <1>1, <1>2, ASeqFacts, TailFacts DEF TodoInv, Pushed
<1>4. 1 \in 1..Len(todo) /\ made' = made
    BY <1>3 DEF WalkNode
<1>5. /\ "release" \notin Follows(t.do) /\ "keep" \notin Follows(t.do)
      /\ "plan" \in Follows(t.do) => t.do = "plan"
      /\ t.do = "keep" => Follows(t.do) = {}
    BY FollowsFacts
<1>6. plan' = plan \/ (t.do = "plan" /\ t.at \in DOMAIN tree /\ plan' = Put(plan, t.at, tree[t.at]))
    BY WalkPlans
<1>7. t.do = "keep" => MayKeepPlan(t.at)
    BY DEF WalkNode, keep_plan
<1> HIDE DEF t
<1>8. ASSUME NEW i \in 1..Len(todo')
      PROVE  \/ i <= m /\ todo'[i].do \in Follows(t.do)
             \/ i > m /\ i - m + 1 \in 2..Len(todo) /\ todo'[i] = todo[i - m + 1]
    <2>1. CASE i <= m
        <3>1. i \in 1..m
            BY <2>1
        <3> QED
            BY <1>2, <2>1, <3>1 DEF Pushed
    <2>2. CASE i > m
        <3>1. i \in (m + 1)..Len(todo') /\ i - m + 1 \in 2..Len(todo)
            BY <1>3, <2>2
        <3> QED
            BY <1>2, <2>2, <3>1 DEF Pushed
    <2> QED
        BY <1>3, <2>1, <2>2
<1>9. \A i \in 2..Len(todo) : i \in 1..Len(todo)
    BY <1>3
<1>10. RetainedIn(plan)'
    <2>1. CASE plan' = plan
        BY <1>4, <2>1 DEF RollbackInv, RetainedIn
    <2>2. CASE t.at \in DOMAIN tree /\ plan' = Put(plan, t.at, tree[t.at])
        <3>1. \A p \in DOMAIN plan' : \/ p \in DOMAIN plan /\ plan'[p] = plan[p]
                                      \/ p = t.at /\ plan'[p] = tree[t.at]
            BY <2>2 DEF Put
        <3> QED
            BY <1>4, <2>2, <3>1 DEF RollbackInv, RetainedIn, GuardInv
    <2> QED
        BY <1>6, <2>1, <2>2
<1>11. ASSUME NEW i \in 1..Len(todo')
       PROVE  (todo'[i].do = "keep" => todo'[i].at = Final) /\ todo'[i].do # "release"
    <2> DEFINE h == i - m + 1
    <2>1. CASE todo'[i].do \in Follows(t.do)
        BY <1>5, <2>1
    <2>2. CASE h \in 2..Len(todo) /\ todo'[i] = todo[h]
        <3>1. h \in 1..Len(todo)
            BY <1>9, <2>2
        <3> HIDE DEF h
        <3>2. (todo[h].do = "keep" => todo[h].at = Final) /\ todo[h].do # "release"
            BY <3>1 DEF RollbackInv
        <3> QED
            BY <2>2, <3>2
    <2> QED
        BY <1>8, <2>1, <2>2
<1>12. ASSUME NEW i \in 1..Len(todo'), NEW j \in 1..Len(todo'), todo'[i].do = "plan", todo'[j].do = "keep"
       PROVE  i < j
    <2> DEFINE h == i - m + 1
               k == j - m + 1
    <2>1. j > m /\ k \in 2..Len(todo) /\ todo'[j] = todo[k]
        BY <1>5, <1>8, <1>12
    <2>2. CASE i <= m
        BY <2>1, <2>2
    <2>3. CASE i > m /\ h \in 2..Len(todo) /\ todo'[i] = todo[h]
        <3>1. h < k
            <4> HIDE DEF h, k
            <4> QED
                BY <1>9, <1>12, <2>1, <2>3 DEF RollbackInv
        <3> QED
            BY <3>1
    <2> QED
        BY <1>8, <2>2, <2>3
<1>13. \/ \E i \in 1..Len(todo') : todo'[i].do = "keep"
       \/ /\ Final \in DOMAIN plan' /\ plan'[Final].ino = made[1].ino
          /\ \A i \in 1..Len(todo') : todo'[i].do # "plan"
    <2>1. CASE t.do = "keep"
        <3>1. Follows(t.do) = {} /\ t.at = Final /\ t.do # "plan" /\ plan' = plan
            BY <1>1, <1>4, <1>5, <1>6, <2>1 DEF RollbackInv
        <3>2. Final \in DOMAIN plan /\ plan[Final].ino = made[1].ino
            BY <1>7, <2>1, <3>1 DEF MayKeepPlan, same_identity_and_type, Creates
        <3>3. ASSUME NEW i \in 1..Len(todo'), todo'[i].do = "plan" PROVE FALSE
            <4> DEFINE h == i - m + 1
            <4>1. h \in 2..Len(todo) /\ todo'[i] = todo[h]
                BY <1>8, <3>1
            <4> HIDE DEF h
            <4>2. h < 1
                BY <1>1, <1>4, <1>9, <2>1, <3>3, <4>1 DEF RollbackInv
            <4> QED
                BY <4>1, <4>2
        <3> QED
            BY <3>1, <3>2, <3>3
    <2>2. CASE t.do # "keep" /\ \E i \in 1..Len(todo) : todo[i].do = "keep"
        <3>1. PICK k \in 1..Len(todo) : todo[k].do = "keep"
            BY <2>2
        <3>2. k # 1
            BY <1>1, <2>2, <3>1
        <3> DEFINE i == k + m - 1
        <3>3. i \in (m + 1)..Len(todo') /\ i \in 1..Len(todo') /\ i - m + 1 = k
            BY <1>3, <3>2
        <3> HIDE DEF i
        <3>4. todo'[i] = todo[k]
            BY <1>2, <3>3 DEF Pushed
        <3> QED
            BY <3>1, <3>3, <3>4
    <2>3. CASE t.do # "keep" /\ ~\E i \in 1..Len(todo) : todo[i].do = "keep"
        <3>1. /\ Final \in DOMAIN plan /\ plan[Final].ino = made[1].ino
              /\ \A i \in 1..Len(todo) : todo[i].do # "plan"
            BY <2>3 DEF RollbackInv
        <3>2. t.do # "plan" /\ plan' = plan
            BY <1>1, <1>4, <1>6, <3>1
        <3>3. \A i \in 1..Len(todo') : todo'[i].do # "plan"
            BY <1>5, <1>8, <1>9, <3>1, <3>2
        <3> QED
            BY <3>1, <3>2, <3>3
    <2> QED
        BY <2>1, <2>2, <2>3
<1> QED
    BY <1>4, <1>10, <1>11, <1>12, <1>13 DEF RollbackInv

\* The steps of a creation that is not being rolled back.
LEMMA StepsOfCreation ==
    ASSUME cacheOp \in Creates, CreateInv, StageInv, CreateStep,
           ~DirCleanupGuard, ~rollback_trusted_cache_path, ~RollbackDone, ~Throw
    PROVE  /\ todo' = todo /\ plan' = plan
           /\ stage \notin {"rollback", "rolled back", "failed"} /\ stage' \notin {"rollback", "rolled back"}
           /\ stage' \in Guarded => stage \in Guarded /\ made' = made
<1>1. \/ create_trusted_cache_directory \/ ReadStaging \/ PublishStaging \/ PublishRefused
      \/ RevalidatePublished \/ RollbackStaged \/ Fill \/ Commit
    BY DEF CreateStep, CreateRefused, StagingLost, GuardRefused, RollbackRefused
<1>2. CASE create_trusted_cache_directory
    BY <1>2 DEF create_trusted_cache_directory, Goes, Guarded
<1>3. CASE ReadStaging
    BY <1>3 DEF ReadStaging, Goes, Guarded
<1>4. CASE PublishStaging \/ PublishRefused
    BY <1>4 DEF PublishStaging, PublishRefused, Goes, Guarded
<1>5. CASE RevalidatePublished
    BY <1>5 DEF RevalidatePublished, Goes, Guarded
<1>6. CASE RollbackStaged
    BY <1>6 DEF RollbackStaged, rollback_staged_cache_directory, Goes, Guarded
<1>7. CASE Fill \/ Commit
    BY <1>7 DEF Fill, Commit, Goes, Guarded
<1> QED
    BY <1>1, <1>2, <1>3, <1>4, <1>5, <1>6, <1>7

LEMMA StepsOfCopy ==
    ASSUME cacheOp \in Creates, WorkspaceStep
    PROVE  /\ todo' = todo /\ plan' = plan
           /\ stage \notin {"rollback", "rolled back", "failed"} /\ stage' \notin {"rollback", "rolled back"}
           /\ stage' \in Guarded => stage \in Guarded /\ made' = made
<1>1. \/ materialize_local_source_workspace \/ CopyNode \/ CopyFails \/ BeginValidation
      \/ ValidateNode \/ ValidationFails \/ FinishCopy
    BY DEF WorkspaceStep, CleanupFinished, CleanupFails, remove_owned_workspace_contents, OwnedNode, cleanup, Creates
<1>2. CASE materialize_local_source_workspace
    BY <1>2 DEF materialize_local_source_workspace, Goes, Guarded
<1>3. CASE CopyNode \/ ValidateNode
    BY <1>3 DEF CopyNode, ValidateNode, cacheVars, Guarded
<1>4. CASE CopyFails \/ ValidationFails
    BY <1>4 DEF CopyFails, ValidationFails, Abandon, Guarded
<1>5. CASE BeginValidation
    BY <1>5 DEF BeginValidation, Guarded
<1>6. CASE FinishCopy
    BY <1>6 DEF FinishCopy, Goes, Guarded
<1> QED
    BY <1>1, <1>2, <1>3, <1>4, <1>5, <1>6

LEMMA NextCreate ==
    ASSUME TreeInv(tree, fresh), TreeStep, TodoInv, PlanInv, StageInv, CreateInv, WorkspaceNext,
           cacheOp' = cacheOp
    PROVE  CreateInv'
<1> SUFFICES ASSUME cacheOp \in Creates PROVE CreateInv'
    BY DEF CreateInv
<1>0. cacheOp # "clean" /\ cacheOp # "dispose"
    BY DEF Creates
<1>1. CASE Throw
    BY <1>1 DEF Throw, CreateInv, Guarded
<1>2. CASE WalkNode
    <2>1. todo # <<>> /\ stage' = stage /\ made' = made
        BY <1>2 DEF WalkNode
    <2>2. stage = "rollback" /\ GuardInv /\ RollbackInv
        BY <2>1 DEF CreateInv, Guarded
    <2>3. GuardInv' /\ RollbackInv'
        BY <1>2, <2>1, <2>2, GuardStays, WalkRollback DEF Guarded
    <2> QED
        BY <2>1, <2>2, <2>3 DEF CreateInv
<1>3. CASE rollback_trusted_cache_path
    <2>1. stage \in {"guarded", "undo"} /\ stage' = "rollback" /\ plan' = plan /\ made' = made
        BY <1>3 DEF rollback_trusted_cache_path, Goes
    <2>2. DOMAIN plan = {} /\ GuardInv
        BY <2>1 DEF CreateInv, Guarded
    <2>3. GuardInv'
        BY <2>1, <2>2, GuardStays DEF Guarded
    <2>4. /\ Len(todo') = 4 /\ \A i \in 1..4 : todo'[i].at = Final
          /\ todo'[1].do = "plan" /\ todo'[2].do = "keep" /\ todo'[3].do = "check" /\ todo'[4].do = "remove"
        BY <1>3, RollbackStack DEF rollback_trusted_cache_path
    <2>5. \A i \in 1..4 : i = 1 \/ i = 2 \/ i = 3 \/ i = 4
        OBVIOUS
    <2>6. RetainedIn(plan)'
        BY <2>1, <2>2 DEF RetainedIn
    <2>7. \A i, j \in 1..4 : todo'[i].do = "plan" /\ todo'[j].do = "keep" => i < j
        <3>1. \A i \in 1..4 : todo'[i].do = "plan" => i = 1
            BY <2>4, <2>5
        <3>2. \A j \in 1..4 : todo'[j].do = "keep" => j = 2
            BY <2>4, <2>5
        <3> QED
            BY <3>1, <3>2
    <2>8. \E i \in 1..4 : todo'[i].do = "keep"
        BY <2>4
    <2>9. RollbackInv'
        BY <2>4, <2>5, <2>6, <2>7, <2>8 DEF RollbackInv
    <2> QED
        BY <2>1, <2>3, <2>9 DEF CreateInv
<1>4. CASE RollbackDone
    <2>1. stage = "rollback" /\ stage' = "rolled back" /\ plan' = plan /\ made' = made /\ todo = <<>> /\ todo' = todo
        BY <1>4 DEF RollbackDone, Goes
    <2>2. RollbackInv
        BY <2>1 DEF CreateInv
    <2>3. Len(todo) = 0
        BY <2>1, ASeqFacts DEF TodoInv
    <2>4. Final \in DOMAIN plan /\ plan[Final].ino = made[1].ino
        BY <2>2, <2>3 DEF RollbackInv
    <2>5. plan[Final].id = made[1].id
        BY <2>2, <2>4 DEF RollbackInv, RetainedIn
    <2> QED
        BY <2>1, <2>5 DEF CreateInv, Guarded
<1>5. CASE DirCleanupGuard
    <2>1. /\ stage = "created" /\ stage' = "guarded" /\ plan' = plan /\ made' = <<tree[Final]>>
          /\ todo' = todo /\ tree' = tree /\ fresh' = fresh /\ Final \in DOMAIN tree
        BY <1>5 DEF DirCleanupGuard, Goes, Untouched, revalidate_trusted_cache_path, inspect_cache_child, Exists
    <2>2. 1 \in DOMAIN made' /\ made'[1] = tree[Final]
        BY <2>1
    <2>3. tree[Final] \in Nodes /\ tree[Final].ino < fresh
        BY <2>1 DEF TreeInv
    <2>4. \A p \in DOMAIN tree : tree[p].ino = tree[Final].ino => p = Final
        BY <2>1 DEF TreeInv
    <2>5. GuardInv'
        BY <2>1, <2>2, <2>3, <2>4 DEF GuardInv, RetainedIn
    <2> QED
        BY <2>1, <2>5 DEF CreateInv
<1>6. ASSUME /\ todo' = todo /\ plan' = plan
             /\ stage \notin {"rollback", "rolled back", "failed"} /\ stage' \notin {"rollback", "rolled back"}
             /\ stage' \in Guarded => stage \in Guarded /\ made' = made
      PROVE  CreateInv'
    <2>1. todo' = <<>> /\ DOMAIN plan' = {}
        BY <1>6 DEF CreateInv
    <2>2. stage' \in Guarded => GuardInv'
        BY <1>6, GuardStays DEF CreateInv
    <2> QED
        BY <1>6, <2>1, <2>2 DEF CreateInv
<1>7. CASE WorkspaceStep
    BY <1>6, <1>7, StepsOfCopy
<1>8. CASE CreateStep
    BY <1>1, <1>3, <1>4, <1>5, <1>6, <1>8, StepsOfCreation
<1>9. CASE WorkspaceForeign
    <2>1. todo' = todo /\ plan' = plan /\ stage' = stage /\ made' = made
        BY <1>9 DEF WorkspaceForeign, CacheForeign, SourceForeign, TheirRelease, TheirLease, cacheVars
    <2>2. stage \in Guarded => GuardInv'
        BY <2>1, GuardStays DEF CreateInv
    <2>3. RollbackInv => RollbackInv'
        BY <2>1 DEF RollbackInv, RetainedIn
    <2> QED
        BY <2>1, <2>2, <2>3 DEF CreateInv
<1>10. CASE WalkFails
    BY <1>1, <1>10 DEF WalkFails
<1>11. CASE CleanStep
    <2>1. ReleaseTarget
        BY <1>0, <1>11 DEF CleanStep, preflight_cache_cleanup, TakeTarget, TargetRefused, PlansComplete, cmd_clean,
           remove_preflighted_cache_paths, CleanDone, RootRefused, StageDone
    <2>2. todo # <<>> /\ Head(todo).do = "release"
        BY <2>1 DEF ReleaseTarget
    <2>3. stage = "rollback" /\ RollbackInv
        BY <2>2 DEF CreateInv
    <2>4. Head(todo) = todo[1] /\ Len(todo) \in Nat /\ Len(todo) >= 1
        BY <2>2, TailFacts, ASeqFacts DEF TodoInv
    <2>5. 1 \in 1..Len(todo)
        BY <2>4
    <2>6. todo[1].do # "release"
        BY <2>3, <2>5 DEF RollbackInv
    <2> QED
        BY <2>2, <2>4, <2>6
<1> QED
    BY <1>2, <1>7, <1>8, <1>9, <1>10, <1>11 DEF WorkspaceNext, CacheNext

(***************************************************************************)
(* The theorem                                                             *)
(***************************************************************************)
LEMMA InitInv ==
    ASSUME WorkspaceInit
    PROVE  WorkspaceInv
<1>1. TreeInv(tree, fresh)
    BY DEF WorkspaceInit, TreeOK, TreeInv, ASeq
<1>2. /\ steps = <<>> /\ todo = <<>> /\ plan = <<>> /\ recorded = {} /\ removed = {} /\ theirs = {}
      /\ stage = "start" /\ cacheOp \in {"clean", "create", "copy", "dispose"}
    BY DEF WorkspaceInit, CacheIdle, CopyIdle
<1>3. ASeq(<<>>) /\ Len(<<>>) = 0
    BY ShortSeqs
<1>4. StepsInv /\ TodoInv
    BY <1>2, <1>3 DEF StepsInv, TodoInv
<1>5. DOMAIN plan = {} /\ plan \in [{} -> Nodes] /\ IsFiniteSet({})
    BY <1>2, FS_EmptySet
<1>6. PlanInv
    BY <1>2, <1>5 DEF PlanInv
<1>7. TheirsInv /\ CleanInv /\ StageInv
    BY <1>2 DEF TheirsInv, CleanInv, StageInv
<1>8. CreateInv
    BY <1>2, <1>5 DEF CreateInv, Guarded
<1> QED
    BY <1>1, <1>4, <1>6, <1>7, <1>8 DEF WorkspaceInv

LEMMA StutterInv ==
    ASSUME WorkspaceInv, UNCHANGED workspaceVars
    PROVE  WorkspaceInv'
BY DEF WorkspaceInv, workspaceVars, cacheVars, copyVars, StepsInv, TodoInv, PlanInv, TheirsInv, CleanInv, EntryInv,
   Top, Leaf, Leased, StageInv, CreateInv, GuardInv, RetainedIn, RollbackInv

LEMMA NextInv ==
    ASSUME WorkspaceInv, WorkspaceNext
    PROVE  WorkspaceInv'
<1>0. TreeInv(tree, fresh) /\ StepsInv /\ TodoInv /\ PlanInv /\ TheirsInv /\ CleanInv /\ StageInv /\ CreateInv
    BY DEF WorkspaceInv
<1>1. TreeStep
    BY <1>0, NextTree
<1>2. TreeInv(tree, fresh)'
    BY <1>1 DEF TreeStep
<1>3. StepsInv'
    BY <1>0, NextSteps
<1>4. TodoInv'
    BY <1>0, NextTodo
<1>5. PlanInv'
    BY <1>0, NextPlan
<1>6. TheirsInv'
    BY <1>0, <1>1, NextTheirs
<1>7. CleanInv'
    BY <1>0, NextClean
<1>8. StageInv'
    BY <1>0, NextStage
<1>9. CreateInv'
    BY <1>0, <1>1, NextCreate, OneOperation
<1> QED
    BY <1>2, <1>3, <1>4, <1>5, <1>6, <1>7, <1>8, <1>9 DEF WorkspaceInv

\* From every tree, for every root and every number of foreign steps: the
\* walks of trusted_cache.cpp and of the disposal of a workspace unlink only
\* objects that preflight recorded, a cleaning touches no entry under the
\* flock of another Moguet, and a rollback removes the directory that its
\* guard retains.
THEOREM RemovalsArePlanned == WorkspaceSpec => []RemovesOnlyPlanned
<1>1. WorkspaceInit => WorkspaceInv
    BY InitInv
<1>2. WorkspaceInv /\ [WorkspaceNext]_workspaceVars => WorkspaceInv'
    BY NextInv, StutterInv
<1>3. WorkspaceInv => RemovesOnlyPlanned
    <2> SUFFICES ASSUME WorkspaceInv PROVE RemovesOnlyPlanned
        OBVIOUS
    <2>1. {r.id : r \in removed} \subseteq recorded
        BY DEF WorkspaceInv, PlanInv
    <2>2. cacheOp = "clean" => \A r \in removed : ~r.leased
        BY DEF WorkspaceInv, CleanInv
    <2>3. stage = "rolled back" => plan[Final].id = made[1].id
        BY DEF WorkspaceInv, StageInv, CreateInv
    <2> QED
        BY <2>1, <2>2, <2>3 DEF RemovesOnlyPlanned
<1> QED
    BY <1>1, <1>2, <1>3, PTL DEF WorkspaceSpec

(***************************************************************************)
(* The artifact workspace.  The tree does not matter: from the moment the  *)
(* copies are sealed everything that is decided is decided about them.     *)
(***************************************************************************)
Inspected == {Archives[c] : c \in DOMAIN Archives}

UnitFields ==
    {"stage", "single", "wanted", "made", "expected", "records", "identities", "chosen", "states",
     "directive", "input", "given", "plan", "retained", "build", "install", "cleaned"}

Sealing == {"sealed", "bound", "prepared", "staged"}
Handed == {"installed", "failed", "planned", "removing", "done"}

\* What a sealed copy is known to be.
ReadFrom(i) ==
    /\ w.records[i].sealed[1].archive \in DOMAIN Archives
    /\ w.identities[i] = Archives[w.records[i].sealed[1].archive]

\* The package that was chosen for a wish.
Fulfils(i) ==
    LET is == w.identities[w.chosen[i]]
        want == w.wanted[i]
    IN /\ w.chosen[i] \in DOMAIN w.identities
       /\ is.name = want.name /\ want.version \in {0, is.version}
       /\ want.rpc # 0 => is.version > w.states[i][1].version /\ is.version >= want.rpc

\* Records that have a place for their copy.
Sealable(rs) == ASeq(rs) /\ \A i \in DOMAIN rs : "sealed" \in DOMAIN rs[i]

UnitTypes ==
    /\ DOMAIN w = UnitFields
    /\ w.wanted \in Seq(Wants) /\ w.expected \in Seq(Nat)
    /\ Sealable(w.records) /\ w.identities \in Seq(Inspected)

SealedInv ==
    ~w.single /\ w.stage \in Sealing =>
       /\ \A i \in DOMAIN w.records : w.records[i].sealed # <<>>
       /\ Len(w.identities) <= Len(w.records)
       /\ \A i \in DOMAIN w.identities : ReadFrom(i)

ChosenInv ==
    ~w.single /\ w.stage \in {"prepared", "staged"} =>
       /\ DOMAIN w.chosen = DOMAIN w.wanted
       /\ \A i \in DOMAIN w.wanted : Fulfils(i)

UnitInv ==
    /\ UnitTypes /\ SealedInv /\ ChosenInv
    /\ w.stage \in {"start", "made", "created", "listed", "built"}
         \/ (~w.single /\ w.stage \in {"validated", "sealed"}) => w.identities = <<>>
    /\ w.stage = "staged" => ~w.single /\ w.input = create_install_input
    /\ w.stage \notin Handed => w.given = <<>>
    /\ InstalledIsInspected

\* The fields the argument is about.
Argument == <<w.single, w.wanted, w.identities, w.chosen, w.states, w.given>>

\* A step that only moves on, where nothing is sealed.
LEMMA MovesOn ==
    ASSUME UnitInv, DOMAIN w' = UnitFields, UNCHANGED Argument,
           w'.expected \in Seq(Nat), Sealable(w'.records),
           w'.stage \notin Sealing, w'.stage \in Handed \/ w.stage \notin Handed,
           w'.stage \in Handed \cup {"drop"} \/ w'.identities = <<>>
    PROVE  UnitInv'
<1>1. UnitTypes'
    BY DEF UnitInv, UnitTypes, Argument
<1>2. InstalledIsInspected'
    BY DEF UnitInv, InstalledIsInspected, Argument
<1> QED
    BY <1>1, <1>2 DEF UnitInv, SealedInv, ChosenInv, Argument, Sealing, Handed

LEMMA UnitFieldsFacts ==
    ASSUME UnitInv
    PROVE  /\ DOMAIN w = UnitFields /\ w.expected \in Seq(Nat) /\ Sealable(w.records)
           /\ w.stage \in {"start", "made", "created", "listed", "built"} => w.identities = <<>>
BY DEF UnitInv, UnitTypes

LEMMA ShortSealable ==
    ASSUME NEW r, "sealed" \in DOMAIN r
    PROVE  Sealable(<<>>) /\ Sealable(<<r>>)
<1>1. ASeq(<<>>) /\ ASeq(<<r>>)
    BY ShortSeqs
<1>2. \A i \in DOMAIN <<>> : "sealed" \in DOMAIN <<>>[i]
    OBVIOUS
<1>3. \A i \in DOMAIN <<r>> : "sealed" \in DOMAIN <<r>>[i]
    OBVIOUS
<1> QED
    BY <1>1, <1>2, <1>3, Zenon DEF Sealable

LEMMA FunctionSeq ==
    ASSUME NEW n \in Nat, NEW f, f = [i \in 1..n |-> f[i]]
    PROVE  ASeq(f)
<1>1. f \in [1..n -> {f[i] : i \in 1..n}]
    OBVIOUS
<1>2. f \in Seq({f[i] : i \in 1..n})
    BY <1>1
<1> QED
    BY <1>2 DEF ASeq

\* Before anything is sealed.
LEMMA FirstSteps ==
    ASSUME UnitInv,
           \/ create_artifact_workspace \/ open_artifact_workspace \/ CreatedWorkspaceRollback
           \/ CreateFails \/ BuildFails \/ ValidationRefused
           \/ \E contents, signed : run_makepkg_build_only(contents, signed)
    PROVE  UnitInv'
<1> USE UnitFieldsFacts
<1>1. CASE create_artifact_workspace
    BY <1>1, MovesOn DEF create_artifact_workspace, Advance, UnitFields, Argument, Sealing, Handed
<1>2. CASE open_artifact_workspace
    BY <1>2, MovesOn DEF open_artifact_workspace, Advance, UnitFields, Argument, Sealing, Handed
<1>3. CASE CreatedWorkspaceRollback
    BY <1>3, MovesOn DEF CreatedWorkspaceRollback, Advance, UnitFields, Argument, Sealing, Handed
<1>4. CASE CreateFails
    BY <1>4, MovesOn DEF CreateFails, Advance, UnitFields, Argument, Sealing, Handed
<1>5. CASE BuildFails
    BY <1>5, MovesOn DEF BuildFails, Advance, UnitFields, Argument, Sealing, Handed
<1>6. CASE ValidationRefused
    BY <1>6, MovesOn DEF ValidationRefused, Advance, UnitFields, Argument, Sealing, Handed
<1>7. ASSUME NEW contents, NEW signed, run_makepkg_build_only(contents, signed)
      PROVE  UnitInv'
    BY <1>7, MovesOn DEF run_makepkg_build_only, Advance, UnitFields, Argument, Sealing, Handed
<1> QED
    BY <1>1, <1>2, <1>3, <1>4, <1>5, <1>6, <1>7

LEMMA AnnouncedSteps ==
    ASSUME UnitInv, NEW leaves \in Leaves,
           query_makepkg_packagelist(leaves) \/ query_makepkg_packagelist_set(leaves)
    PROVE  UnitInv'
<1>1. w' = Announced(leaves) /\ w.stage = "created"
    BY DEF query_makepkg_packagelist, query_makepkg_packagelist_set, Advance, capture_makepkg_output
<1>2. leaves \in Seq(Nat)
    BY ArtifactAssumption
<1> QED
    BY <1>1, <1>2, UnitFieldsFacts, MovesOn DEF Announced, UnitFields, Argument, Sealing, Handed

LEMMA RefusedStep ==
    ASSUME UnitInv, NEW stages, NEW holds, Refuse(stages, holds)
    PROVE  UnitInv'
BY UnitFieldsFacts, MovesOn DEF Refuse, Advance, UnitFields, Argument, Sealing, Handed

\* After the transaction.
LEMMA LastSteps ==
    ASSUME UnitInv,
           \/ cleanup_workspace \/ cleanup_plan_holds \/ remove_preflighted_directory_contents
           \/ remove_workspace_directory \/ ArtifactCleanupFails
           \/ \E ok \in BOOLEAN : execute_prepared_artifact_install(ok)
    PROVE  UnitInv'
<1> USE UnitFieldsFacts
<1>1. CASE cleanup_workspace
  <2>1. w' = [w EXCEPT !.stage = "planned", !.plan = preflight_directory_contents_at,
                       !.records = <<>>, !.input = <<>>]
      BY <1>1 DEF cleanup_workspace, Advance
  <2>2. DOMAIN w' = UnitFields /\ w'.stage = "planned" /\ UNCHANGED Argument
        /\ w'.expected = w.expected /\ w'.records = <<>>
      BY <2>1 DEF UnitFields, Argument
  <2>3. Sealable(w'.records)
    <3>1. "sealed" \in DOMAIN Record(1, 1)
        BY DEF Record
    <3> QED
        BY <2>2, <3>1, ShortSealable
  <2> QED
      BY <2>2, <2>3, MovesOn DEF Sealing, Handed
<1>2. CASE cleanup_plan_holds
    BY <1>2, MovesOn DEF cleanup_plan_holds, Advance, UnitFields, Argument, Sealing, Handed
<1>3. CASE remove_preflighted_directory_contents
    BY <1>3, MovesOn DEF remove_preflighted_directory_contents, Advance, UnitFields, Argument, Sealing, Handed
<1>4. CASE remove_workspace_directory
    BY <1>4, MovesOn DEF remove_workspace_directory, Advance, UnitFields, Argument, Sealing, Handed
<1>5. CASE ArtifactCleanupFails
    BY <1>5, MovesOn DEF ArtifactCleanupFails, Advance, UnitFields, Argument, Sealing, Handed
<1>6. ASSUME NEW ok \in BOOLEAN, execute_prepared_artifact_install(ok)
      PROVE  UnitInv'
    BY <1>6, MovesOn DEF execute_prepared_artifact_install, Advance, UnitFields, Argument, Sealing, Handed
<1> QED
    BY <1>1, <1>2, <1>3, <1>4, <1>5, <1>6

\* What was built is validated.
LEMMA ValidatedSteps ==
    ASSUME UnitInv, validate_for_owners \/ validate_single_for_owners
    PROVE  UnitInv'
<1> DEFINE n == Len(w.expected)
           f == [i \in DOMAIN w.expected |->
                   Record(w.expected[i], OptionalAt(ArtifactAt(SignatureLeaf(w.expected[i]))))]
<1>1. n \in Nat /\ DOMAIN w.expected = 1..n
    BY UnitFieldsFacts
<1>2. Sealable(f)
  <2> HIDE DEF f
  <2>1. f = [i \in 1..n |-> f[i]]
      BY <1>1 DEF f
  <2> QED
      BY <1>1, <2>1, FunctionSeq DEF Sealable, f, Record
<1>3. CASE validate_for_owners
  <2>1. w' = Validated(f) /\ w.stage = "built"
      BY <1>3 DEF validate_for_owners, Advance
  <2> HIDE DEF f
  <2> QED
      BY <1>2, <2>1, UnitFieldsFacts, MovesOn DEF Validated, UnitFields, Argument, Sealing, Handed
<1>4. CASE validate_single_for_owners
  <2> DEFINE r == Record(w.expected[1], <<>>)
  <2>1. w' = Validated(<<r>>) /\ w.stage = "built"
      BY <1>4 DEF validate_single_for_owners, Advance
  <2>2. Sealable(<<r>>)
    <3>1. "sealed" \in DOMAIN r
        BY DEF Record
    <3> QED
        BY <3>1, ShortSealable
  <2> HIDE DEF r
  <2> QED
      BY <2>1, <2>2, UnitFieldsFacts, MovesOn DEF Validated, UnitFields, Argument, Sealing, Handed
<1> QED
    BY <1>3, <1>4

\* The copies are sealed; nothing has been read yet.
LEMMA SealStep ==
    ASSUME UnitInv, bind_install_content
    PROVE  UnitInv'
<1> DEFINE f == [i \in DOMAIN w.records |->
                   [w.records[i] EXCEPT !.sealed = <<CurrentBytes(w.records[i])>>]]
<1>1. /\ w' = [w EXCEPT !.stage = "sealed", !.records = f]
      /\ ~w.single /\ w.stage = "validated"
    BY DEF bind_install_content, Advance
<1>2. Len(w.records) \in Nat /\ DOMAIN w.records = 1..Len(w.records)
    BY UnitFieldsFacts, ASeqFacts DEF Sealable
<1>3. DOMAIN f = 1..Len(w.records) /\ \A i \in DOMAIN f : "sealed" \in DOMAIN f[i] /\ f[i].sealed # <<>>
    BY <1>2, UnitFieldsFacts DEF Sealable
<1>4. ASeq(f)
  <2>1. f = [i \in 1..Len(w.records) |-> f[i]]
      BY <1>2
  <2> HIDE DEF f
  <2> QED
      BY <1>2, <2>1, FunctionSeq
<1> HIDE DEF f
<1>5. /\ DOMAIN w' = UnitFields /\ w'.stage = "sealed" /\ w'.records = f /\ UNCHANGED Argument
      /\ w'.expected = w.expected
    BY <1>1, UnitFieldsFacts DEF UnitFields, Argument
<1>6. w.identities = <<>> /\ w.given = <<>>
    BY <1>1 DEF UnitInv, Handed
<1>7. UnitTypes'
    BY <1>3, <1>4, <1>5 DEF UnitInv, UnitTypes, Sealable, Argument
<1>8. SealedInv'
  <2>1. Len(f) \in Nat /\ Len(<<>>) = 0 /\ DOMAIN <<>> = {}
      BY <1>4, ASeqFacts
  <2> QED
      BY <1>3, <1>5, <1>6, <2>1 DEF SealedInv, Argument
<1> QED
    BY <1>1, <1>5, <1>6, <1>7, <1>8 DEF UnitInv, ChosenInv, InstalledIsInspected, Argument, Sealing, Handed

LEMMA BoundStep ==
    ASSUME UnitInv, content_bound
    PROVE  UnitInv'
<1>1. /\ w' = [w EXCEPT !.stage = "bound"] /\ w.stage = "sealed"
    BY DEF content_bound, Advance
<1>2. /\ DOMAIN w' = UnitFields /\ w'.stage = "bound" /\ w'.records = w.records /\ UNCHANGED Argument
      /\ w'.expected = w.expected
    BY <1>1, UnitFieldsFacts DEF UnitFields, Argument
<1>3. UnitTypes' /\ w.given = <<>>
    BY <1>1, <1>2 DEF UnitInv, UnitTypes, Argument, Handed
<1>4. SealedInv'
    BY <1>1, <1>2 DEF UnitInv, SealedInv, ReadFrom, Argument, Sealing
<1> QED
    BY <1>1, <1>2, <1>3, <1>4 DEF UnitInv, ChosenInv, InstalledIsInspected, Argument, Sealing, Handed

\* One more identity, of the sealed copy.
LEMMA IdentityStep ==
    ASSUME UnitInv, query_artifact_package_identities
    PROVE  UnitInv'
<1> DEFINE k == Len(w.identities) + 1
           c == metadata_path_at(k)
<1>1. /\ w' = [w EXCEPT !.identities = @ \o query_with_libalpm(metadata_path_at(Len(@) + 1))]
      /\ w.stage = IF w.single THEN "validated" ELSE "bound"
      /\ Len(w.identities) < Len(w.records) /\ query_with_libalpm(c) # <<>>
    BY DEF query_artifact_package_identities, MayIdentify, Advance
<1>2. c \in DOMAIN Archives /\ query_with_libalpm(c) = <<Archives[c]>>
    BY <1>1 DEF query_with_libalpm
<1> DEFINE s == w.identities \o <<Archives[c]>>
<1>3. w' = [w EXCEPT !.identities = s]
    BY <1>1, <1>2
<1>4. w.identities \in Seq(Inspected) /\ <<Archives[c]>> \in Seq(Inspected) /\ k \in Nat
    BY <1>2 DEF UnitInv, UnitTypes, Inspected
<1>5. /\ s \in Seq(Inspected) /\ Len(s) = k /\ s[k] = Archives[c]
      /\ DOMAIN s = 1..k /\ DOMAIN w.identities = 1..(k - 1)
      /\ \A i \in 1..(k - 1) : s[i] = w.identities[i]
    BY <1>4
<1> HIDE DEF c, s
<1>6. /\ DOMAIN w' = UnitFields /\ w'.stage = w.stage /\ w'.records = w.records
      /\ w'.single = w.single /\ w'.wanted = w.wanted /\ w'.given = w.given
      /\ w'.expected = w.expected /\ w'.identities = s
    BY <1>3, UnitFieldsFacts DEF UnitFields
<1>7. UnitTypes' /\ w.given = <<>>
    BY <1>1, <1>5, <1>6 DEF UnitInv, UnitTypes, Handed
<1>8. SealedInv'
  <2> SUFFICES ASSUME ~w.single
               PROVE  /\ \A i \in DOMAIN w.records : w.records[i].sealed # <<>>
                      /\ k <= Len(w.records)
                      /\ \A i \in 1..k : /\ w.records[i].sealed[1].archive \in DOMAIN Archives
                                         /\ s[i] = Archives[w.records[i].sealed[1].archive]
      BY <1>5, <1>6 DEF SealedInv, ReadFrom
  <2>1. /\ \A i \in DOMAIN w.records : w.records[i].sealed # <<>>
        /\ \A i \in DOMAIN w.identities : ReadFrom(i)
      BY <1>1 DEF UnitInv, SealedInv, Sealing
  <2>2. Len(w.records) \in Nat /\ DOMAIN w.records = 1..Len(w.records)
      BY UnitFieldsFacts, ASeqFacts DEF Sealable
  <2>3. k \in DOMAIN w.records /\ k <= Len(w.records)
      BY <1>1, <1>4, <2>2
  <2>4. c = w.records[k].sealed[1].archive
      BY <2>1, <2>3 DEF c, metadata_path_at
  <2>5. ASSUME NEW i \in 1..k
        PROVE  /\ w.records[i].sealed[1].archive \in DOMAIN Archives
               /\ s[i] = Archives[w.records[i].sealed[1].archive]
    <3>1. CASE i = k
        BY <1>2, <1>5, <2>4, <3>1
    <3>2. CASE i # k
      <4>1. i \in 1..(k - 1)
          BY <1>4, <3>2
      <4> QED
          BY <1>5, <2>1, <4>1 DEF ReadFrom
    <3> QED
        BY <3>1, <3>2
  <2> QED
      BY <2>1, <2>3, <2>5
<1> QED
    BY <1>1, <1>6, <1>7, <1>8 DEF UnitInv, ChosenInv, InstalledIsInspected, Sealing, Handed

\* The identities that were read are matched with what is wanted.
LEMMA PreparedStep ==
    ASSUME UnitInv, prepare_package_base_artifact_install
    PROVE  UnitInv'
<1> DEFINE ch == correlate_package_base_artifact_identities
           st == [i \in DOMAIN w.wanted |-> db[w.identities[ch[i]].name]]
           d == PlanInstall.directive
<1>1. /\ w' = [w EXCEPT !.stage = "prepared", !.chosen = ch, !.states = st, !.directive = d]
      /\ Identified /\ Preparable
    BY DEF prepare_package_base_artifact_install, Advance, PlanInstall
<1>2. w.stage = IF w.single THEN "validated" ELSE "bound"
    BY <1>1 DEF Identified
<1>3. ASSUME ~w.single
      PROVE  /\ DOMAIN ch = DOMAIN w.wanted
             /\ \A i \in DOMAIN w.wanted :
                  LET is == w.identities[ch[i]]
                      want == w.wanted[i]
                  IN /\ ch[i] \in DOMAIN w.identities
                     /\ is.name = want.name /\ want.version \in {0, is.version}
                     /\ want.rpc # 0 => is.version > st[i][1].version /\ is.version >= want.rpc
  <2>1. DOMAIN ch = DOMAIN w.wanted
      BY DEF correlate_package_base_artifact_identities
  <2>2. ASSUME NEW i \in DOMAIN w.wanted
        PROVE  ch[i] \in DOMAIN w.identities /\ w.identities[ch[i]].name = w.wanted[i].name
    <3>1. \E k \in DOMAIN w.identities : w.identities[k].name = w.wanted[i].name
        BY <1>1, <1>3 DEF Preparable, Selectable, select_package_base_artifacts, Producing
    <3>2. ch[i] = CHOOSE k \in DOMAIN w.identities : w.identities[k].name = w.wanted[i].name
        BY DEF correlate_package_base_artifact_identities
    <3> QED
        BY <3>1, <3>2
  <2>3. ASSUME NEW i \in DOMAIN w.wanted
        PROVE  w.wanted[i].version \in {0, w.identities[ch[i]].version}
      BY <1>1, <1>3 DEF Preparable, Selectable
  <2>4. ASSUME NEW i \in DOMAIN w.wanted, w.wanted[i].rpc # 0
        PROVE  /\ w.identities[ch[i]].version > st[i][1].version
               /\ w.identities[ch[i]].version >= w.wanted[i].rpc
      BY <1>1, <1>3, <2>4 DEF Preparable, validate_automatic_aur_version_install
  <2> QED
      BY <2>1, <2>2, <2>3, <2>4
<1> HIDE DEF ch, st, d
<1>4. /\ DOMAIN w' = UnitFields /\ w'.stage = "prepared" /\ w'.records = w.records
      /\ w'.single = w.single /\ w'.wanted = w.wanted /\ w'.given = w.given
      /\ w'.expected = w.expected /\ w'.identities = w.identities
      /\ w'.chosen = ch /\ w'.states = st
    BY <1>1, UnitFieldsFacts DEF UnitFields
<1>5. UnitTypes' /\ w.given = <<>>
    BY <1>2, <1>4 DEF UnitInv, UnitTypes, Handed
<1>6. SealedInv'
    BY <1>2, <1>4 DEF UnitInv, SealedInv, ReadFrom, Sealing
<1>7. ChosenInv'
    BY <1>3, <1>4 DEF ChosenInv, Fulfils
<1> QED
    BY <1>4, <1>5, <1>6, <1>7 DEF UnitInv, InstalledIsInspected, Sealing, Handed

LEMMA StagedStep ==
    ASSUME UnitInv, legacy_install_command
    PROVE  UnitInv'
<1> DEFINE in == create_install_input
<1>1. /\ w' = [w EXCEPT !.stage = "staged", !.input = in]
      /\ w.stage = "prepared" /\ ~w.single
    BY DEF legacy_install_command, Advance
<1> HIDE DEF in
<1>2. /\ DOMAIN w' = UnitFields /\ w'.stage = "staged" /\ w'.records = w.records
      /\ UNCHANGED Argument /\ w'.expected = w.expected /\ w'.input = in
    BY <1>1, UnitFieldsFacts DEF UnitFields, Argument
<1>3. UnitTypes' /\ w.given = <<>>
    BY <1>1, <1>2 DEF UnitInv, UnitTypes, Handed, Argument
<1>4. SealedInv'
    BY <1>1, <1>2 DEF UnitInv, SealedInv, ReadFrom, Sealing, Argument
<1>5. ChosenInv'
    BY <1>1, <1>2 DEF UnitInv, ChosenInv, Fulfils, Argument
<1>6. w'.input = create_install_input'
    BY <1>2 DEF in, create_install_input, Argument
<1> QED
    BY <1>1, <1>2, <1>3, <1>4, <1>5, <1>6
    DEF UnitInv, InstalledIsInspected, Sealing, Handed, Argument

\* The sealed copies are handed over, once.
LEMMA HandedStep ==
    ASSUME UnitInv, NEW ok \in BOOLEAN, execute_prepared_package_base_artifact_install(ok)
    PROVE  UnitInv'
<1>1. /\ w' = [w EXCEPT !.stage = IF ok THEN "installed" ELSE "failed", !.given = w.input,
                        !.install = IF ok THEN "Succeeded" ELSE "Failed"]
      /\ w.stage = "staged" /\ Len(w.identities) = Len(w.records)
    BY DEF execute_prepared_package_base_artifact_install, require_execution_coherence,
           require_install_draft_coherence
<1>2. /\ DOMAIN w' = UnitFields /\ w'.stage \in {"installed", "failed"} /\ w'.records = w.records
      /\ w'.single = w.single /\ w'.wanted = w.wanted /\ w'.given = w.input
      /\ w'.expected = w.expected /\ w'.identities = w.identities
      /\ w'.chosen = w.chosen /\ w'.states = w.states
    BY <1>1, UnitFieldsFacts DEF UnitFields
<1>3. UnitTypes'
    BY <1>2 DEF UnitInv, UnitTypes
<1>4. /\ ~w.single /\ w.input = [i \in DOMAIN w.chosen |-> w.records[w.chosen[i]].sealed[1]]
      /\ DOMAIN w.chosen = DOMAIN w.wanted
      /\ \A i \in DOMAIN w.wanted : Fulfils(i)
      /\ \A i \in DOMAIN w.identities : ReadFrom(i)
    BY <1>1 DEF UnitInv, SealedInv, ChosenInv, create_install_input, Sealing
<1>5. Len(w.input) = Len(w.wanted)
  <2>1. Len(w.wanted) \in Nat /\ DOMAIN w.wanted = 1..Len(w.wanted)
      BY DEF UnitInv, UnitTypes
  <2> QED
      BY <1>4, <2>1
<1>6. ASSUME NEW i \in DOMAIN w.wanted
      PROVE  /\ w.input[i].archive \in DOMAIN Archives
             /\ Archives[w.input[i].archive] = w.identities[w.chosen[i]]
    BY <1>4 DEF Fulfils, ReadFrom
<1>7. InstalledIsInspected'
  <2>1. \A i \in DOMAIN w.wanted :
           /\ w.input[i].archive \in DOMAIN Archives
           /\ LET is == Archives[w.input[i].archive]
                  want == w.wanted[i]
              IN /\ is.name = want.name /\ is = w.identities[w.chosen[i]]
                 /\ want.version \in {0, is.version}
                 /\ want.rpc # 0 => /\ is.version > w.states[i][1].version
                                    /\ is.version >= want.rpc
      BY <1>4, <1>6 DEF Fulfils
  <2>2. (DOMAIN w.wanted)' = DOMAIN w.wanted
      BY <1>2
  <2> QED
      BY <1>2, <1>5, <2>1, <2>2, Zenon DEF InstalledIsInspected
<1> QED
    BY <1>2, <1>3, <1>7 DEF UnitInv, SealedInv, ChosenInv, Sealing, Handed

LEMMA UnitStays ==
    ASSUME UnitInv, UNCHANGED w
    PROVE  UnitInv'
BY DEF UnitInv, UnitTypes, SealedInv, ChosenInv, Fulfils, ReadFrom, InstalledIsInspected,
       create_install_input

LEMMA UnitNextInv ==
    ASSUME UnitInv, UnitNext
    PROVE  UnitInv'
<1>1. CASE UnitForeign
    BY <1>1, UnitStays DEF UnitForeign, RewriteArtifact, OtherTransaction, artifactVars
<1>2. CASE ArtifactStep
  <2>1. CASE \/ create_artifact_workspace \/ open_artifact_workspace \/ CreatedWorkspaceRollback
             \/ CreateFails \/ BuildFails \/ ValidationRefused
             \/ \E contents, signed : run_makepkg_build_only(contents, signed)
      BY <2>1, FirstSteps
  <2>2. CASE \E leaves \in Leaves : \/ query_makepkg_packagelist(leaves)
                                    \/ query_makepkg_packagelist_set(leaves)
      BY <2>2, AnnouncedSteps
  <2>3. CASE validate_for_owners \/ validate_single_for_owners
      BY <2>3, ValidatedSteps
  <2>4. CASE bind_install_content \/ content_bound
      BY <2>4, SealStep, BoundStep
  <2>5. CASE query_artifact_package_identities
      BY <2>5, IdentityStep
  <2>6. CASE prepare_package_base_artifact_install \/ legacy_install_command
      BY <2>6, PreparedStep, StagedStep
  <2>7. CASE PreparationFails \/ ExecutionFails
    <3>1. PICK stages, holds : Refuse(stages, holds)
        BY <2>7 DEF PreparationFails, ExecutionFails
    <3> QED
        BY <3>1, RefusedStep
  <2>8. CASE \E ok \in BOOLEAN : execute_prepared_package_base_artifact_install(ok)
      BY <2>8, HandedStep
  <2>9. CASE \/ cleanup_workspace \/ cleanup_plan_holds \/ remove_preflighted_directory_contents
             \/ remove_workspace_directory \/ ArtifactCleanupFails
             \/ \E ok \in BOOLEAN : execute_prepared_artifact_install(ok)
      BY <2>9, LastSteps
  <2> QED
      BY <1>2, <2>1, <2>2, <2>3, <2>4, <2>5, <2>6, <2>7, <2>8, <2>9 DEF ArtifactStep
<1> QED
    BY <1>1, <1>2 DEF UnitNext

LEMMA UnitInitInv ==
    ASSUME UnitInit
    PROVE  UnitInv
<1>1. PICK single \in BOOLEAN, wanted \in Seq(Wants) : w = Unit(single, wanted)
    BY DEF UnitInit
<1>2. /\ DOMAIN w = UnitFields /\ w.stage = "start" /\ w.wanted = wanted /\ w.expected = <<>>
      /\ w.records = <<>> /\ w.identities = <<>> /\ w.given = <<>>
    BY <1>1 DEF Unit, UnitFields
<1>3. Sealable(<<>>)
  <2>1. "sealed" \in DOMAIN Record(1, 1)
      BY DEF Record
  <2> QED
      BY <2>1, ShortSealable
<1>4. UnitTypes
    BY <1>1, <1>2, <1>3 DEF UnitTypes
<1> QED
    BY <1>2, <1>4 DEF UnitInv, SealedInv, ChosenInv, InstalledIsInspected, Sealing, Handed

\* Whatever other processes do to the workspace and to the package database,
\* the bytes that prepare_package_base_artifact_install hands to the helper
\* are one archive for each requested package, each the very bytes whose
\* identity was read; versions and automatic updates are as the plan asked.
THEOREM InstallsWhatWasRead == UnitSpec => []InstalledIsInspected
<1>1. UnitInit => UnitInv
    BY UnitInitInv
<1>2. UnitInv /\ [UnitNext]_<<tree, fresh, moves, artifactVars>> => UnitInv'
    BY UnitNextInv, UnitStays DEF artifactVars
<1>3. UnitInv => InstalledIsInspected
    BY DEF UnitInv
<1> QED
    BY <1>1, <1>2, <1>3, PTL DEF UnitSpec

(***************************************************************************)
(* Times: what a step leaves at a name is what was there, or has the time  *)
(* of the step.                                                            *)
(***************************************************************************)
Stamped(s, t) == \A p \in DOMAIN t : t[p].stamp = fresh \/ (p \in DOMAIN s /\ t[p] = s[p])

LEMMA StampedTrans ==
    ASSUME NEW s, NEW t, NEW r, Stamped(s, t), Stamped(t, r)
    PROVE  Stamped(s, r)
BY DEF Stamped

LEMMA StampedPut ==
    ASSUME NEW s, NEW p, NEW n, n.stamp = fresh
    PROVE  Stamped(s, Put(s, p, n))
BY DEF Stamped, Put

LEMMA StampedChanged ==
    ASSUME NEW s, NEW p, NEW n \in Nodes
    PROVE  Stamped(s, Changed(s, p, n))
<1>1. [n EXCEPT !.stamp = fresh].stamp = fresh
    BY DEF Nodes
<1> QED
    BY <1>1, StampedPut DEF Changed

LEMMA StampedEntries ==
    ASSUME NEW s, s \in [DOMAIN s -> Nodes], NEW p
    PROVE  Stamped(s, EntriesChanged(s, p))
<1>1. CASE p \in DOMAIN s
    BY <1>1, StampedChanged DEF EntriesChanged
<1>2. CASE p \notin DOMAIN s
    BY <1>2 DEF EntriesChanged, Stamped
<1> QED
    BY <1>1, <1>2

LEMMA StampedWithout ==
    ASSUME NEW s, NEW p
    PROVE  Stamped(s, Without(s, p))
BY DEF Stamped, Without

LEMMA StampedDrop ==
    ASSUME NEW s, s \in [DOMAIN s -> Nodes], NEW p
    PROVE  Stamped(s, DropEntry(s, p))
<1>1. Without(s, p) \in [DOMAIN Without(s, p) -> Nodes]
    BY DEF Without
<1>2. Stamped(Without(s, p), DropEntry(s, p))
    BY <1>1, StampedEntries DEF DropEntry
<1> QED
    BY <1>2, StampedWithout, StampedTrans

LEMMA StampedAdd ==
    ASSUME NEW s, s \in [DOMAIN s -> Nodes], NEW p, NEW n \in Nodes, n.stamp = fresh
    PROVE  Stamped(s, AddEntry(s, p, n))
<1>1. Put(s, p, n) \in [DOMAIN Put(s, p, n) -> Nodes]
    BY DEF Put
<1>2. Stamped(Put(s, p, n), AddEntry(s, p, n))
    BY <1>1, StampedEntries DEF AddEntry
<1> QED
    BY <1>2, StampedPut, StampedTrans

LEMMA StampedForeign ==
    ASSUME TreeInv(tree, fresh), NEW touch, NEW pins, Foreign(touch, pins)
    PROVE  Stamped(tree, tree')
<1> DEFINE Q == touch \cap DOMAIN tree
<1>1. fresh \in Nat /\ tree \in [DOMAIN tree -> Nodes] /\ \A p \in Q : p \in DOMAIN tree /\ tree[p] \in Nodes
    BY DEF TreeInv
<1>2. tree' \in ForeignResults(Q, pins)
    BY DEF Foreign
<1>3. CASE tree' \in Removals(Q)
    BY <1>1, <1>3, StampedDrop DEF Removals
<1>4. CASE tree' \in Swaps(Q, pins)
    <2>0. PICK p \in Q : \E n \in Replacements(p, pins) : tree' = AddEntry(Without(tree, p), p, n)
        BY <1>4 DEF Swaps
    <2>1. PICK n \in Replacements(p, pins) : tree' = AddEntry(Without(tree, p), p, n)
        BY <2>0
    <2>2. PICK kind \in {tree[p].kind, "file"}, i \in {fresh} \cup ({tree[p].ino} \ pins) :
             n = [Made(kind, "private", 0) EXCEPT !.ino = i]
        BY <2>1 DEF Replacements
    <2>3. i \in Nat /\ kind \in {"dir", "file", "link", "other"}
        BY <1>1, <2>0, <2>2 DEF Nodes
    <2>4. n \in Nodes /\ n.stamp = fresh
        BY <1>1, <2>2, <2>3 DEF Made, Nodes
    <2>5. Without(tree, p) \in [DOMAIN Without(tree, p) -> Nodes]
        BY <1>1 DEF Without
    <2>6. Stamped(Without(tree, p), tree')
        BY <2>1, <2>4, <2>5, StampedAdd
    <2> QED
        BY <2>6, StampedWithout, StampedTrans
<1>5. CASE tree' \in Edits(Q)
    <2>1. PICK p \in Q : tree' = Changed(tree, p, [tree[p] EXCEPT !.data = fresh])
        BY <1>5 DEF Edits
    <2>2. tree[p] \in Nodes
        BY <1>1, <2>1
    <2>3. [tree[p] EXCEPT !.data = fresh] \in Nodes
        BY <1>1, <2>2 DEF Nodes
    <2> QED
        BY <2>1, <2>3, StampedChanged
<1>6. CASE tree' \in Exposures(Q)
    <2>1. PICK p \in Q : tree' = Changed(tree, p, [tree[p] EXCEPT !.mode = "shared"])
        BY <1>6 DEF Exposures
    <2>2. tree[p] \in Nodes
        BY <1>1, <2>1
    <2>3. [tree[p] EXCEPT !.mode = "shared"] \in Nodes
        BY <1>1, <2>2 DEF Nodes
    <2> QED
        BY <2>1, <2>3, StampedChanged
<1>7. CASE tree' \in Additions(Q)
    <2>1. PICK p \in Q : tree' = AddEntry(tree, Append(p, 9), Made("file", "plain", 0))
        BY <1>7 DEF Additions
    <2>2. Made("file", "plain", 0) \in Nodes /\ Made("file", "plain", 0).stamp = fresh
        BY <1>1 DEF Made, Nodes
    <2> QED
        BY <1>1, <2>1, <2>2, StampedAdd
<1> HIDE DEF Q
<1> QED
    BY <1>2, <1>3, <1>4, <1>5, <1>6, <1>7 DEF ForeignResults

(***************************************************************************)
(* Renames                                                                 *)
(***************************************************************************)
\* Two objects change places.
LEMMA ExchangedFacts ==
    ASSUME TreeInv(tree, fresh), NEW p \in DOMAIN tree, NEW q \in DOMAIN tree, NEW pins
    PROVE  /\ TreeInv(Exchanged(p, q), fresh + 1) /\ Stamped(tree, Exchanged(p, q))
           /\ Evolves(tree, Exchanged(p, q), fresh, pins)
<1> DEFINE a == [tree[q] EXCEPT !.stamp = fresh]
           b == [tree[p] EXCEPT !.stamp = fresh]
           s == Put(Put(tree, q, b), p, a)
<1>1. fresh \in Nat /\ tree \in [DOMAIN tree -> Nodes] /\ tree[p] \in Nodes /\ tree[q] \in Nodes
    BY DEF TreeInv
<1>2. /\ a \in Nodes /\ SameNode(a, tree[q]) /\ a.stamp = fresh
      /\ b \in Nodes /\ SameNode(b, tree[p]) /\ b.stamp = fresh
    BY <1>1 DEF Nodes, SameNode
<1>3. /\ DOMAIN s = DOMAIN tree
      /\ \A r \in DOMAIN tree : s[r] = IF r = p THEN a ELSE IF r = q THEN b ELSE tree[r]
    <2> HIDE DEF a, b
    <2> QED
        BY DEF Put
<1> HIDE DEF a, b, s
<1>4. s \in [DOMAIN tree -> Nodes]
    <2>1. \A r \in DOMAIN tree : s[r] \in Nodes
        BY <1>1, <1>2, <1>3
    <2>2. s = [r \in DOMAIN s |-> s[r]]
        BY DEF s, Put
    <2> QED
        BY <2>1, <2>2, <1>3
<1> DEFINE P(r) == IF r = p THEN q ELSE IF r = q THEN p ELSE r
<1>5. \A r \in DOMAIN tree : P(r) \in DOMAIN tree /\ SameNode(s[r], tree[P(r)])
    BY <1>2, <1>3 DEF SameNode
<1>6. \A r, x \in DOMAIN tree : r # x => P(r) # P(x)
    OBVIOUS
<1> HIDE DEF P
<1>7. TreeInv(s, fresh)
    BY <1>1, <1>3, <1>4, <1>5, <1>6 DEF TreeInv, SameNode
<1>8. Kept(s, EntriesChanged(s, Front(p))) /\ Stamped(s, EntriesChanged(s, Front(p)))
    BY <1>1, <1>3, <1>4, EntriesKept, StampedEntries
<1>9. TreeInv(EntriesChanged(s, Front(p)), fresh + 1)
    BY <1>1, <1>7, <1>8, KeptInv
<1>10. Stamped(tree, s)
    BY <1>2, <1>3 DEF Stamped
<1>11. Evolves(tree, EntriesChanged(s, Front(p)), fresh, pins)
    BY <1>3, <1>5, <1>8 DEF Evolves, Kept, SameNode
<1>12. Exchanged(p, q) = EntriesChanged(s, Front(p))
    BY DEF Exchanged, s, a, b
<1> QED
    BY <1>8, <1>9, <1>10, <1>11, <1>12, StampedTrans

\* An object moves to a name, from which another one is displaced.
LEMMA RelocatedFacts ==
    ASSUME TreeInv(tree, fresh), NEW p \in DOMAIN tree, NEW q, ASeq(q), NEW pins
    PROVE  /\ TreeInv(Relocated(p, q), fresh + 1) /\ Stamped(tree, Relocated(p, q))
           /\ Evolves(tree, Relocated(p, q), fresh, pins)
<1> DEFINE a == [tree[p] EXCEPT !.stamp = fresh]
           o == Without(tree, p)
           s == Put(o, q, a)
<1>1. fresh \in Nat /\ tree \in [DOMAIN tree -> Nodes] /\ tree[p] \in Nodes /\ ASeq(p)
    BY DEF TreeInv
<1>2. a \in Nodes /\ SameNode(a, tree[p]) /\ a.stamp = fresh
    BY <1>1 DEF Nodes, SameNode
<1>3. Kept(tree, o) /\ p \notin DOMAIN o /\ \A r \in DOMAIN o : r \in DOMAIN tree /\ o[r] = tree[r]
    BY <1>1, WithoutKept, NotBeneath DEF Without
<1>4. TreeInv(o, fresh)
    BY <1>1, <1>3, KeptInv
<1> HIDE DEF a, o
<1>5. s = [r \in {q} \cup DOMAIN o |-> IF r = q THEN a ELSE o[r]]
    BY DEF Put
<1>6. DOMAIN s = {q} \cup DOMAIN o /\ s[q] = a /\ \A r \in DOMAIN o : r # q => s[r] = o[r]
    BY <1>5
<1>7. s \in [DOMAIN s -> Nodes]
    BY <1>2, <1>4, <1>5 DEF TreeInv
<1> HIDE DEF s
<1> DEFINE P(r) == IF r = q THEN p ELSE r
<1>8. \A r \in DOMAIN s : P(r) \in DOMAIN tree /\ SameNode(s[r], tree[P(r)])
    BY <1>2, <1>3, <1>6 DEF SameNode
<1>9. \A r, x \in DOMAIN s : r # x => P(r) # P(x)
    BY <1>3, <1>6
<1> HIDE DEF P
<1>10. IsFiniteSet(DOMAIN s) /\ \A r \in DOMAIN s : ASeq(r)
    BY <1>4, <1>6, FS_AddElement DEF TreeInv
<1>11. TreeInv(s, fresh)
    BY <1>1, <1>7, <1>8, <1>9, <1>10 DEF TreeInv, SameNode
<1>12. Kept(s, EntriesChanged(s, Front(q))) /\ Stamped(s, EntriesChanged(s, Front(q)))
    BY <1>1, <1>7, EntriesKept, StampedEntries
<1>13. TreeInv(EntriesChanged(s, Front(q)), fresh + 1)
  <2>1. fresh + 1 \in Nat /\ fresh <= fresh + 1
      BY <1>1
  <2> QED
      BY <2>1, <1>11, <1>12, KeptInv
<1>14. Stamped(tree, s)
    BY <1>2, <1>3, <1>6 DEF Stamped
<1>15. Evolves(tree, EntriesChanged(s, Front(q)), fresh, pins)
    BY <1>8, <1>12 DEF Evolves, Kept, SameNode
<1>16. Relocated(p, q) = EntriesChanged(s, Front(q))
    BY DEF Relocated, s, a, o
<1> QED
    BY <1>12, <1>13, <1>14, <1>15, <1>16, StampedTrans


(***************************************************************************)
(* The user's stores: any number of invocations, each with an operation    *)
(* and an environment of its own, from any tree, next to everything else   *)
(* the user runs.                                                          *)
(***************************************************************************)
Environment == [xdg : STRING, home : STRING]

StoresInit ==
    /\ TreeOK /\ \A p \in DOMAIN tree : tree[p].stamp < fresh
    /\ moves = 0 /\ destroyed = {} /\ records \in [DOMAIN records -> Seq(Nat)]
    /\ u \in [Invokers -> {Preference(op, env) : op \in {"read", "list", "snapshot", "add", "create", "append",
                                                         "promote", "edit", "remove", "revert"},
                                                 env \in Environment}
                            \cup {Association(op, env) : op \in {"list", "register", "update", "forget",
                                                                 "acquire", "generate"},
                                                         env \in Environment}
                            \cup {Invocation("log", "log", env) : env \in Environment}]

StoresNext ==
    \/ \E i \in Invokers : \/ PreferenceStep(i) \/ AssociationStep(i) \/ Kill(i)
                           \/ u[i].store = "log" /\ (PrepareDirectory(i) \/ StateLog(i))
    \/ Foreign(DOMAIN tree, UserPins) /\ UNCHANGED userVars

StoresSpec == StoresInit /\ [][StoresNext]_<<tree, fresh, moves, userVars>>

\* A status that was read is of an object and of a time that have been.
KnownNodes(f) == {n \in Nodes : n.id < f /\ n.ino < f /\ n.stamp < f}

InvocationFields ==
    {"op", "store", "env", "st", "out", "create", "want", "next", "held", "seenDir", "made", "lock", "entry",
     "temp", "published", "content", "draft", "previous", "files", "root", "whole"}

FieldInv(r, f) ==
    /\ DOMAIN r = InvocationFields
    /\ r.entry \in Seq(KnownNodes(f)) /\ r.temp \in Seq(KnownNodes(f)) /\ r.draft \in Seq(KnownNodes(f))
    /\ r.previous \in Seq(KnownNodes(f)) /\ r.files \in Seq(KnownNodes(f)) /\ r.content \in Seq(Nat)
    /\ ASeq(r.held) /\ \A k \in DOMAIN r.held : ASeq(r.held[k].at)
    /\ r.st # "end" => r.out = "none"
    /\ r.st = "unwind" => r.temp # <<>>
    /\ r.st \in {"publish", "bury", "record publish", "forget move"} => r.held # <<>>

\* The number of an object whose descriptor is held is the number of no other.
Pinned(n, t) == \A p \in DOMAIN t : t[p].ino = n.ino => t[p].id = n.id

PinInv(r, t) ==
    r.st # "end" => /\ \A k \in DOMAIN r.entry : Pinned(r.entry[k], t)
                    /\ \A k \in DOMAIN r.temp : Pinned(r.temp[k], t)

\* The name no longer shows the status n, and never will again.
Lost(t, p, n) == ~(p \in DOMAIN t /\ same_state(t[p], n))

FirstLeaf(r) == Append(Last(r.held).at, 1)

Removal == {"remove", "revert"}
Replacing == {"expect", "temp", "write", "check", "publish", "verify", "final", "settled"}

\* What an invocation knows of the entry that it will displace.
ReadInv(r, t) ==
    /\ r.st \in {"open", "read", "reread", "doomed", "bury", "tombstone", "drop"} => r.entry # <<>>
    /\ r.st = "reread" => r.content = <<r.entry[1].data>> \/ Lost(t, FirstLeaf(r), r.entry[1])
    /\ \/ r.op \in Removal \/ r.entry = <<>> \/ r.content = <<r.entry[1].data>>
       \/ r.st \in {"open", "read", "reread", "unwind", "end"}

RemovalInv(r) ==
    /\ r.op \in Removal => r.next = "inspect" /\ r.st \notin {"draft", "editor", "edited"}
    /\ r.st \in {"doomed", "bury", "tombstone"} => r.op \in Removal
    /\ r.st \in {"bury", "tombstone"} \/ (r.st = "drop" /\ r.op \in Removal) =>
          r.previous # <<>> /\ r.previous[1].data = r.entry[1].data

\* What is published for an editor is the draft.
ReplaceInv(r) ==
    /\ r.next \in {"inspect", "enumerate", "expect"}
    /\ r.st \in Replacing \/ (r.st = "drop" /\ r.op \notin Removal) => r.next = "expect"
    /\ r.st \in {"draft", "editor", "edited", "settled"} => r.op = "edit"
    /\ r.op = "edit" /\ r.next = "expect" => r.draft # <<>>
    /\ r.st \in {"write", "check", "publish", "verify", "final", "settled"} \/ (r.st = "drop" /\ r.op \notin Removal) =>
          r.temp # <<>>
    /\ r.op = "edit" /\ r.st \in {"check", "publish", "verify", "drop", "final", "settled"} =>
          r.temp[1].data = r.draft[1].data

\* A record is replaced or forgotten as it was loaded.
RecordInv(r) ==
    /\ r.next \in {"registry", "select"} /\ r.want \in {"SH", "EX"}
    /\ r.op \in {"list", "register", "update", "forget", "acquire", "generate"}
    /\ r.st \in {"record temp", "record check", "record publish", "record verify", "record final"} =>
          /\ r.want = "EX" /\ Len(r.entry) = Len(r.previous)
          /\ r.entry # <<>> => r.entry[1].data = r.previous[1].data
    /\ r.st \in {"record check", "record publish", "record verify", "record final", "generated", "generated verify"} =>
          r.temp # <<>>
    /\ r.st = "select" \/ r.next = "select" => r.op \in {"forget", "acquire"} /\ (r.st # "end" => r.previous # <<>>)
    /\ r.st \in {"forget check", "forget move", "forget verify", "forget final"} =>
          /\ r.op = "forget" /\ r.entry # <<>> /\ r.previous # <<>> /\ r.entry[1].data = r.previous[1].data

\* The series of patches, whole unless one of its files or its record is lost.
SeriesInv(r, t) ==
    /\ r.op = "acquire" => r.want = "SH"
    /\ r.op = "register" /\ r.want = "SH" => r.st \in {"material", "series", "unwind", "end"}
    /\ r.op \in {"register", "update"} /\ r.want = "EX" => r.whole
    /\ r.op = "generate" /\ r.st \in {"record publish", "record verify", "record final"} => r.whole
    /\ r.st \in {"material", "series"} => r.want = "SH" /\ r.op \in {"register", "update", "acquire"}
                                          /\ (r.op = "acquire" => r.entry # <<>>)
    /\ r.st = "series" =>
          /\ Len(r.files) = Len(PatchNames)
          /\ \/ r.whole \/ \E k \in DOMAIN PatchNames : Lost(t, PatchFile(k), r.files[k])
             \/ r.op = "acquire" /\ Lost(t, FirstLeaf(r), r.entry[1])
    /\ r.st = "acquired" => /\ r.op = "acquire" /\ r.entry # <<>>
                            /\ r.whole \/ Lost(t, FirstLeaf(r), r.entry[1])
    /\ r.st \in {"destination", "generate", "generated", "generated verify", "reacquire"} => r.op = "generate"
    /\ r.out = "ok" /\ r.op \in {"acquire", "register", "update", "generate"} => r.whole

InvocationInv(r, t, f) ==
    /\ FieldInv(r, f) /\ PinInv(r, t)
    /\ r.store = "sources.d" => ReadInv(r, t) /\ RemovalInv(r) /\ ReplaceInv(r)
    /\ r.store = "patches.d" => RecordInv(r) /\ SeriesInv(r, t)

StampInv(t, f) == \A p \in DOMAIN t : t[p].stamp < f

StoresInv ==
    /\ TreeInv(tree, fresh) /\ StampInv(tree, fresh)
    /\ DOMAIN u = Invokers /\ \A i \in Invokers : InvocationInv(u[i], tree, fresh)
    /\ NothingUnseenDestroyed

\* What a step leaves of a tree, as far as an invocation relies on it.
TreeMoves ==
    /\ TreeInv(tree', fresh') /\ StampInv(tree', fresh') /\ Stamped(tree, tree')
    /\ Evolves(tree, tree', fresh, UserPins) /\ fresh \in Nat /\ fresh' \in Nat /\ fresh <= fresh'

LEMMA StampsGrow ==
    ASSUME TreeInv(tree, fresh), StampInv(tree, fresh), Stamped(tree, tree'), fresh' = fresh + 1,
           TreeInv(tree', fresh')
    PROVE  StampInv(tree', fresh') /\ fresh \in Nat /\ fresh' \in Nat /\ fresh <= fresh'
<1>1. fresh \in Nat /\ fresh' \in Nat /\ \A p \in DOMAIN tree : tree[p] \in Nodes /\ tree[p].stamp < fresh
    BY DEF TreeInv, StampInv
<1>2. ASSUME NEW p \in DOMAIN tree' PROVE tree'[p].stamp < fresh'
  <2>1. CASE tree'[p].stamp = fresh
      BY <1>1, <2>1
  <2>2. CASE p \in DOMAIN tree /\ tree'[p] = tree[p]
      BY <1>1, <2>2 DEF Nodes
  <2> QED
      BY <2>1, <2>2 DEF Stamped
<1> QED
    BY <1>1, <1>2 DEF StampInv

LEMMA SameTree ==
    ASSUME StoresInv, UNCHANGED <<tree, fresh>>
    PROVE  TreeMoves
<1>1. TreeInv(tree, fresh) /\ StampInv(tree, fresh) /\ tree' = tree /\ fresh' = fresh /\ fresh \in Nat
    BY DEF StoresInv, TreeInv
<1>2. Stamped(tree, tree')
    BY <1>1 DEF Stamped
<1>3. Evolves(tree, tree', fresh, UserPins)
    BY <1>1 DEF Evolves, SameNode
<1> QED
    BY <1>1, <1>2, <1>3 DEF TreeMoves

LEMMA KeptTree ==
    ASSUME StoresInv, Kept(tree, tree'), Stamped(tree, tree'), fresh' = fresh + 1
    PROVE  TreeMoves
<1>1. TreeInv(tree, fresh) /\ StampInv(tree, fresh) /\ fresh \in Nat /\ fresh' \in Nat /\ fresh <= fresh'
    BY DEF StoresInv, TreeInv
<1>2. TreeInv(tree', fresh')
    BY <1>1, KeptInv
<1> QED
    BY <1>1, <1>2, StampsGrow, KeptEvolves DEF TreeMoves

LEMMA ForeignMoves ==
    ASSUME StoresInv, NEW touch, Foreign(touch, UserPins)
    PROVE  TreeMoves
<1>1. TreeInv(tree, fresh) /\ StampInv(tree, fresh)
    BY DEF StoresInv
<1> QED
    BY <1>1, ForeignInv, StampedForeign, StampsGrow DEF TreeMoves

LEMMA MadeTree ==
    ASSUME StoresInv, NEW p, ASeq(p), p \notin DOMAIN tree, NEW kind \in {"dir", "file"}, NEW data \in Nat,
           tree' = AddEntry(tree, p, Made(kind, "private", data)), fresh' = fresh + 1
    PROVE  TreeMoves
<1>1. TreeInv(tree, fresh) /\ StampInv(tree, fresh) /\ fresh \in Nat /\ tree \in [DOMAIN tree -> Nodes]
    BY DEF StoresInv, TreeInv
<1>2. Made(kind, "private", data) \in Nodes /\ Made(kind, "private", data).stamp = fresh
    BY <1>1 DEF Made, Nodes
<1>3. Stamped(tree, tree')
    BY <1>1, <1>2, StampedAdd
<1>4. TreeInv(tree', fresh') /\ Evolves(tree, tree', fresh, UserPins)
    BY <1>1, AddMade
<1> QED
    BY <1>1, <1>3, <1>4, StampsGrow DEF TreeMoves

LEMMA DroppedTree ==
    ASSUME StoresInv, NEW p, tree' = DropEntry(tree, p), fresh' = fresh + 1
    PROVE  TreeMoves
<1>1. fresh \in Nat /\ tree \in [DOMAIN tree -> Nodes]
    BY DEF StoresInv, TreeInv
<1> QED
    BY <1>1, DropKept, StampedDrop, KeptTree

LEMMA ChangedTree ==
    ASSUME StoresInv, NEW p \in DOMAIN tree, NEW n \in Nodes, SameNode(n, tree[p]),
           tree' = Changed(tree, p, n), fresh' = fresh + 1
    PROVE  TreeMoves
<1>1. fresh \in Nat /\ tree \in [DOMAIN tree -> Nodes]
    BY DEF StoresInv, TreeInv
<1> QED
    BY <1>1, ChangedKept, StampedChanged, KeptTree

LEMMA RenamedTree ==
    ASSUME StoresInv, NEW p \in DOMAIN tree, NEW q, ASeq(q), fresh' = fresh + 1,
           tree' = Relocated(p, q) \/ (q \in DOMAIN tree /\ tree' = Exchanged(p, q))
    PROVE  TreeMoves
<1>1. TreeInv(tree, fresh) /\ StampInv(tree, fresh)
    BY DEF StoresInv
<1>2. TreeInv(tree', fresh') /\ Stamped(tree, tree') /\ Evolves(tree, tree', fresh, UserPins)
    BY <1>1, RelocatedFacts, ExchangedFacts
<1> QED
    BY <1>1, <1>2, StampsGrow DEF TreeMoves

(***************************************************************************)
(* What an invocation knows stays true.                                    *)
(***************************************************************************)
LEMMA SameStateFacts ==
    ASSUME NEW n \in Nodes, NEW m \in Nodes, same_state(n, m)
    PROVE  n.ino = m.ino /\ n.kind = m.kind /\ n.data = m.data /\ n.stamp = m.stamp
<1>1. [n EXCEPT !.id = 0] = [m EXCEPT !.id = 0]
    BY DEF same_state
<1>2. /\ [n EXCEPT !.id = 0].ino = n.ino /\ [n EXCEPT !.id = 0].kind = n.kind
      /\ [n EXCEPT !.id = 0].data = n.data /\ [n EXCEPT !.id = 0].stamp = n.stamp
    BY DEF Nodes
<1>3. /\ [m EXCEPT !.id = 0].ino = m.ino /\ [m EXCEPT !.id = 0].kind = m.kind
      /\ [m EXCEPT !.id = 0].data = m.data /\ [m EXCEPT !.id = 0].stamp = m.stamp
    BY DEF Nodes
<1> QED
    BY <1>1, <1>2, <1>3

LEMMA LostStays ==
    ASSUME TreeMoves, TreeInv(tree, fresh), NEW p, NEW n \in KnownNodes(fresh), Lost(tree, p, n)
    PROVE  Lost(tree', p, n)
<1> SUFFICES ASSUME p \in DOMAIN tree', same_state(tree'[p], n) PROVE FALSE
    BY DEF Lost
<1>1. tree'[p] \in Nodes /\ n \in Nodes /\ n.stamp < fresh /\ n.stamp \in Nat /\ fresh \in Nat
    BY DEF TreeMoves, TreeInv, KnownNodes, Nodes
<1>2. tree'[p].stamp = n.stamp
    BY <1>1, SameStateFacts
<1>3. tree'[p].stamp # fresh
    BY <1>1, <1>2
<1>4. p \in DOMAIN tree /\ tree'[p] = tree[p]
    BY <1>3 DEF TreeMoves, Stamped
<1> QED
    BY <1>4 DEF Lost

LEMMA PinStays ==
    ASSUME TreeMoves, TreeInv(tree, fresh), NEW n \in KnownNodes(fresh), n.ino \in UserPins, Pinned(n, tree)
    PROVE  Pinned(n, tree')
<1> SUFFICES ASSUME NEW p \in DOMAIN tree', tree'[p].ino = n.ino PROVE tree'[p].id = n.id
    BY DEF Pinned
<1>1. CASE \E q \in DOMAIN tree : SameNode(tree'[p], tree[q])
    BY <1>1 DEF Pinned, SameNode
<1>2. CASE tree'[p].ino = fresh
  <2>1. n.ino \in Nat /\ n.ino < fresh /\ fresh \in Nat
      BY DEF KnownNodes, Nodes, TreeMoves
  <2> QED
      BY <1>2, <2>1
<1>3. CASE \E q \in DOMAIN tree : tree'[p].ino = tree[q].ino /\ tree[q].ino \notin UserPins
    BY <1>3
<1> QED
    BY <1>1, <1>2, <1>3 DEF TreeMoves, Evolves

LEMMA PinsOf ==
    ASSUME NEW i \in Invokers, u[i].st # "end"
    PROVE  /\ \A k \in DOMAIN u[i].entry : u[i].entry[k].ino \in UserPins
           /\ \A k \in DOMAIN u[i].temp : u[i].temp[k].ino \in UserPins
<1>1. i \in {j \in Invokers : u[j].st # "end"}
    OBVIOUS
<1> QED
    BY <1>1 DEF UserPins

LEMMA Elements ==
    ASSUME NEW S, NEW s \in Seq(S)
    PROVE  /\ Len(s) \in Nat /\ DOMAIN s = 1..Len(s) /\ \A k \in DOMAIN s : s[k] \in S
           /\ s # <<>> => s[1] \in S /\ 1 \in DOMAIN s
OBVIOUS

LEMMA KnownGrow ==
    ASSUME NEW f \in Nat, NEW g \in Nat, f <= g
    PROVE  /\ KnownNodes(f) \subseteq KnownNodes(g)
           /\ \A s : s \in Seq(KnownNodes(f)) => s \in Seq(KnownNodes(g))
<1>1. KnownNodes(f) \subseteq KnownNodes(g)
    BY DEF KnownNodes, Nodes
<1> QED
    BY <1>1

\* A step of another process, or the tree's part of a step of its own.
LEMMA InvocationStays ==
    ASSUME StoresInv, TreeMoves, NEW i \in Invokers
    PROVE  InvocationInv(u[i], tree', fresh')
<1> DEFINE r == u[i]
<1>1. InvocationInv(r, tree, fresh) /\ TreeInv(tree, fresh) /\ fresh \in Nat /\ fresh' \in Nat /\ fresh <= fresh'
    BY DEF StoresInv, TreeMoves
<1>2. FieldInv(r, fresh')
    BY <1>1, KnownGrow DEF FieldInv, InvocationInv
<1>3. PinInv(r, tree')
  <2> SUFFICES ASSUME r.st # "end"
               PROVE  /\ \A k \in DOMAIN r.entry : Pinned(r.entry[k], tree')
                      /\ \A k \in DOMAIN r.temp : Pinned(r.temp[k], tree')
      BY DEF PinInv
  <2>1. /\ \A k \in DOMAIN r.entry : Pinned(r.entry[k], tree) /\ r.entry[k] \in KnownNodes(fresh)
        /\ \A k \in DOMAIN r.temp : Pinned(r.temp[k], tree) /\ r.temp[k] \in KnownNodes(fresh)
    <3>1. r.entry \in Seq(KnownNodes(fresh)) /\ r.temp \in Seq(KnownNodes(fresh))
        BY <1>1 DEF InvocationInv, FieldInv
    <3>2. PinInv(r, tree)
        BY <1>1 DEF InvocationInv
    <3> QED
        BY <3>1, <3>2, Elements DEF PinInv
  <2> QED
      BY <1>1, <2>1, PinsOf, PinStays
<1>4. /\ r.entry # <<>> => r.entry[1] \in KnownNodes(fresh)
      /\ \A k \in 1..Len(r.files) : r.files[k] \in KnownNodes(fresh)
  <2>1. r.entry \in Seq(KnownNodes(fresh)) /\ r.files \in Seq(KnownNodes(fresh))
      BY <1>1 DEF InvocationInv, FieldInv
  <2> QED
      BY <2>1, Elements
<1>5. r.entry # <<>> /\ Lost(tree, FirstLeaf(r), r.entry[1]) => Lost(tree', FirstLeaf(r), r.entry[1])
    BY <1>1, <1>4, LostStays
<1>6. Len(r.files) = Len(PatchNames) => \A k \in DOMAIN PatchNames :
         Lost(tree, PatchFile(k), r.files[k]) => Lost(tree', PatchFile(k), r.files[k])
    BY <1>1, <1>4, LostStays, PatchAssumption
<1> HIDE DEF r
<1>7. ASSUME r.store = "sources.d" PROVE ReadInv(r, tree')
    BY <1>1, <1>5, <1>7 DEF InvocationInv, ReadInv
<1>8. ASSUME r.store = "patches.d" PROVE SeriesInv(r, tree')
    BY <1>1, <1>5, <1>6, <1>8 DEF InvocationInv, SeriesInv
<1>9. InvocationInv(r, tree', fresh')
    BY <1>1, <1>2, <1>3, <1>7, <1>8 DEF InvocationInv
<1> QED
    BY <1>9 DEF r

LEMMA ActorStep ==
    ASSUME StoresInv, TreeMoves, NEW i \in Invokers, NEW r, u' = [u EXCEPT ![i] = r],
           InvocationInv(r, tree', fresh'), NothingUnseenDestroyed'
    PROVE  StoresInv'
<1>1. DOMAIN u = Invokers /\ DOMAIN u' = Invokers /\ u'[i] = r /\ \A j \in Invokers : j # i => u'[j] = u[j]
    BY DEF StoresInv
<1>2. \A j \in Invokers : InvocationInv(u'[j], tree', fresh')
    BY <1>1, InvocationStays
<1> QED
    BY <1>1, <1>2 DEF StoresInv, TreeMoves

(***************************************************************************)
(* Ends                                                                    *)
(***************************************************************************)
Answers == {"acquire", "register", "update", "generate"}

\* A record of an invocation that differs only in some fields.
Alters(c, r, names) == DOMAIN r = DOMAIN c /\ \A x \in InvocationFields : x \notin names => r[x] = c[x]

LEMMA EndInv ==
    ASSUME NEW c, NEW r, NEW t, NEW f, InvocationInv(c, t, f), Alters(c, r, {"st", "out", "lock"}), r.st = "end",
           r.out = "ok" /\ c.store = "patches.d" /\ c.op \in Answers => c.whole
    PROVE  InvocationInv(r, t, f)
<1>1. FieldInv(c, f)
    BY DEF InvocationInv
<1>2. /\ r.op = c.op /\ r.store = c.store /\ r.want = c.want /\ r.next = c.next /\ r.held = c.held /\ r.entry = c.entry
      /\ r.temp = c.temp /\ r.content = c.content /\ r.draft = c.draft /\ r.previous = c.previous /\ r.files = c.files
      /\ r.whole = c.whole
    BY DEF Alters, InvocationFields
<1>3. FieldInv(r, f)
    BY <1>1, <1>2 DEF FieldInv, Alters
<1>4. PinInv(r, t)
    BY DEF PinInv
<1>5. ASSUME r.store = "sources.d" PROVE ReadInv(r, t) /\ RemovalInv(r) /\ ReplaceInv(r)
    BY <1>2, <1>5 DEF InvocationInv, ReadInv, RemovalInv, ReplaceInv, Replacing
<1>6. ASSUME r.store = "patches.d" PROVE RecordInv(r)
    BY <1>2, <1>6 DEF InvocationInv, RecordInv
<1>7. ASSUME r.store = "patches.d" PROVE SeriesInv(r, t)
    BY <1>2, <1>7 DEF InvocationInv, SeriesInv, Answers
<1> QED
    BY <1>3, <1>4, <1>5, <1>6, <1>7 DEF InvocationInv

LEMMA HaltInv ==
    ASSUME NEW i, NEW t, NEW f, InvocationInv(u[i], t, f), NEW out,
           out = "ok" /\ u[i].store = "patches.d" /\ u[i].op \in Answers => u[i].whole
    PROVE  InvocationInv(Halt(i, out), t, f)
<1>1. DOMAIN u[i] = InvocationFields
    BY DEF InvocationInv, FieldInv
<1>2. Alters(u[i], Halt(i, out), {"st", "out", "lock"}) /\ Halt(i, out).st = "end" /\ Halt(i, out).out = out
    BY <1>1 DEF Halt, Alters, InvocationFields
<1> QED
    BY <1>2, EndInv

LEMMA FailInv ==
    ASSUME NEW i, NEW t, NEW f, InvocationInv(u[i], t, f), u[i].st # "end"
    PROVE  InvocationInv(Fail(i), t, f)
<1> DEFINE c == u[i]
           r == [c EXCEPT !.st = "unwind"]
<1>1. InvocationInv(c, t, f) /\ c.st # "end"
    OBVIOUS
<1>2. /\ r.op = c.op /\ r.store = c.store /\ r.want = c.want /\ r.next = c.next /\ r.held = c.held /\ r.entry = c.entry
      /\ r.temp = c.temp /\ r.content = c.content /\ r.draft = c.draft /\ r.previous = c.previous /\ r.files = c.files
      /\ r.whole = c.whole /\ r.st = "unwind" /\ r.out = c.out /\ DOMAIN r = DOMAIN c
    BY <1>1 DEF InvocationInv, FieldInv, InvocationFields
<1> HIDE DEF c, r
<1>3. c.temp # <<>> => FieldInv(r, f)
    BY <1>1, <1>2 DEF FieldInv, InvocationInv
<1>4. PinInv(r, t)
    BY <1>1, <1>2 DEF PinInv, InvocationInv
<1>5. ASSUME r.store = "sources.d" PROVE ReadInv(r, t) /\ RemovalInv(r) /\ ReplaceInv(r)
    BY <1>1, <1>2, <1>5 DEF InvocationInv, ReadInv, RemovalInv, ReplaceInv, Replacing
<1>6. ASSUME r.store = "patches.d" PROVE RecordInv(r)
    BY <1>1, <1>2, <1>6 DEF InvocationInv, RecordInv
<1>7. ASSUME r.store = "patches.d" PROVE SeriesInv(r, t)
    BY <1>1, <1>2, <1>7 DEF InvocationInv, SeriesInv, FieldInv
<1>8. c.temp # <<>> => InvocationInv(r, t, f)
    BY <1>3, <1>4, <1>5, <1>6, <1>7 DEF InvocationInv
<1>9. InvocationInv(Halt(i, IF c.published THEN "uncertain" ELSE "failed"), t, f)
    BY <1>1, HaltInv DEF c
<1> QED
    BY <1>8, <1>9 DEF Fail, c, r

(***************************************************************************)
(* The way to the directory                                                *)
(***************************************************************************)
Early == {"start", "walk", "opening", "making", "made", "absent", "lock"}

LEMMA EarlyInv ==
    ASSUME NEW c, NEW r, NEW t, NEW f, InvocationInv(c, t, f), Alters(c, r, {"st", "held", "seenDir", "made"}),
           c.st \in Early, r.st \in Early, ASeq(r.held), \A k \in DOMAIN r.held : ASeq(r.held[k].at)
    PROVE  InvocationInv(r, t, f)
<1>1. FieldInv(c, f) /\ c.st # "end" /\ r.st # "end"
    BY DEF InvocationInv, Early
<1>2. /\ r.op = c.op /\ r.store = c.store /\ r.want = c.want /\ r.next = c.next /\ r.entry = c.entry
      /\ r.temp = c.temp /\ r.content = c.content /\ r.draft = c.draft /\ r.previous = c.previous /\ r.files = c.files
      /\ r.whole = c.whole /\ r.out = c.out
    BY DEF Alters, InvocationFields
<1>3. FieldInv(r, f)
    BY <1>1, <1>2 DEF FieldInv, Alters, Early
<1>4. PinInv(r, t)
    BY <1>1, <1>2 DEF PinInv, InvocationInv
<1>5. ASSUME r.store = "sources.d" PROVE ReadInv(r, t) /\ RemovalInv(r) /\ ReplaceInv(r)
    BY <1>2, <1>5 DEF InvocationInv, ReadInv, RemovalInv, ReplaceInv, Replacing, Early
<1>6. ASSUME r.store = "patches.d" PROVE RecordInv(r)
    BY <1>2, <1>6 DEF InvocationInv, RecordInv, Early
<1>7. ASSUME r.store = "patches.d" PROVE SeriesInv(r, t)
    BY <1>2, <1>7 DEF InvocationInv, SeriesInv, Early
<1> QED
    BY <1>3, <1>4, <1>5, <1>6, <1>7 DEF InvocationInv

LEMMA NothingMore ==
    ASSUME StoresInv, UNCHANGED destroyed
    PROVE  NothingUnseenDestroyed'
BY DEF StoresInv, NothingUnseenDestroyed

\* A step that ends or gives up leaves everything as it should be.
LEMMA HaltStep ==
    ASSUME StoresInv, NEW i \in Invokers, TreeMoves, NothingUnseenDestroyed', NEW out, Alter(i, Halt(i, out)),
           out = "ok" /\ u[i].store = "patches.d" /\ u[i].op \in Answers => u[i].whole
    PROVE  StoresInv'
BY InvocationStays, HaltInv, ActorStep DEF Alter

LEMMA FailStep ==
    ASSUME StoresInv, NEW i \in Invokers, TreeMoves, NothingUnseenDestroyed', Alter(i, Fail(i)), u[i].st # "end"
    PROVE  StoresInv'
BY InvocationStays, FailInv, ActorStep DEF Alter

LEMMA LookStep ==
    ASSUME StoresInv, Looks
    PROVE  TreeMoves /\ NothingUnseenDestroyed' /\ tree' = tree /\ fresh' = fresh
BY SameTree, NothingMore DEF Looks, Untouched

\* A step on the way to the directory.
LEMMA EarlyStep ==
    ASSUME StoresInv, NEW i \in Invokers, TreeMoves, NothingUnseenDestroyed', NEW r, Alter(i, r),
           Alters(u[i], r, {"st", "held", "seenDir", "made"}), u[i].st \in Early, r.st \in Early,
           ASeq(r.held), \A k \in DOMAIN r.held : ASeq(r.held[k].at)
    PROVE  StoresInv'
BY InvocationStays, EarlyInv, ActorStep DEF Alter

LEMMA Fields ==
    ASSUME StoresInv, NEW i \in Invokers
    PROVE  /\ DOMAIN u[i] = InvocationFields /\ ASeq(u[i].held) /\ \A k \in DOMAIN u[i].held : ASeq(u[i].held[k].at)
           /\ \A names : Alters(u[i], u[i], names)
           /\ fresh \in Nat /\ tree \in [DOMAIN tree -> Nodes] /\ \A p \in DOMAIN tree : ASeq(p)
BY DEF StoresInv, InvocationInv, FieldInv, Alters, TreeInv

LEMMA OneElement ==
    ASSUME NEW x
    PROVE  ASeq(<<x>>) /\ <<x>>[1] = x /\ DOMAIN <<x>> = {1} /\ Len(<<x>>) = 1 /\ <<x>> # <<>>
<1>1. <<x>> \in Seq({x})
    OBVIOUS
<1>2. ASeq(<<x>>)
    BY <1>1 DEF ASeq
<1>3. Len(<<x>>) = 1 /\ <<x>>[1] = x
    OBVIOUS
<1>4. DOMAIN <<x>> = 1..1 /\ <<x>> # <<>>
    BY <1>2, <1>3, ASeqFacts
<1>5. 1..1 = {1}
    OBVIOUS
<1> QED
    BY <1>2, <1>3, <1>4, <1>5

LEMMA AnchorStep ==
    ASSUME StoresInv, NEW i \in Invokers, open_existing_anchor(i)
    PROVE  StoresInv'
<1> DEFINE boundary == make_creation_boundary(resolve_base_directory(u[i].env)[1], StoreLeaf(u[i].store))
           held == <<RetainedDirectory(boundary.anchor, FALSE)>>
           r == [u[i] EXCEPT !.st = "walk", !.held = held]
<1> HIDE DEF boundary
<1>1. TreeMoves /\ NothingUnseenDestroyed' /\ u[i].st = "start"
    BY LookStep DEF open_existing_anchor
<1>2. CASE Alter(i, Halt(i, "failed"))
    BY <1>1, <1>2, HaltStep
<1>3. CASE Exists(boundary.anchor) /\ Alter(i, r)
  <2>1. ASeq(boundary.anchor)
      BY <1>3, Fields DEF Exists
  <2>2. ASeq(held) /\ \A k \in DOMAIN held : ASeq(held[k].at)
    <3>1. RetainedDirectory(boundary.anchor, FALSE).at = boundary.anchor
        BY DEF RetainedDirectory
    <3> HIDE DEF r
    <3> QED
        BY <2>1, <3>1, OneElement
  <2> HIDE DEF held
  <2>3. Alters(u[i], r, {"st", "held", "seenDir", "made"}) /\ r.st = "walk" /\ r.held = held
      BY Fields DEF Alters, InvocationFields
  <2> QED
      BY <1>1, <1>3, <2>2, <2>3, EarlyStep DEF Early
<1> QED
    BY <1>2, <1>3 DEF open_existing_anchor, boundary

LEMMA ComponentSteps ==
    ASSUME StoresInv, NEW i \in Invokers, InspectComponent(i) \/ ObserveMade(i)
    PROVE  StoresInv'
<1>1. TreeMoves /\ NothingUnseenDestroyed' /\ u[i].st \in Early
    BY LookStep DEF InspectComponent, ObserveMade, Early
<1>2. ASSUME NEW r, Alters(u[i], r, {"st", "seenDir", "made"}), r.st \in {"opening", "absent", "making"}, Alter(i, r)
      PROVE  StoresInv'
  <2>1. r.held = u[i].held /\ Alters(u[i], r, {"st", "held", "seenDir", "made"}) /\ r.st \in Early
      BY <1>2 DEF Alters, InvocationFields, Early
  <2> QED
      BY <1>1, <1>2, <2>1, Fields, EarlyStep
<1>3. CASE Alter(i, Halt(i, "failed"))
    BY <1>1, <1>3, HaltStep
<1>4. ASSUME NEW st, st \in {"absent", "making"}, Moves(i, st) PROVE StoresInv'
  <2>1. Alters(u[i], [u[i] EXCEPT !.st = st], {"st", "seenDir", "made"}) /\ [u[i] EXCEPT !.st = st].st = st
      BY Fields DEF Alters, InvocationFields
  <2> QED
      BY <1>2, <1>4, <2>1 DEF Moves
<1>5. ASSUME NEW d, Alter(i, [u[i] EXCEPT !.st = "opening", !.seenDir = d, !.made = FALSE])
                    \/ Alter(i, [u[i] EXCEPT !.st = "opening", !.seenDir = d])
      PROVE  StoresInv'
  <2>1. /\ Alters(u[i], [u[i] EXCEPT !.st = "opening", !.seenDir = d, !.made = FALSE], {"st", "seenDir", "made"})
        /\ Alters(u[i], [u[i] EXCEPT !.st = "opening", !.seenDir = d], {"st", "seenDir", "made"})
        /\ [u[i] EXCEPT !.st = "opening", !.seenDir = d, !.made = FALSE].st = "opening"
        /\ [u[i] EXCEPT !.st = "opening", !.seenDir = d].st = "opening"
      BY Fields DEF Alters, InvocationFields
  <2> QED
      BY <1>2, <1>5, <2>1
<1> QED
    BY <1>3, <1>4, <1>5 DEF InspectComponent, ObserveMade

LEMMA MakeStep ==
    ASSUME StoresInv, NEW i \in Invokers, MakeComponent(i)
    PROVE  StoresInv'
<1>1. NothingUnseenDestroyed' /\ u[i].st \in Early
    BY NothingMore DEF MakeComponent, Early
<1>2. ASSUME TreeMoves, NEW m, Alter(i, [u[i] EXCEPT !.st = "made", !.made = m]) PROVE StoresInv'
  <2>1. /\ Alters(u[i], [u[i] EXCEPT !.st = "made", !.made = m], {"st", "held", "seenDir", "made"})
        /\ [u[i] EXCEPT !.st = "made", !.made = m].st = "made"
        /\ [u[i] EXCEPT !.st = "made", !.made = m].held = u[i].held
      BY Fields DEF Alters, InvocationFields
  <2> QED
      BY <1>1, <1>2, <2>1, Fields, EarlyStep DEF Early
<1>3. CASE UNCHANGED <<tree, fresh>>
  <2>1. TreeMoves
      BY <1>3, SameTree
  <2>2. CASE Alter(i, Halt(i, "failed"))
      BY <1>1, <2>1, <2>2, HaltStep
  <2>3. CASE Alter(i, [u[i] EXCEPT !.st = "made", !.made = FALSE])
      BY <1>2, <2>1, <2>3
  <2>4. CASE Alter(i, [u[i] EXCEPT !.st = "made", !.made = TRUE])
      BY <1>2, <2>1, <2>4
  <2> QED
      BY <2>2, <2>3, <2>4 DEF MakeComponent
<1>4. CASE /\ ~Exists(Component(i)) /\ Exists(Last(u[i].held).at)
           /\ tree' = AddEntry(tree, Component(i), Made("dir", "private", 0))
           /\ fresh' = fresh + 1 /\ Alter(i, [u[i] EXCEPT !.st = "made", !.made = TRUE])
  <2>1. ASeq(Component(i)) /\ Component(i) \notin DOMAIN tree
      BY <1>4, Fields, AppendFacts DEF Component, Exists
  <2>2. TreeMoves
      BY <1>4, <2>1, MadeTree
  <2> QED
      BY <1>2, <1>4, <2>2
<1> QED
    BY <1>3, <1>4 DEF MakeComponent

LEMMA AdoptStep ==
    ASSUME StoresInv, NEW i \in Invokers, AdoptComponent(i)
    PROVE  StoresInv'
<1> DEFINE d == RetainedDirectory(Component(i), RequiresPrivate(i))
           held == Append(u[i].held, d)
           st == IF IsFinal(i) THEN "lock" ELSE "walk"
           r == [u[i] EXCEPT !.held = held, !.seenDir = <<>>, !.st = st]
<1>1. TreeMoves /\ NothingUnseenDestroyed' /\ u[i].st \in Early
    BY LookStep DEF AdoptComponent, Early
<1>2. CASE Alter(i, Halt(i, "failed"))
    BY <1>1, <1>2, HaltStep
<1>3. CASE Exists(Component(i)) /\ Alter(i, r)
  <2>1. ASeq(d.at)
      BY <1>3, Fields DEF Exists, RetainedDirectory
  <2> HIDE DEF d
  <2>2. /\ ASeq(held) /\ Len(held) = Len(u[i].held) + 1 /\ \A k \in 1..Len(u[i].held) : held[k] = u[i].held[k]
        /\ held[Len(u[i].held) + 1] = d
      BY Fields, AppendFacts
  <2> HIDE DEF held
  <2>3. \A k \in DOMAIN held : ASeq(held[k].at)
    <3> SUFFICES ASSUME NEW k \in DOMAIN held PROVE ASeq(held[k].at)
        OBVIOUS
    <3>1. Len(u[i].held) \in Nat /\ DOMAIN u[i].held = 1..Len(u[i].held) /\ DOMAIN held = 1..Len(held)
        BY <2>2, Fields, ASeqFacts
    <3>2. k \in 1..Len(u[i].held) \/ k = Len(u[i].held) + 1
        BY <2>2, <3>1
    <3> QED
        BY <2>1, <2>2, <3>1, <3>2, Fields
  <2>4. Alters(u[i], r, {"st", "held", "seenDir", "made"}) /\ r.st = st /\ r.held = held
      BY Fields DEF Alters, InvocationFields
  <2> QED
      BY <1>1, <1>3, <2>2, <2>3, <2>4, EarlyStep DEF Early
<1> QED
    BY <1>2, <1>3 DEF AdoptComponent, open_observed_directory

LEMMA PrepareStep ==
    ASSUME StoresInv, NEW i \in Invokers, PrepareDirectory(i)
    PROVE  StoresInv'
BY AnchorStep, ComponentSteps, MakeStep, AdoptStep DEF PrepareDirectory

\* With the lock, the operation goes where it wanted to.
LEMMA LockStep ==
    ASSUME StoresInv, NEW i \in Invokers, lock_source_preference_directory(i), u[i].store \in {"sources.d", "patches.d"}
    PROVE  StoresInv'
<1> DEFINE c == u[i]
           r == [c EXCEPT !.lock = c.want, !.st = c.next]
<1>1. TreeMoves /\ NothingUnseenDestroyed' /\ c.st = "lock" /\ tree' = tree /\ fresh' = fresh
    BY LookStep DEF lock_source_preference_directory
<1>2. CASE Alter(i, Fail(i))
    BY <1>1, <1>2, FailStep
<1>3. CASE Alter(i, r)
  <2>1. Alters(c, r, {"st", "lock"}) /\ r.st = c.next /\ DOMAIN r = InvocationFields
      BY Fields DEF Alters, InvocationFields
  <2>2. InvocationInv(c, tree, fresh)
      BY DEF StoresInv
  <2>3. c.store \in {"sources.d", "patches.d"}
      OBVIOUS
  <2> HIDE DEF c, r
  <2>4. /\ r.op = c.op /\ r.store = c.store /\ r.want = c.want /\ r.next = c.next /\ r.entry = c.entry
        /\ r.temp = c.temp /\ r.content = c.content /\ r.draft = c.draft /\ r.previous = c.previous
        /\ r.files = c.files /\ r.whole = c.whole /\ r.out = c.out /\ r.held = c.held
      BY <2>1 DEF Alters, InvocationFields
  <2>5. r.st \in {"inspect", "enumerate", "expect", "registry", "select"}
      BY <2>1, <2>2, <2>3 DEF InvocationInv, ReplaceInv, RecordInv
  <2>6. FieldInv(r, fresh)
      BY <1>1, <2>1, <2>2, <2>4, <2>5 DEF FieldInv, InvocationInv
  <2>7. PinInv(r, tree)
      BY <1>1, <2>2, <2>4 DEF PinInv, InvocationInv
  <2>8. ASSUME r.store = "sources.d" PROVE ReadInv(r, tree) /\ RemovalInv(r) /\ ReplaceInv(r)
      BY <1>1, <2>1, <2>2, <2>4, <2>5, <2>8 DEF InvocationInv, ReadInv, RemovalInv, ReplaceInv, Replacing
  <2>9. ASSUME r.store = "patches.d" PROVE RecordInv(r)
      BY <1>1, <2>1, <2>2, <2>4, <2>5, <2>9 DEF InvocationInv, RecordInv
  <2>10. ASSUME r.store = "patches.d" PROVE SeriesInv(r, tree)
      BY <1>1, <2>1, <2>2, <2>4, <2>5, <2>10 DEF InvocationInv, SeriesInv
  <2>11. InvocationInv(r, tree, fresh)
      BY <2>6, <2>7, <2>8, <2>9, <2>10 DEF InvocationInv
  <2> QED
      BY <1>1, <1>3, <2>11, ActorStep DEF Alter
<1> QED
    BY <1>2, <1>3 DEF lock_source_preference_directory

(***************************************************************************)
(* Steps of the preferences                                                *)
(***************************************************************************)
\* A new invocation, whatever it is asked to do.
LEMMA FreshPreference ==
    ASSUME NEW op, NEW env, NEW t, NEW f
    PROVE  InvocationInv(Preference(op, env), t, f) /\ Preference(op, env).store = "sources.d"
<1> DEFINE r == Preference(op, env)
<1>1. /\ DOMAIN r = InvocationFields /\ r.store = "sources.d" /\ r.op = op /\ r.entry = <<>> /\ r.temp = <<>>
      /\ r.draft = <<>> /\ r.previous = <<>> /\ r.files = <<>> /\ r.content = <<>> /\ r.held = <<>> /\ r.out = "none"
      /\ r.st \in {"query", "start"} /\ r.next \in {"expect", "enumerate", "inspect"}
      /\ op \in {"remove", "revert", "edit"} => r.next = "inspect"
    BY DEF Preference, Invocation, InvocationFields
<1> HIDE DEF r
<1>2. ASeq(<<>>) /\ DOMAIN <<>> = {} /\ <<>> \in Seq(KnownNodes(f)) /\ <<>> \in Seq(Nat)
  <2>1. <<>> \in Seq(Nat)
      OBVIOUS
  <2>2. ASeq(<<>>)
      BY <2>1 DEF ASeq
  <2> QED
      BY <2>2
<1>3. FieldInv(r, f)
    BY <1>1, <1>2 DEF FieldInv
<1>4. PinInv(r, t)
    BY <1>1, <1>2 DEF PinInv
<1>5. ReadInv(r, t)
    BY <1>1 DEF ReadInv
<1>6. RemovalInv(r)
    BY <1>1 DEF RemovalInv, Removal
<1>7. ReplaceInv(r)
    BY <1>1 DEF ReplaceInv, Replacing
<1> QED
    BY <1>1, <1>3, <1>4, <1>5, <1>6, <1>7 DEF InvocationInv, r

\* What an invocation of a preference has to keep.
LEMMA PreferenceAlter ==
    ASSUME StoresInv, NEW i \in Invokers, TreeMoves, NothingUnseenDestroyed', NEW r, Alter(i, r), r.store = "sources.d",
           FieldInv(r, fresh'), PinInv(r, tree'), ReadInv(r, tree'), RemovalInv(r), ReplaceInv(r)
    PROVE  StoresInv'
<1>1. InvocationInv(r, tree', fresh')
    BY DEF InvocationInv
<1> QED
    BY <1>1, ActorStep DEF Alter

Aside == {"st", "lock", "want", "next", "create", "published", "seenDir", "root", "whole", "made"}

Knows(c, r) ==
    /\ r.store = c.store /\ r.op = c.op /\ r.entry = c.entry /\ r.temp = c.temp /\ r.content = c.content
    /\ r.draft = c.draft /\ r.previous = c.previous /\ r.files = c.files /\ r.held = c.held /\ r.out = c.out

\* The fields that hold what was seen stay.
LEMMA FieldsStay ==
    ASSUME NEW c, NEW r, NEW t, NEW f, InvocationInv(c, t, f), c.st # "end", Alters(c, r, Aside),
           r.st \notin {"end", "unwind"},
           r.st \in {"publish", "bury", "record publish", "forget move"} => c.held # <<>>
    PROVE  FieldInv(r, f) /\ PinInv(r, t) /\ Knows(c, r)
<1>1. /\ r.store = c.store /\ r.op = c.op /\ r.entry = c.entry /\ r.temp = c.temp
      /\ r.content = c.content /\ r.draft = c.draft /\ r.previous = c.previous /\ r.files = c.files
      /\ r.held = c.held /\ r.out = c.out
    BY DEF Alters, InvocationFields, Aside
<1>2. FieldInv(r, f)
    BY <1>1 DEF FieldInv, InvocationInv, Alters
<1>3. PinInv(r, t)
    BY <1>1 DEF PinInv, InvocationInv
<1> QED
    BY <1>1, <1>2, <1>3 DEF Knows

\* A step that only moves on, perhaps to another lock.
LEMMA PreferenceAside ==
    ASSUME StoresInv, NEW i \in Invokers, TreeMoves, NothingUnseenDestroyed', NEW r, Alter(i, r), Alters(u[i], r, Aside),
           u[i].store = "sources.d", u[i].st # "end", r.st \notin {"end", "unwind", "record publish", "forget move"},
           r.st \in {"publish", "bury"} => u[i].held # <<>>,
           Knows(u[i], r) => ReadInv(r, tree') /\ RemovalInv(r) /\ ReplaceInv(r)
    PROVE  StoresInv'
<1> DEFINE c == u[i]
<1>1. /\ InvocationInv(c, tree', fresh') /\ Alters(c, r, Aside) /\ c.store = "sources.d" /\ c.st # "end"
      /\ r.st \notin {"end", "unwind"}
      /\ r.st \in {"publish", "bury", "record publish", "forget move"} => c.held # <<>>
    BY InvocationStays
<1> HIDE DEF c
<1>2. FieldInv(r, fresh') /\ PinInv(r, tree') /\ Knows(c, r)
    BY <1>1, FieldsStay
<1>3. ReadInv(r, tree') /\ RemovalInv(r) /\ ReplaceInv(r)
    BY <1>2 DEF c
<1>4. r.store = "sources.d"
    BY <1>1, <1>2 DEF Knows
<1> QED
    BY <1>2, <1>3, <1>4, PreferenceAlter

LEMMA PreferenceMoves ==
    ASSUME StoresInv, NEW i \in Invokers, TreeMoves, NothingUnseenDestroyed', NEW st, Moves(i, st),
           u[i].store = "sources.d", u[i].st # "end", st \notin {"end", "unwind", "record publish", "forget move"},
           st \in {"publish", "bury"} => u[i].held # <<>>,
           ASSUME NEW r, Knows(u[i], r), r.st = st, r.next = u[i].next
           PROVE  ReadInv(r, tree') /\ RemovalInv(r) /\ ReplaceInv(r)
    PROVE  StoresInv'
<1> DEFINE r == [u[i] EXCEPT !.st = st]
<1>1. Alters(u[i], r, Aside) /\ r.st = st /\ r.next = u[i].next
    BY Fields DEF Alters, InvocationFields, Aside
<1>2. Alter(i, r)
    BY DEF Moves
<1> HIDE DEF r
<1>3. Knows(u[i], r) => ReadInv(r, tree') /\ RemovalInv(r) /\ ReplaceInv(r)
    BY <1>1
<1> QED
    BY <1>1, <1>2, <1>3, PreferenceAside

LEMMA PreferenceNow ==
    ASSUME StoresInv, NEW i \in Invokers, u[i].store = "sources.d", TreeMoves
    PROVE  /\ ReadInv(u[i], tree') /\ RemovalInv(u[i]) /\ ReplaceInv(u[i])
           /\ FieldInv(u[i], fresh') /\ PinInv(u[i], tree') /\ InvocationInv(u[i], tree', fresh')
BY InvocationStays DEF InvocationInv

LEMMA QueryStep ==
    ASSUME StoresInv, NEW i \in Invokers, u[i].store = "sources.d", cmd_revert(i) \/ enumerate_source_preference_names(i)
    PROVE  StoresInv'
<1>1. TreeMoves /\ NothingUnseenDestroyed' /\ u[i].st \in {"query", "enumerate"}
    BY LookStep DEF cmd_revert, enumerate_source_preference_names
<1>2. ASSUME NEW out, Alter(i, Halt(i, out)) PROVE StoresInv'
    BY <1>1, <1>2, HaltStep
<1>3. CASE Alter(i, Fail(i))
    BY <1>1, <1>3, FailStep
<1>4. ReadInv(u[i], tree') /\ RemovalInv(u[i]) /\ ReplaceInv(u[i])
    BY <1>1, PreferenceNow
<1>5. ASSUME NEW st \in {"start", "inspect"}, Moves(i, st) PROVE StoresInv'
  <2>1. ASSUME NEW r, Knows(u[i], r), r.st = st, r.next = u[i].next
        PROVE  ReadInv(r, tree') /\ RemovalInv(r) /\ ReplaceInv(r)
      BY <1>1, <1>4, <1>5, <2>1 DEF ReadInv, RemovalInv, ReplaceInv, Replacing, Knows
  <2> QED
      BY <1>1, <1>5, <2>1, PreferenceMoves
<1> QED
    BY <1>2, <1>3, <1>5 DEF cmd_revert, enumerate_source_preference_names

\* A status that is read now.
LEMMA ReadNode ==
    ASSUME StoresInv, NEW p \in DOMAIN tree
    PROVE  /\ tree[p] \in KnownNodes(fresh) /\ Pinned(tree[p], tree) /\ tree[p] \in Nodes
           /\ <<tree[p]>> \in Seq(KnownNodes(fresh))
<1>1. tree[p] \in Nodes /\ tree[p].id < fresh /\ tree[p].ino < fresh /\ tree[p].stamp < fresh
    BY DEF StoresInv, TreeInv, StampInv
<1>2. tree[p] \in KnownNodes(fresh)
    BY <1>1 DEF KnownNodes
<1>3. Pinned(tree[p], tree)
    BY DEF Pinned, StoresInv, TreeInv
<1> QED
    BY <1>1, <1>2, <1>3

LEMMA ToReplaceStep ==
    ASSUME StoresInv, NEW i \in Invokers, TreeMoves, NothingUnseenDestroyed', u[i].store = "sources.d",
           u[i].st # "end", Alter(i, ToReplace(i)), u[i].op \notin Removal, u[i].op # "edit",
           u[i].entry = <<>> \/ u[i].content = <<u[i].entry[1].data>>
    PROVE  StoresInv'
<1> DEFINE r == ToReplace(i)
<1>1. Alters(u[i], r, Aside) /\ r.st = "lock" /\ r.next = "expect"
    BY Fields DEF Alters, InvocationFields, Aside, ToReplace
<1> HIDE DEF r
<1>2. ReadInv(u[i], tree') /\ RemovalInv(u[i]) /\ ReplaceInv(u[i])
    BY PreferenceNow
<1>3. Knows(u[i], r) => ReadInv(r, tree') /\ RemovalInv(r) /\ ReplaceInv(r)
    BY <1>1, <1>2 DEF ReadInv, RemovalInv, ReplaceInv, Replacing, Knows
<1> QED
    BY <1>1, <1>3, PreferenceAside DEF r

LEMMA ToDraftStep ==
    ASSUME StoresInv, NEW i \in Invokers, TreeMoves, NothingUnseenDestroyed', u[i].store = "sources.d",
           u[i].st # "end", Alter(i, [u[i] EXCEPT !.st = "draft", !.lock = "none"]), u[i].op = "edit",
           u[i].entry = <<>> \/ u[i].content = <<u[i].entry[1].data>>
    PROVE  StoresInv'
<1> DEFINE r == [u[i] EXCEPT !.st = "draft", !.lock = "none"]
<1>1. Alters(u[i], r, Aside) /\ r.st = "draft" /\ r.next = u[i].next
    BY Fields DEF Alters, InvocationFields, Aside
<1> HIDE DEF r
<1>2. ReadInv(u[i], tree') /\ RemovalInv(u[i]) /\ ReplaceInv(u[i])
    BY PreferenceNow
<1>3. Knows(u[i], r) => ReadInv(r, tree') /\ RemovalInv(r) /\ ReplaceInv(r)
    BY <1>1, <1>2 DEF ReadInv, RemovalInv, ReplaceInv, Replacing, Knows, Removal
<1> QED
    BY <1>1, <1>3, PreferenceAside DEF r

LEMMA FinishStep ==
    ASSUME StoresInv, NEW i \in Invokers, TreeMoves, NothingUnseenDestroyed', u[i].store = "sources.d", Alter(i, Finish(i))
    PROVE  StoresInv'
<1>1. CASE Alter(i, Halt(i, "ok"))
    BY <1>1, HaltStep
<1>2. CASE Alter(i, Preference("append", u[i].env))
    BY <1>2, FreshPreference, ActorStep DEF Alter
<1> QED
    BY <1>1, <1>2 DEF Finish, cmd_add_src

LEMMA InspectStep ==
    ASSUME StoresInv, NEW i \in Invokers, u[i].store = "sources.d", InspectEntry(i)
    PROVE  StoresInv'
<1>1. TreeMoves /\ NothingUnseenDestroyed' /\ u[i].st \in {"inspect", "absent"} /\ tree' = tree /\ fresh' = fresh
    BY LookStep DEF InspectEntry
<1>2. ReadInv(u[i], tree') /\ RemovalInv(u[i]) /\ ReplaceInv(u[i]) /\ FieldInv(u[i], fresh') /\ PinInv(u[i], tree')
    BY <1>1, PreferenceNow
<1>3. CASE Alter(i, WhenAbsent(i))
  <2>1. ASSUME NEW out, Alter(i, Halt(i, out)) PROVE StoresInv'
      BY <1>1, <2>1, HaltStep
  <2>2. CASE Alter(i, Fail(i))
      BY <1>1, <2>2, FailStep
  <2>3. u[i].op \notin Removal => u[i].entry = <<>> \/ u[i].content = <<u[i].entry[1].data>>
      BY <1>1, <1>2 DEF ReadInv
  <2>4. CASE u[i].op \in {"add", "create", "append"} /\ Alter(i, ToReplace(i))
      BY <1>1, <2>3, <2>4, ToReplaceStep DEF Removal
  <2>5. CASE u[i].op = "edit" /\ Alter(i, [u[i] EXCEPT !.st = "draft", !.lock = "none"])
      BY <1>1, <2>3, <2>5, ToDraftStep DEF Removal
  <2> QED
      BY <1>3, <2>1, <2>2, <2>4, <2>5 DEF WhenAbsent
<1>4. CASE Alter(i, Fail(i))
    BY <1>1, <1>4, FailStep
<1>5. CASE Exists(Entry(i)) /\ Alter(i, [u[i] EXCEPT !.st = "open", !.entry = <<tree[Entry(i)]>>])
  <2> DEFINE n == tree[Entry(i)]
             r == [u[i] EXCEPT !.st = "open", !.entry = <<n>>]
  <2>1. n \in KnownNodes(fresh) /\ Pinned(n, tree) /\ <<n>> \in Seq(KnownNodes(fresh))
      BY <1>5, ReadNode DEF Exists
  <2> HIDE DEF n
  <2>2. Alters(u[i], r, {"st", "entry"}) /\ r.st = "open" /\ r.entry = <<n>> /\ DOMAIN r = InvocationFields
      BY Fields DEF Alters, InvocationFields
  <2> HIDE DEF r
  <2>3. /\ r.op = u[i].op /\ r.store = "sources.d" /\ r.next = u[i].next /\ r.temp = u[i].temp /\ r.held = u[i].held
        /\ r.content = u[i].content /\ r.draft = u[i].draft /\ r.previous = u[i].previous /\ r.files = u[i].files
        /\ r.out = u[i].out
      BY <2>2 DEF Alters, InvocationFields
  <2>4. FieldInv(r, fresh')
      BY <1>1, <1>2, <2>1, <2>2, <2>3 DEF FieldInv
  <2>5. PinInv(r, tree')
      BY <1>1, <1>2, <2>1, <2>2, <2>3, OneElement DEF PinInv
  <2>6. ReadInv(r, tree')
      BY <2>2, OneElement DEF ReadInv
  <2>7. RemovalInv(r)
      BY <1>2, <2>2, <2>3 DEF RemovalInv
  <2>8. ReplaceInv(r)
      BY <1>2, <2>2, <2>3 DEF ReplaceInv, Replacing
  <2>9. Alter(i, r)
      BY <1>5 DEF r, n
  <2> QED
      BY <1>1, <2>3, <2>4, <2>5, <2>6, <2>7, <2>8, <2>9, PreferenceAlter
<1> QED
    BY <1>3, <1>4, <1>5 DEF InspectEntry

LEMMA OpenStep ==
    ASSUME StoresInv, NEW i \in Invokers, u[i].store = "sources.d", open_source_preference_entry(i)
    PROVE  StoresInv'
<1>1. TreeMoves /\ NothingUnseenDestroyed' /\ u[i].st = "open" /\ tree' = tree /\ fresh' = fresh
    BY LookStep DEF open_source_preference_entry
<1>2. ReadInv(u[i], tree') /\ RemovalInv(u[i]) /\ ReplaceInv(u[i])
    BY <1>1, PreferenceNow
<1>3. CASE Alter(i, Fail(i))
    BY <1>1, <1>3, FailStep
<1>4. CASE Alter(i, Finish(i))
    BY <1>1, <1>4, FinishStep
<1>5. ASSUME NEW st \in {"doomed", "read"}, Moves(i, st), st = "doomed" => u[i].op \in Removal PROVE StoresInv'
  <2>1. ASSUME NEW r, Knows(u[i], r), r.st = st, r.next = u[i].next
        PROVE  ReadInv(r, tree') /\ RemovalInv(r) /\ ReplaceInv(r)
      BY <1>1, <1>2, <1>5, <2>1 DEF ReadInv, RemovalInv, ReplaceInv, Replacing, Knows
  <2> QED
      BY <1>1, <1>5, <2>1, PreferenceMoves
<1> QED
    BY <1>3, <1>4, <1>5 DEF open_source_preference_entry, Removal

\* The file behind a descriptor is the one that bears its number.
LEMMA DescriptorFacts ==
    ASSUME StoresInv, NEW n \in Nodes
    PROVE  /\ Descriptor(n) \in Nodes /\ Descriptor(n).id = n.id
           /\ Descriptor(n) = n \/ \E q \in DOMAIN tree : Descriptor(n) = tree[q]
           /\ \A p \in DOMAIN tree : tree[p].id = n.id => Descriptor(n) = tree[p]
<1>1. tree \in [DOMAIN tree -> Nodes] /\ \A p, q \in DOMAIN tree : p # q => tree[p].id # tree[q].id
    BY DEF StoresInv, TreeInv
<1>2. CASE \E p \in DOMAIN tree : tree[p].id = n.id
  <2> DEFINE q == CHOOSE p \in DOMAIN tree : tree[p].id = n.id
  <2>1. q \in DOMAIN tree /\ tree[q].id = n.id
      BY <1>2
  <2>2. Descriptor(n) = tree[q]
      BY <1>2 DEF Descriptor
  <2> HIDE DEF q
  <2> QED
      BY <1>1, <2>1, <2>2
<1>3. CASE ~\E p \in DOMAIN tree : tree[p].id = n.id
    BY <1>3 DEF Descriptor
<1> QED
    BY <1>2, <1>3

\* What is read through the descriptor is what the name shows, unless the
\* name is lost.
LEMMA ReadStepInv ==
    ASSUME StoresInv, NEW i \in Invokers, u[i].store = "sources.d", ReadBytes(i)
    PROVE  StoresInv'
<1>1. TreeMoves /\ NothingUnseenDestroyed' /\ u[i].st = "read" /\ tree' = tree /\ fresh' = fresh
    BY LookStep DEF ReadBytes
<1>2. ReadInv(u[i], tree) /\ RemovalInv(u[i]) /\ ReplaceInv(u[i]) /\ FieldInv(u[i], fresh) /\ PinInv(u[i], tree)
    BY <1>1, PreferenceNow
<1> DEFINE n == u[i].entry[1]
           d == Descriptor(n).data
           r == [u[i] EXCEPT !.st = "reread", !.content = <<d>>]
<1>3. u[i].entry # <<>> /\ n \in KnownNodes(fresh) /\ n \in Nodes /\ Pinned(n, tree)
  <2>1. u[i].entry # <<>> /\ u[i].entry \in Seq(KnownNodes(fresh))
      BY <1>1, <1>2 DEF ReadInv, FieldInv
  <2>2. n \in KnownNodes(fresh) /\ 1 \in DOMAIN u[i].entry
      BY <2>1, Elements
  <2> QED
      BY <1>1, <1>2, <2>1, <2>2 DEF PinInv, KnownNodes
<1>4. d = n.data \/ Lost(tree, FirstLeaf(u[i]), n)
  <2> SUFFICES ASSUME FirstLeaf(u[i]) \in DOMAIN tree, same_state(tree[FirstLeaf(u[i])], n) PROVE d = n.data
      BY DEF Lost
  <2>1. tree[FirstLeaf(u[i])] \in Nodes
      BY ReadNode
  <2>2. tree[FirstLeaf(u[i])].ino = n.ino /\ tree[FirstLeaf(u[i])].data = n.data
      BY <1>3, <2>1, SameStateFacts
  <2>3. tree[FirstLeaf(u[i])].id = n.id
      BY <1>3, <2>2 DEF Pinned
  <2> QED
      BY <1>3, <2>2, <2>3, DescriptorFacts
<1>5. d \in Nat
    BY <1>3, DescriptorFacts DEF Nodes
<1>6. Alter(i, r)
    BY DEF ReadBytes
<1> HIDE DEF d
<1>7. Alters(u[i], r, {"st", "content"}) /\ r.st = "reread" /\ r.content = <<d>> /\ DOMAIN r = InvocationFields
    BY Fields DEF Alters, InvocationFields
<1> HIDE DEF r
<1>8. /\ r.op = u[i].op /\ r.store = "sources.d" /\ r.next = u[i].next /\ r.temp = u[i].temp /\ r.held = u[i].held
      /\ r.entry = u[i].entry /\ r.draft = u[i].draft /\ r.previous = u[i].previous /\ r.files = u[i].files
      /\ r.out = u[i].out
    BY <1>7 DEF Alters, InvocationFields
<1>9. FieldInv(r, fresh')
    BY <1>1, <1>2, <1>5, <1>7, <1>8 DEF FieldInv
<1>10. PinInv(r, tree')
    BY <1>1, <1>2, <1>7, <1>8 DEF PinInv
<1>11. ReadInv(r, tree')
    BY <1>1, <1>3, <1>4, <1>7, <1>8 DEF ReadInv, FirstLeaf
<1>12. RemovalInv(r)
    BY <1>2, <1>7, <1>8 DEF RemovalInv
<1>13. ReplaceInv(r)
    BY <1>2, <1>7, <1>8 DEF ReplaceInv, Replacing
<1> QED
    BY <1>1, <1>6, <1>8, <1>9, <1>10, <1>11, <1>12, <1>13, PreferenceAlter

LEMMA RereadStep ==
    ASSUME StoresInv, NEW i \in Invokers, u[i].store = "sources.d", read_source_preference_contents(i)
    PROVE  StoresInv'
<1>1. TreeMoves /\ NothingUnseenDestroyed' /\ u[i].st = "reread" /\ tree' = tree /\ fresh' = fresh
    BY LookStep DEF read_source_preference_contents
<1>2. ReadInv(u[i], tree)
    BY <1>1, PreferenceNow
<1>3. Named(Entry(i), u[i].entry[1]) => u[i].content = <<u[i].entry[1].data>>
    BY <1>1, <1>2 DEF ReadInv, Lost, Named, Exists, Entry, FirstLeaf, DirectoryOf
<1>4. CASE Alter(i, Fail(i))
    BY <1>1, <1>4, FailStep
<1>5. CASE Alter(i, Halt(i, "ok"))
    BY <1>1, <1>5, HaltStep
<1>6. CASE Named(Entry(i), u[i].entry[1]) /\ u[i].op = "append" /\ Alter(i, ToReplace(i))
    BY <1>1, <1>3, <1>6, ToReplaceStep DEF Removal
<1>7. CASE /\ Named(Entry(i), u[i].entry[1]) /\ u[i].op = "edit"
           /\ Alter(i, [u[i] EXCEPT !.st = "draft", !.lock = "none"])
    BY <1>1, <1>3, <1>7, ToDraftStep
<1> QED
    BY <1>4, <1>5, <1>6, <1>7 DEF read_source_preference_contents

\* What moved to another name keeps its content.
LEMMA ArrivedFacts ==
    ASSUME StoresInv, NEW n \in Nodes, NEW p, Arrived(p, n) \/ revalidate_renamed(p, n)
    PROVE  p \in DOMAIN tree /\ tree[p].data = n.data
<1> DEFINE d == Descriptor(n)
<1>1. p \in DOMAIN tree /\ same_state(tree[p], d) /\ same_relocated_state(n, d)
    BY DEF Arrived, revalidate_renamed, Exists
<1>2. tree[p] \in Nodes /\ d \in Nodes
    BY <1>1, ReadNode, DescriptorFacts
<1> HIDE DEF d
<1>3. tree[p].data = d.data
    BY <1>1, <1>2, SameStateFacts
<1>4. [n EXCEPT !.stamp = 0] \in Nodes /\ [d EXCEPT !.stamp = 0] \in Nodes
    BY <1>2 DEF Nodes
<1>5. [n EXCEPT !.stamp = 0].data = [d EXCEPT !.stamp = 0].data
    BY <1>1, <1>4, SameStateFacts DEF same_relocated_state
<1>6. n.data = d.data
    BY <1>2, <1>5 DEF Nodes
<1> QED
    BY <1>1, <1>3, <1>6

LEMMA NamedFacts ==
    ASSUME StoresInv, NEW n \in Nodes, NEW p, Named(p, n)
    PROVE  p \in DOMAIN tree /\ tree[p].data = n.data /\ tree[p].ino = n.ino
<1>1. p \in DOMAIN tree /\ same_state(tree[p], n)
    BY DEF Named, Exists
<1> QED
    BY <1>1, ReadNode, SameStateFacts

\* An unlink of what is ours, or of what was seen.
LEMMA DestroyStep ==
    ASSUME StoresInv, NEW i, NEW p, NEW ours, NEW seen, Destroy(i, p, ours, seen), fresh' = fresh + 1,
           ours \/ tree[p].data \in seen
    PROVE  TreeMoves /\ NothingUnseenDestroyed'
<1>1. TreeMoves
    BY DroppedTree DEF Destroy
<1> DEFINE d == [ours |-> ours, data |-> tree[p].data, seen |-> seen]
<1>2. destroyed' = destroyed \cup {d} /\ (d.ours \/ d.data \in d.seen)
    BY DEF Destroy
<1> HIDE DEF d
<1>3. NothingUnseenDestroyed
    BY DEF StoresInv
<1> QED
    BY <1>1, <1>2, <1>3 DEF NothingUnseenDestroyed

\* The statuses that an invocation has read.
LEMMA NodeFacts ==
    ASSUME StoresInv, NEW i \in Invokers
    PROVE  /\ u[i].entry # <<>> => u[i].entry[1] \in Nodes /\ u[i].entry[1] \in KnownNodes(fresh) /\ 1 \in DOMAIN u[i].entry
           /\ u[i].temp # <<>> => u[i].temp[1] \in Nodes /\ u[i].temp[1] \in KnownNodes(fresh) /\ 1 \in DOMAIN u[i].temp
           /\ u[i].draft # <<>> => u[i].draft[1] \in Nodes /\ u[i].draft[1] \in KnownNodes(fresh)
           /\ u[i].previous # <<>> => u[i].previous[1] \in Nodes
           /\ u[i].content # <<>> => u[i].content[1] \in Nat
<1>1. FieldInv(u[i], fresh)
    BY DEF StoresInv, InvocationInv
<1>2. /\ u[i].entry \in Seq(KnownNodes(fresh)) /\ u[i].temp \in Seq(KnownNodes(fresh))
      /\ u[i].draft \in Seq(KnownNodes(fresh)) /\ u[i].previous \in Seq(KnownNodes(fresh)) /\ u[i].content \in Seq(Nat)
    BY <1>1 DEF FieldInv
<1>3. KnownNodes(fresh) \subseteq Nodes
    BY DEF KnownNodes
<1> QED
    BY <1>2, <1>3, Elements

LEMMA MakeDraftStep ==
    ASSUME StoresInv, NEW i \in Invokers, u[i].store = "sources.d", MakeDraft(i) \/ Editor(i)
    PROVE  StoresInv'
<1>1. NothingUnseenDestroyed' /\ u[i].st \in {"draft", "editor"}
    BY NothingMore DEF MakeDraft, Editor
<1>2. CASE UNCHANGED <<tree, fresh>> /\ Alter(i, Halt(i, "failed"))
    BY <1>1, <1>2, SameTree, HaltStep
<1>3. ASSUME TreeMoves, NEW st \in {"editor", "edited"}, Moves(i, st) PROVE StoresInv'
  <2>1. ReadInv(u[i], tree') /\ RemovalInv(u[i]) /\ ReplaceInv(u[i])
      BY <1>3, PreferenceNow
  <2>2. ASSUME NEW r, Knows(u[i], r), r.st = st, r.next = u[i].next
        PROVE  ReadInv(r, tree') /\ RemovalInv(r) /\ ReplaceInv(r)
      BY <1>1, <1>3, <2>1, <2>2 DEF ReadInv, RemovalInv, ReplaceInv, Replacing, Knows
  <2> QED
      BY <1>1, <1>3, <2>2, PreferenceMoves
<1>4. Exists(Drafts) => ASeq(Draft(i))
    BY Fields, AppendFacts DEF Draft, Exists
<1>5. CASE /\ Exists(Drafts) /\ ~Exists(Draft(i)) /\ fresh' = fresh + 1 /\ Moves(i, "editor")
           /\ tree' = AddEntry(tree, Draft(i),
                               Made("file", "private", IF u[i].content = <<>> THEN 0 ELSE u[i].content[1]))
  <2> DEFINE data == IF u[i].content = <<>> THEN 0 ELSE u[i].content[1]
  <2>1. data \in Nat
      BY NodeFacts
  <2> HIDE DEF data
  <2>2. TreeMoves
      BY <1>4, <1>5, <2>1, MadeTree DEF Exists, data
  <2> QED
      BY <1>3, <1>5, <2>2
<1>6. CASE /\ Exists(Drafts) /\ ~Exists(Draft(i)) /\ fresh' = fresh + 1 /\ Moves(i, "edited")
           /\ tree' = AddEntry(tree, Draft(i), Made("file", "private", fresh))
  <2>1. TreeMoves
      BY <1>4, <1>6, MadeTree, Fields DEF Exists
  <2> QED
      BY <1>3, <1>6, <2>1
<1>7. CASE /\ Exists(Draft(i)) /\ fresh' = fresh + 1 /\ Moves(i, "edited")
           /\ tree' = Changed(tree, Draft(i), [tree[Draft(i)] EXCEPT !.data = fresh])
  <2> DEFINE p == Draft(i)
             n == [tree[p] EXCEPT !.data = fresh]
  <2>1. p \in DOMAIN tree /\ tree[p] \in Nodes /\ fresh \in Nat
      BY <1>7, Fields DEF Exists
  <2>2. n \in Nodes /\ SameNode(n, tree[p])
      BY <2>1 DEF Nodes, SameNode
  <2>3. tree' = Changed(tree, p, n)
      BY <1>7
  <2> HIDE DEF n, p
  <2>4. TreeMoves
      BY <1>7, <2>1, <2>2, <2>3, ChangedTree
  <2> QED
      BY <1>3, <1>7, <2>4
<1> QED
    BY <1>2, <1>5, <1>6, <1>7 DEF MakeDraft, Editor

LEMMA EditedStep ==
    ASSUME StoresInv, NEW i \in Invokers, u[i].store = "sources.d", cmd_edit_src(i)
    PROVE  StoresInv'
<1>1. TreeMoves /\ NothingUnseenDestroyed' /\ u[i].st = "edited" /\ tree' = tree /\ fresh' = fresh
    BY LookStep DEF cmd_edit_src
<1>2. ReadInv(u[i], tree') /\ RemovalInv(u[i]) /\ ReplaceInv(u[i]) /\ FieldInv(u[i], fresh') /\ PinInv(u[i], tree')
    BY <1>1, PreferenceNow
<1>3. CASE Alter(i, Halt(i, "failed"))
    BY <1>1, <1>3, HaltStep
<1> DEFINE n == tree[Draft(i)]
           r == [u[i] EXCEPT !.draft = <<n>>, !.st = "start", !.held = <<>>,
                             !.create = TRUE, !.want = "EX", !.next = "expect"]
<1>4. CASE Exists(Draft(i)) /\ Alter(i, r)
  <2>1. <<n>> \in Seq(KnownNodes(fresh))
      BY <1>4, ReadNode DEF Exists
  <2> HIDE DEF n
  <2>2. /\ DOMAIN r = InvocationFields /\ r.st = "start" /\ r.draft = <<n>> /\ r.held = <<>> /\ r.next = "expect"
        /\ r.op = u[i].op /\ r.store = "sources.d" /\ r.temp = u[i].temp /\ r.entry = u[i].entry
        /\ r.content = u[i].content /\ r.previous = u[i].previous /\ r.files = u[i].files /\ r.out = u[i].out
      BY Fields DEF InvocationFields
  <2> HIDE DEF r
  <2>3. ASeq(<<>>) /\ DOMAIN <<>> = {}
    <3>1. <<>> \in Seq(Nat)
        OBVIOUS
    <3> QED
        BY <3>1 DEF ASeq
  <2>4. FieldInv(r, fresh')
      BY <1>1, <1>2, <2>1, <2>2, <2>3 DEF FieldInv
  <2>5. PinInv(r, tree')
      BY <1>1, <1>2, <2>2 DEF PinInv
  <2>6. ReadInv(r, tree')
      BY <1>1, <1>2, <2>2 DEF ReadInv
  <2>7. RemovalInv(r)
      BY <1>1, <1>2, <2>2 DEF RemovalInv
  <2>8. ReplaceInv(r)
      BY <1>1, <1>2, <2>2, OneElement DEF ReplaceInv, Replacing
  <2> QED
      BY <1>1, <1>4, <2>2, <2>4, <2>5, <2>6, <2>7, <2>8, PreferenceAlter
<1> QED
    BY <1>3, <1>4 DEF cmd_edit_src

LEMMA RemoveDraftStep ==
    ASSUME StoresInv, NEW i \in Invokers, u[i].store = "sources.d", RemoveDraft(i)
    PROVE  StoresInv'
<1>1. u[i].st = "settled"
    BY DEF RemoveDraft
<1>2. CASE UNCHANGED <<tree, fresh, destroyed>> /\ Alter(i, Halt(i, "failed"))
    BY <1>2, SameTree, NothingMore, HaltStep
<1>3. CASE /\ Named(Draft(i), u[i].draft[1]) /\ Destroy(i, Draft(i), FALSE, {u[i].temp[1].data})
           /\ fresh' = fresh + 1 /\ Alter(i, Halt(i, "ok"))
  <2>1. ReplaceInv(u[i])
      BY DEF StoresInv, InvocationInv
  <2>2. u[i].draft # <<>> /\ u[i].temp[1].data = u[i].draft[1].data
      BY <1>1, <2>1 DEF ReplaceInv, Replacing
  <2>3. tree[Draft(i)].data = u[i].draft[1].data
      BY <1>3, <2>2, NodeFacts, NamedFacts
  <2>4. TreeMoves /\ NothingUnseenDestroyed'
      BY <1>3, <2>2, <2>3, DestroyStep
  <2> QED
      BY <1>3, <2>4, HaltStep
<1> QED
    BY <1>2, <1>3 DEF RemoveDraft

LEMMA ExpectStep ==
    ASSUME StoresInv, NEW i \in Invokers, u[i].store = "sources.d", ExpectEntry(i)
    PROVE  StoresInv'
<1>1. TreeMoves /\ NothingUnseenDestroyed' /\ u[i].st = "expect"
    BY LookStep DEF ExpectEntry
<1>2. ReadInv(u[i], tree') /\ RemovalInv(u[i]) /\ ReplaceInv(u[i])
    BY <1>1, PreferenceNow
<1>3. CASE Alter(i, Fail(i))
    BY <1>1, <1>3, FailStep
<1>4. CASE Moves(i, "temp")
  <2>1. ASSUME NEW r, Knows(u[i], r), r.st = "temp", r.next = u[i].next
        PROVE  ReadInv(r, tree') /\ RemovalInv(r) /\ ReplaceInv(r)
      BY <1>1, <1>2, <2>1 DEF ReadInv, RemovalInv, ReplaceInv, Replacing, Knows
  <2> QED
      BY <1>1, <1>4, <2>1, PreferenceMoves
<1> QED
    BY <1>3, <1>4 DEF ExpectEntry

HandleFields == {"st", "lock", "temp", "entry", "previous", "published", "seenDir"}

Asks(c, r) ==
    /\ r.store = c.store /\ r.op = c.op /\ r.next = c.next /\ r.want = c.want /\ r.content = c.content
    /\ r.draft = c.draft /\ r.files = c.files /\ r.held = c.held /\ r.out = c.out /\ r.whole = c.whole

AllPinned(s, t) == \A k \in DOMAIN s : Pinned(s[k], t)

\* Other files are held.
LEMMA HandlesChange ==
    ASSUME NEW c, NEW r, NEW t, NEW f, InvocationInv(c, t, f), c.st # "end", Alters(c, r, HandleFields),
           r.st \notin {"end", "unwind"},
           r.st \in {"publish", "bury", "record publish", "forget move"} => c.held # <<>>,
           r.temp \in Seq(KnownNodes(f)), r.entry \in Seq(KnownNodes(f)), r.previous \in Seq(KnownNodes(f)),
           AllPinned(r.temp, t), AllPinned(r.entry, t)
    PROVE  FieldInv(r, f) /\ PinInv(r, t) /\ Asks(c, r)
<1>1. Asks(c, r)
    BY DEF Alters, InvocationFields, HandleFields, Asks
<1>2. FieldInv(r, f)
    BY <1>1 DEF FieldInv, InvocationInv, Alters, Asks
<1>3. PinInv(r, t)
    BY DEF PinInv, AllPinned
<1> QED
    BY <1>1, <1>2, <1>3

LEMMA Handled ==
    ASSUME StoresInv, NEW i \in Invokers, TreeMoves
    PROVE  /\ u[i].temp \in Seq(KnownNodes(fresh')) /\ u[i].entry \in Seq(KnownNodes(fresh'))
           /\ u[i].previous \in Seq(KnownNodes(fresh'))
           /\ u[i].st # "end" => AllPinned(u[i].temp, tree') /\ AllPinned(u[i].entry, tree')
<1>1. InvocationInv(u[i], tree', fresh')
    BY InvocationStays
<1> QED
    BY <1>1 DEF InvocationInv, FieldInv, PinInv, AllPinned

LEMMA PreferenceHandles ==
    ASSUME StoresInv, NEW i \in Invokers, TreeMoves, NothingUnseenDestroyed', NEW r, Alter(i, r), Alters(u[i], r, HandleFields),
           u[i].store = "sources.d", u[i].st # "end", r.st \notin {"end", "unwind", "record publish", "forget move"},
           r.st \in {"publish", "bury"} => u[i].held # <<>>,
           r.temp \in Seq(KnownNodes(fresh')), r.entry \in Seq(KnownNodes(fresh')), r.previous \in Seq(KnownNodes(fresh')),
           AllPinned(r.temp, tree'), AllPinned(r.entry, tree'),
           Asks(u[i], r) => ReadInv(r, tree') /\ RemovalInv(r) /\ ReplaceInv(r)
    PROVE  StoresInv'
<1> DEFINE c == u[i]
<1>1. /\ InvocationInv(c, tree', fresh') /\ Alters(c, r, HandleFields) /\ c.store = "sources.d" /\ c.st # "end"
      /\ r.st \notin {"end", "unwind"}
      /\ r.st \in {"publish", "bury", "record publish", "forget move"} => c.held # <<>>
    BY InvocationStays
<1> HIDE DEF c
<1>2. FieldInv(r, fresh') /\ PinInv(r, tree') /\ Asks(c, r)
    BY <1>1, HandlesChange
<1>3. ReadInv(r, tree') /\ RemovalInv(r) /\ ReplaceInv(r)
    BY <1>2 DEF c
<1>4. r.store = "sources.d"
    BY <1>1, <1>2 DEF Asks
<1> QED
    BY <1>2, <1>3, <1>4, PreferenceAlter

\* A status in the tree after a step.
LEMMA NewNode ==
    ASSUME TreeMoves, NEW p \in DOMAIN tree'
    PROVE  /\ tree'[p] \in KnownNodes(fresh') /\ <<tree'[p]>> \in Seq(KnownNodes(fresh'))
           /\ Pinned(tree'[p], tree') /\ AllPinned(<<tree'[p]>>, tree')
<1>1. tree'[p] \in Nodes /\ tree'[p].id < fresh' /\ tree'[p].ino < fresh' /\ tree'[p].stamp < fresh'
    BY DEF TreeMoves, TreeInv, StampInv
<1>2. tree'[p] \in KnownNodes(fresh')
    BY <1>1 DEF KnownNodes
<1>3. Pinned(tree'[p], tree')
    BY DEF Pinned, TreeMoves, TreeInv
<1>4. AllPinned(<<tree'[p]>>, tree')
    BY <1>3, OneElement DEF AllPinned
<1> QED
    BY <1>2, <1>3, <1>4

LEMMA AddedHere ==
    ASSUME NEW t, NEW p, NEW n
    PROVE  p \in DOMAIN AddEntry(t, p, n)
BY DEF AddEntry, EntriesChanged, Changed, Put

LEMMA MakeTemporaryStep ==
    ASSUME StoresInv, NEW i \in Invokers, u[i].store = "sources.d", MakeTemporary(i)
    PROVE  StoresInv'
<1>1. NothingUnseenDestroyed' /\ u[i].st = "temp"
    BY NothingMore DEF MakeTemporary
<1>2. CASE UNCHANGED <<tree, fresh>> /\ Alter(i, Fail(i))
    BY <1>1, <1>2, SameTree, FailStep
<1> DEFINE n == tree'[TempLeaf(i)]
           r == [u[i] EXCEPT !.st = "write", !.temp = <<n>>]
<1>3. CASE /\ Exists(DirectoryOf(i)) /\ ~Exists(TempLeaf(i))
           /\ tree' = AddEntry(tree, TempLeaf(i), Made("file", "private", 0)) /\ fresh' = fresh + 1
           /\ Alter(i, r)
  <2>1. ASeq(TempLeaf(i)) /\ TempLeaf(i) \notin DOMAIN tree
      BY <1>3, Fields, AppendFacts DEF TempLeaf, Exists
  <2>2. TreeMoves
      BY <1>3, <2>1, MadeTree
  <2>3. <<n>> \in Seq(KnownNodes(fresh')) /\ AllPinned(<<n>>, tree')
      BY <1>3, <2>2, AddedHere, NewNode
  <2>4. ReadInv(u[i], tree') /\ RemovalInv(u[i]) /\ ReplaceInv(u[i])
      BY <2>2, PreferenceNow
  <2> HIDE DEF n
  <2>5. Alters(u[i], r, HandleFields) /\ r.st = "write" /\ r.temp = <<n>> /\ r.entry = u[i].entry /\ r.previous = u[i].previous
      BY Fields DEF Alters, InvocationFields, HandleFields
  <2> HIDE DEF r
  <2>6. Asks(u[i], r) => ReadInv(r, tree') /\ RemovalInv(r) /\ ReplaceInv(r)
      BY <1>1, <2>4, <2>5, OneElement DEF Asks, ReadInv, RemovalInv, ReplaceInv, Replacing
  <2>7. Alter(i, r)
      BY <1>3
  <2> QED
      BY <1>1, <2>2, <2>3, <2>5, <2>6, <2>7, Handled, PreferenceHandles
<1> QED
    BY <1>2, <1>3 DEF MakeTemporary

\* The text of the temporary is new, and with an editor it is the draft.
LEMMA WriteTemporaryStep ==
    ASSUME StoresInv, NEW i \in Invokers, u[i].store = "sources.d", WriteTemporary(i)
    PROVE  StoresInv'
<1>1. NothingUnseenDestroyed' /\ u[i].st = "write"
    BY NothingMore DEF WriteTemporary
<1>2. CASE UNCHANGED <<tree, fresh>> /\ Alter(i, Fail(i))
    BY <1>1, <1>2, SameTree, FailStep
<1> DEFINE text == IF u[i].op = "edit" THEN u[i].draft[1].data ELSE fresh
           d == Descriptor(u[i].temp[1])
           file == [d EXCEPT !.data = text, !.stamp = fresh]
           p == TempLeaf(i)
           r == [u[i] EXCEPT !.st = "check", !.temp = <<file>>]
<1>3. CASE /\ tree' = IF Exists(p) /\ tree[p].id = file.id THEN Put(tree, p, file) ELSE tree
           /\ Alter(i, r) /\ fresh' = fresh + 1
  <2>1. ReplaceInv(u[i]) /\ PinInv(u[i], tree) /\ TreeInv(tree, fresh) /\ tree \in [DOMAIN tree -> Nodes]
      BY DEF StoresInv, InvocationInv, TreeInv
  <2>2. /\ u[i].temp # <<>> /\ u[i].temp[1] \in Nodes /\ u[i].temp[1] \in KnownNodes(fresh)
        /\ Pinned(u[i].temp[1], tree) /\ fresh \in Nat
        /\ u[i].op = "edit" => u[i].draft # <<>>
      BY <1>1, <2>1, NodeFacts, Fields DEF ReplaceInv, Replacing, PinInv
  <2>3. text \in Nat
      BY <2>2, NodeFacts DEF Nodes
  <2>4. /\ d \in Nodes /\ d.id = u[i].temp[1].id
        /\ d = u[i].temp[1] \/ \E q \in DOMAIN tree : d = tree[q]
        /\ \A q \in DOMAIN tree : tree[q].id = u[i].temp[1].id => d = tree[q]
      BY <2>2, DescriptorFacts
  <2>5. d \in KnownNodes(fresh) /\ Pinned(d, tree)
      BY <2>2, <2>4, ReadNode
  <2> HIDE DEF text, d
  <2>6. file \in Nodes /\ SameNode(file, d) /\ file.stamp = fresh /\ file.data = text
      BY <2>2, <2>3, <2>4 DEF Nodes, SameNode
  <2> HIDE DEF file
  <2>7. TreeMoves
    <3>1. CASE p \in DOMAIN tree /\ tree[p].id = file.id
      <4>1. d = tree[p]
          BY <3>1, <2>4, <2>6 DEF SameNode
      <4>2. tree' = Put(tree, p, file)
          BY <1>3, <3>1 DEF Exists
      <4>3. Kept(tree, tree') /\ Stamped(tree, tree')
          BY <2>1, <2>6, <3>1, <4>1, <4>2, PutKept, StampedPut
      <4> QED
          BY <1>3, <4>3, KeptTree
    <3>2. CASE ~(p \in DOMAIN tree /\ tree[p].id = file.id)
      <4>1. tree' = tree
          BY <1>3, <3>2 DEF Exists
      <4>2. Kept(tree, tree') /\ Stamped(tree, tree')
          BY <2>1, <4>1, KeptSame DEF Stamped
      <4> QED
          BY <1>3, <4>2, KeptTree
    <3> QED
        BY <3>1, <3>2
  <2>8. file \in KnownNodes(fresh') /\ <<file>> \in Seq(KnownNodes(fresh'))
    <3>1. d.id < fresh /\ d.ino < fresh
        BY <2>5 DEF KnownNodes
    <3>2. file.id < fresh + 1 /\ file.ino < fresh + 1 /\ file.stamp < fresh + 1
        BY <2>2, <2>4, <2>6, <3>1 DEF Nodes, SameNode
    <3> QED
        BY <1>3, <2>6, <3>2 DEF KnownNodes
  <2>9. Pinned(file, tree')
    <3> SUFFICES ASSUME NEW q \in DOMAIN tree', tree'[q].ino = file.ino PROVE tree'[q].id = file.id
        BY DEF Pinned
    <3>1. CASE q = p /\ tree'[q] = file
        BY <3>1
    <3>2. CASE q \in DOMAIN tree /\ tree'[q] = tree[q]
        BY <2>5, <2>6, <3>2 DEF Pinned, SameNode
    <3>3. tree' = tree \/ tree' = Put(tree, p, file)
        BY <1>3
    <3> HIDE DEF p
    <3> QED
        BY <3>1, <3>2, <3>3 DEF Put
  <2>10. AllPinned(<<file>>, tree')
      BY <2>9, OneElement DEF AllPinned
  <2>11. ReadInv(u[i], tree') /\ RemovalInv(u[i]) /\ ReplaceInv(u[i])
      BY <2>7, PreferenceNow
  <2>12. /\ Alters(u[i], r, HandleFields) /\ r.st = "check" /\ r.temp = <<file>> /\ r.entry = u[i].entry
         /\ r.previous = u[i].previous
      BY Fields DEF Alters, InvocationFields, HandleFields
  <2> HIDE DEF r
  <2>13. u[i].op = "edit" => file.data = u[i].draft[1].data
      BY <2>6 DEF text
  <2>14. Asks(u[i], r) => ReadInv(r, tree') /\ RemovalInv(r) /\ ReplaceInv(r)
      BY <1>1, <2>11, <2>12, <2>13, OneElement DEF Asks, ReadInv, RemovalInv, ReplaceInv, Replacing
  <2>15. Alter(i, r)
      BY <1>3
  <2> QED
      BY <1>1, <2>7, <2>8, <2>10, <2>12, <2>14, <2>15, Handled, PreferenceHandles
<1> QED
    BY <1>2, <1>3 DEF WriteTemporary

LEMMA CheckReplacementStep ==
    ASSUME StoresInv, NEW i \in Invokers, u[i].store = "sources.d", CheckReplacement(i)
    PROVE  StoresInv'
<1>1. TreeMoves /\ NothingUnseenDestroyed' /\ u[i].st = "check"
    BY LookStep DEF CheckReplacement
<1>2. ReadInv(u[i], tree') /\ RemovalInv(u[i]) /\ ReplaceInv(u[i])
    BY <1>1, PreferenceNow
<1>3. CASE Alter(i, Fail(i))
    BY <1>1, <1>3, FailStep
<1>4. CASE require_expected_destination(i) /\ Moves(i, "publish")
  <2>1. ASSUME NEW r, Knows(u[i], r), r.st = "publish", r.next = u[i].next
        PROVE  ReadInv(r, tree') /\ RemovalInv(r) /\ ReplaceInv(r)
      BY <1>1, <1>2, <2>1 DEF ReadInv, RemovalInv, ReplaceInv, Replacing, Knows
  <2>2. u[i].held # <<>>
    <3>1. Len(u[i].held) >= 2
        BY <1>4 DEF require_expected_destination, inspect_source_preference_entry, require_unchanged_directory
    <3> QED
        BY <3>1, Fields, ASeqFacts
  <2> QED
      BY <1>1, <1>4, <2>1, <2>2, PreferenceMoves
<1> QED
    BY <1>3, <1>4 DEF CheckReplacement

LEMMA DirectoryPath ==
    ASSUME StoresInv, NEW i \in Invokers, u[i].held # <<>>, NEW x
    PROVE  ASeq(Append(DirectoryOf(i), x))
<1>1. Len(u[i].held) \in DOMAIN u[i].held
    BY Fields, ASeqFacts
<1> QED
    BY <1>1, Fields, AppendFacts DEF DirectoryOf, Last

\* After a rename: the other fields stay.
LEMMA RenamedStep ==
    ASSUME StoresInv, NEW i \in Invokers, u[i].store = "sources.d", NothingUnseenDestroyed',
           PublishReplacement(i) \/ BuryEntry(i)
    PROVE  StoresInv'
<1>1. u[i].st \in {"publish", "bury"} /\ u[i].st # "end"
    BY DEF PublishReplacement, BuryEntry
<1>2. CASE UNCHANGED <<tree, fresh>> /\ Alter(i, Fail(i))
    BY <1>1, <1>2, SameTree, FailStep
<1>3. ASeq(Entry(i)) /\ ASeq(TempLeaf(i))
  <2>1. u[i].held # <<>>
      BY <1>1 DEF StoresInv, InvocationInv, FieldInv
  <2> QED
      BY <2>1, DirectoryPath DEF Entry, TempLeaf
<1>4. ASSUME TreeMoves, NEW st, Alter(i, [u[i] EXCEPT !.st = st, !.published = TRUE]),
             \/ u[i].st = "publish" /\ st = "verify"
             \/ u[i].st = "bury" /\ st = "tombstone"
      PROVE  StoresInv'
  <2> DEFINE r == [u[i] EXCEPT !.st = st, !.published = TRUE]
  <2>1. Alters(u[i], r, Aside) /\ r.st = st /\ r.next = u[i].next
      BY Fields DEF Alters, InvocationFields, Aside
  <2>2. ReadInv(u[i], tree') /\ RemovalInv(u[i]) /\ ReplaceInv(u[i])
      BY <1>4, PreferenceNow
  <2> HIDE DEF r
  <2>3. Knows(u[i], r) => ReadInv(r, tree') /\ RemovalInv(r) /\ ReplaceInv(r)
      BY <1>4, <2>1, <2>2 DEF ReadInv, RemovalInv, ReplaceInv, Replacing, Knows
  <2>4. r.st \notin {"end", "unwind", "record publish", "forget move", "publish", "bury"}
      BY <1>4, <2>1
  <2> QED
      BY <1>1, <1>4, <2>1, <2>3, <2>4, PreferenceAside DEF r
<1>5. CASE /\ u[i].st = "publish" /\ Exists(TempLeaf(i)) /\ (Exists(Entry(i)) <=> u[i].entry # <<>>)
           /\ tree' = IF u[i].entry # <<>> THEN Exchanged(TempLeaf(i), Entry(i)) ELSE Relocated(TempLeaf(i), Entry(i))
           /\ fresh' = fresh + 1
           /\ Alter(i, [u[i] EXCEPT !.st = "verify", !.published = TRUE])
  <2>1. TreeMoves
      BY <1>3, <1>5, RenamedTree DEF Exists
  <2> QED
      BY <1>4, <1>5, <2>1
<1>6. CASE /\ u[i].st = "bury" /\ Exists(Entry(i)) /\ tree' = Relocated(Entry(i), TempLeaf(i)) /\ fresh' = fresh + 1
           /\ Alter(i, [u[i] EXCEPT !.st = "tombstone", !.published = TRUE])
  <2>1. TreeMoves
      BY <1>3, <1>6, RenamedTree DEF Exists
  <2> QED
      BY <1>4, <1>6, <2>1
<1> QED
    BY <1>2, <1>5, <1>6 DEF PublishReplacement, BuryEntry

\* Both names show what they should: the displaced entry is the one that was
\* read.
LEMMA VerifyStep ==
    ASSUME StoresInv, NEW i \in Invokers, u[i].store = "sources.d", VerifyReplacement(i)
    PROVE  StoresInv'
<1>1. TreeMoves /\ NothingUnseenDestroyed' /\ u[i].st = "verify" /\ tree' = tree /\ fresh' = fresh
    BY LookStep DEF VerifyReplacement
<1>2. CASE Alter(i, Fail(i))
    BY <1>1, <1>2, FailStep
<1> DEFINE c == u[i]
           temp == <<tree[Entry(i)]>>
           entry == IF c.entry = <<>> THEN <<>> ELSE <<tree[TempLeaf(i)]>>
           st == IF c.entry = <<>> THEN "final" ELSE "drop"
           r == [c EXCEPT !.st = st, !.temp = temp, !.entry = entry]
<1>3. CASE /\ Arrived(Entry(i), c.temp[1]) /\ (c.entry # <<>> => Arrived(TempLeaf(i), c.entry[1]))
           /\ Alter(i, r)
  <2>1. ReadInv(c, tree) /\ RemovalInv(c) /\ ReplaceInv(c)
      BY <1>1, PreferenceNow
  <2>2. c.temp # <<>> /\ c.temp[1] \in Nodes
      BY <1>1, <2>1, NodeFacts DEF ReplaceInv
  <2>3. Entry(i) \in DOMAIN tree /\ tree[Entry(i)].data = c.temp[1].data
      BY <1>3, <2>2, ArrivedFacts
  <2>4. c.entry # <<>> => TempLeaf(i) \in DOMAIN tree /\ tree[TempLeaf(i)].data = c.entry[1].data
      BY <1>3, NodeFacts, ArrivedFacts
  <2>5. temp \in Seq(KnownNodes(fresh')) /\ AllPinned(temp, tree') /\ temp[1].data = c.temp[1].data /\ temp # <<>>
      BY <1>1, <2>3, NewNode, OneElement
  <2>6. entry \in Seq(KnownNodes(fresh')) /\ AllPinned(entry, tree')
      BY <1>1, <2>4, NewNode DEF AllPinned
  <2>7. /\ entry = <<>> <=> c.entry = <<>>
        /\ c.entry # <<>> => entry[1].data = c.entry[1].data
      BY <2>4, OneElement
  <2> HIDE DEF temp, entry
  <2>8. /\ Alters(c, r, HandleFields) /\ r.st = st /\ r.temp = temp /\ r.entry = entry /\ r.previous = c.previous
      BY Fields DEF Alters, InvocationFields, HandleFields
  <2> HIDE DEF r
  <2>9. Asks(c, r) => ReadInv(r, tree') /\ RemovalInv(r) /\ ReplaceInv(r)
    <3> SUFFICES ASSUME Asks(c, r) PROVE ReadInv(r, tree') /\ RemovalInv(r) /\ ReplaceInv(r)
        OBVIOUS
    <3> HIDE DEF c
    <3>1. c.op \notin Removal /\ c.next = "expect"
        BY <1>1, <2>1 DEF RemovalInv, ReplaceInv, Replacing, c
    <3>2. ReadInv(r, tree')
        BY <1>1, <2>1, <2>7, <2>8, <3>1 DEF ReadInv, Asks, c
    <3>3. RemovalInv(r)
        BY <2>8, <3>1 DEF RemovalInv, Asks
    <3>4. ReplaceInv(r)
        BY <1>1, <2>1, <2>5, <2>8, <3>1 DEF ReplaceInv, Replacing, Asks, c
    <3> QED
        BY <3>2, <3>3, <3>4
  <2>10. r.st \notin {"end", "unwind", "record publish", "forget move", "publish", "bury"}
      BY <2>8
  <2>11. Alter(i, r)
      BY <1>3
  <2> QED
      BY <1>1, <2>5, <2>6, <2>8, <2>9, <2>10, <2>11, Handled, PreferenceHandles
<1> QED
    BY <1>2, <1>3 DEF VerifyReplacement

LEMMA DropEntryStep ==
    ASSUME StoresInv, NEW i \in Invokers, u[i].store = "sources.d",
           remove_internal_entry_if_descriptor_matches(i, IF u[i].op \in {"remove", "revert"} THEN "removed" ELSE "final")
    PROVE  StoresInv'
<1> DEFINE then == IF u[i].op \in {"remove", "revert"} THEN "removed" ELSE "final"
<1>1. u[i].st = "drop"
    BY DEF remove_internal_entry_if_descriptor_matches
<1>2. CASE UNCHANGED <<tree, fresh, destroyed>> /\ Alter(i, Fail(i))
    BY <1>1, <1>2, SameTree, NothingMore, FailStep
<1>3. CASE /\ Named(TempLeaf(i), u[i].entry[1]) /\ Destroy(i, TempLeaf(i), FALSE, Known(i)) /\ fresh' = fresh + 1
           /\ Moves(i, then)
  <2>1. ReadInv(u[i], tree) /\ RemovalInv(u[i]) /\ ReplaceInv(u[i])
      BY DEF StoresInv, InvocationInv
  <2>2. u[i].entry # <<>>
      BY <1>1, <2>1 DEF ReadInv
  <2>3. tree[TempLeaf(i)].data = u[i].entry[1].data
      BY <1>3, <2>2, NodeFacts, NamedFacts
  <2>4. u[i].entry[1].data \in Known(i)
    <3>1. CASE u[i].op \in Removal
        BY <1>1, <2>1, <3>1 DEF RemovalInv, Known, Removal
    <3>2. CASE u[i].op \notin Removal
      <4>1. u[i].content = <<u[i].entry[1].data>>
          BY <1>1, <2>1, <2>2, <3>2 DEF ReadInv
      <4>2. u[i].content[1] = u[i].entry[1].data /\ DOMAIN u[i].content = {1}
          BY <4>1, OneElement
      <4> QED
          BY <3>2, <4>2 DEF Known, Removal
    <3> QED
        BY <3>1, <3>2
  <2>5. TreeMoves /\ NothingUnseenDestroyed'
      BY <1>3, <2>3, <2>4, DestroyStep
  <2>6. ReadInv(u[i], tree')
      BY <2>5, PreferenceNow
  <2>7. ASSUME NEW r, Knows(u[i], r), r.st = then, r.next = u[i].next
        PROVE  ReadInv(r, tree') /\ RemovalInv(r) /\ ReplaceInv(r)
    <3>1. ReadInv(r, tree')
        BY <1>1, <2>6, <2>7 DEF ReadInv, Knows
    <3>2. RemovalInv(r)
        BY <1>1, <2>1, <2>7 DEF RemovalInv, Knows
    <3>3. ReplaceInv(r)
        BY <1>1, <2>1, <2>7 DEF ReplaceInv, Replacing, Knows, Removal
    <3> QED
        BY <3>1, <3>2, <3>3
  <2> HIDE DEF then
  <2>8. then \notin {"end", "unwind", "record publish", "forget move", "publish", "bury"}
      BY DEF then
  <2> QED
      BY <1>1, <1>3, <2>5, <2>7, <2>8, PreferenceMoves
<1> QED
    BY <1>2, <1>3 DEF remove_internal_entry_if_descriptor_matches

LEMMA FinalStep ==
    ASSUME StoresInv, NEW i \in Invokers, u[i].store = "sources.d", FinalCheck(i) \/ RemovalDone(i)
    PROVE  StoresInv'
<1>1. TreeMoves /\ NothingUnseenDestroyed' /\ u[i].st \in {"final", "removed"}
    BY LookStep DEF FinalCheck, RemovalDone
<1>2. CASE Alter(i, Fail(i))
    BY <1>1, <1>2, FailStep
<1>3. CASE Alter(i, Finish(i))
    BY <1>1, <1>3, FinishStep
<1>4. CASE Alter(i, Halt(i, "ok"))
    BY <1>1, <1>4, HaltStep
<1> DEFINE r == [u[i] EXCEPT !.st = "settled", !.lock = "none"]
<1>5. CASE u[i].st = "final" /\ u[i].op = "edit" /\ Alter(i, r)
  <2>1. Alters(u[i], r, Aside) /\ r.st = "settled" /\ r.next = u[i].next
      BY Fields DEF Alters, InvocationFields, Aside
  <2>2. ReadInv(u[i], tree') /\ RemovalInv(u[i]) /\ ReplaceInv(u[i])
      BY <1>1, PreferenceNow
  <2> HIDE DEF r
  <2>3. Knows(u[i], r) => ReadInv(r, tree') /\ RemovalInv(r) /\ ReplaceInv(r)
      BY <1>5, <2>1, <2>2 DEF ReadInv, RemovalInv, ReplaceInv, Replacing, Knows
  <2> QED
      BY <1>1, <1>5, <2>1, <2>3, PreferenceAside
<1> QED
    BY <1>2, <1>3, <1>4, <1>5 DEF FinalCheck, RemovalDone

LEMMA DoomedStep ==
    ASSUME StoresInv, NEW i \in Invokers, u[i].store = "sources.d", CheckRemoval(i)
    PROVE  StoresInv'
<1>1. TreeMoves /\ NothingUnseenDestroyed' /\ u[i].st = "doomed"
    BY LookStep DEF CheckRemoval
<1>2. CASE Alter(i, Fail(i))
    BY <1>1, <1>2, FailStep
<1> DEFINE r == [u[i] EXCEPT !.st = "bury", !.previous = u[i].entry]
<1>3. CASE require_expected_destination(i) /\ Alter(i, r)
  <2>1. Alters(u[i], r, HandleFields) /\ r.st = "bury" /\ r.previous = u[i].entry /\ r.entry = u[i].entry /\ r.temp = u[i].temp
      BY Fields DEF Alters, InvocationFields, HandleFields
  <2>2. ReadInv(u[i], tree') /\ RemovalInv(u[i]) /\ ReplaceInv(u[i])
      BY <1>1, PreferenceNow
  <2>3. u[i].held # <<>>
    <3>1. Len(u[i].held) >= 2
        BY <1>3 DEF require_expected_destination, inspect_source_preference_entry, require_unchanged_directory
    <3> QED
        BY <3>1, Fields, ASeqFacts
  <2> HIDE DEF r
  <2>4. Asks(u[i], r) => ReadInv(r, tree') /\ RemovalInv(r) /\ ReplaceInv(r)
      BY <1>1, <2>1, <2>2 DEF ReadInv, RemovalInv, ReplaceInv, Replacing, Asks
  <2> QED
      BY <1>1, <1>3, <2>1, <2>3, <2>4, Handled, PreferenceHandles
<1> QED
    BY <1>2, <1>3 DEF CheckRemoval

LEMMA TombstoneStep ==
    ASSUME StoresInv, NEW i \in Invokers, u[i].store = "sources.d", VerifyTombstone(i)
    PROVE  StoresInv'
<1>1. TreeMoves /\ NothingUnseenDestroyed' /\ u[i].st = "tombstone" /\ tree' = tree /\ fresh' = fresh
    BY LookStep DEF VerifyTombstone
<1>2. CASE Alter(i, Fail(i))
    BY <1>1, <1>2, FailStep
<1> DEFINE entry == <<tree[TempLeaf(i)]>>
           r == [u[i] EXCEPT !.st = "drop", !.entry = entry]
<1>3. CASE Arrived(TempLeaf(i), u[i].entry[1]) /\ Alter(i, r)
  <2>1. ReadInv(u[i], tree') /\ RemovalInv(u[i]) /\ ReplaceInv(u[i])
      BY <1>1, PreferenceNow
  <2>2. u[i].entry # <<>>
      BY <1>1, <2>1 DEF ReadInv
  <2>3. TempLeaf(i) \in DOMAIN tree /\ tree[TempLeaf(i)].data = u[i].entry[1].data
      BY <1>3, <2>2, NodeFacts, ArrivedFacts
  <2>4. /\ entry \in Seq(KnownNodes(fresh')) /\ AllPinned(entry, tree') /\ entry # <<>>
        /\ entry[1].data = u[i].entry[1].data
      BY <1>1, <2>3, NewNode, OneElement
  <2> HIDE DEF entry
  <2>5. Alters(u[i], r, HandleFields) /\ r.st = "drop" /\ r.previous = u[i].previous /\ r.entry = entry /\ r.temp = u[i].temp
      BY Fields DEF Alters, InvocationFields, HandleFields
  <2> HIDE DEF r
  <2>6. Asks(u[i], r) => ReadInv(r, tree') /\ RemovalInv(r) /\ ReplaceInv(r)
    <3> SUFFICES ASSUME Asks(u[i], r) PROVE ReadInv(r, tree') /\ RemovalInv(r) /\ ReplaceInv(r)
        OBVIOUS
    <3>1. u[i].op \in Removal /\ u[i].op # "edit"
        BY <1>1, <2>1 DEF RemovalInv, Removal
    <3>2. ReadInv(r, tree')
        BY <2>4, <2>5, <3>1 DEF ReadInv, Asks
    <3>3. RemovalInv(r)
        BY <1>1, <2>1, <2>4, <2>5, <3>1 DEF RemovalInv, Asks
    <3>4. ReplaceInv(r)
        BY <1>1, <2>1, <2>5, <3>1 DEF ReplaceInv, Replacing, Asks
    <3> QED
        BY <3>2, <3>3, <3>4
  <2>7. Alter(i, r)
      BY <1>3
  <2> QED
      BY <1>1, <2>4, <2>5, <2>6, <2>7, Handled, PreferenceHandles
<1> QED
    BY <1>2, <1>3 DEF VerifyTombstone

\* A temporary that is taken back is the one that was made: its descriptor
\* keeps the number.
LEMMA TempIsOurs ==
    ASSUME StoresInv, NEW i \in Invokers, u[i].st = "unwind", NEW p \in DOMAIN tree,
           \/ same_state(tree[p], Descriptor(u[i].temp[1]))
           \/ same_filesystem_identity(tree[p], u[i].temp[1])
    PROVE  tree[p].id = u[i].temp[1].id
<1> DEFINE n == u[i].temp[1]
<1>1. FieldInv(u[i], fresh) /\ PinInv(u[i], tree)
    BY DEF StoresInv, InvocationInv
<1>2. n \in Nodes /\ Pinned(n, tree)
    BY <1>1, NodeFacts DEF FieldInv, PinInv
<1>3. tree[p] \in Nodes /\ Descriptor(n) \in Nodes
    BY <1>2, ReadNode, DescriptorFacts
<1>4. CASE same_filesystem_identity(tree[p], n)
    BY <1>2, <1>4 DEF same_filesystem_identity, Pinned
<1>5. CASE same_state(tree[p], Descriptor(n))
  <2>1. tree[p].ino = Descriptor(n).ino
      BY <1>3, <1>5, SameStateFacts
  <2>2. CASE Descriptor(n) = n
      BY <1>2, <2>1, <2>2 DEF Pinned
  <2>3. CASE \E q \in DOMAIN tree : Descriptor(n) = tree[q]
    <3>1. PICK q \in DOMAIN tree : Descriptor(n) = tree[q]
        BY <2>3
    <3>2. p = q
        BY <2>1, <3>1 DEF StoresInv, TreeInv
    <3> QED
        BY <1>2, <3>1, <3>2, DescriptorFacts
  <2> QED
      BY <1>2, <2>2, <2>3, DescriptorFacts
<1> QED
    BY <1>4, <1>5

LEMMA UnwindStep ==
    ASSUME StoresInv, NEW i \in Invokers, RemoveTemp(i) \/ TakeBack(i)
    PROVE  StoresInv'
<1>1. u[i].st = "unwind" /\ Alter(i, Halt(i, "failed"))
    BY DEF RemoveTemp, TakeBack
<1>2. CASE UNCHANGED <<tree, fresh, destroyed>>
    BY <1>1, <1>2, SameTree, NothingMore, HaltStep
<1>3. ASSUME NEW p \in DOMAIN tree, Destroy(i, p, tree[p].id = u[i].temp[1].id, {}), fresh' = fresh + 1,
             \/ same_state(tree[p], Descriptor(u[i].temp[1]))
             \/ same_filesystem_identity(tree[p], u[i].temp[1])
      PROVE  StoresInv'
  <2>1. tree[p].id = u[i].temp[1].id
      BY <1>1, <1>3, TempIsOurs
  <2>2. TreeMoves /\ NothingUnseenDestroyed'
      BY <1>3, <2>1, DestroyStep
  <2> QED
      BY <1>1, <2>2, HaltStep
<1>4. CASE RemoveTemp(i)
    BY <1>2, <1>3, <1>4 DEF RemoveTemp, Exists
<1>5. CASE TakeBack(i)
    BY <1>2, <1>3, <1>5 DEF TakeBack, Exists
<1> QED
    BY <1>4, <1>5

LEMMA PreferenceStepInv ==
    ASSUME StoresInv, NEW i \in Invokers, PreferenceStep(i)
    PROVE  StoresInv'
<1>1. u[i].store = "sources.d"
    BY DEF PreferenceStep
<1>2. CASE PrepareDirectory(i) \/ lock_source_preference_directory(i)
    BY <1>1, <1>2, PrepareStep, LockStep
<1>3. CASE ReadStep(i)
    BY <1>1, <1>3, QueryStep, InspectStep, OpenStep, ReadStepInv, RereadStep DEF ReadStep
<1>4. CASE ReplaceStep(i)
  <2>1. PublishReplacement(i) => NothingUnseenDestroyed'
      BY NothingMore DEF PublishReplacement
  <2> QED
      BY <1>1, <1>4, <2>1, MakeDraftStep, EditedStep, RemoveDraftStep, ExpectStep, MakeTemporaryStep, WriteTemporaryStep,
         CheckReplacementStep, RenamedStep, VerifyStep, FinalStep DEF ReplaceStep
<1>5. CASE RemoveStep(i)
  <2>1. BuryEntry(i) => NothingUnseenDestroyed'
      BY NothingMore DEF BuryEntry
  <2> QED
      BY <1>1, <1>5, <2>1, DoomedStep, RenamedStep, TombstoneStep, FinalStep DEF RemoveStep
<1>6. CASE RemoveTemp(i)
    BY <1>6, UnwindStep
<1>7. CASE remove_internal_entry_if_descriptor_matches(i,
              IF u[i].op \in {"remove", "revert"} THEN "removed" ELSE "final")
    BY <1>1, <1>7, DropEntryStep
<1> QED
    BY <1>2, <1>3, <1>4, <1>5, <1>6, <1>7 DEF PreferenceStep

(***************************************************************************)
(* Steps of the associations                                               *)
(***************************************************************************)
LEMMA EmptySequence == ASeq(<<>>) /\ DOMAIN <<>> = {} /\ Len(<<>>) = 0
<1>1. <<>> \in Seq(Nat)
    OBVIOUS
<1> QED
    BY <1>1 DEF ASeq

LEMMA FreshAssociation ==
    ASSUME NEW op \in {"list", "register", "update", "forget", "acquire", "generate"}, NEW env, NEW t, NEW f
    PROVE  InvocationInv(Association(op, env), t, f)
<1> DEFINE r == Association(op, env)
<1>1. /\ DOMAIN r = InvocationFields /\ r.store = "patches.d" /\ r.op = op /\ r.entry = <<>> /\ r.temp = <<>>
      /\ r.draft = <<>> /\ r.previous = <<>> /\ r.files = <<>> /\ r.content = <<>> /\ r.held = <<>> /\ r.out = "none"
      /\ r.next = "registry" /\ r.want = "SH"
      /\ r.st = CASE op = "register" -> "material" [] op = "generate" -> "destination" [] OTHER -> "start"
    BY DEF Association, Invocation, InvocationFields
<1> HIDE DEF r
<1>2. /\ r.st \in {"material", "destination", "start"} /\ (op = "register" <=> r.st = "material")
      /\ r.st = "destination" => op = "generate"
    BY <1>1
<1>3. <<>> \in Seq(KnownNodes(f)) /\ <<>> \in Seq(Nat)
    OBVIOUS
<1>4. FieldInv(r, f)
    BY <1>1, <1>2, <1>3, EmptySequence DEF FieldInv
<1>5. PinInv(r, t)
    BY <1>1, EmptySequence DEF PinInv
<1>6. RecordInv(r)
    BY <1>1, <1>2 DEF RecordInv
<1>7. SeriesInv(r, t)
    BY <1>1, <1>2 DEF SeriesInv
<1> QED
    BY <1>1, <1>4, <1>5, <1>6, <1>7 DEF InvocationInv, r

\* What no step of an association changes.
Keeps(c, r) ==
    /\ DOMAIN r = InvocationFields /\ r.store = c.store /\ r.op = c.op /\ r.content = c.content
    /\ r.draft = c.draft /\ r.out = c.out /\ (r.held = c.held \/ r.held = <<>>)

LEMMA AssociationAlter ==
    ASSUME StoresInv, NEW i \in Invokers, TreeMoves, NothingUnseenDestroyed', NEW r, Alter(i, r), u[i].store = "patches.d",
           u[i].st # "end", Keeps(u[i], r), r.st \notin {"end", "unwind", "publish", "bury"},
           r.st \in {"record publish", "forget move"} => r.held # <<>>,
           r.temp \in Seq(KnownNodes(fresh')), r.entry \in Seq(KnownNodes(fresh')),
           r.previous \in Seq(KnownNodes(fresh')), r.files \in Seq(KnownNodes(fresh')),
           AllPinned(r.temp, tree'), AllPinned(r.entry, tree'), RecordInv(r), SeriesInv(r, tree')
    PROVE  StoresInv'
<1> DEFINE c == u[i]
<1>1. FieldInv(c, fresh') /\ c.store = "patches.d" /\ c.st # "end" /\ Keeps(c, r)
    BY InvocationStays DEF InvocationInv
<1> HIDE DEF c
<1>2. FieldInv(r, fresh')
    BY <1>1, EmptySequence DEF FieldInv, Keeps
<1>3. PinInv(r, tree')
    BY DEF PinInv, AllPinned
<1>4. InvocationInv(r, tree', fresh')
    BY <1>1, <1>2, <1>3 DEF InvocationInv, Keeps
<1> QED
    BY <1>4, ActorStep DEF Alter

LEMMA AssociationNow ==
    ASSUME StoresInv, NEW i \in Invokers, u[i].store = "patches.d", TreeMoves
    PROVE  /\ RecordInv(u[i]) /\ SeriesInv(u[i], tree') /\ u[i].files \in Seq(KnownNodes(fresh'))
           /\ u[i].temp \in Seq(KnownNodes(fresh')) /\ u[i].entry \in Seq(KnownNodes(fresh'))
           /\ u[i].previous \in Seq(KnownNodes(fresh'))
           /\ u[i].st # "end" => u[i].out = "none" /\ AllPinned(u[i].temp, tree') /\ AllPinned(u[i].entry, tree')
<1>1. InvocationInv(u[i], tree', fresh')
    BY InvocationStays
<1> QED
    BY <1>1, Handled DEF InvocationInv, FieldInv

\* A step that only moves on.
LEMMA AssociationAside ==
    ASSUME StoresInv, NEW i \in Invokers, TreeMoves, NothingUnseenDestroyed', NEW r, Alter(i, r), Alters(u[i], r, Aside),
           u[i].store = "patches.d", u[i].st # "end", r.st \notin {"end", "unwind", "publish", "bury"},
           r.st \in {"record publish", "forget move"} => u[i].held # <<>>,
           Knows(u[i], r) => RecordInv(r) /\ SeriesInv(r, tree')
    PROVE  StoresInv'
<1>1. DOMAIN r = InvocationFields /\ Knows(u[i], r)
    BY Fields DEF Alters, InvocationFields, Aside, Knows
<1>2. Keeps(u[i], r) /\ r.temp = u[i].temp /\ r.entry = u[i].entry /\ r.previous = u[i].previous
      /\ r.files = u[i].files /\ r.held = u[i].held
    BY <1>1 DEF Keeps, Knows
<1>3. RecordInv(r) /\ SeriesInv(r, tree')
    BY <1>1
<1> QED
    BY <1>2, <1>3, AssociationNow, AssociationAlter

Moved(c, r, st) == Knows(c, r) /\ r.st = st /\ r.next = c.next /\ r.want = c.want /\ r.whole = c.whole

LEMMA AssociationMoves ==
    ASSUME StoresInv, NEW i \in Invokers, TreeMoves, NothingUnseenDestroyed', NEW st,
           Moves(i, st) \/ Alter(i, [u[i] EXCEPT !.st = st, !.published = TRUE]),
           u[i].store = "patches.d", u[i].st # "end", st \notin {"end", "unwind", "publish", "bury"},
           st \in {"record publish", "forget move"} => u[i].held # <<>>,
           \A r : Moved(u[i], r, st) => RecordInv(r) /\ SeriesInv(r, tree')
    PROVE  StoresInv'
<1>1. ASSUME NEW r, r = [u[i] EXCEPT !.st = st] \/ r = [u[i] EXCEPT !.st = st, !.published = TRUE], Alter(i, r)
      PROVE  StoresInv'
  <2>1. Alters(u[i], r, Aside) /\ r.st = st /\ r.next = u[i].next /\ r.want = u[i].want /\ r.whole = u[i].whole
      BY <1>1, Fields DEF Alters, InvocationFields, Aside
  <2>2. Knows(u[i], r) => RecordInv(r) /\ SeriesInv(r, tree')
      BY <2>1 DEF Moved
  <2> QED
      BY <1>1, <2>1, <2>2, AssociationAside
<1> QED
    BY <1>1 DEF Moves

LEMMA RegistryStep ==
    ASSUME StoresInv, NEW i \in Invokers, u[i].store = "patches.d", OpenRegistry(i)
    PROVE  StoresInv'
<1>1. TreeMoves /\ NothingUnseenDestroyed' /\ u[i].st = "registry" /\ tree' = tree /\ fresh' = fresh
    BY LookStep DEF OpenRegistry
<1>2. CASE Alter(i, Fail(i))
    BY <1>1, <1>2, FailStep
<1> DEFINE found == ChildrenOf(tree, DirectoryOf(i))
           entry == IF found = {} THEN <<>> ELSE <<tree[RecordLeaf(i)]>>
           dir == <<tree[DirectoryOf(i)]>>
           r == [u[i] EXCEPT !.st = "registry read", !.seenDir = dir, !.entry = entry]
<1>3. CASE found \subseteq {RecordLeaf(i)} /\ Alter(i, r)
  <2>1. found # {} => RecordLeaf(i) \in DOMAIN tree
      BY <1>3 DEF ChildrenOf
  <2>2. entry \in Seq(KnownNodes(fresh')) /\ AllPinned(entry, tree')
      BY <1>1, <2>1, NewNode, EmptySequence DEF AllPinned
  <2> HIDE DEF entry, dir
  <2>3. /\ Keeps(u[i], r) /\ r.st = "registry read" /\ r.entry = entry /\ r.temp = u[i].temp /\ r.previous = u[i].previous
        /\ r.files = u[i].files /\ r.next = u[i].next /\ r.want = u[i].want /\ r.whole = u[i].whole
      BY Fields DEF InvocationFields, Keeps
  <2>4. Alter(i, r)
      BY <1>3
  <2> HIDE DEF r, found
  <2>0. RecordInv(u[i]) /\ SeriesInv(u[i], tree') /\ u[i].out = "none"
      BY <1>1, AssociationNow
  <2>5. RecordInv(r)
      BY <1>1, <2>0, <2>3 DEF RecordInv, Keeps
  <2>6. SeriesInv(r, tree')
      BY <1>1, <2>0, <2>3 DEF SeriesInv, Keeps
  <2> QED
      BY <1>1, <2>2, <2>3, <2>4, <2>5, <2>6, AssociationNow, AssociationAlter
<1> QED
    BY <1>2, <1>3 DEF OpenRegistry

LEMMA SameLength ==
    ASSUME NEW S, NEW s \in Seq(S), NEW t \in Seq(S), Len(s) = Len(t), s # <<>>
    PROVE  t # <<>>
<1>1. Len(s) # 0
    OBVIOUS
<1> QED
    BY <1>1

\* The record that is loaded now, or none.
LEMMA RegistryReadStep ==
    ASSUME StoresInv, NEW i \in Invokers, u[i].store = "patches.d", read_registry(i)
    PROVE  StoresInv'
<1> DEFINE c == u[i]
           want == IF c.op = "forget" THEN "EX" ELSE "SH"
           loaded == [c EXCEPT !.previous = c.entry, !.entry = <<>>, !.lock = "none", !.held = <<>>, !.seenDir = <<>>]
<1>1. TreeMoves /\ NothingUnseenDestroyed' /\ c.st \in {"registry read", "absent"} /\ tree' = tree /\ fresh' = fresh
    BY LookStep DEF read_registry
<1>2. RecordInv(c) /\ SeriesInv(c, tree') /\ c.out = "none"
    BY <1>1, AssociationNow
<1>3. CASE Alter(i, Fail(i))
    BY <1>1, <1>3, FailStep
<1>4. CASE c.op = "list" /\ Alter(i, Halt(i, "ok"))
    BY <1>1, <1>4, HaltStep DEF Answers
<1>5. CASE Alter(i, Halt(i, "absent"))
    BY <1>1, <1>5, HaltStep
<1>6. CASE /\ c.want = "EX" /\ Len(c.entry) = Len(c.previous)
           /\ (c.entry # <<>> => same_state(c.entry[1], c.previous[1]))
           /\ Alter(i, [c EXCEPT !.st = "record temp"])
  <2>1. c.entry # <<>> => c.entry[1].data = c.previous[1].data
    <3> SUFFICES ASSUME c.entry # <<>> PROVE c.entry[1].data = c.previous[1].data
        OBVIOUS
    <3>1. c.entry \in Seq(KnownNodes(fresh)) /\ c.previous \in Seq(KnownNodes(fresh))
        BY <1>1, AssociationNow
    <3>2. c.previous # <<>>
        BY <1>6, <3>1, SameLength
    <3> QED
        BY <1>6, <3>2, NodeFacts, SameStateFacts
  <2>2. ASSUME NEW r, Moved(c, r, "record temp")
        PROVE  RecordInv(r) /\ SeriesInv(r, tree')
    <3> HIDE DEF c
    <3>1. RecordInv(r)
        BY <1>1, <1>2, <1>6, <2>1, <2>2 DEF RecordInv, Knows, Moved
    <3>2. SeriesInv(r, tree')
        BY <1>1, <1>2, <2>2 DEF SeriesInv, Knows, Moved
    <3> QED
        BY <3>1, <3>2
  <2> DEFINE st == "record temp"
  <2>3. /\ Moves(i, st) /\ u[i].store = "patches.d" /\ u[i].st # "end"
        /\ st \notin {"end", "unwind", "publish", "bury", "record publish", "forget move"}
        /\ \A r : Moved(u[i], r, st) => RecordInv(r) /\ SeriesInv(r, tree')
      BY <1>1, <1>6, <2>2 DEF Moves
  <2> HIDE DEF st, c
  <2> QED
      BY <1>1, <2>3, AssociationMoves
<1>7. ASSUME NEW r, Alter(i, r), Keeps(c, r), r.temp = c.temp, r.previous = c.entry, r.entry = <<>>, r.files = c.files,
             r.whole = c.whole,
             \/ r.st = "generate" /\ c.op = "generate" /\ r.next = c.next /\ r.want = c.want
             \/ c.entry # <<>> /\ c.op = "update" /\ c.want # "EX" /\ r.st = "material" /\ r.next = c.next /\ r.want = c.want
             \/ c.entry # <<>> /\ c.op \in {"forget", "acquire"} /\ r.st = "start" /\ r.next = "select" /\ r.want = want
      PROVE  StoresInv'
  <2>1. c.store = "patches.d"
      OBVIOUS
  <2>2. RecordInv(r) /\ SeriesInv(r, tree')
    <3> HIDE DEF c
    <3>1. RecordInv(r)
        BY <1>1, <1>2, <1>7 DEF RecordInv, Keeps
    <3>2. SeriesInv(r, tree')
        BY <1>1, <1>2, <1>7 DEF SeriesInv, Keeps, RecordInv
    <3> QED
        BY <3>1, <3>2
  <2>3. AllPinned(r.entry, tree') /\ r.entry \in Seq(KnownNodes(fresh'))
      BY <1>7, EmptySequence DEF AllPinned
  <2> QED
      BY <1>1, <1>7, <2>2, <2>3, AssociationNow, AssociationAlter
<1>8. /\ DOMAIN loaded = InvocationFields /\ Keeps(c, loaded) /\ loaded.temp = c.temp /\ loaded.previous = c.entry
      /\ loaded.entry = <<>> /\ loaded.files = c.files /\ loaded.whole = c.whole /\ loaded.next = c.next
      /\ loaded.want = c.want
    BY Fields DEF InvocationFields, Keeps
<1>9. CASE c.op = "generate" /\ Alter(i, [loaded EXCEPT !.st = "generate"])
  <2> DEFINE r == [loaded EXCEPT !.st = "generate"]
  <2>1. /\ Keeps(c, r) /\ r.temp = c.temp /\ r.previous = c.entry /\ r.entry = <<>> /\ r.files = c.files
        /\ r.whole = c.whole /\ r.st = "generate" /\ r.next = c.next /\ r.want = c.want
    <3> HIDE DEF loaded, c
    <3> QED
        BY <1>8 DEF InvocationFields, Keeps
  <2> HIDE DEF r
  <2> QED
      BY <1>7, <1>9, <2>1 DEF r
<1>10. CASE c.op = "update" /\ c.entry # <<>> /\ c.want # "EX" /\ Alter(i, [loaded EXCEPT !.st = "material"])
  <2> DEFINE r == [loaded EXCEPT !.st = "material"]
  <2>1. /\ Keeps(c, r) /\ r.temp = c.temp /\ r.previous = c.entry /\ r.entry = <<>> /\ r.files = c.files
        /\ r.whole = c.whole /\ r.st = "material" /\ r.next = c.next /\ r.want = c.want
    <3> HIDE DEF loaded, c
    <3> QED
        BY <1>8 DEF InvocationFields, Keeps
  <2> HIDE DEF r
  <2> QED
      BY <1>7, <1>10, <2>1 DEF r
<1>11. CASE /\ c.op \in {"forget", "acquire"} /\ c.entry # <<>>
            /\ Alter(i, [loaded EXCEPT !.st = "start", !.next = "select", !.want = want])
  <2> DEFINE r == [loaded EXCEPT !.st = "start", !.next = "select", !.want = want]
  <2>1. /\ Keeps(c, r) /\ r.temp = c.temp /\ r.previous = c.entry /\ r.entry = <<>> /\ r.files = c.files
        /\ r.whole = c.whole /\ r.st = "start" /\ r.next = "select" /\ r.want = want
    <3> HIDE DEF loaded, c, want
    <3> QED
        BY <1>8 DEF InvocationFields, Keeps
  <2> HIDE DEF r
  <2> QED
      BY <1>7, <1>11, <2>1 DEF r
<1>12. c.op = "register" => c.want = "EX"
    BY <1>1, <1>2 DEF SeriesInv, RecordInv
<1>13. c.op \in {"list", "register", "update", "forget", "acquire", "generate"} /\ c.want \in {"SH", "EX"}
    BY <1>2 DEF RecordInv
<1>14. Alter(i, Fail(i)) \/ Alter(i, WithRecord(i))
    BY DEF read_registry
<1>15. ASSUME Alter(i, WithRecord(i)) PROVE StoresInv'
  <2>1. CASE c.op = "list"
      BY <1>4, <1>15, <2>1 DEF WithRecord
  <2>2. CASE c.op # "list" /\ c.want = "EX"
      BY <1>3, <1>6, <1>15, <2>2 DEF WithRecord
  <2>3. CASE c.op = "generate" /\ c.want = "SH"
      BY <1>3, <1>9, <1>15, <2>3 DEF WithRecord
  <2>4. CASE c.op \in {"update", "forget", "acquire"} /\ c.want = "SH"
      BY <1>5, <1>10, <1>11, <1>15, <2>4 DEF WithRecord
  <2> QED
      BY <1>12, <1>13, <2>1, <2>2, <2>3, <2>4
<1> QED
    BY <1>3, <1>14, <1>15

LEMMA SelectStep ==
    ASSUME StoresInv, NEW i \in Invokers, u[i].store = "patches.d", SelectRecord(i)
    PROVE  StoresInv'
<1> DEFINE c == u[i]
           entry == <<tree[RecordLeaf(i)]>>
           st == IF c.op = "forget" THEN "forget check" ELSE "material"
           r == [c EXCEPT !.entry = entry, !.st = st]
<1>1. TreeMoves /\ NothingUnseenDestroyed' /\ c.st = "select" /\ tree' = tree /\ fresh' = fresh
    BY LookStep DEF SelectRecord
<1>2. RecordInv(c) /\ SeriesInv(c, tree') /\ c.out = "none"
    BY <1>1, AssociationNow
<1>3. CASE Alter(i, Fail(i))
    BY <1>1, <1>3, FailStep
<1>4. CASE Named(RecordLeaf(i), c.previous[1]) /\ Alter(i, r)
  <2>1. c.previous # <<>> /\ c.op \in {"forget", "acquire"}
      BY <1>1, <1>2 DEF RecordInv
  <2>2. RecordLeaf(i) \in DOMAIN tree /\ tree[RecordLeaf(i)].data = c.previous[1].data
      BY <1>4, <2>1, NodeFacts, NamedFacts
  <2>3. /\ entry \in Seq(KnownNodes(fresh')) /\ AllPinned(entry, tree') /\ entry # <<>>
        /\ entry[1].data = c.previous[1].data
      BY <1>1, <2>2, NewNode, OneElement
  <2> HIDE DEF entry
  <2>4. /\ Keeps(c, r) /\ r.st = st /\ r.entry = entry /\ r.temp = c.temp /\ r.previous = c.previous
        /\ r.files = c.files /\ r.next = c.next /\ r.want = c.want /\ r.whole = c.whole
      BY Fields DEF InvocationFields, Keeps
  <2>5. Alter(i, r)
      BY <1>4
  <2> HIDE DEF r
  <2>6. RecordInv(r) /\ SeriesInv(r, tree')
    <3> HIDE DEF c
    <3>1. RecordInv(r)
        BY <1>1, <1>2, <2>1, <2>3, <2>4 DEF RecordInv, Keeps
    <3>2. SeriesInv(r, tree')
        BY <1>1, <1>2, <2>1, <2>3, <2>4 DEF SeriesInv, Keeps
    <3> QED
        BY <3>1, <3>2
  <2> QED
      BY <1>1, <2>3, <2>4, <2>5, <2>6, AssociationNow, AssociationAlter
<1> QED
    BY <1>3, <1>4 DEF SelectRecord

\* The series is whole when its last file is read, or something of it is
\* lost.
LEMMA ReadPatchStep ==
    ASSUME StoresInv, NEW i \in Invokers, u[i].store = "patches.d", ReadPatch(i)
    PROVE  StoresInv'
<1> DEFINE c == u[i]
           k == Len(c.files) + 1
           p == PatchFile(k)
           files == Append(c.files, tree[p])
           whole == k = Len(PatchNames) /\ Present(i, files)
           root == <<tree[Material]>>
           st == IF k = Len(PatchNames) THEN "series" ELSE "material"
           r == [c EXCEPT !.files = files, !.root = root, !.whole = whole, !.st = st]
<1>1. TreeMoves /\ NothingUnseenDestroyed' /\ c.st = "material" /\ tree' = tree /\ fresh' = fresh
    BY LookStep DEF ReadPatch
<1>2. RecordInv(c) /\ SeriesInv(c, tree') /\ c.out = "none" /\ c.files \in Seq(KnownNodes(fresh))
    BY <1>1, AssociationNow
<1>3. CASE Alter(i, Fail(i))
    BY <1>1, <1>3, FailStep
<1>4. CASE Exists(p) /\ Alter(i, r)
  <2>1. tree[p] \in KnownNodes(fresh)
      BY <1>4, ReadNode DEF Exists
  <2> HIDE DEF p
  <2>2. files \in Seq(KnownNodes(fresh)) /\ Len(files) = k /\ DOMAIN files = 1..k
      BY <1>2, <2>1
  <2>3. ASSUME st = "series"
        PROVE  /\ Len(files) = Len(PatchNames)
               /\ \/ whole
                  \/ \E m \in DOMAIN PatchNames : Lost(tree, PatchFile(m), files[m])
                  \/ c.op = "acquire" /\ Lost(tree, FirstLeaf(c), c.entry[1])
    <3>1. k = Len(PatchNames) /\ DOMAIN PatchNames = 1..k
        BY <2>3, PatchAssumption
    <3> HIDE DEF k, files
    <3>2. ASSUME NEW m \in DOMAIN PatchNames, ~(Exists(PatchFile(m)) /\ tree[PatchFile(m)].data = files[m].data)
          PROVE  Lost(tree, PatchFile(m), files[m])
      <4> SUFFICES ASSUME PatchFile(m) \in DOMAIN tree, same_state(tree[PatchFile(m)], files[m]) PROVE FALSE
          BY DEF Lost
      <4>1. files[m] \in Nodes
          BY <2>2, <3>1, Elements DEF KnownNodes
      <4>2. tree[PatchFile(m)].data = files[m].data
          BY <4>1, ReadNode, SameStateFacts
      <4> QED
          BY <3>2, <4>2 DEF Exists
    <3>3. ASSUME c.op = "acquire", ~(Exists(RecordLeaf(i)) /\ tree[RecordLeaf(i)].data = c.entry[1].data)
          PROVE  Lost(tree, FirstLeaf(c), c.entry[1])
      <4> SUFFICES ASSUME RecordLeaf(i) \in DOMAIN tree, same_state(tree[RecordLeaf(i)], c.entry[1]) PROVE FALSE
          BY DEF Lost, RecordLeaf, FirstLeaf, DirectoryOf
      <4>1. c.entry # <<>>
          BY <1>1, <1>2, <3>3 DEF SeriesInv
      <4>2. c.entry[1] \in Nodes
          BY <4>1, NodeFacts
      <4>3. tree[RecordLeaf(i)].data = c.entry[1].data
          BY <4>2, ReadNode, SameStateFacts
      <4> QED
          BY <3>3, <4>3 DEF Exists
    <3>4. CASE Present(i, files)
        BY <2>2, <3>1, <3>4
    <3>5. CASE ~Present(i, files)
        BY <2>2, <3>1, <3>2, <3>3, <3>5 DEF Present
    <3> QED
        BY <3>4, <3>5
  <2> HIDE DEF files, whole, root
  <2>4. /\ Keeps(c, r) /\ r.st = st /\ r.files = files /\ r.whole = whole /\ r.temp = c.temp /\ r.entry = c.entry
        /\ r.previous = c.previous /\ r.next = c.next /\ r.want = c.want /\ r.held = c.held
      BY Fields DEF InvocationFields, Keeps
  <2>5. Alter(i, r)
      BY <1>4 DEF files, whole, root
  <2>6. st \in {"material", "series"}
      OBVIOUS
  <2> HIDE DEF r, st
  <2>7. RecordInv(r) /\ SeriesInv(r, tree')
    <3> HIDE DEF c
    <3>1. RecordInv(r)
        BY <1>1, <1>2, <2>4, <2>6 DEF RecordInv, Keeps
    <3>2. SeriesInv(r, tree')
        BY <1>1, <1>2, <2>3, <2>4, <2>6 DEF SeriesInv, Keeps, FirstLeaf
    <3> QED
        BY <3>1, <3>2
  <2> QED
      BY <1>1, <2>2, <2>4, <2>5, <2>6, <2>7, AssociationNow, AssociationAlter
<1> QED
    BY <1>3, <1>4 DEF ReadPatch

\* A name that shows what was read is not lost.
LEMMA AfterSeriesStep ==
    ASSUME StoresInv, NEW i \in Invokers, u[i].store = "patches.d", acquire_material(i) \/ Reacquire(i)
    PROVE  StoresInv'
<1> DEFINE c == u[i]
<1>1. /\ TreeMoves /\ NothingUnseenDestroyed' /\ c.st \in {"series", "reacquire"} /\ c.st # "end"
      /\ tree' = tree /\ fresh' = fresh
    BY LookStep DEF acquire_material, Reacquire
<1>2. RecordInv(c) /\ SeriesInv(c, tree') /\ c.out = "none"
    BY <1>1, AssociationNow
<1>3. CASE Alter(i, Fail(i))
    BY <1>1, <1>3, FailStep
<1>4. CASE Alter(i, Halt(i, "failed"))
    BY <1>1, <1>4, HaltStep
<1>5. CASE /\ c.st = "series" => \A k \in DOMAIN PatchNames : Named(PatchFile(k), c.files[k])
           /\ Alter(i, AfterSeries(i))
  <2>1. c.st = "series" => c.whole \/ (c.op = "acquire" /\ Lost(tree', FirstLeaf(c), c.entry[1]))
      BY <1>1, <1>2, <1>5 DEF SeriesInv, Lost, Named, Exists
  <2>2. CASE c.op = "acquire"
    <3>1. Moves(i, "acquired")
        BY <1>5, <2>2 DEF AfterSeries, Moves
    <3>2. ASSUME NEW q, Moved(c, q, "acquired")
          PROVE  RecordInv(q) /\ SeriesInv(q, tree')
      <4> HIDE DEF c
      <4>0. c.st = "series"
          BY <1>1, <1>2, <2>2 DEF SeriesInv
      <4>1. RecordInv(q)
          BY <1>1, <1>2, <3>2 DEF RecordInv, Knows, Moved
      <4>2. SeriesInv(q, tree')
          BY <1>1, <1>2, <2>1, <2>2, <3>2, <4>0 DEF SeriesInv, Knows, Moved, FirstLeaf
      <4> QED
          BY <4>1, <4>2
    <3> DEFINE st == "acquired"
    <3>3. /\ Moves(i, st) /\ u[i].store = "patches.d" /\ u[i].st # "end"
          /\ st \notin {"end", "unwind", "publish", "bury", "record publish", "forget move"}
          /\ \A r : Moved(u[i], r, st) => RecordInv(r) /\ SeriesInv(r, tree')
        BY <1>1, <3>1, <3>2
    <3> HIDE DEF st, c
    <3> QED
        BY <1>1, <3>3, AssociationMoves
  <2>3. CASE c.op # "acquire"
    <3> DEFINE r == [c EXCEPT !.st = "start", !.create = c.op # "update", !.want = "EX", !.next = "registry"]
    <3>1. Alters(c, r, Aside) /\ r.st = "start" /\ r.want = "EX" /\ r.next = "registry" /\ r.whole = c.whole
        BY Fields DEF Alters, Aside, InvocationFields
    <3>2. Alter(i, r)
        BY <1>5, <2>3 DEF AfterSeries
    <3> HIDE DEF r
    <3>3. Knows(c, r) => RecordInv(r) /\ SeriesInv(r, tree')
      <4> SUFFICES ASSUME Knows(c, r) PROVE RecordInv(r) /\ SeriesInv(r, tree')
          OBVIOUS
      <4> HIDE DEF c
      <4>1. RecordInv(r)
          BY <1>1, <1>2, <3>1 DEF RecordInv, Knows
      <4>2. SeriesInv(r, tree')
          BY <1>1, <1>2, <2>1, <2>3, <3>1 DEF SeriesInv, Knows, FirstLeaf
      <4> QED
          BY <4>1, <4>2
    <3>4. c.store = "patches.d"
        OBVIOUS
    <3> QED
        BY <1>1, <3>1, <3>2, <3>3, <3>4, AssociationAside
  <2> QED
      BY <2>2, <2>3
<1> QED
    BY <1>3, <1>4, <1>5 DEF acquire_material, Reacquire, revalidate_file

LEMMA AnswerStep ==
    ASSUME StoresInv, NEW i \in Invokers, u[i].store = "patches.d",
           acquire_selected_patch_series(i) \/ publish(i) \/ forget_patch_association(i)
    PROVE  StoresInv'
<1>1. /\ TreeMoves /\ NothingUnseenDestroyed' /\ u[i].st \in {"acquired", "record final", "forget final"}
      /\ tree' = tree
    BY LookStep DEF acquire_selected_patch_series, publish, forget_patch_association
<1>2. RecordInv(u[i]) /\ SeriesInv(u[i], tree')
    BY <1>1, AssociationNow
<1>3. CASE Alter(i, Fail(i))
    BY <1>1, <1>3, FailStep
<1>4. CASE Alter(i, Halt(i, "ok")) /\ (u[i].st = "acquired" => Named(RecordLeaf(i), u[i].entry[1]))
  <2>1. CASE u[i].st = "acquired"
    <3>1. u[i].whole
        BY <1>1, <1>2, <1>4, <2>1 DEF SeriesInv, Lost, Named, Exists, RecordLeaf, FirstLeaf, DirectoryOf
    <3> QED
        BY <1>1, <1>4, <3>1, HaltStep
  <2>2. CASE u[i].st = "record final"
    <3>1. u[i].op \in Answers => u[i].whole
        BY <1>2, <2>2 DEF SeriesInv, RecordInv, Answers
    <3> QED
        BY <1>1, <1>4, <3>1, HaltStep
  <2>3. CASE u[i].st = "forget final"
    <3>1. u[i].op \notin Answers
        BY <1>2, <2>3 DEF RecordInv, Answers
    <3> QED
        BY <1>1, <1>4, <3>1, HaltStep
  <2> QED
      BY <1>1, <2>1, <2>2, <2>3
<1> QED
    BY <1>3, <1>4 DEF acquire_selected_patch_series, publish, forget_patch_association

LEMMA WriteRecordStep ==
    ASSUME StoresInv, NEW i \in Invokers, u[i].store = "patches.d", WriteRecord(i) \/ WriteGenerated(i)
    PROVE  StoresInv'
<1>1. NothingUnseenDestroyed' /\ u[i].st \in {"record temp", "generate"}
    BY NothingMore DEF WriteRecord, WriteGenerated
<1>2. CASE UNCHANGED <<tree, fresh>> /\ Alter(i, Fail(i))
    BY <1>1, <1>2, SameTree, FailStep
<1>3. ASSUME NEW p, ASeq(p), p \notin DOMAIN tree, tree' = AddEntry(tree, p, Made("file", "private", fresh)),
             fresh' = fresh + 1, NEW st, Alter(i, [u[i] EXCEPT !.st = st, !.temp = <<tree'[p]>>]),
             \/ u[i].st = "record temp" /\ st = "record check"
             \/ u[i].st = "generate" /\ st = "generated"
      PROVE  StoresInv'
  <2> DEFINE c == u[i]
             n == tree'[p]
             r == [c EXCEPT !.st = st, !.temp = <<n>>]
  <2>1. TreeMoves
      BY <1>3, Fields, MadeTree
  <2>2. <<n>> \in Seq(KnownNodes(fresh')) /\ AllPinned(<<n>>, tree')
      BY <1>3, <2>1, AddedHere, NewNode
  <2>3. RecordInv(c) /\ SeriesInv(c, tree') /\ c.out = "none"
      BY <1>1, <2>1, AssociationNow
  <2>4. Alter(i, r)
      BY <1>3
  <2> HIDE DEF n
  <2>5. /\ Keeps(c, r) /\ r.st = st /\ r.files = c.files /\ r.whole = c.whole /\ r.temp = <<n>> /\ r.entry = c.entry
        /\ r.previous = c.previous /\ r.next = c.next /\ r.want = c.want /\ r.held = c.held
      BY Fields DEF InvocationFields, Keeps
  <2> HIDE DEF r
  <2>6. RecordInv(r) /\ SeriesInv(r, tree')
    <3> HIDE DEF c
    <3>1. RecordInv(r)
        BY <1>3, <2>3, <2>5, OneElement DEF RecordInv, Keeps, c
    <3>2. SeriesInv(r, tree')
        BY <1>3, <2>3, <2>5 DEF SeriesInv, Keeps, c
    <3> QED
        BY <3>1, <3>2
  <2>7. r.st \notin {"end", "unwind", "publish", "bury", "record publish", "forget move"} /\ c.st # "end"
      BY <1>3, <2>5
  <2> QED
      BY <1>1, <2>1, <2>2, <2>4, <2>5, <2>6, <2>7, AssociationNow, AssociationAlter
<1>4. CASE WriteRecord(i)
  <2>1. Exists(DirectoryOf(i)) => ASeq(TempLeaf(i))
      BY Fields, AppendFacts DEF TempLeaf, Exists
  <2> QED
      BY <1>1, <1>2, <1>3, <1>4, <2>1 DEF WriteRecord, Exists
<1>5. CASE WriteGenerated(i)
  <2>1. MaterialDirectoryHolds(u[i].root[1]) => ASeq(GeneratedTemp(i))
      BY Fields, AppendFacts DEF GeneratedTemp, Exists, MaterialDirectoryHolds
  <2> QED
      BY <1>1, <1>2, <1>3, <1>5, <2>1 DEF WriteGenerated, Exists
<1> QED
    BY <1>4, <1>5

LEMMA HoldsDirectory ==
    ASSUME StoresInv, NEW i \in Invokers, require_unchanged_directory(i)
    PROVE  u[i].held # <<>>
<1>1. Len(u[i].held) >= 2
    BY DEF require_unchanged_directory
<1> QED
    BY <1>1, Fields, ASeqFacts

LEMMA CheckRecordStep ==
    ASSUME StoresInv, NEW i \in Invokers, u[i].store = "patches.d", CheckRecord(i)
    PROVE  StoresInv'
<1> DEFINE c == u[i]
           whole == IF c.op = "generate" THEN Present(i, c.files) ELSE c.whole
           r == [c EXCEPT !.st = "record publish", !.whole = whole]
<1>1. TreeMoves /\ NothingUnseenDestroyed' /\ c.st = "record check" /\ tree' = tree
    BY LookStep DEF CheckRecord
<1>2. RecordInv(c) /\ SeriesInv(c, tree') /\ c.out = "none"
    BY <1>1, AssociationNow
<1>3. CASE Alter(i, Fail(i))
    BY <1>1, <1>3, FailStep
<1>4. CASE /\ c.op = "generate" => \A k \in DOMAIN PatchNames : Exists(PatchFile(k))
                                                                /\ tree[PatchFile(k)].data = c.files[k].data
           /\ require_unchanged_directory(i) /\ Alter(i, r)
  <2>1. IF c.op = "generate" THEN whole ELSE whole = c.whole
      BY <1>4 DEF Present
  <2>2. c.held # <<>>
      BY <1>4, HoldsDirectory
  <2> HIDE DEF whole
  <2>3. Alters(c, r, Aside) /\ r.st = "record publish" /\ r.want = c.want /\ r.next = c.next /\ r.whole = whole
      BY Fields DEF Alters, Aside, InvocationFields
  <2>4. Alter(i, r)
      BY <1>4 DEF whole
  <2> HIDE DEF r
  <2>5. Knows(c, r) => RecordInv(r) /\ SeriesInv(r, tree')
    <3> SUFFICES ASSUME Knows(c, r) PROVE RecordInv(r) /\ SeriesInv(r, tree')
        OBVIOUS
    <3> HIDE DEF c
    <3>1. RecordInv(r)
        BY <1>1, <1>2, <2>3 DEF RecordInv, Knows
    <3>2. SeriesInv(r, tree')
        BY <1>1, <1>2, <2>1, <2>3 DEF SeriesInv, Knows
    <3> QED
        BY <3>1, <3>2
  <2> QED
      BY <1>1, <2>2, <2>3, <2>4, <2>5, AssociationAside
<1> QED
    BY <1>3, <1>4 DEF CheckRecord

\* Stages that follow one another with nothing else changed.
StageFollows(c, st) ==
    \/ c.st = "record publish" /\ st = "record verify"
    \/ c.st = "record verify" /\ st = "record final"
    \/ c.st = "forget check" /\ st = "forget move" /\ c.held # <<>>
    \/ c.st = "forget move" /\ st = "forget verify"
    \/ c.st = "forget verify" /\ st = "forget final"
    \/ c.st = "generated" /\ st = "generated verify"

LEMMA FollowStep ==
    ASSUME StoresInv, NEW i \in Invokers, TreeMoves, NothingUnseenDestroyed', NEW st, u[i].store = "patches.d",
           StageFollows(u[i], st), Moves(i, st) \/ Alter(i, [u[i] EXCEPT !.st = st, !.published = TRUE])
    PROVE  StoresInv'
<1> DEFINE c == u[i]
<1>1. c.st # "end" /\ st \notin {"end", "unwind", "publish", "bury", "record publish"} /\ (st = "forget move" => c.held # <<>>)
    BY DEF StageFollows
<1>2. RecordInv(c) /\ SeriesInv(c, tree') /\ c.out = "none" /\ StageFollows(c, st)
    BY <1>1, AssociationNow
<1>3. ASSUME NEW r, Moved(c, r, st) PROVE RecordInv(r) /\ SeriesInv(r, tree')
  <2> HIDE DEF c
  <2>1. RecordInv(r)
      BY <1>2, <1>3 DEF RecordInv, Knows, Moved, StageFollows
  <2>2. SeriesInv(r, tree')
      BY <1>2, <1>3 DEF SeriesInv, Knows, Moved, StageFollows
  <2> QED
      BY <2>1, <2>2
<1> QED
    BY <1>1, <1>3, AssociationMoves

LEMMA PublishRecordStep ==
    ASSUME StoresInv, NEW i \in Invokers, u[i].store = "patches.d",
           PublishRecord(i) \/ MoveRecord(i) \/ PublishGenerated(i)
    PROVE  StoresInv'
<1>1. NothingUnseenDestroyed' /\ u[i].st \in {"record publish", "forget move", "generated"}
    BY NothingMore DEF PublishRecord, MoveRecord, PublishGenerated
<1>2. CASE UNCHANGED <<tree, fresh>> /\ Alter(i, Fail(i))
    BY <1>1, <1>2, SameTree, FailStep
<1>3. u[i].st # "generated" => ASeq(RecordLeaf(i)) /\ ASeq(TempLeaf(i))
  <2>1. u[i].st # "generated" => u[i].held # <<>>
      BY <1>1 DEF StoresInv, InvocationInv, FieldInv
  <2> QED
      BY <2>1, DirectoryPath DEF RecordLeaf, TempLeaf
<1>4. CASE PublishRecord(i)
  <2>1. CASE /\ Exists(TempLeaf(i)) /\ (Exists(RecordLeaf(i)) <=> u[i].entry # <<>>)
             /\ tree' = IF u[i].entry # <<>> THEN Exchanged(TempLeaf(i), RecordLeaf(i))
                        ELSE Relocated(TempLeaf(i), RecordLeaf(i))
             /\ fresh' = fresh + 1 /\ u[i].st = "record publish"
             /\ Alter(i, [u[i] EXCEPT !.st = "record verify", !.published = TRUE])
    <3>1. TreeMoves
        BY <1>3, <2>1, RenamedTree DEF Exists
    <3>2. StageFollows(u[i], "record verify")
        BY <2>1 DEF StageFollows
    <3> QED
        BY <1>1, <2>1, <3>1, <3>2, FollowStep
  <2> QED
      BY <1>2, <1>4, <2>1 DEF PublishRecord
<1>5. CASE MoveRecord(i)
  <2>1. CASE /\ Exists(RecordLeaf(i)) /\ tree' = Relocated(RecordLeaf(i), TempLeaf(i)) /\ fresh' = fresh + 1
             /\ u[i].st = "forget move" /\ Alter(i, [u[i] EXCEPT !.st = "forget verify", !.published = TRUE])
    <3>1. TreeMoves
        BY <1>3, <2>1, RenamedTree DEF Exists
    <3>2. StageFollows(u[i], "forget verify")
        BY <2>1 DEF StageFollows
    <3> QED
        BY <1>1, <2>1, <3>1, <3>2, FollowStep
  <2> QED
      BY <1>2, <1>5, <2>1 DEF MoveRecord
<1>6. CASE PublishGenerated(i)
  <2> DEFINE p == PatchFile(Len(u[i].files) + 1)
  <2>1. CASE /\ MaterialDirectoryHolds(u[i].root[1]) /\ Exists(GeneratedTemp(i))
             /\ tree' = Relocated(GeneratedTemp(i), p) /\ fresh' = fresh + 1 /\ u[i].st = "generated"
             /\ Alter(i, [u[i] EXCEPT !.st = "generated verify", !.published = TRUE])
    <3>1. ASeq(p)
        BY <2>1, Fields, AppendFacts DEF PatchFile, Exists, MaterialDirectoryHolds
    <3>2. TreeMoves
        BY <2>1, <3>1, RenamedTree DEF Exists
    <3>3. StageFollows(u[i], "generated verify")
        BY <2>1 DEF StageFollows
    <3> QED
        BY <1>1, <2>1, <3>2, <3>3, FollowStep
  <2> QED
      BY <1>2, <1>6, <2>1 DEF PublishGenerated, Named
<1> QED
    BY <1>4, <1>5, <1>6

\* The record that is unlinked is the one that was loaded.
LEMMA VerifyRecordStep ==
    ASSUME StoresInv, NEW i \in Invokers, u[i].store = "patches.d", VerifyRecord(i) \/ VerifyForget(i)
    PROVE  StoresInv'
<1>1. u[i].st \in {"record verify", "forget verify"}
    BY DEF VerifyRecord, VerifyForget
<1>2. CASE UNCHANGED <<tree, fresh, destroyed>> /\ Alter(i, Fail(i))
    BY <1>1, <1>2, SameTree, NothingMore, FailStep
<1>3. CASE UNCHANGED <<tree, fresh, destroyed>> /\ u[i].st = "record verify" /\ Moves(i, "record final")
  <2>1. StageFollows(u[i], "record final")
      BY <1>3 DEF StageFollows
  <2> QED
      BY <1>3, <2>1, SameTree, NothingMore, FollowStep
<1>4. ASSUME u[i].entry # <<>>, revalidate_renamed(TempLeaf(i), u[i].entry[1]), NEW st, StageFollows(u[i], st), Moves(i, st),
             Destroy(i, TempLeaf(i), FALSE, {u[i].previous[1].data}), fresh' = fresh + 1
      PROVE  StoresInv'
  <2>1. RecordInv(u[i])
      BY DEF StoresInv, InvocationInv
  <2>2. u[i].entry[1].data = u[i].previous[1].data
      BY <1>1, <1>4, <2>1 DEF RecordInv
  <2>3. tree[TempLeaf(i)].data = u[i].entry[1].data
      BY <1>4, NodeFacts, ArrivedFacts
  <2>4. TreeMoves /\ NothingUnseenDestroyed'
      BY <1>4, <2>2, <2>3, DestroyStep
  <2> QED
      BY <1>4, <2>4, FollowStep
<1>5. CASE VerifyRecord(i)
  <2>1. StageFollows(u[i], "record final")
      BY <1>5 DEF StageFollows, VerifyRecord
  <2> QED
      BY <1>2, <1>3, <1>4, <1>5, <2>1 DEF VerifyRecord
<1>6. CASE VerifyForget(i)
  <2>1. StageFollows(u[i], "forget final") /\ u[i].st = "forget verify"
      BY <1>6 DEF StageFollows, VerifyForget
  <2>2. u[i].entry # <<>>
      BY <2>1 DEF StoresInv, InvocationInv, RecordInv
  <2> QED
      BY <1>2, <1>4, <1>6, <2>1, <2>2 DEF VerifyForget
<1> QED
    BY <1>5, <1>6

LEMMA CheckForgetStep ==
    ASSUME StoresInv, NEW i \in Invokers, u[i].store = "patches.d", CheckForget(i)
    PROVE  StoresInv'
<1>1. TreeMoves /\ NothingUnseenDestroyed' /\ u[i].st = "forget check"
    BY LookStep DEF CheckForget
<1>2. CASE Alter(i, Fail(i))
    BY <1>1, <1>2, FailStep
<1>3. CASE require_unchanged_directory(i) /\ Moves(i, "forget move")
  <2>1. StageFollows(u[i], "forget move")
      BY <1>1, <1>3, HoldsDirectory DEF StageFollows
  <2> QED
      BY <1>1, <1>3, <2>1, FollowStep
<1> QED
    BY <1>2, <1>3 DEF CheckForget

LEMMA DestinationStep ==
    ASSUME StoresInv, NEW i \in Invokers, u[i].store = "patches.d", validate_generated_patch_destination(i)
    PROVE  StoresInv'
<1> DEFINE c == u[i]
           root == <<tree[Material]>>
           r == [c EXCEPT !.root = root, !.st = "start"]
<1>1. TreeMoves /\ NothingUnseenDestroyed' /\ c.st = "destination"
    BY LookStep DEF validate_generated_patch_destination
<1>2. RecordInv(c) /\ SeriesInv(c, tree') /\ c.out = "none"
    BY <1>1, AssociationNow
<1>3. CASE Alter(i, Halt(i, "failed"))
    BY <1>1, <1>3, HaltStep
<1>4. CASE Alter(i, r)
  <2> HIDE DEF root
  <2>1. Alters(c, r, Aside) /\ r.st = "start" /\ r.want = c.want /\ r.next = c.next /\ r.whole = c.whole
      BY Fields DEF Alters, Aside, InvocationFields
  <2> HIDE DEF r
  <2>2. Knows(c, r) => RecordInv(r) /\ SeriesInv(r, tree')
    <3> SUFFICES ASSUME Knows(c, r) PROVE RecordInv(r) /\ SeriesInv(r, tree')
        OBVIOUS
    <3> HIDE DEF c
    <3>1. RecordInv(r)
        BY <1>1, <1>2, <2>1 DEF RecordInv, Knows
    <3>2. SeriesInv(r, tree')
        BY <1>1, <1>2, <2>1 DEF SeriesInv, Knows
    <3> QED
        BY <3>1, <3>2
  <2> QED
      BY <1>1, <1>4, <2>1, <2>2, AssociationAside
<1> QED
    BY <1>3, <1>4 DEF validate_generated_patch_destination

LEMMA AppendIn ==
    ASSUME NEW S, NEW s \in Seq(S), NEW x \in S
    PROVE  Append(s, x) \in Seq(S)
OBVIOUS

LEMMA GeneratedStep ==
    ASSUME StoresInv, NEW i \in Invokers, u[i].store = "patches.d", publish_one_generated_recipe_material(i)
    PROVE  StoresInv'
<1> DEFINE c == u[i]
           files == Append(c.files, c.temp[1])
           next == [c EXCEPT !.files = files, !.temp = <<>>, !.published = FALSE]
<1>1. TreeMoves /\ NothingUnseenDestroyed' /\ c.st = "generated verify" /\ tree' = tree /\ fresh' = fresh
    BY LookStep DEF publish_one_generated_recipe_material
<1>2. RecordInv(c) /\ SeriesInv(c, tree') /\ c.out = "none" /\ c.files \in Seq(KnownNodes(fresh))
    BY <1>1, AssociationNow
<1>3. CASE Alter(i, Halt(i, "uncertain"))
    BY <1>1, <1>3, HaltStep
<1>4. ASSUME NEW st \in {"generate", "reacquire"}, Alter(i, [next EXCEPT !.st = st]) PROVE StoresInv'
  <2> DEFINE r == [next EXCEPT !.st = st]
  <2>1. c.temp # <<>>
      BY <1>1, <1>2 DEF RecordInv
  <2>2. c.temp[1] \in KnownNodes(fresh)
      BY <2>1, NodeFacts
  <2>3. files \in Seq(KnownNodes(fresh'))
    <3>1. Append(c.files, c.temp[1]) \in Seq(KnownNodes(fresh))
        BY <1>2, <2>2, AppendIn
    <3> QED
        BY <1>1, <3>1
  <2> HIDE DEF files
  <2>4. /\ Keeps(c, r) /\ r.st = st /\ r.files = files /\ r.whole = c.whole /\ r.temp = <<>> /\ r.entry = c.entry
        /\ r.previous = c.previous /\ r.next = c.next /\ r.want = c.want /\ r.held = c.held
      BY Fields DEF InvocationFields, Keeps
  <2>5. Alter(i, r)
      BY <1>4
  <2> HIDE DEF r
  <2>6. RecordInv(r) /\ SeriesInv(r, tree')
    <3> HIDE DEF c
    <3>1. RecordInv(r)
        BY <1>1, <1>2, <1>4, <2>4 DEF RecordInv, Keeps
    <3>2. SeriesInv(r, tree')
        BY <1>1, <1>2, <1>4, <2>4 DEF SeriesInv, Keeps
    <3> QED
        BY <3>1, <3>2
  <2>7. r.temp \in Seq(KnownNodes(fresh')) /\ AllPinned(r.temp, tree')
      BY <2>4, EmptySequence DEF AllPinned
  <2> QED
      BY <1>1, <1>4, <2>3, <2>4, <2>5, <2>6, <2>7, AssociationNow, AssociationAlter
<1> QED
    BY <1>3, <1>4 DEF publish_one_generated_recipe_material

LEMMA AssociationStepInv ==
    ASSUME StoresInv, NEW i \in Invokers, AssociationStep(i)
    PROVE  StoresInv'
<1>1. u[i].store = "patches.d"
    BY DEF AssociationStep
<1> QED
    BY <1>1, PrepareStep, LockStep, RegistryStep, RegistryReadStep, SelectStep, ReadPatchStep, AfterSeriesStep, AnswerStep,
       WriteRecordStep, CheckRecordStep, PublishRecordStep, VerifyRecordStep, UnwindStep, CheckForgetStep, DestinationStep,
       GeneratedStep DEF AssociationStep

(***************************************************************************)
(* The log, and the others                                                 *)
(***************************************************************************)
LEMMA FreshLog ==
    ASSUME NEW env, NEW t, NEW f
    PROVE  InvocationInv(Invocation("log", "log", env), t, f)
<1> DEFINE r == Invocation("log", "log", env)
<1>1. /\ DOMAIN r = InvocationFields /\ r.store = "log" /\ r.entry = <<>> /\ r.temp = <<>> /\ r.draft = <<>>
      /\ r.previous = <<>> /\ r.files = <<>> /\ r.content = <<>> /\ r.held = <<>> /\ r.out = "none" /\ r.st = "start"
    BY DEF Invocation, InvocationFields
<1> HIDE DEF r
<1>2. <<>> \in Seq(KnownNodes(f)) /\ <<>> \in Seq(Nat)
    OBVIOUS
<1>3. FieldInv(r, f)
    BY <1>1, <1>2, EmptySequence DEF FieldInv
<1>4. PinInv(r, t)
    BY <1>1, EmptySequence DEF PinInv
<1> QED
    BY <1>1, <1>3, <1>4 DEF InvocationInv, r

LEMMA LogHandles ==
    ASSUME StoresInv, NEW i \in Invokers, TreeMoves, NothingUnseenDestroyed', u[i].store = "log", u[i].st # "end",
           NEW st \in {"log open", "log check", "log write"}, NEW entry, entry \in Seq(KnownNodes(fresh')),
           AllPinned(entry, tree'), Alter(i, [u[i] EXCEPT !.st = st, !.entry = entry])
    PROVE  StoresInv'
<1> DEFINE c == u[i]
           r == [c EXCEPT !.st = st, !.entry = entry]
<1>1. /\ InvocationInv(c, tree', fresh') /\ c.st # "end" /\ c.store = "log" /\ c.temp \in Seq(KnownNodes(fresh'))
      /\ c.previous \in Seq(KnownNodes(fresh')) /\ AllPinned(c.temp, tree')
    BY InvocationStays, Handled
<1>2. Alters(c, r, HandleFields) /\ r.st = st /\ r.entry = entry /\ r.temp = c.temp /\ r.previous = c.previous
    BY Fields DEF Alters, InvocationFields, HandleFields
<1>3. Alter(i, r)
    OBVIOUS
<1> HIDE DEF c, r
<1>4. FieldInv(r, fresh') /\ PinInv(r, tree') /\ Asks(c, r)
    BY <1>1, <1>2, HandlesChange
<1>5. InvocationInv(r, tree', fresh')
    BY <1>1, <1>4 DEF InvocationInv, Asks
<1> QED
    BY <1>3, <1>5, ActorStep DEF Alter

LEMMA LogMoves ==
    ASSUME StoresInv, NEW i \in Invokers, TreeMoves, NothingUnseenDestroyed', u[i].store = "log", u[i].st # "end",
           NEW st \in {"log open", "log write"}, Moves(i, st)
    PROVE  StoresInv'
<1>1. [u[i] EXCEPT !.st = st] = [u[i] EXCEPT !.st = st, !.entry = u[i].entry]
    BY Fields DEF InvocationFields
<1> QED
    BY <1>1, Handled, LogHandles DEF Moves

LEMMA LogStep ==
    ASSUME StoresInv, NEW i \in Invokers, u[i].store = "log", StateLog(i)
    PROVE  StoresInv'
<1>1. NothingUnseenDestroyed' /\ u[i].st \in {"lock", "log open", "log check", "log write"} /\ u[i].st # "end"
    BY NothingMore DEF StateLog, DuplicateDirectory, open_existing_log_file, create_log_file, OpenStateLog,
                       append_record_for_logger, Looks
<1>2. CASE UNCHANGED <<tree, fresh>> /\ Alter(i, Fail(i))
    BY <1>1, <1>2, SameTree, FailStep
<1>3. CASE DuplicateDirectory(i) \/ OpenStateLog(i)
  <2>1. UNCHANGED <<tree, fresh>> /\ TreeMoves
      BY <1>3, LookStep DEF DuplicateDirectory, OpenStateLog
  <2>2. Alter(i, Fail(i)) \/ Moves(i, "log open") \/ Moves(i, "log write")
      BY <1>3 DEF DuplicateDirectory, OpenStateLog
  <2> QED
      BY <1>1, <1>2, <2>1, <2>2, LogMoves
<1>4. CASE open_existing_log_file(i)
  <2>1. UNCHANGED <<tree, fresh>> /\ TreeMoves /\ LogFile(i) \in DOMAIN tree
      BY <1>4, LookStep DEF open_existing_log_file, Exists
  <2> DEFINE entry == <<tree[LogFile(i)]>>
  <2>2. entry \in Seq(KnownNodes(fresh')) /\ AllPinned(entry, tree')
      BY <2>1, NewNode
  <2>3. Alter(i, Fail(i)) \/ Alter(i, [u[i] EXCEPT !.st = "log check", !.entry = entry])
      BY <1>4 DEF open_existing_log_file
  <2> HIDE DEF entry
  <2> QED
      BY <1>1, <1>2, <2>1, <2>2, <2>3, LogHandles
<1>5. CASE create_log_file(i)
  <2> DEFINE entry == <<tree'[LogFile(i)]>>
  <2>1. CASE /\ Exists(DirectoryOf(i)) /\ ~Exists(LogFile(i)) /\ fresh' = fresh + 1
             /\ tree' = AddEntry(tree, LogFile(i), Made("file", "private", 0))
             /\ Alter(i, [u[i] EXCEPT !.st = "log check", !.entry = entry])
    <3>1. ASeq(LogFile(i)) /\ LogFile(i) \notin DOMAIN tree
        BY <2>1, Fields, AppendFacts DEF LogFile, Exists
    <3>2. TreeMoves
        BY <2>1, <3>1, MadeTree
    <3>3. entry \in Seq(KnownNodes(fresh')) /\ AllPinned(entry, tree')
        BY <2>1, <3>2, AddedHere, NewNode
    <3> HIDE DEF entry
    <3> QED
        BY <1>1, <2>1, <3>2, <3>3, LogHandles
  <2> QED
      BY <1>2, <1>5, <2>1 DEF create_log_file
<1>6. CASE append_record_for_logger(i)
  <2> DEFINE p == LogFile(i)
             n == [tree[p] EXCEPT !.data = fresh]
  <2>1. CASE /\ revalidate_log_name(i) /\ tree' = Changed(tree, p, n) /\ fresh' = fresh + 1
             /\ Alter(i, Halt(i, "ok"))
    <3>1. p \in DOMAIN tree /\ tree[p] \in Nodes /\ fresh \in Nat
        BY <2>1, Fields DEF Exists, revalidate_log_name
    <3>2. n \in Nodes /\ SameNode(n, tree[p])
        BY <3>1 DEF Nodes, SameNode
    <3> HIDE DEF n, p
    <3>3. TreeMoves
        BY <2>1, <3>1, <3>2, ChangedTree
    <3> QED
        BY <1>1, <2>1, <3>3, HaltStep
  <2> QED
      BY <1>2, <1>6, <2>1 DEF append_record_for_logger
<1> QED
    BY <1>3, <1>4, <1>5, <1>6 DEF StateLog

LEMMA OthersStep ==
    ASSUME StoresInv, Foreign(DOMAIN tree, UserPins), UNCHANGED userVars
    PROVE  StoresInv'
<1>1. TreeMoves /\ u' = u /\ destroyed' = destroyed
    BY ForeignMoves DEF userVars
<1>2. NothingUnseenDestroyed'
    BY <1>1, NothingMore
<1>3. \A i \in Invokers : InvocationInv(u'[i], tree', fresh')
    BY <1>1, InvocationStays
<1>4. DOMAIN u' = Invokers
    BY <1>1 DEF StoresInv
<1> QED
    BY <1>1, <1>2, <1>3, <1>4 DEF StoresInv, TreeMoves

LEMMA KillStep ==
    ASSUME StoresInv, NEW i \in Invokers, Kill(i)
    PROVE  StoresInv'
<1>1. TreeMoves /\ NothingUnseenDestroyed'
    BY SameTree, NothingMore DEF Kill
<1> QED
    BY <1>1, HaltStep DEF Kill

LEMMA StoresStart ==
    ASSUME StoresInit
    PROVE  StoresInv
<1>1. TreeInv(tree, fresh) /\ StampInv(tree, fresh)
    BY DEF StoresInit, StampInv, TreeOK, TreeInv, ASeq
<1>2. DOMAIN u = Invokers
    BY DEF StoresInit
<1>3. ASSUME NEW i \in Invokers PROVE InvocationInv(u[i], tree, fresh)
  <2>1. \/ \E op, env : u[i] = Preference(op, env)
        \/ \E op \in {"list", "register", "update", "forget", "acquire", "generate"}, env \in Environment :
              u[i] = Association(op, env)
        \/ \E env : u[i] = Invocation("log", "log", env)
      BY DEF StoresInit
  <2> QED
      BY <2>1, FreshPreference, FreshAssociation, FreshLog
<1>4. NothingUnseenDestroyed
    BY DEF StoresInit, NothingUnseenDestroyed
<1> QED
    BY <1>1, <1>2, <1>3, <1>4 DEF StoresInv

LEMMA StoresStep ==
    ASSUME StoresInv, [StoresNext]_<<tree, fresh, moves, userVars>>
    PROVE  StoresInv'
<1>1. CASE UNCHANGED <<tree, fresh, moves, userVars>>
    BY <1>1 DEF StoresInv, userVars, NothingUnseenDestroyed
<1>2. CASE \E i \in Invokers : PreferenceStep(i)
    BY <1>2, PreferenceStepInv
<1>3. CASE \E i \in Invokers : AssociationStep(i)
    BY <1>3, AssociationStepInv
<1>4. CASE \E i \in Invokers : Kill(i)
    BY <1>4, KillStep
<1>5. CASE \E i \in Invokers : u[i].store = "log" /\ (PrepareDirectory(i) \/ StateLog(i))
    BY <1>5, PrepareStep, LogStep
<1>6. CASE Foreign(DOMAIN tree, UserPins) /\ UNCHANGED userVars
    BY <1>6, OthersStep
<1> QED
    BY <1>1, <1>2, <1>3, <1>4, <1>5, <1>6 DEF StoresNext

LEMMA StoresInvariant == StoresSpec => []StoresInv
<1>1. StoresInit => StoresInv
    BY StoresStart
<1>2. StoresInv /\ [StoresNext]_<<tree, fresh, moves, userVars>> => StoresInv'
    BY StoresStep
<1> QED
    BY <1>1, <1>2, PTL DEF StoresSpec

\* However many invocations read, edit, replace, remove, register, acquire
\* and forget at once, are killed, and see the user's own programs change
\* any name below HOME at any time: an unlink of ours takes away only a
\* temporary that the invocation made itself, or a file with the content
\* that the invocation had read (source_preference.cpp,
\* local_patch_association.cpp).
THEOREM NothingUnseenIsDestroyed == StoresSpec => []NothingUnseenDestroyed
<1>1. StoresInv => NothingUnseenDestroyed
    BY DEF StoresInv
<1> QED
    BY <1>1, StoresInvariant, PTL

\* A series of patches that is answered for a build, or that a new record
\* names, lay there as a whole at one moment, with its record for a build,
\* whatever the others did while its files were read one after another
\* (local_patch_association.cpp).
THEOREM SeriesExisted == StoresSpec => []AcquiredSeriesExisted
<1>1. StoresInv => AcquiredSeriesExisted
    BY DEF StoresInv, InvocationInv, SeriesInv, AcquiredSeriesExisted
<1> QED
    BY <1>1, StoresInvariant, PTL
==============================================================================
