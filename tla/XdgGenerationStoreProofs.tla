---------------------- MODULE XdgGenerationStoreProofs ----------------------
(***************************************************************************)
(* Proofs about the immutable-generation store, for every number of        *)
(* clients, documents and generations.                                     *)
(***************************************************************************)
EXTENDS XdgGenerationStore, WellFoundedInduction, TLAPS

-----------------------------------------------------------------------------
(* The newest record of a chain. *)

(* Generation numbers are bounded, so that a non-empty set of entries has   *)
(* one of the largest generation.                                           *)
LEMMA NewestExists ==
  ASSUME NEW S \in SUBSET Entry, S # {}
  PROVE  \E e \in S : \A x \in S : x.gen <= e.gen
<1> DEFINE T == {MaxGen - x.gen : x \in S}
<1>1. \A x \in S : x.gen \in 0..MaxGen
  BY DEF Entry
<1>2. MaxGen \in Nat
  BY ConstantsAssumption
<1>3. T \in SUBSET Nat /\ T # {}
  BY <1>1, <1>2
<1>4. PICK n \in T : \A m \in T : n <= m
  <2> HIDE DEF T
  <2> DEFINE Less == OpToRel(<, Nat)
  <2>1. \A i, j \in Nat : i < j => <<i, j>> \in Less
    BY DEF OpToRel
  <2>2. IsWellFoundedOn(Less, Nat)
    BY NatLessThanWellFounded
  <2> HIDE DEF Less
  <2>3. PICK n \in T : \A m \in T : <<m, n>> \notin Less
    BY <1>3, <2>2, WFMin
  <2>4. ASSUME NEW m \in T PROVE n <= m
    <3>1. n \in Nat /\ m \in Nat
      BY <1>3, <2>3
    <3>2. ~(m < n)
      BY <2>1, <2>3, <3>1
    <3> QED BY <3>1, <3>2
  <2> QED BY <2>3, <2>4
<1>5. PICK e \in S : n = MaxGen - e.gen
  BY <1>4
<1>6. \A x \in S : n <= MaxGen - x.gen
  BY <1>4
<1> QED BY <1>1, <1>2, <1>5, <1>6

(* The tip of a proven chain is its newest record. *)
LEMMA ChainTipIsNewest ==
  ASSUME NEW S \in SUBSET Entry, S # {}, Chain(S) = S
  PROVE  /\ ChainTip(S) \in S
         /\ \A x \in S : x.gen <= ChainTip(S).gen
<1>1. \E e \in Chain(S) : \A x \in Chain(S) : x.gen <= e.gen
  BY NewestExists
<1> QED BY <1>1 DEF ChainTip

LEMMA TipOfType ==
  ASSUME NEW S \in SUBSET Entry, S # {} => Chain(S) = S
  PROVE  TipOf(S) \in Entry \cup {NoRecord}
BY ChainTipIsNewest DEF TipOf

-----------------------------------------------------------------------------
(* Type correctness.  TypeOK is not inductive by itself: that a successor's *)
(* number fits depends on the comparison made two stages earlier, and that  *)
(* a lookup returns a record depends on the proof it has concluded.         *)

Proving == {"scan", "inspect", "collect"}

(* What a client's own variables tell about the stage it has reached. *)
LocalOK(c) ==
  /\ pc[c] \in {"idle", "open", "lock", "enter", "readtip", "compare",
                "prepare", "recheck"} => round[c] = 1
  /\ pc[c] = "readtip" => task[c] = "read"
  /\ pc[c] \in {"compare", "prepare", "recheck", "link", "verify", "sync"}
       => task[c] = "publish"
  /\ pc[c] # "idle" /\ task[c] = "publish" =>
       /\ want[c] \in IF c \in Newer THEN FutureDocuments ELSE Documents
       /\ known[c] # NotRead
  /\ pc[c] = "prepare" /\ known[c] # NoRecord => known[c].gen < MaxGen
  /\ task[c] = "publish" /\ (\/ pc[c] \in {"recheck", "link", "verify"}
                             \/ pc[c] \in Proving /\ round[c] # 1)
       => tmp[c] \in Entry
  /\ pc[c] = "finish" /\ task[c] = "read" /\ acc[c] # {}
       => Chain(acc[c]) = acc[c]

TypeInv == TypeOK /\ \A c \in Clients : LocalOK(c)

LEMMA EntryParts ==
  ASSUME NEW e \in Entry
  PROVE  /\ Leaf(e) \in LeafName /\ Status(e) \in FileStatus
         /\ BindingOf(e) \in Binding
BY DEF Entry, Leaf, LeafName, Status, FileStatus, BindingOf, Binding

(* Returning from an operation keeps the types. *)
LEMMA ReturnType ==
  ASSUME TypeInv, NEW c \in Clients, NEW kind \in Outcomes,
         NEW entry \in Entry \cup {NoRecord}, Return(c, kind, entry),
         UNCHANGED <<place, dirs, made, synced, clock, nextIno, mutations>>,
         crashes' \in Nat
  PROVE  TypeInv'
<1>1. TypeOK'
  BY DEF TypeInv, TypeOK, Return, ClearLocals, Goto, Stages
<1>2. ASSUME NEW x \in Clients PROVE LocalOK(x)'
  <2>1. CASE x = c
    BY <2>1 DEF TypeInv, TypeOK, LocalOK, Return, ClearLocals, Goto, Proving
  <2>2. CASE x # c
    BY <2>2 DEF TypeInv, TypeOK, LocalOK, Return, ClearLocals, Goto
  <2> QED BY <2>1, <2>2
<1> QED BY <1>1, <1>2 DEF TypeInv

LEMMA FailType ==
  ASSUME TypeInv, NEW c \in Clients, Fail(c) \/ FailUnsafe(c), UNCHANGED fsVars
  PROVE  TypeInv'
<1>1. tmp[c] \in Entry \cup {NoRecord} /\ crashes \in Nat
  BY DEF TypeInv, TypeOK
<1>2. \E kind \in Outcomes, entry \in Entry \cup {NoRecord} :
        Return(c, kind, entry)
  BY <1>1 DEF Fail, FailUnsafe, Outcomes
<1> QED BY <1>1, <1>2, ReturnType DEF fsVars

(* Every step of a client's operation keeps the types. *)
LEMMA StepBeforeType ==
  ASSUME TypeInv, NEW c \in Clients, StepBefore(c)
  PROVE  TypeInv'
<1> USE DEF TypeInv
<1>1. CASE OpenStore(c)
  BY <1>1 DEF OpenStore, TypeOK, LocalOK, Goto, fsVars, local, Stages, Proving
<1>2. CASE LockStore(c)
  <2>1. CASE Fail(c)
    BY <1>2, <2>1, FailType DEF LockStore
  <2>2. CASE ~Fail(c)
    <3>7. TypeOK'
      BY <1>2, <2>2 DEF LockStore, TypeOK, Goto, fsVars, local, Stages
    <3>8. LocalOK(c)'
      BY <1>2, <2>2 DEF LockStore, TypeOK, LocalOK, Goto, fsVars, local, Proving
    <3>9. \A x \in Clients \ {c} : LocalOK(x)'
      BY <1>2, <2>2 DEF LockStore, TypeOK, LocalOK, Goto, fsVars, local
    <3> QED BY <3>7, <3>8, <3>9
  <2> QED BY <2>1, <2>2
<1>3. CASE EnterUnit(c)
  <2>1. CASE Fail(c) /\ UNCHANGED made
    BY <1>3, <2>1, FailType DEF EnterUnit, fsVars
  <2>2. CASE Return(c, "Missing", NoRecord) /\ UNCHANGED made
    BY <1>3, <2>2, ReturnType DEF EnterUnit, Outcomes, TypeOK
  <2>3. CASE Goto(c, "scan")
    <3>1. /\ made' = made \cup {at[c]}
          /\ UNCHANGED <<place, dirs, synced, clock, nextIno, mutations, crashes,
                         task, at, held, known, want, local, result, opsLeft>>
      <4>1. ~(IF at[c] = place THEN Return(c, "Missing", NoRecord) ELSE Fail(c))
        BY <1>3, <2>3 DEF EnterUnit, Fail, Return, Goto, TypeOK
      <4> QED BY <1>3, <4>1 DEF EnterUnit
    <3>2. TypeOK'
      BY <2>3, <3>1 DEF TypeOK, Goto, local, Stages
    <3>3. \A x \in Clients : LocalOK(x)'
      BY <1>3, <2>3, <3>1 DEF EnterUnit, TypeOK, LocalOK, Goto, local, Proving
    <3> QED BY <3>2, <3>3
  <2> QED BY <1>3, <2>1, <2>2, <2>3 DEF EnterUnit
<1>4. CASE Scan(c)
  <2>1. CASE Fail(c)
    BY <1>4, <2>1, FailType DEF Scan
  <2>2. CASE ~Fail(c)
    <3>1. {Leaf(e) : e \in dirs[at[c]]} \in SUBSET LeafName
      BY EntryParts DEF TypeOK
    <3>2. /\ todo' = [todo EXCEPT ![c] = {Leaf(e) : e \in dirs[at[c]]}]
          /\ snap' = [snap EXCEPT ![c] = {}]
          /\ acc' = [acc EXCEPT ![c] = {}]
          /\ Goto(c, "inspect")
          /\ UNCHANGED <<fsVars, task, at, held, known, want, round, token, raw,
                         tmp, result, opsLeft>>
      BY <1>4, <2>2 DEF Scan
    <3>3. TypeOK'
      BY <3>1, <3>2 DEF TypeOK, Goto, fsVars, Stages
    <3>4. \A x \in Clients : LocalOK(x)'
      BY <1>4, <3>2 DEF Scan, TypeOK, LocalOK, Goto, fsVars, Proving
    <3> QED BY <3>3, <3>4
  <2> QED BY <2>1, <2>2
<1>5. CASE Inspect(c)
  <2>1. CASE Fail(c)
    BY <1>5, <2>1, FailType DEF Inspect
  <2>2. CASE ~Fail(c)
    <3>1. \A e \in dirs[at[c]] : Status(e) \in FileStatus
      BY EntryParts DEF TypeOK
    <3>2. PICK done \in SUBSET LeafName, seen \in SUBSET FileStatus :
            /\ todo' = [todo EXCEPT ![c] = @ \ done]
            /\ snap' = [snap EXCEPT ![c] = @ \cup seen]
      <4>1. PICK leaf \in todo[c] :
              /\ todo' = [todo EXCEPT ![c] = @ \ {leaf}]
              /\ snap' = [snap EXCEPT ![c] = @ \cup {Status(e) :
                   e \in {e \in dirs[at[c]] :
                     Leaf(e) = leaf /\ (leaf.gen = 0 \/ e.nlink = 1)}}]
        BY <1>5, <2>2 DEF Inspect
      <4>2. /\ {leaf} \in SUBSET LeafName
            /\ {Status(e) : e \in {e \in dirs[at[c]] :
                  Leaf(e) = leaf /\ (leaf.gen = 0 \/ e.nlink = 1)}}
               \in SUBSET FileStatus
        BY <3>1, <4>1 DEF TypeOK
      <4> QED BY <4>1, <4>2
    <3>3. UNCHANGED <<fsVars, pc, task, at, held, known, want, round, acc,
                      token, raw, tmp, result, opsLeft>>
      BY <1>5, <2>2 DEF Inspect
    <3>4. TypeOK'
      BY <3>2, <3>3 DEF TypeOK, fsVars
    <3>5. \A x \in Clients : LocalOK(x)'
      BY <3>3 DEF TypeOK, LocalOK, fsVars
    <3> QED BY <3>4, <3>5
  <2> QED BY <2>1, <2>2
<1>6. CASE Survey(c)
  <2>1. CASE FailUnsafe(c)
    BY <1>6, <2>1, FailType DEF Survey
  <2>2. CASE ~FailUnsafe(c)
    BY <1>6, <2>2
    DEF Survey, TypeOK, LocalOK, Goto, fsVars, local, Stages, Proving
  <2> QED BY <2>1, <2>2
<1>7. CASE ReadRecord(c)
  <2>1. CASE Fail(c)
    BY <1>7, <2>1, FailType DEF ReadRecord
  <2>2. CASE ~Fail(c)
    <3>7. TypeOK'
      BY <1>7, <2>2 DEF ReadRecord, TypeOK, Goto, fsVars, local, Stages
    <3>8. LocalOK(c)'
      BY <1>7, <2>2 DEF ReadRecord, TypeOK, LocalOK, Goto, fsVars, local, Proving
    <3>9. \A x \in Clients \ {c} : LocalOK(x)'
      BY <1>7, <2>2 DEF ReadRecord, TypeOK, LocalOK, Goto, fsVars, local
    <3> QED BY <3>7, <3>8, <3>9
  <2> QED BY <2>1, <2>2
<1>8. CASE Conclude(c)
  <2>1. CASE Fail(c) \/ FailUnsafe(c)
    BY <1>8, <2>1, FailType DEF Conclude
  <2>2. CASE ~(Fail(c) \/ FailUnsafe(c))
    <3>1. AfterProof(c) \in Stages
      BY DEF AfterProof, Stages
    <3>2. acc[c] # {} => Chain(acc[c]) = acc[c]
      BY <1>8, <2>2 DEF Conclude, ProvenChain
    <3>3. /\ token' = [token EXCEPT ![c] = acc[c]]
          /\ Goto(c, AfterProof(c))
          /\ round' = [round EXCEPT ![c] =
               IF AfterProof(c) = "scan" THEN 2 ELSE @]
          /\ UNCHANGED <<fsVars, task, at, held, known, want, todo, snap, acc,
                         raw, tmp, result, opsLeft>>
      BY <1>8, <2>2 DEF Conclude
    <3>4. TypeOK'
      BY <3>1, <3>3 DEF TypeOK, Goto, fsVars
    <3>5. LocalOK(c)'
      BY <1>8, <3>2, <3>3
      DEF Conclude, TypeOK, LocalOK, Goto, fsVars, AfterProof, Proving
    <3>6. \A x \in Clients \ {c} : LocalOK(x)'
      BY <3>3 DEF TypeOK, LocalOK, Goto, fsVars
    <3> QED BY <3>4, <3>5, <3>6
  <2> QED BY <2>1, <2>2
<1>9. CASE ReadTip(c)
  <2>1. CASE Fail(c)
    BY <1>9, <2>1, FailType DEF ReadTip
  <2>2. CASE ~Fail(c)
    <3>1. \A e \in dirs[at[c]] : e.doc \in AllDocuments
      BY DEF TypeOK, Entry
    <3>2. PICK doc \in AllDocuments :
            /\ raw' = [raw EXCEPT ![c] = doc]
            /\ round' = [round EXCEPT ![c] = 2]
            /\ Goto(c, "scan")
            /\ UNCHANGED <<fsVars, task, at, held, known, want, todo, snap, acc,
                           token, tmp, result, opsLeft>>
      BY <1>9, <2>2, <3>1 DEF ReadTip
    <3>3. TypeOK'
      BY <3>2 DEF TypeOK, Goto, fsVars, Stages
    <3>4. \A x \in Clients : LocalOK(x)'
      BY <1>9, <3>2 DEF ReadTip, TypeOK, LocalOK, Goto, fsVars, Proving
    <3> QED BY <3>3, <3>4
  <2> QED BY <2>1, <2>2
<1>10. CASE FinishRead(c)
  <2>1. CASE Fail(c)
    BY <1>10, <2>1, FailType DEF FinishRead
  <2>2. CASE ~Fail(c)
    <3>1. TipOf(acc[c]) \in Entry \cup {NoRecord}
      BY <1>10, TipOfType DEF FinishRead, TypeOK, LocalOK
    <3>2. PICK kind \in Outcomes : Return(c, kind, TipOf(acc[c]))
      BY <1>10, <2>2 DEF FinishRead, Outcomes
    <3> QED BY <1>10, <3>1, <3>2, ReturnType DEF FinishRead, fsVars, TypeOK
  <2> QED BY <2>1, <2>2
<1>11. CASE ComparePredecessor(c)
  <2>1. CASE Fail(c)
    BY <1>11, <2>1, FailType DEF ComparePredecessor
  <2>2. CASE ~Fail(c)
    BY <1>11, <2>2
    DEF ComparePredecessor, TypeOK, LocalOK, Goto, fsVars, local, Stages,
        Proving
  <2> QED BY <2>1, <2>2
<1>12. CASE PrepareRecord(c)
  <2>1. want[c] \in AllDocuments /\ known[c] \in Entry \cup {NoRecord}
    BY <1>12 DEF PrepareRecord, TypeOK, LocalOK, AllDocuments
  <2>2. NewLeaf(c) \in LeafName
    <3>1. CASE known[c] = NoRecord
      BY <3>1, ConstantsAssumption
      DEF NewLeaf, OriginLeaf, NoPredecessor, LeafName, Binding
    <3>2. CASE known[c] # NoRecord
      <4>1. known[c].gen + 1 \in 0..MaxGen
        BY <1>12, <2>1, <3>2, ConstantsAssumption
        DEF PrepareRecord, TypeOK, LocalOK, Entry
      <4>2. BindingOf(known[c]) \in Binding
        BY <2>1, <3>2, EntryParts
      <4> QED BY <3>2, <4>1, <4>2 DEF NewLeaf, SuccessorLeaf, LeafName
    <3> QED BY <3>1, <3>2
  <2>3. tmp'[c] \in Entry
    BY <1>12, <2>1, <2>2 DEF PrepareRecord, TypeOK, File, Entry, LeafName
  <2>4. TypeOK'
    BY <1>12, <2>3 DEF PrepareRecord, TypeOK, Goto, Stages
  <2>5. \A x \in Clients : LocalOK(x)'
    BY <1>12, <2>3 DEF PrepareRecord, TypeOK, LocalOK, Goto, Proving
  <2> QED BY <2>4, <2>5
<1>13. CASE RecheckPredecessor(c)
  <2>1. CASE Fail(c)
    BY <1>13, <2>1, FailType DEF RecheckPredecessor
  <2>2. CASE ~Fail(c)
    <3>1. /\ round' = [round EXCEPT ![c] = 2]
          /\ Goto(c, "scan")
          /\ UNCHANGED <<fsVars, task, at, held, known, want, todo, snap, acc,
                         token, raw, tmp, result, opsLeft>>
      BY <1>13, <2>2 DEF RecheckPredecessor
    <3>2. TypeOK'
      BY <3>1 DEF TypeOK, Goto, fsVars, Stages
    <3>3. \A x \in Clients : LocalOK(x)'
      BY <1>13, <3>1 DEF RecheckPredecessor, TypeOK, LocalOK, Goto, fsVars, Proving
    <3> QED BY <3>2, <3>3
  <2> QED BY <2>1, <2>2
<1>14. CASE Link(c)
  <2>1. CASE Fail(c) /\ UNCHANGED fsVars
    BY <1>14, <2>1, FailType
  <2>2. CASE ~(Fail(c) /\ UNCHANGED fsVars)
    <3>1. tmp[c] \in Entry
      BY <1>14 DEF Link, LocalOK
    <3>2. PICK tick \in Ticks :
            /\ clock' = clock + tick
            /\ tmp' = [tmp EXCEPT ![c] =
                         File(@, @.ino, clock + tick, 1, @.doc)]
            /\ dirs' = [dirs EXCEPT ![at[c]] = @ \cup {tmp'[c]}]
            /\ Goto(c, "verify")
            /\ UNCHANGED <<place, made, synced, nextIno, mutations, crashes,
                           task, at, held, known, want, round, todo, snap, acc,
                           token, raw, result, opsLeft>>
      BY <1>14, <2>2 DEF Link
    <3>3. clock' \in Nat
      <4>1. clock \in Nat /\ tick \in Nat
        BY ConstantsAssumption DEF TypeOK
      <4> QED BY <3>2, <4>1
    <3>4. tmp'[c] \in Entry
      BY <3>1, <3>2, <3>3 DEF TypeOK, File, Entry
    <3>5. TypeOK'
      BY <3>2, <3>3, <3>4 DEF TypeOK, Goto, Stages
    <3>6. \A x \in Clients : LocalOK(x)'
      BY <1>14, <3>2, <3>4 DEF Link, TypeOK, LocalOK, Goto, Proving
    <3> QED BY <3>5, <3>6
  <2> QED BY <2>1, <2>2
<1>15. CASE VerifyCommit(c)
  <2>1. CASE Fail(c)
    BY <1>15, <2>1, FailType DEF VerifyCommit
  <2>2. CASE ~Fail(c)
    <3>1. PICK e \in dirs[at[c]] :
            /\ tmp' = [tmp EXCEPT ![c] = File(e, e.ino, e.ctime, 1, want[c])]
            /\ token' = [token EXCEPT ![c] = @ \cup {tmp'[c]}]
            /\ round' = [round EXCEPT ![c] = 3]
            /\ Goto(c, "scan")
            /\ UNCHANGED <<task, at, held, known, want, todo, snap, acc, raw,
                           result, opsLeft>>
      BY <1>15, <2>2 DEF VerifyCommit
    <3>2. tmp'[c] \in Entry
      <4>1. e \in Entry /\ want[c] \in AllDocuments
        BY <1>15, <3>1 DEF VerifyCommit, TypeOK, LocalOK, AllDocuments
      <4> QED BY <3>1, <4>1 DEF TypeOK, File, Entry
    <3>3. TypeOK'
      <4>1. UNCHANGED fsVars
        BY <1>15 DEF VerifyCommit
      <4>2. PICK t \in Entry : /\ tmp' = [tmp EXCEPT ![c] = t]
                              /\ token' = [token EXCEPT ![c] = @ \cup {t}]
        BY <3>1, <3>2 DEF TypeOK
      <4> QED BY <3>1, <4>1, <4>2 DEF TypeOK, Goto, Stages, fsVars
    <3>4. \A x \in Clients : LocalOK(x)'
      BY <1>15, <3>1, <3>2
      DEF VerifyCommit, TypeOK, LocalOK, Goto, Proving, fsVars
    <3> QED BY <3>3, <3>4
  <2> QED BY <2>1, <2>2
<1>16. CASE SyncUnit(c)
  <2>1. {Leaf(e) : e \in dirs[at[c]]} \in SUBSET LeafName
    BY EntryParts DEF TypeOK
  <2> QED BY <1>16, <2>1
          DEF SyncUnit, TypeOK, LocalOK, Goto, local, Stages, Proving
<1> QED BY <1>1, <1>2, <1>3, <1>4, <1>5, <1>6, <1>7, <1>8, <1>9, <1>10, <1>11,
           <1>12, <1>13, <1>14, <1>15, <1>16 DEF StepBefore

(* Lock-free processes leave directories of entries behind, too. *)
LEMMA InterfereDirs ==
  ASSUME TypeOK, NEW d \in DirIds, NEW tick \in Ticks, Interfere(d, tick)
  PROVE  /\ dirs' \in [DirIds -> SUBSET Entry] /\ place' \in DirIds
         /\ clock' \in Nat /\ nextIno' \in Nat \ {0} /\ mutations' \in Nat
<1> DEFINE now == clock + tick
<1>1. now \in Nat /\ clock' = now
  <2>1. clock \in Nat /\ tick \in Nat
    BY ConstantsAssumption DEF TypeOK
  <2> QED BY <2>1 DEF Interfere
<1>2. /\ nextIno \in Nat \ {0} /\ place \in DirIds
      /\ dirs \in [DirIds -> SUBSET Entry]
  BY DEF TypeOK
<1>3. mutations' \in Nat
  BY DEF TypeOK, Interfere
<1>4. \/ RewriteInPlace(d, now) \/ RenameOver(d, now) \/ ToggleAlias(d, now)
      \/ DeleteEntry(d) \/ AddEntry(d, now) \/ ExchangeDirectory(d)
  BY DEF Interfere
<1> HIDE DEF now
<1>5. place' \in DirIds /\ nextIno' \in Nat \ {0}
  BY <1>2, <1>4 DEF RewriteInPlace, RenameOver, ToggleAlias, DeleteEntry,
                    AddEntry, ExchangeDirectory
<1>6. ASSUME NEW e, NEW f \in Entry, Swap(d, e, f)
      PROVE  dirs' \in [DirIds -> SUBSET Entry]
  BY <1>2, <1>6 DEF Swap
<1>7. ASSUME NEW leaf \in LeafName \cup Entry, NEW ino \in Nat, NEW links \in Nat,
             NEW doc \in AllDocuments
      PROVE  File(leaf, ino, now, links, doc) \in Entry
  BY <1>1 DEF File, Entry, LeafName
<1>8. \A e \in dirs[d] : e \in Entry /\ e.ino \in Nat /\ e.nlink \in Nat
                         /\ e.doc \in AllDocuments
  BY <1>2 DEF Entry
<1>9. dirs' \in [DirIds -> SUBSET Entry]
  <2>1. CASE RewriteInPlace(d, now)
    BY <1>6, <1>7, <1>8, <2>1 DEF RewriteInPlace
  <2>2. CASE RenameOver(d, now)
    BY <1>2, <1>6, <1>7, <1>8, <2>2 DEF RenameOver
  <2>3. CASE ToggleAlias(d, now)
    BY <1>6, <1>7, <1>8, <2>3 DEF ToggleAlias
  <2>4. CASE DeleteEntry(d)
    BY <1>2, <2>4 DEF DeleteEntry
  <2>5. CASE AddEntry(d, now)
    <3>0. PICK e \in dirs[d], doc \in AllDocuments :
          \E leaf \in [gen : {0, e.gen, e.gen + 1}, bind : {e.bind, BindingOf(e)}] :
            /\ leaf.gen <= MaxGen
            /\ dirs' = [dirs EXCEPT ![d] =
                          @ \cup {File(leaf, nextIno, now, 1, doc)}]
      BY <2>5 DEF AddEntry
    <3>1. PICK leaf \in [gen : {0, e.gen, e.gen + 1}, bind : {e.bind, BindingOf(e)}] :
            /\ leaf.gen <= MaxGen
            /\ dirs' = [dirs EXCEPT ![d] =
                          @ \cup {File(leaf, nextIno, now, 1, doc)}]
      BY <3>0
    <3>2. leaf \in LeafName
      BY <1>8, <3>1, ConstantsAssumption, EntryParts DEF Entry, LeafName
    <3>3. File(leaf, nextIno, now, 1, doc) \in Entry
      BY <1>2, <1>7, <3>2
    <3> QED BY <1>2, <3>1, <3>3
  <2>6. CASE ExchangeDirectory(d)
    BY <1>2, <2>6 DEF ExchangeDirectory
  <2> QED BY <1>4, <2>1, <2>2, <2>3, <2>4, <2>5, <2>6
<1> QED BY <1>1, <1>3, <1>5, <1>9

(* Every step of the system keeps the types. *)
LEMMA NextType ==
  ASSUME TypeInv, [Next]_vars
  PROVE  TypeInv'
<1> USE DEF TypeInv
<1>1. ASSUME NEW c \in Clients, StepBefore(c) PROVE TypeInv'
  BY <1>1, StepBeforeType
<1>2. ASSUME NEW c \in Clients, FinishPublish(c) PROVE TypeInv'
  <2>1. CASE Fail(c)
    BY <1>2, <2>1, FailType DEF FinishPublish
  <2>2. CASE Return(c, "Published", tmp[c])
    <3>1. tmp[c] \in Entry \cup {NoRecord} /\ crashes' \in Nat
      BY <1>2 DEF TypeOK, FinishPublish, fsVars
    <3> QED BY <1>2, <2>2, <3>1, ReturnType DEF FinishPublish, fsVars, Outcomes
  <2> QED BY <1>2, <2>1, <2>2 DEF FinishPublish
<1>3. ASSUME NEW c \in Clients, StartRead(c) PROVE TypeInv'
  <2>1. TypeOK'
    BY <1>3 DEF StartRead, TypeOK, Goto, fsVars, local, Stages, Outcomes
  <2>2. \A x \in Clients : LocalOK(x)'
    BY <1>3 DEF StartRead, TypeOK, LocalOK, Goto, fsVars, local, Proving
  <2> QED BY <2>1, <2>2
<1>4. ASSUME NEW c \in Clients, NEW d \in AllDocuments, StartPublish(c, d)
      PROVE  TypeInv'
  <2>1. TypeOK'
    BY <1>4 DEF StartPublish, TypeOK, Goto, fsVars, local, Stages, Outcomes
  <2>2. \A x \in Clients : LocalOK(x)'
    BY <1>4 DEF StartPublish, TypeOK, LocalOK, Goto, fsVars, local, Proving
  <2> QED BY <2>1, <2>2
<1>5. ASSUME NEW c \in Clients, OperationFails(c) PROVE TypeInv'
  BY <1>5, FailType DEF OperationFails
<1>6. ASSUME NEW c \in Clients, Kill(c) PROVE TypeInv'
  <2>1. crashes' \in Nat
    BY <1>6 DEF Kill, TypeOK
  <2> QED BY <1>6, <2>1, ReturnType DEF Kill, Outcomes
<1>7. CASE PowerLoss
  <2>1. PICK kept \in SUBSET dirs[place] :
          /\ dirs' = [dirs EXCEPT ![place] = kept]
          /\ synced' = [synced EXCEPT ![place] = {Leaf(e) : e \in kept}]
    BY <1>7 DEF PowerLoss
  <2>2. /\ dirs' \in [DirIds -> SUBSET Entry]
        /\ synced' \in [DirIds -> SUBSET LeafName]
    <3>1. kept \in SUBSET Entry
      BY <2>1 DEF TypeOK
    <3>2. {Leaf(e) : e \in kept} \in SUBSET LeafName
      BY <3>1, EntryParts
    <3> QED BY <2>1, <3>1, <3>2 DEF TypeOK
  <2>3. /\ crashes' \in Nat
        /\ pc' = [c \in Clients |-> "idle"]
        /\ held' = [c \in Clients |-> "none"]
        /\ known' = [c \in Clients |-> NotRead]
        /\ result' = [c \in Clients |-> [kind |-> "none", entry |-> NoRecord]]
        /\ round' = [c \in Clients |-> 1]
        /\ todo' = [c \in Clients |-> {}] /\ snap' = [c \in Clients |-> {}]
        /\ acc' = [c \in Clients |-> {}] /\ token' = [c \in Clients |-> {}]
        /\ raw' = [c \in Clients |-> NoRecord]
        /\ tmp' = [c \in Clients |-> NoRecord]
        /\ UNCHANGED <<place, made, clock, nextIno, mutations, task, at, want,
                       opsLeft>>
    BY <1>7 DEF PowerLoss, TypeOK
  <2>4. TypeOK'
    BY <2>2, <2>3 DEF TypeOK, Stages, Outcomes
  <2>5. \A x \in Clients : LocalOK(x)'
    BY <2>3 DEF LocalOK, Proving
  <2> QED BY <2>4, <2>5
<1>8. ASSUME NEW d \in DirIds, NEW tick \in Ticks, Interfere(d, tick)
      PROVE  TypeInv'
  <2>1. UNCHANGED <<made, synced, crashes, pc, task, at, held, known, want,
                    local, result, opsLeft>>
    BY <1>8 DEF Interfere
  <2>2. TypeOK'
    BY <1>8, <2>1, InterfereDirs DEF TypeOK, local
  <2>3. \A x \in Clients : LocalOK(x)'
    BY <2>1 DEF LocalOK, local
  <2> QED BY <2>2, <2>3
<1>9. CASE UNCHANGED vars
  <2>1. TypeOK'
    BY <1>9 DEF TypeOK, vars, fsVars, local
  <2>2. \A x \in Clients : LocalOK(x)'
    BY <1>9 DEF LocalOK, vars, local
  <2> QED BY <2>1, <2>2
<1>10. ASSUME NEW c \in Clients, Step(c) \/ Event(c) PROVE TypeInv'
  BY <1>1, <1>2, <1>3, <1>4, <1>5, <1>6, <1>10 DEF Step, Event
<1> QED BY <1>7, <1>8, <1>9, <1>10 DEF Next, CoopNext

LEMMA InitType == Init => TypeInv
<1> SUFFICES ASSUME Init PROVE TypeInv
  OBVIOUS
<1>1. TypeOK
  BY ConstantsAssumption
  DEF Init, EmptyStore, NothingRunning, TypeOK, Stages, Outcomes
<1>2. \A c \in Clients : LocalOK(c)
  BY DEF Init, NothingRunning, LocalOK, Proving
<1> QED BY <1>1, <1>2 DEF TypeInv

(* Whatever the clients and the processes around them do, every variable of *)
(* the store keeps its type and no generation number passes the largest one *)
(* (publish_generation_store checks the limit before it forms a successor). *)
THEOREM TypeCorrect == Spec => []TypeOK
<1>1. TypeInv /\ [Next]_vars => TypeInv'
  BY NextType
<1>2. TypeInv => TypeOK
  BY DEF TypeInv
<1> QED BY <1>1, <1>2, InitType, PTL DEF Spec

-----------------------------------------------------------------------------
(***************************************************************************)
(* Among clients that take the lock, the store is the compare-and-append   *)
(* register of module GenerationRegister: the inductive invariant and the  *)
(* refinement.                                                             *)
(***************************************************************************)

Here == dirs[FirstDir]

Outside == {"idle", "open", "lock"}

(* The path keeps naming the first directory, and everyone works on it. *)
AtHome == place = FirstDir /\ \A c \in Clients : at[c] = FirstDir

(* The lock is held from the moment it is granted until the return. *)
LockOK(c) ==
  /\ pc[c] \in Outside => held[c] = "none"
  /\ pc[c] \notin Outside => held[c] = IF task[c] = "read" THEN "sh" ELSE "ex"
  /\ held[c] = "ex" => \A x \in Clients \ {c} : held[x] = "none"

(* The directory by itself. *)
DirOK ==
  /\ \A e \in Here : e.nlink = 1
  /\ \A e, f \in Here : Leaf(e) = Leaf(f) => e = f
  /\ Here # {} => FirstDir \in made
  /\ \A r \in acked : \E e \in Here : /\ r = Numbered(e)
                                      /\ Leaf(e) \in synced[FirstDir]

Again(c, n) == pc[c] \in Proving /\ round[c] = n

(* What a client has observed is still so, because it holds the lock. *)
ViewOK(c) ==
  /\ pc[c] \notin Outside \cup {"enter"} => FirstDir \in made
  /\ pc[c] = "inspect" =>
       /\ acc[c] = {}
       /\ snap[c] \subseteq {Status(e) : e \in Here}
       /\ \A e \in Here : Leaf(e) \in todo[c] \/ \E x \in snap[c] : Leaf(x) = Leaf(e)
  /\ pc[c] = "collect" =>
       /\ \A e \in Here : Status(e) \in snap[c]
       /\ acc[c] \subseteq Here
  /\ pc[c] = "finish" /\ task[c] = "read" =>
       acc[c] = Here /\ ProvenChain(c, Here)

(* How far a publication has come. *)
Compared(c) == pc[c] \in {"prepare", "recheck", "link"} \/ Again(c, 2)
Prepared(c) == pc[c] \in {"recheck", "link"} \/ Again(c, 2)
Linked(c)   == pc[c] \in {"verify", "sync", "finish"} \/ Again(c, 3)

PublishOK(c) ==
  task[c] = "publish" =>
    /\ pc[c] = "compare" \/ Compared(c) => token[c] = Here /\ ProvenChain(c, Here)
    /\ Compared(c) => /\ known[c] = TipOf(Here)
                      /\ known[c] # NoRecord => ~IsFuture(c, known[c].doc)
    /\ Prepared(c) =>
         /\ tmp[c].gen = IF known[c] = NoRecord THEN 1 ELSE known[c].gen + 1
         /\ tmp[c].doc = want[c]
    /\ pc[c] = "verify" => tmp[c].doc = want[c]
    /\ Linked(c) => /\ tmp[c] \in Here
                    /\ \A e \in Here : e = tmp[c] \/ e.gen < tmp[c].gen
    /\ pc[c] = "finish" => Leaf(tmp[c]) \in synced[FirstDir]

CoopInv ==
  /\ AtHome /\ DirOK /\ NoDowngrade
  /\ \A c \in Clients : LockOK(c) /\ ViewOK(c) /\ PublishOK(c)

IInv == TypeInv /\ CoopInv

-----------------------------------------------------------------------------
(* What a step of one client leaves alone. *)

SameClient(x) ==
  /\ pc'[x] = pc[x] /\ task'[x] = task[x] /\ at'[x] = at[x]
  /\ held'[x] = held[x] /\ known'[x] = known[x] /\ want'[x] = want[x]
  /\ round'[x] = round[x] /\ todo'[x] = todo[x] /\ snap'[x] = snap[x]
  /\ acc'[x] = acc[x] /\ token'[x] = token[x] /\ tmp'[x] = tmp[x]

LEMMA ReturnSame ==
  ASSUME TypeOK, NEW c \in Clients, NEW x \in Clients \ {c}, NEW kind, NEW entry,
         Return(c, kind, entry)
  PROVE  SameClient(x)
BY DEF TypeOK, Return, ClearLocals, Goto, SameClient

LEMMA FailSame ==
  ASSUME TypeOK, NEW c \in Clients, NEW x \in Clients \ {c},
         Fail(c) \/ FailUnsafe(c)
  PROVE  SameClient(x)
BY ReturnSame DEF Fail, FailUnsafe

LEMMA OthersSame ==
  ASSUME TypeOK, NEW c \in Clients, NEW x \in Clients \ {c}, Step(c) \/ Event(c)
  PROVE  SameClient(x)
<1> USE DEF TypeOK, SameClient, Goto, local
<1>1. CASE OpenStore(c)
  BY <1>1 DEF OpenStore
<1>2. CASE LockStore(c)
  BY <1>2, FailSame DEF LockStore
<1>3. CASE EnterUnit(c)
  BY <1>3, FailSame, ReturnSame DEF EnterUnit
<1>4. CASE Scan(c)
  BY <1>4, FailSame DEF Scan
<1>5. CASE Inspect(c)
  BY <1>5, FailSame DEF Inspect
<1>6. CASE Survey(c)
  BY <1>6, FailSame DEF Survey
<1>7. CASE ReadRecord(c)
  BY <1>7, FailSame DEF ReadRecord
<1>8. CASE Conclude(c)
  BY <1>8, FailSame DEF Conclude
<1>9. CASE ReadTip(c)
  BY <1>9, FailSame DEF ReadTip
<1>10. CASE FinishRead(c)
  BY <1>10, FailSame, ReturnSame DEF FinishRead
<1>11. CASE ComparePredecessor(c)
  BY <1>11, FailSame DEF ComparePredecessor
<1>12. CASE PrepareRecord(c)
  BY <1>12 DEF PrepareRecord
<1>13. CASE RecheckPredecessor(c)
  BY <1>13, FailSame DEF RecheckPredecessor
<1>14. CASE Link(c)
  BY <1>14, FailSame DEF Link
<1>15. CASE VerifyCommit(c)
  BY <1>15, FailSame DEF VerifyCommit
<1>16. CASE SyncUnit(c)
  BY <1>16 DEF SyncUnit
<1>17. CASE FinishPublish(c)
  BY <1>17, FailSame, ReturnSame DEF FinishPublish
<1>18. CASE StartRead(c)
  BY <1>18 DEF StartRead
<1>19. CASE \E d \in AllDocuments : StartPublish(c, d)
  BY <1>19 DEF StartPublish
<1>20. CASE OperationFails(c)
  BY <1>20, FailSame DEF OperationFails
<1>21. CASE Kill(c)
  BY <1>21, ReturnSame DEF Kill
<1> QED BY <1>1, <1>2, <1>3, <1>4, <1>5, <1>6, <1>7, <1>8, <1>9, <1>10, <1>11,
           <1>12, <1>13, <1>14, <1>15, <1>16, <1>17, <1>18, <1>19, <1>20, <1>21
        DEF Step, StepBefore, Event

LEMMA OutsideOK ==
  ASSUME NEW x \in Clients, pc'[x] \in Outside
  PROVE  ViewOK(x)' /\ PublishOK(x)'
BY DEF Outside, ViewOK, PublishOK, Compared, Prepared, Linked, Again, Proving

LEMMA UntouchedOK ==
  ASSUME NEW x \in Clients, ViewOK(x), PublishOK(x), SameClient(x),
         UNCHANGED <<dirs, synced>>, made \subseteq made'
  PROVE  ViewOK(x)' /\ PublishOK(x)'
<1>1. ViewOK(x)'
  BY DEF ViewOK, SameClient, Here
<1>2. PublishOK(x)'
  BY DEF PublishOK, Compared, Prepared, Linked, Again, SameClient, Here
<1> QED BY <1>1, <1>2

(* A client inside a publication is the only one inside. *)
LEMMA PublisherAlone ==
  ASSUME CoopInv, NEW c \in Clients, pc[c] \notin Outside, task[c] = "publish",
         NEW x \in Clients \ {c}
  PROVE  pc[x] \in Outside /\ held[x] = "none"
<1>1. held[x] = "none"
  BY DEF CoopInv, LockOK
<1>2. (held[x] = IF task[x] = "read" THEN "sh" ELSE "ex") => held[x] # "none"
  OBVIOUS
<1> QED BY <1>1, <1>2 DEF CoopInv, LockOK

(* A step of one client keeps the invariant as soon as it keeps the parts   *)
(* about that client and about the directory.                               *)
LEMMA OneClientStep ==
  ASSUME IInv, NEW c \in Clients, Step(c) \/ Event(c),
         AtHome', DirOK', NoDowngrade',
         ViewOK(c)', PublishOK(c)',
         pc'[c] \in Outside => held'[c] = "none",
         pc'[c] \notin Outside =>
           held'[c] = IF task'[c] = "read" THEN "sh" ELSE "ex",
         \/ held'[c] \in {held[c], "none"}
         \/ \A x \in Clients \ {c} : held[x] = "none"
         \/ held'[c] = "sh" /\ \A x \in Clients \ {c} : held[x] # "ex",
         made \subseteq made',
         \/ UNCHANGED <<dirs, synced>>
         \/ pc[c] \notin Outside /\ task[c] = "publish"
  PROVE  CoopInv'
<1>1. \A x \in Clients \ {c} : SameClient(x)
  BY OthersSame DEF IInv, TypeInv
<1>2. \A x \in Clients \ {c} : ViewOK(x)' /\ PublishOK(x)'
  <2>1. CASE UNCHANGED <<dirs, synced>>
    BY <1>1, <2>1, UntouchedOK DEF IInv, CoopInv
  <2>2. CASE pc[c] \notin Outside /\ task[c] = "publish"
    <3>1. \A x \in Clients \ {c} : pc'[x] \in Outside
      BY <1>1, <2>2, PublisherAlone DEF IInv, SameClient
    <3> QED BY <3>1, OutsideOK
  <2> QED BY <2>1, <2>2
<1>3. \A x \in Clients : LockOK(x)
  BY DEF IInv, CoopInv
<1>4. \A x \in Clients \ {c} : /\ held'[x] = held[x] /\ pc'[x] = pc[x]
                               /\ task'[x] = task[x]
  BY <1>1 DEF SameClient
<1>5. held'[c] = "ex" => \A x \in Clients \ {c} : held'[x] = "none"
  BY <1>3, <1>4 DEF LockOK
<1>6. ASSUME NEW x \in Clients \ {c}, held'[x] = "ex"
      PROVE  \A y \in Clients \ {x} : held'[y] = "none"
  <2>1. \A y \in Clients \ {x} : held[y] = "none"
    BY <1>3, <1>4, <1>6 DEF LockOK
  <2>2. held'[c] = "none"
    BY <1>4, <1>6, <2>1
  <2> QED BY <1>4, <2>1, <2>2
<1>7. \A x \in Clients : LockOK(x)'
  BY <1>3, <1>4, <1>5, <1>6 DEF LockOK
<1> QED BY <1>2, <1>7 DEF CoopInv

(* The directory's own invariant does not depend on the clients. *)
LEMMA DirUntouched ==
  ASSUME IInv, UNCHANGED <<place, dirs, synced, acked>>, made \subseteq made'
  PROVE  DirOK' /\ NoDowngrade'
BY DEF IInv, CoopInv, DirOK, NoDowngrade, Here

(* Returning gives up the lock and every observation. *)
LEMMA ReturnCoop ==
  ASSUME IInv, NEW c \in Clients, Step(c) \/ Event(c), NEW kind, NEW entry,
         Return(c, kind, entry), UNCHANGED <<place, dirs, made, synced>>,
         DirOK'
  PROVE  CoopInv'
<1>1. pc'[c] = "idle" /\ held'[c] = "none" /\ UNCHANGED at
  BY DEF Return, Goto, IInv, TypeInv, TypeOK
<1>2. AtHome' /\ NoDowngrade'
  BY <1>1 DEF IInv, CoopInv, AtHome, NoDowngrade
<1>3. ViewOK(c)' /\ PublishOK(c)'
  BY <1>1, OutsideOK DEF Outside
<1> QED BY <1>1, <1>2, <1>3, OneClientStep DEF Outside

LEMMA FailCoop ==
  ASSUME IInv, NEW c \in Clients, Step(c) \/ Event(c), Fail(c) \/ FailUnsafe(c),
         UNCHANGED fsVars, UNCHANGED acked
  PROVE  CoopInv'
<1>1. UNCHANGED <<place, dirs, made, synced>>
  BY DEF fsVars
<1>2. DirOK'
  BY <1>1, DirUntouched
<1>3. \E kind, entry : Return(c, kind, entry)
  BY DEF Fail, FailUnsafe
<1> QED BY <1>1, <1>2, <1>3, ReturnCoop

-----------------------------------------------------------------------------
(* The steps of a client, one by one. *)

LEMMA StartCoop ==
  ASSUME IInv, NEW c \in Clients, UNCHANGED acked, Event(c),
         StartRead(c) \/ \E d \in AllDocuments : StartPublish(c, d)
  PROVE  CoopInv'
<1>1. /\ pc'[c] = "open" /\ pc[c] = "idle"
      /\ UNCHANGED <<place, dirs, made, synced, at, held>>
  BY DEF StartRead, StartPublish, Goto, fsVars, IInv, TypeInv, TypeOK
<1>2. AtHome' /\ DirOK' /\ NoDowngrade'
  BY <1>1, DirUntouched DEF IInv, CoopInv, AtHome
<1>3. held'[c] = "none"
  BY <1>1 DEF IInv, CoopInv, LockOK, Outside
<1>4. ViewOK(c)' /\ PublishOK(c)'
  BY <1>1, OutsideOK DEF Outside
<1> QED BY <1>1, <1>2, <1>3, <1>4, OneClientStep DEF Outside

LEMMA OpenCoop ==
  ASSUME IInv, NEW c \in Clients, UNCHANGED acked, Step(c), OpenStore(c)
  PROVE  CoopInv'
<1>1. /\ pc'[c] = "lock" /\ pc[c] = "open" /\ at' = [at EXCEPT ![c] = place]
      /\ UNCHANGED <<place, dirs, made, synced, held>>
  BY DEF OpenStore, Goto, fsVars, IInv, TypeInv, TypeOK
<1>2. AtHome' /\ DirOK' /\ NoDowngrade'
  BY <1>1, DirUntouched DEF IInv, CoopInv, AtHome, TypeInv, TypeOK
<1>3. held'[c] = "none"
  BY <1>1 DEF IInv, CoopInv, LockOK, Outside
<1>4. ViewOK(c)' /\ PublishOK(c)'
  BY <1>1, OutsideOK DEF Outside
<1> QED BY <1>1, <1>2, <1>3, <1>4, OneClientStep DEF Outside

LEMMA LockCoop ==
  ASSUME IInv, NEW c \in Clients, UNCHANGED acked, Step(c), LockStore(c)
  PROVE  CoopInv'
<1>1. CASE Fail(c)
  BY <1>1, FailCoop DEF LockStore
<1>2. CASE ~Fail(c)
  <2>1. /\ pc'[c] = "enter" /\ pc[c] = "lock" /\ CanLock(c)
        /\ held'[c] = IF task[c] = "read" THEN "sh" ELSE "ex"
        /\ UNCHANGED <<place, dirs, made, synced, at, task>>
    BY <1>2 DEF LockStore, Goto, fsVars, IInv, TypeInv, TypeOK
  <2>2. AtHome' /\ DirOK' /\ NoDowngrade'
    BY <2>1, DirUntouched DEF IInv, CoopInv, AtHome
  <2>3. ViewOK(c)' /\ PublishOK(c)'
    BY <2>1 DEF ViewOK, PublishOK, Compared, Prepared, Linked, Again, Proving
  <2>4. \/ \A x \in Clients \ {c} : held[x] = "none"
        \/ held'[c] = "sh" /\ \A x \in Clients \ {c} : held[x] # "ex"
    BY <2>1 DEF CanLock, IInv, CoopInv, AtHome, TypeInv, TypeOK
  <2>5. pc'[c] \notin Outside /\ held'[c] = IF task'[c] = "read" THEN "sh" ELSE "ex"
    BY <2>1 DEF Outside
  <2> QED BY <2>1, <2>2, <2>3, <2>4, <2>5, OneClientStep
<1> QED BY <1>1, <1>2

(* Steps inside the lock that leave the file system alone: only the         *)
(* client's own view is left to prove.                                      *)
LEMMA QuietStep ==
  ASSUME IInv, NEW c \in Clients, Step(c), UNCHANGED acked,
         UNCHANGED <<place, dirs, synced, at, held, task>>, made \subseteq made',
         pc[c] \notin Outside, pc'[c] \notin Outside, ViewOK(c)', PublishOK(c)'
  PROVE  CoopInv'
<1>1. AtHome' /\ DirOK' /\ NoDowngrade'
  BY DirUntouched DEF IInv, CoopInv, AtHome
<1>2. held'[c] = IF task'[c] = "read" THEN "sh" ELSE "ex"
  BY DEF IInv, CoopInv, LockOK
<1> QED BY <1>1, <1>2, OneClientStep

LEMMA EnterCoop ==
  ASSUME IInv, NEW c \in Clients, UNCHANGED acked, Step(c), EnterUnit(c)
  PROVE  CoopInv'
<1>1. CASE Fail(c) /\ UNCHANGED made
  BY <1>1, FailCoop DEF EnterUnit, fsVars
<1>2. CASE Return(c, "Missing", NoRecord) /\ UNCHANGED made
  <2>1. UNCHANGED <<place, dirs, made, synced>>
    BY <1>2 DEF EnterUnit
  <2> QED BY <1>2, <2>1, DirUntouched, ReturnCoop
<1>3. CASE /\ made' = made \cup {at[c]}
           /\ Goto(c, "scan")
           /\ UNCHANGED <<task, at, held, known, want, local, result, opsLeft>>
  <2>1. /\ pc'[c] = "scan" /\ pc[c] = "enter" /\ FirstDir \in made'
        /\ round'[c] = 1
        /\ UNCHANGED <<place, dirs, synced, at, held, task>>
    BY <1>3 DEF EnterUnit, Goto, local, IInv, TypeInv, TypeOK, LocalOK, CoopInv, AtHome
  <2>2. ViewOK(c)' /\ PublishOK(c)'
    BY <2>1 DEF ViewOK, PublishOK, Compared, Prepared, Linked, Again
  <2> QED BY <1>3, <2>1, <2>2, QuietStep DEF Outside
<1> QED BY <1>1, <1>2, <1>3 DEF EnterUnit

(* Within one proof a publication's evidence does not change. *)
LEMMA SameRound ==
  ASSUME IInv, NEW c \in Clients, pc[c] \in Proving, pc'[c] \in Proving,
         UNCHANGED <<dirs, synced>>, task'[c] = task[c], known'[c] = known[c],
         want'[c] = want[c], round'[c] = round[c], token'[c] = token[c],
         tmp'[c] = tmp[c]
  PROVE  PublishOK(c)'
BY DEF IInv, CoopInv, PublishOK, Compared, Prepared, Linked, Again, Proving, Here

LEMMA ScanCoop ==
  ASSUME IInv, NEW c \in Clients, UNCHANGED acked, Step(c), Scan(c)
  PROVE  CoopInv'
<1>1. CASE Fail(c)
  BY <1>1, FailCoop DEF Scan
<1>2. CASE ~Fail(c)
  <2>1. /\ pc'[c] = "inspect" /\ pc[c] = "scan"
        /\ snap'[c] = {} /\ acc'[c] = {} /\ todo'[c] = {Leaf(e) : e \in dirs[at[c]]}
        /\ UNCHANGED <<place, dirs, made, synced, at, held, task, known, want,
                       round, token, tmp>>
    BY <1>2 DEF Scan, Goto, fsVars, IInv, TypeInv, TypeOK
  <2>2. ViewOK(c)'
    BY <2>1 DEF ViewOK, Outside, IInv, CoopInv, AtHome, Here
  <2>3. PublishOK(c)'
    BY <2>1, SameRound DEF Proving
  <2> QED BY <2>1, <2>2, <2>3, QuietStep DEF Outside
<1> QED BY <1>1, <1>2

LEMMA InspectCoop ==
  ASSUME IInv, NEW c \in Clients, UNCHANGED acked, Step(c), Inspect(c)
  PROVE  CoopInv'
<1>1. CASE Fail(c)
  BY <1>1, FailCoop DEF Inspect
<1>2. CASE ~Fail(c)
  <2>1. PICK leaf \in todo[c] :
          LET usable == {e \in dirs[at[c]] :
                           Leaf(e) = leaf /\ (leaf.gen = 0 \/ e.nlink = 1)}
          IN /\ usable # {}
             /\ todo' = [todo EXCEPT ![c] = @ \ {leaf}]
             /\ snap' = [snap EXCEPT ![c] = @ \cup {Status(e) : e \in usable}]
    BY <1>2 DEF Inspect
  <2>2. /\ pc'[c] = "inspect" /\ pc[c] = "inspect"
        /\ UNCHANGED <<place, dirs, made, synced, at, held, task, known, want,
                       round, token, tmp, acc>>
    BY <1>2 DEF Inspect, fsVars
  <2>3. ViewOK(c)'
    <3>1. PICK u \in Here : /\ Leaf(u) = leaf
                            /\ todo'[c] = todo[c] \ {leaf}
                            /\ Status(u) \in snap'[c]
                            /\ snap[c] \subseteq snap'[c]
                            /\ snap'[c] \subseteq snap[c] \cup {Status(e) : e \in Here}
      BY <2>1 DEF IInv, CoopInv, AtHome, Here, TypeInv, TypeOK
    <3>2. Leaf(Status(u)) = leaf
      BY <3>1 DEF Leaf, Status
    <3>3. /\ snap'[c] \subseteq {Status(e) : e \in Here}
          /\ \A e \in Here : Leaf(e) \in todo'[c] \/ \E x \in snap'[c] : Leaf(x) = Leaf(e)
      BY <2>2, <3>1, <3>2 DEF IInv, CoopInv, ViewOK
    <3> QED BY <2>2, <3>3 DEF ViewOK, IInv, CoopInv, Here
  <2>4. PublishOK(c)'
    BY <2>2, SameRound DEF Proving
  <2> QED BY <2>2, <2>3, <2>4, QuietStep DEF Outside
<1> QED BY <1>1, <1>2

LEMMA SurveyCoop ==
  ASSUME IInv, NEW c \in Clients, UNCHANGED acked, Step(c), Survey(c)
  PROVE  CoopInv'
<1>1. CASE FailUnsafe(c)
  BY <1>1, FailCoop DEF Survey
<1>2. CASE ~FailUnsafe(c)
  <2>1. /\ pc'[c] = "collect" /\ pc[c] = "inspect" /\ todo[c] = {}
        /\ UNCHANGED <<place, dirs, made, synced, at, held, task, known, want,
                       round, token, tmp, snap, acc>>
    BY <1>2 DEF Survey, Goto, fsVars, local, IInv, TypeInv, TypeOK
  <2>2. \A e \in Here : Status(e) \in snap[c]
    <3> SUFFICES ASSUME NEW e \in Here PROVE Status(e) \in snap[c]
      OBVIOUS
    <3>1. PICK f \in Here : Status(f) \in snap[c] /\ Leaf(Status(f)) = Leaf(e)
      BY <2>1 DEF IInv, CoopInv, ViewOK
    <3>2. Leaf(f) = Leaf(e)
      BY <3>1 DEF Leaf, Status
    <3> QED BY <3>1, <3>2 DEF IInv, CoopInv, DirOK
  <2>3. acc[c] \subseteq Here
    BY <2>1 DEF IInv, CoopInv, ViewOK
  <2>4. ViewOK(c)'
    BY <2>1, <2>2, <2>3 DEF ViewOK, Outside, IInv, CoopInv, Here
  <2>5. PublishOK(c)'
    BY <2>1, SameRound DEF Proving
  <2> QED BY <2>1, <2>4, <2>5, QuietStep DEF Outside
<1> QED BY <1>1, <1>2

LEMMA ReadRecordCoop ==
  ASSUME IInv, NEW c \in Clients, UNCHANGED acked, Step(c), ReadRecord(c)
  PROVE  CoopInv'
<1>1. CASE Fail(c)
  BY <1>1, FailCoop DEF ReadRecord
<1>2. CASE ~Fail(c)
  <2>1. PICK same \in SUBSET Here : acc' = [acc EXCEPT ![c] = @ \cup same]
    BY <1>2 DEF ReadRecord, IInv, CoopInv, AtHome, Here
  <2>2. /\ pc'[c] = "collect" /\ pc[c] = "collect"
        /\ UNCHANGED <<place, dirs, made, synced, at, held, task, known, want,
                       round, token, tmp, snap>>
    BY <1>2 DEF ReadRecord, fsVars
  <2>3. acc'[c] \subseteq Here
    BY <2>1, <2>2 DEF IInv, CoopInv, ViewOK, TypeInv, TypeOK
  <2>4. ViewOK(c)'
    BY <2>2, <2>3 DEF ViewOK, Outside, IInv, CoopInv, Here
  <2>5. PublishOK(c)'
    BY <2>2, SameRound DEF Proving
  <2> QED BY <2>2, <2>4, <2>5, QuietStep DEF Outside
<1> QED BY <1>1, <1>2

(* A concluded proof has read exactly the records of the directory. *)
LEMMA ConcludedAll ==
  ASSUME IInv, NEW c \in Clients, pc[c] = "collect", Settled(c),
         ProvenChain(c, acc[c])
  PROVE  acc[c] = Here
<1>1. acc[c] \subseteq Here /\ \A e \in Here : Status(e) \in snap[c]
  BY DEF IInv, CoopInv, ViewOK
<1>2. Unread(c) = {}
  <2>1. acc[c] \ Chain(acc[c]) = {}
    BY DEF ProvenChain, Chain
  <2> QED BY <2>1 DEF Settled
<1>3. ASSUME NEW e \in Here PROVE e \in acc[c]
  <2>1. PICK f \in acc[c] : Status(f) = Status(e)
    BY <1>1, <1>2 DEF Unread
  <2>2. Leaf(f) = Leaf(e)
    BY <2>1 DEF Status, Leaf
  <2> QED BY <1>1, <2>1, <2>2 DEF IInv, CoopInv, DirOK
<1> QED BY <1>1, <1>3

LEMMA ConcludeCoop ==
  ASSUME IInv, NEW c \in Clients, UNCHANGED acked, Step(c), Conclude(c)
  PROVE  CoopInv'
<1>1. CASE Fail(c) \/ FailUnsafe(c)
  BY <1>1, FailCoop DEF Conclude
<1>2. CASE ~(Fail(c) \/ FailUnsafe(c))
  <2>1. /\ pc[c] = "collect" /\ Settled(c) /\ ProvenChain(c, acc[c])
        /\ pc'[c] = AfterProof(c) /\ token'[c] = acc[c]
        /\ round'[c] = IF AfterProof(c) = "scan" THEN 2 ELSE round[c]
        /\ UNCHANGED <<place, dirs, made, synced, at, held, task, known, want,
                       tmp, snap, acc>>
    BY <1>2 DEF Conclude, Goto, fsVars, IInv, TypeInv, TypeOK
  <2>2. acc[c] = Here
    BY <2>1, ConcludedAll
  <2>3. round[c] \in 1..3 /\ task[c] \in {"read", "publish"}
    BY DEF IInv, TypeInv, TypeOK
  <2>4. /\ task[c] = "publish" /\ round[c] = 1 => pc'[c] = "compare"
        /\ task[c] = "publish" /\ round[c] = 2 => pc'[c] = "link"
        /\ task[c] = "publish" /\ round[c] = 3 => pc'[c] = "sync"
        /\ task[c] = "read" => pc'[c] \in {"scan", "readtip", "finish"}
    BY <2>1, <2>3 DEF AfterProof
  <2>5. ViewOK(c)'
    BY <2>1, <2>2, <2>3, <2>4 DEF ViewOK, Outside, IInv, CoopInv, Here
  <2>6. PublishOK(c)'
    <3>1. CASE task[c] = "read"
      BY <2>1, <3>1 DEF PublishOK
    <3>2. CASE task[c] = "publish" /\ round[c] = 1
      BY <2>1, <2>2, <2>4, <3>2
      DEF PublishOK, Compared, Prepared, Linked, Again, Proving, Here
    <3>3. CASE task[c] = "publish" /\ round[c] = 2
      BY <2>1, <2>2, <2>4, <3>3
      DEF IInv, CoopInv, PublishOK, Compared, Prepared, Linked, Again, Proving,
          Here
    <3>4. CASE task[c] = "publish" /\ round[c] = 3
      BY <2>1, <2>2, <2>4, <3>4
      DEF IInv, CoopInv, PublishOK, Compared, Prepared, Linked, Again, Proving,
          Here
    <3> QED BY <2>3, <3>1, <3>2, <3>3, <3>4
  <2>7. pc'[c] \notin Outside
    BY <2>3, <2>4 DEF Outside
  <2> QED BY <2>1, <2>5, <2>6, <2>7, QuietStep DEF Outside
<1> QED BY <1>1, <1>2

LEMMA ReadTipCoop ==
  ASSUME IInv, NEW c \in Clients, UNCHANGED acked, Step(c), ReadTip(c)
  PROVE  CoopInv'
<1>1. CASE Fail(c)
  BY <1>1, FailCoop DEF ReadTip
<1>2. CASE ~Fail(c)
  <2>1. /\ pc'[c] = "scan" /\ pc[c] = "readtip"
        /\ UNCHANGED <<place, dirs, made, synced, at, held, task>>
    BY <1>2 DEF ReadTip, Goto, fsVars, IInv, TypeInv, TypeOK
  <2>2. task[c] = "read"
    BY <2>1 DEF IInv, TypeInv, LocalOK
  <2>3. ViewOK(c)' /\ PublishOK(c)'
    BY <2>1, <2>2 DEF ViewOK, PublishOK, Outside, IInv, CoopInv
  <2> QED BY <2>1, <2>3, QuietStep DEF Outside
<1> QED BY <1>1, <1>2

LEMMA FinishReadCoop ==
  ASSUME IInv, NEW c \in Clients, UNCHANGED acked, Step(c), FinishRead(c)
  PROVE  CoopInv'
<1>1. UNCHANGED <<place, dirs, made, synced>>
  BY DEF FinishRead, fsVars
<1>2. \E kind, entry : Return(c, kind, entry)
  BY DEF FinishRead, Fail
<1> QED BY <1>1, <1>2, DirUntouched, ReturnCoop

LEMMA CompareCoop ==
  ASSUME IInv, NEW c \in Clients, UNCHANGED acked, Step(c), ComparePredecessor(c)
  PROVE  CoopInv'
<1>1. CASE Fail(c)
  BY <1>1, FailCoop DEF ComparePredecessor
<1>2. CASE ~Fail(c)
  <2>1. /\ pc'[c] = "prepare" /\ pc[c] = "compare"
        /\ known[c] = TipOf(token[c])
        /\ known[c] # NoRecord => ~IsFuture(c, known[c].doc)
        /\ UNCHANGED <<place, dirs, made, synced, at, held, task, known, want,
                       token, tmp, round>>
    BY <1>2 DEF ComparePredecessor, Goto, fsVars, local, IInv, TypeInv, TypeOK
  <2>2. ViewOK(c)'
    BY <2>1 DEF ViewOK, Outside, IInv, CoopInv
  <2>3. PublishOK(c)'
    BY <2>1 DEF IInv, CoopInv, PublishOK, Compared, Prepared, Linked, Again,
                Proving, Here
  <2> QED BY <2>1, <2>2, <2>3, QuietStep DEF Outside
<1> QED BY <1>1, <1>2

LEMMA PrepareCoop ==
  ASSUME IInv, NEW c \in Clients, UNCHANGED acked, Step(c), PrepareRecord(c)
  PROVE  CoopInv'
<1>1. /\ pc'[c] = "recheck" /\ pc[c] = "prepare"
      /\ tmp'[c] = File(NewLeaf(c), nextIno, clock, 0, want[c])
      /\ UNCHANGED <<place, dirs, made, synced, at, held, task, known, want,
                     token, round>>
  BY DEF PrepareRecord, Goto, IInv, TypeInv, TypeOK
<1>2. /\ tmp'[c].gen = IF known[c] = NoRecord THEN 1 ELSE known[c].gen + 1
      /\ tmp'[c].doc = want[c]
  BY <1>1 DEF File, NewLeaf, OriginLeaf, SuccessorLeaf
<1>3. ViewOK(c)'
  BY <1>1 DEF ViewOK, Outside, IInv, CoopInv
<1>4. PublishOK(c)'
  BY <1>1, <1>2 DEF IInv, CoopInv, PublishOK, Compared, Prepared, Linked, Again,
                    Proving, Here
<1> QED BY <1>1, <1>3, <1>4, QuietStep DEF Outside

LEMMA RecheckCoop ==
  ASSUME IInv, NEW c \in Clients, UNCHANGED acked, Step(c), RecheckPredecessor(c)
  PROVE  CoopInv'
<1>1. CASE Fail(c)
  BY <1>1, FailCoop DEF RecheckPredecessor
<1>2. CASE ~Fail(c)
  <2>1. /\ pc'[c] = "scan" /\ pc[c] = "recheck" /\ round'[c] = 2
        /\ UNCHANGED <<place, dirs, made, synced, at, held, task, known, want,
                       token, tmp>>
    BY <1>2 DEF RecheckPredecessor, Goto, fsVars, IInv, TypeInv, TypeOK
  <2>2. ViewOK(c)'
    BY <2>1 DEF ViewOK, Outside, IInv, CoopInv
  <2>3. PublishOK(c)'
    BY <2>1 DEF IInv, CoopInv, PublishOK, Compared, Prepared, Linked, Again,
                Proving, Here
  <2> QED BY <2>1, <2>2, <2>3, QuietStep DEF Outside
<1> QED BY <1>1, <1>2

(* The record to be linked is newer than every record of the directory. *)
LEMMA SuccessorIsNewest ==
  ASSUME IInv, NEW c \in Clients, task[c] = "publish", pc[c] = "link"
  PROVE  /\ \A e \in Here : e.gen < tmp[c].gen
         /\ \A p \in Here : p.gen + 1 = tmp[c].gen => p = known[c]
<1>1. /\ ProvenChain(c, Here) /\ known[c] = TipOf(Here)
      /\ tmp[c].gen = IF known[c] = NoRecord THEN 1 ELSE known[c].gen + 1
  BY DEF IInv, CoopInv, PublishOK, Compared, Prepared
<1>2. Here \in SUBSET Entry
  BY ConstantsAssumption DEF IInv, TypeInv, TypeOK, Here
<1>3. CASE Here = {}
  BY <1>3
<1>4. CASE Here # {}
  <2>1. Chain(Here) = Here /\ \A x, y \in Here : x.gen = y.gen => x = y
    BY <1>1, <1>4 DEF ProvenChain, MalformedInventory, Forked
  <2>2. known[c] \in Here /\ \A x \in Here : x.gen <= known[c].gen
    BY <1>1, <1>2, <1>4, <2>1, ChainTipIsNewest DEF TipOf
  <2>3. known[c] # NoRecord
    BY <1>2, <2>2, MarkersAssumption
  <2>4. \A x \in Here : x.gen \in Nat
    BY <1>2 DEF Entry
  <2> QED BY <1>1, <2>1, <2>2, <2>3, <2>4
<1> QED BY <1>3, <1>4

(* What the successful branch of linkat does. *)
LEMMA LinkFacts ==
  ASSUME IInv, NEW c \in Clients, Link(c), ~(Fail(c) /\ UNCHANGED fsVars)
  PROVE  /\ pc[c] = "link" /\ pc'[c] = "verify" /\ task[c] = "publish"
         /\ \A e \in Here : Leaf(e) # Leaf(tmp[c])
         /\ Leaf(tmp'[c]) = Leaf(tmp[c]) /\ Numbered(tmp'[c]) = Numbered(tmp[c])
         /\ tmp'[c].gen = tmp[c].gen /\ tmp'[c].doc = tmp[c].doc
         /\ tmp'[c].nlink = 1
         /\ Here' = Here \cup {tmp'[c]}
         /\ UNCHANGED <<place, made, synced, at, held, task, known, want, round>>
<1>1. pc[c] = "link" /\ task[c] = "publish" /\ at[c] = FirstDir
  BY DEF Link, IInv, TypeInv, LocalOK, CoopInv, AtHome
<1>2. PICK now : tmp' = [tmp EXCEPT ![c] = File(@, @.ino, now, 1, @.doc)]
  BY DEF Link
<1>3. tmp'[c] = File(tmp[c], tmp[c].ino, now, 1, tmp[c].doc)
  BY <1>2 DEF IInv, TypeInv, TypeOK
<1>4. /\ Leaf(tmp'[c]) = Leaf(tmp[c]) /\ Numbered(tmp'[c]) = Numbered(tmp[c])
      /\ tmp'[c].gen = tmp[c].gen /\ tmp'[c].doc = tmp[c].doc
      /\ tmp'[c].nlink = 1
  BY <1>3 DEF File, Leaf, Numbered
<1>5. /\ dirs' = [dirs EXCEPT ![at[c]] = @ \cup {tmp'[c]}]
      /\ Goto(c, "verify")
      /\ \A e \in dirs[at[c]] : Leaf(e) # Leaf(tmp[c])
      /\ UNCHANGED <<place, made, synced, at, held, task, known, want, round>>
  BY DEF Link
<1>6. Here' = Here \cup {tmp'[c]} /\ pc'[c] = "verify"
  BY <1>1, <1>5, ConstantsAssumption DEF IInv, TypeInv, TypeOK, Here, Goto
<1> QED BY <1>1, <1>4, <1>5, <1>6 DEF Here

LEMMA LinkCoop ==
  ASSUME IInv, NEW c \in Clients, UNCHANGED acked, Step(c), Link(c)
  PROVE  CoopInv'
<1>1. CASE Fail(c) /\ UNCHANGED fsVars
  BY <1>1, FailCoop
<1>2. CASE ~(Fail(c) /\ UNCHANGED fsVars)
  <2>1. /\ pc[c] = "link" /\ pc'[c] = "verify" /\ task[c] = "publish"
        /\ \A e \in Here : Leaf(e) # Leaf(tmp[c])
        /\ Leaf(tmp'[c]) = Leaf(tmp[c])
        /\ tmp'[c].gen = tmp[c].gen /\ tmp'[c].doc = tmp[c].doc
        /\ tmp'[c].nlink = 1
        /\ Here' = Here \cup {tmp'[c]}
        /\ UNCHANGED <<place, made, synced, at, held, task, known, want, round>>
    BY <1>2, LinkFacts
  <2>2. /\ \A e \in Here : e.gen < tmp[c].gen
        /\ \A p \in Here : p.gen + 1 = tmp[c].gen => p = known[c]
    BY <2>1, SuccessorIsNewest
  <2>3. FirstDir \in made
    BY <2>1 DEF IInv, CoopInv, ViewOK, Outside
  <2>4. DirOK'
    BY <2>1, <2>3 DEF IInv, CoopInv, DirOK
  <2>5. NoDowngrade'
    <3>1. want[c] \in FutureDocuments \/ c \notin Newer
      BY <2>1 DEF IInv, TypeInv, LocalOK
    <3>2. known[c] # NoRecord => ~IsFuture(c, known[c].doc)
      BY <2>1 DEF IInv, CoopInv, PublishOK, Compared
    <3>3. tmp[c].doc = want[c] /\ place = FirstDir /\ place' = FirstDir
      BY <2>1 DEF IInv, CoopInv, AtHome, PublishOK, Prepared
    <3>4. \A x \in Here : x \in Entry /\ x # NoRecord /\ x.gen \in Nat
      BY ConstantsAssumption, MarkersAssumption
      DEF IInv, TypeInv, TypeOK, Here, Entry
    <3>5. tmp[c].gen \in Nat
      BY <2>1 DEF IInv, TypeInv, LocalOK, Entry
    <3>6. \A p \in Here : p.gen + 1 = tmp[c].gen /\ p.doc \in FutureDocuments
            => tmp[c].doc \in FutureDocuments
      BY <2>2, <3>1, <3>2, <3>3, <3>4 DEF IsFuture
    <3>7. \A e, p \in Here : e.gen = p.gen + 1 /\ p.doc \in FutureDocuments
            => e.doc \in FutureDocuments
      BY <3>3 DEF IInv, CoopInv, NoDowngrade, Here
    <3>8. \A e, p \in Here' : e.gen = p.gen + 1 /\ p.doc \in FutureDocuments
            => e.doc \in FutureDocuments
      BY <2>1, <2>2, <3>4, <3>5, <3>6, <3>7
    <3> QED BY <3>3, <3>8 DEF NoDowngrade, Here
  <2>6. AtHome'
    BY <2>1 DEF IInv, CoopInv, AtHome
  <2>7. ViewOK(c)'
    BY <2>1, <2>3 DEF ViewOK
  <2>8. PublishOK(c)'
    <3>1. tmp[c].doc = want[c]
      BY <2>1 DEF IInv, CoopInv, PublishOK, Prepared
    <3>2. tmp'[c] \in Here' /\ \A e \in Here' : e = tmp'[c] \/ e.gen < tmp'[c].gen
      BY <2>1, <2>2
    <3> QED BY <2>1, <3>1, <3>2
            DEF PublishOK, Compared, Prepared, Linked, Again, Proving
  <2>9. held'[c] = IF task'[c] = "read" THEN "sh" ELSE "ex"
    BY <2>1 DEF IInv, CoopInv, LockOK, Outside
  <2> QED BY <2>1, <2>4, <2>5, <2>6, <2>7, <2>8, <2>9, OneClientStep DEF Outside
<1> QED BY <1>1, <1>2

(* The verified record is the one that was linked. *)
LEMMA VerifyCoop ==
  ASSUME IInv, NEW c \in Clients, UNCHANGED acked, Step(c), VerifyCommit(c)
  PROVE  CoopInv'
<1>1. CASE Fail(c)
  BY <1>1, FailCoop DEF VerifyCommit
<1>2. CASE ~Fail(c)
  <2>1. PICK e \in Here : /\ Leaf(e) = Leaf(tmp[c])
                          /\ tmp' = [tmp EXCEPT ![c] =
                                       File(e, e.ino, e.ctime, 1, want[c])]
    BY <1>2 DEF VerifyCommit, IInv, CoopInv, AtHome, Here
  <2>2. /\ pc'[c] = "scan" /\ pc[c] = "verify" /\ round'[c] = 3
        /\ UNCHANGED <<place, dirs, made, synced, at, held, task, known, want>>
    BY <1>2 DEF VerifyCommit, Goto, fsVars, IInv, TypeInv, TypeOK
  <2>3. /\ task[c] = "publish" /\ tmp[c] \in Here /\ tmp[c].doc = want[c]
        /\ \A x \in Here : x = tmp[c] \/ x.gen < tmp[c].gen
    BY <2>2 DEF IInv, TypeInv, LocalOK, CoopInv, PublishOK, Linked
  <2>4. tmp'[c] = tmp[c]
    <3>1. e = tmp[c]
      BY <2>1, <2>3 DEF IInv, CoopInv, DirOK
    <3>2. tmp[c] \in Entry /\ tmp[c].nlink = 1
      BY <2>2, <2>3 DEF IInv, TypeInv, LocalOK, CoopInv, DirOK
    <3>3. tmp'[c] = File(tmp[c], tmp[c].ino, tmp[c].ctime, 1, tmp[c].doc)
      BY <2>1, <2>3, <3>1 DEF IInv, TypeInv, TypeOK
    <3> QED BY <3>2, <3>3 DEF File, Entry
  <2>5. ViewOK(c)'
    BY <2>2 DEF ViewOK, Outside, IInv, CoopInv
  <2>6. PublishOK(c)'
    BY <2>2, <2>3, <2>4
    DEF PublishOK, Compared, Prepared, Linked, Again, Proving, Here
  <2> QED BY <2>2, <2>5, <2>6, QuietStep DEF Outside
<1> QED BY <1>1, <1>2

LEMMA SyncCoop ==
  ASSUME IInv, NEW c \in Clients, UNCHANGED acked, Step(c), SyncUnit(c)
  PROVE  CoopInv'
<1>1. /\ pc'[c] = "finish" /\ pc[c] = "sync" /\ task[c] = "publish"
      /\ synced'[FirstDir] = {Leaf(e) : e \in Here}
      /\ UNCHANGED <<place, dirs, made, at, held, task, known, want, tmp, token>>
  BY ConstantsAssumption
  DEF SyncUnit, Goto, local, IInv, TypeInv, TypeOK, LocalOK, CoopInv, AtHome, Here
<1>2. AtHome' /\ NoDowngrade'
  BY <1>1 DEF IInv, CoopInv, AtHome, NoDowngrade
<1>3. DirOK'
  BY <1>1 DEF IInv, CoopInv, DirOK, Here
<1>4. tmp[c] \in Here /\ \A e \in Here : e = tmp[c] \/ e.gen < tmp[c].gen
  BY <1>1 DEF IInv, CoopInv, PublishOK, Linked
<1>5. ViewOK(c)'
  BY <1>1 DEF ViewOK, Outside, IInv, CoopInv
<1>6. PublishOK(c)'
  BY <1>1, <1>4 DEF PublishOK, Compared, Prepared, Linked, Again, Proving, Here
<1>7. held'[c] = IF task'[c] = "read" THEN "sh" ELSE "ex"
  BY <1>1 DEF IInv, CoopInv, LockOK, Outside
<1> QED BY <1>1, <1>2, <1>3, <1>5, <1>6, <1>7, OneClientStep DEF Outside

LEMMA FinishPublishCoop ==
  ASSUME IInv, NEW c \in Clients, Step(c), FinishPublish(c)
  PROVE  CoopInv'
<1>1. UNCHANGED <<place, dirs, made, synced>> /\ UNCHANGED fsVars
  BY DEF FinishPublish, fsVars
<1>2. CASE Fail(c) /\ UNCHANGED acked
  BY <1>1, <1>2, FailCoop
<1>3. CASE /\ Return(c, "Published", tmp[c])
           /\ acked' = acked \cup {[gen |-> tmp[c].gen, doc |-> tmp[c].doc]}
  <2>1. tmp[c] \in Here /\ Leaf(tmp[c]) \in synced[FirstDir]
    BY DEF FinishPublish, IInv, CoopInv, PublishOK, Linked
  <2>2. DirOK'
    BY <1>1, <1>3, <2>1 DEF IInv, CoopInv, DirOK, Here, Numbered
  <2> QED BY <1>1, <1>3, <2>2, ReturnCoop
<1> QED BY <1>2, <1>3 DEF FinishPublish

(* A power failure ends every client and keeps what was synced. *)
LEMMA PowerLossCoop ==
  ASSUME IInv, PowerLoss, UNCHANGED acked
  PROVE  /\ CoopInv'
         /\ Here' \subseteq Here
         /\ \A e \in Here : Leaf(e) \in synced[FirstDir] => e \in Here'
<1>1. place = FirstDir /\ FirstDir \in DirIds
  BY ConstantsAssumption DEF IInv, CoopInv, AtHome
<1>2. PICK kept \in SUBSET Here :
        /\ \A e \in Here : Leaf(e) \in synced[FirstDir] => e \in kept
        /\ Here' = kept
        /\ synced'[FirstDir] = {Leaf(e) : e \in kept}
  BY <1>1 DEF PowerLoss, IInv, TypeInv, TypeOK, Here
<1>3. /\ UNCHANGED <<place, made, at>>
      /\ \A x \in Clients : pc'[x] = "idle" /\ held'[x] = "none"
  BY DEF PowerLoss
<1>4. AtHome' /\ DirOK'
  BY <1>2, <1>3 DEF IInv, CoopInv, AtHome, DirOK
<1>5. NoDowngrade'
  BY <1>1, <1>2, <1>3 DEF IInv, CoopInv, NoDowngrade, Here
<1>6. \A x \in Clients : LockOK(x)' /\ ViewOK(x)' /\ PublishOK(x)'
  BY <1>3, OutsideOK DEF LockOK, Outside
<1> QED BY <1>2, <1>4, <1>5, <1>6 DEF CoopInv

LEMMA CoopStep ==
  ASSUME IInv, [CoopNext]_vars
  PROVE  IInv'
<1>1. TypeInv'
  BY NextType DEF IInv, Next
<1>2. ASSUME NEW c \in Clients, Step(c) PROVE CoopInv'
  BY <1>2, OpenCoop, LockCoop, EnterCoop, ScanCoop, InspectCoop, SurveyCoop,
     ReadRecordCoop, ConcludeCoop, ReadTipCoop, FinishReadCoop, CompareCoop,
     PrepareCoop, RecheckCoop, LinkCoop, VerifyCoop, SyncCoop, FinishPublishCoop
  DEF Step, StepBefore
<1>3. ASSUME NEW c \in Clients, Event(c) PROVE CoopInv'
  <2>1. UNCHANGED acked
    BY <1>3 DEF Event
  <2>2. CASE StartRead(c) \/ \E d \in AllDocuments : StartPublish(c, d)
    BY <1>3, <2>1, <2>2, StartCoop
  <2>3. CASE OperationFails(c)
    BY <1>3, <2>1, <2>3, FailCoop DEF OperationFails
  <2>4. CASE Kill(c)
    <3>1. Return(c, "none", NoRecord) /\ UNCHANGED <<place, dirs, made, synced>>
      BY <2>4 DEF Kill
    <3> QED BY <1>3, <2>1, <3>1, DirUntouched, ReturnCoop
  <2> QED BY <1>3, <2>2, <2>3, <2>4 DEF Event
<1>4. CASE PowerLoss /\ UNCHANGED acked
  BY <1>1, <1>4, PowerLossCoop DEF IInv
<1>5. CASE UNCHANGED vars
  <2>1. UNCHANGED <<place, dirs, synced, made, acked, at, held, pc, task>>
        /\ \A x \in Clients : SameClient(x)
    BY <1>5 DEF vars, fsVars, local, SameClient
  <2>2. AtHome' /\ DirOK' /\ NoDowngrade'
    BY <2>1, DirUntouched DEF IInv, CoopInv, AtHome
  <2>3. \A x \in Clients : LockOK(x)' /\ ViewOK(x)' /\ PublishOK(x)'
    BY <2>1, UntouchedOK DEF IInv, CoopInv, LockOK
  <2> QED BY <1>1, <2>2, <2>3 DEF CoopInv, IInv
<1> QED BY <1>1, <1>2, <1>3, <1>4, <1>5 DEF CoopNext, IInv

LEMMA CoopInit == Init => IInv
<1> SUFFICES ASSUME Init PROVE IInv
  OBVIOUS
<1>1. Here = {} /\ acked = {} /\ AtHome
  BY ConstantsAssumption DEF Init, EmptyStore, NothingRunning, Here, AtHome
<1>2. DirOK /\ NoDowngrade
  BY <1>1 DEF DirOK, NoDowngrade, AtHome, Here
<1>3. \A c \in Clients : LockOK(c) /\ ViewOK(c) /\ PublishOK(c)
  BY DEF Init, NothingRunning, LockOK, ViewOK, PublishOK, Outside, Compared,
         Prepared, Linked, Again, Proving
<1> QED BY <1>1, <1>2, <1>3, InitType DEF IInv, CoopInv

LEMMA CoopInvariant == CoopSpec => []IInv
BY CoopInit, CoopStep, PTL DEF CoopSpec

(* However many clients of however many releases share a store, and         *)
(* whatever crashes, no record of an older release ever follows a document  *)
(* that only a later release understands.                                   *)
THEOREM NeverDowngraded == CoopSpec => []NoDowngrade
<1>1. IInv => NoDowngrade
  BY DEF IInv, CoopInv
<1> QED BY <1>1, CoopInvariant, PTL

-----------------------------------------------------------------------------
(* The refinement. *)

History == {Numbered(e) : e \in Here}

(* The tip that the chain proof finds is the newest record of the register. *)
LEMMA TipIsRegisterTip ==
  ASSUME IInv, NEW c \in Clients, ProvenChain(c, Here)
  PROVE  Observation(TipOf(Here)) = Register!Tip(History)
<1>1. Here \in SUBSET Entry
  BY ConstantsAssumption DEF IInv, TypeInv, TypeOK, Here
<1>2. CASE Here = {}
  BY <1>2 DEF TipOf, Observation, Register!Tip, History
<1>3. CASE Here # {}
  <2> DEFINE t == ChainTip(Here)
  <2>1. Chain(Here) = Here /\ \A x, y \in Here : x.gen = y.gen => x = y
    BY <1>3 DEF ProvenChain, MalformedInventory, Forked, IInv, CoopInv, DirOK
  <2>2. t \in Here /\ \A x \in Here : x.gen <= t.gen
    BY <1>1, <1>3, <2>1, ChainTipIsNewest
  <2>3. Observation(TipOf(Here)) = Numbered(t)
    BY <1>1, <1>3, <2>2, MarkersAssumption DEF TipOf, Observation
  <2> HIDE DEF t
  <2>4. \A x \in Here : Numbered(x).gen = x.gen /\ x.gen \in Nat
    BY <1>1 DEF Numbered, Entry
  <2>5. Numbered(t) \in Register!Newest(History)
    BY <2>2, <2>4 DEF Register!Newest, History
  <2>6. \A r \in Register!Newest(History) : r = Numbered(t)
    <3> SUFFICES ASSUME NEW x \in Here, Numbered(x) \in Register!Newest(History)
                 PROVE  x = t
      BY DEF Register!Newest, History
    <3>1. t.gen <= x.gen /\ x.gen <= t.gen
      BY <2>2, <2>4 DEF Register!Newest, History
    <3> QED BY <2>1, <2>2, <2>4, <3>1
  <2>7. (CHOOSE r \in Register!Newest(History) : TRUE) = Numbered(t)
    BY <2>5, <2>6
  <2>8. History # {}
    BY <1>3 DEF History
  <2> QED BY <2>3, <2>7, <2>8 DEF Register!Tip
<1> QED BY <1>2, <1>3

(* After the link the register's newest record is the one just linked. *)
LEMMA LinkedIsRegisterTip ==
  ASSUME IInv, NEW t \in Here, \A e \in Here : e = t \/ e.gen < t.gen
  PROVE  Register!Tip(History) = Numbered(t) /\ History # {}
<1>1. \A x \in Here : Numbered(x).gen = x.gen /\ x.gen \in Nat
  BY ConstantsAssumption DEF IInv, TypeInv, TypeOK, Here, Numbered, Entry
<1>2. Numbered(t) \in Register!Newest(History)
  BY <1>1 DEF Register!Newest, History
<1>3. \A r \in Register!Newest(History) : r = Numbered(t)
  <2> SUFFICES ASSUME NEW x \in Here, Numbered(x) \in Register!Newest(History)
               PROVE  x = t
    BY DEF Register!Newest, History
  <2>1. t.gen <= x.gen
    BY <1>1 DEF Register!Newest, History
  <2> QED BY <1>1, <2>1
<1>4. (CHOOSE r \in Register!Newest(History) : TRUE) = Numbered(t)
  BY <1>2, <1>3
<1>5. History # {}
  BY DEF History
<1> QED BY <1>4, <1>5 DEF Register!Tip

(* A return without an observation is the register's Forget. *)
LEMMA FailForgets ==
  ASSUME IInv, NEW c \in Clients, Fail(c) \/ FailUnsafe(c)
  PROVE  known' = [known EXCEPT ![c] = NotRead]
BY DEF Fail, FailUnsafe, Return

LEMMA ForgetStep ==
  ASSUME IInv, NEW c \in Clients, known' = [known EXCEPT ![c] = NotRead],
         UNCHANGED <<place, dirs, acked>>
  PROVE  Register!Next
<1>1. [x \in Clients |-> Observation(known[x])]'
        = [[x \in Clients |-> Observation(known[x])] EXCEPT ![c] = NotRead]
  BY DEF IInv, TypeInv, TypeOK, Observation
<1>2. Register!Forget(c)
  BY <1>1 DEF Register!Forget
<1> QED BY <1>2 DEF Register!Next

LEMMA FailStep ==
  ASSUME IInv, NEW c \in Clients, Fail(c) \/ FailUnsafe(c),
         UNCHANGED <<fsVars, acked>>
  PROVE  Register!Next
BY FailForgets, ForgetStep DEF fsVars

(* A step that changes neither the records nor any observation. *)
LEMMA StutterStep ==
  ASSUME UNCHANGED <<place, dirs, acked, known>>
  PROVE  UNCHANGED Register!vars
BY DEF Register!vars

(* An answer of Missing, Loaded or Published is the register's newest. *)
LEMMA ObservedStep ==
  ASSUME IInv, NEW c \in Clients, NEW k, known' = [known EXCEPT ![c] = k],
         Observation(k) = Register!Tip(History), UNCHANGED <<place, dirs>>
  PROVE  /\ UNCHANGED acked => Register!Read(c)
         /\ History # {} /\ acked' = acked \cup {Register!Tip(History)}
              => Register!Acknowledge(c)
<1>1. [x \in Clients |-> Observation(known[x])]'
        = [[x \in Clients |-> Observation(known[x])] EXCEPT
             ![c] = Register!Tip(History)]
  BY DEF IInv, TypeInv, TypeOK
<1>2. {Numbered(e) : e \in dirs[place]} = History
  BY DEF IInv, CoopInv, AtHome, History, Here
<1> QED BY <1>1, <1>2 DEF Register!Read, Register!Acknowledge

(* linkat appends to the register. *)
LEMMA LinkAppends ==
  ASSUME IInv, NEW c \in Clients, UNCHANGED acked, Link(c),
         ~(Fail(c) /\ UNCHANGED fsVars)
  PROVE  Register!Next
<1>1. /\ pc[c] = "link" /\ task[c] = "publish"
      /\ Numbered(tmp'[c]) = Numbered(tmp[c])
      /\ Here' = Here \cup {tmp'[c]}
      /\ UNCHANGED <<place, known, want>>
  BY LinkFacts
<1>2. /\ ProvenChain(c, Here) /\ known[c] = TipOf(Here)
      /\ tmp[c].gen = IF known[c] = NoRecord THEN 1 ELSE known[c].gen + 1
      /\ tmp[c].doc = want[c]
  BY <1>1 DEF IInv, CoopInv, PublishOK, Compared, Prepared
<1>3. known[c] # NotRead /\ want[c] \in AllDocuments
  BY <1>1 DEF IInv, TypeInv, LocalOK, AllDocuments
<1>4. Observation(known[c]) = Register!Tip(History)
  BY <1>2, TipIsRegisterTip
<1>5. place = FirstDir
  BY DEF IInv, CoopInv, AtHome
<1>6. Here \in SUBSET Entry
  BY ConstantsAssumption DEF IInv, TypeInv, TypeOK, Here
<1>7. /\ Here = {} => known[c] = NoRecord
      /\ Here # {} => known[c] \in Here
  <2>1. Here # {} => Chain(Here) = Here
    BY <1>2 DEF ProvenChain
  <2> QED BY <1>2, <1>6, <2>1, ChainTipIsNewest DEF TipOf
<1>8. Here # {} => /\ known[c] # NoRecord
                   /\ Observation(known[c]) = Numbered(known[c])
                   /\ Numbered(known[c]).gen = known[c].gen
  BY <1>6, <1>7, MarkersAssumption DEF Observation, Numbered
<1>9. Observation(known[c]) # NotRead
  <2>1. CASE known[c] = NoRecord
    BY <2>1, ConstantsAssumption DEF Observation
  <2>2. CASE known[c] # NoRecord
    <3>1. known[c] \in Entry
      BY <1>3, <2>2 DEF IInv, TypeInv, TypeOK
    <3>2. Numbered(known[c]) \in [gen : Nat, doc : AllDocuments]
      BY <3>1, ConstantsAssumption DEF Numbered, Entry
    <3> QED BY <1>3, <2>2, <3>2, MarkersAssumption DEF Observation
  <2> QED BY <2>1, <2>2
<1>10. tmp[c].gen = IF History = {} THEN 1 ELSE Register!Tip(History).gen + 1
  <2>1. History = {} <=> Here = {}
    BY DEF History
  <2> QED BY <1>2, <1>4, <1>7, <1>8, <2>1
<1>11. History' = History \cup
         {[gen |-> IF History = {} THEN 1 ELSE Register!Tip(History).gen + 1,
           doc |-> want[c]]}
  <2>1. Numbered(tmp[c]) =
          [gen |-> IF History = {} THEN 1 ELSE Register!Tip(History).gen + 1,
           doc |-> want[c]]
    BY <1>2, <1>10 DEF Numbered
  <2>2. History' = History \cup {Numbered(tmp'[c])}
    BY <1>1 DEF History
  <2> QED BY <1>1, <2>1, <2>2
<1>12. /\ {Numbered(e) : e \in dirs[place]} = History
       /\ {Numbered(e) : e \in dirs[place]}' = History'
  BY <1>1, <1>5 DEF History, Here
<1>13. [x \in Clients |-> Observation(known[x])][c] = Observation(known[c])
  OBVIOUS
<1>14. Register!Append(c, want[c])
  BY <1>1, <1>4, <1>9, <1>11, <1>12, <1>13 DEF Register!Append
<1> QED BY <1>3, <1>14 DEF Register!Next

LEMMA ReadAnswers ==
  ASSUME IInv, NEW c \in Clients, UNCHANGED acked, EnterUnit(c) \/ FinishRead(c)
  PROVE  [Register!Next]_(Register!vars)
<1>1. CASE EnterUnit(c)
  <2>1. UNCHANGED <<place, dirs>>
    BY <1>1 DEF EnterUnit
  <2>2. CASE Fail(c)
    BY <2>1, <2>2, FailForgets, ForgetStep
  <2>3. CASE Goto(c, "scan") /\ UNCHANGED known
    BY <2>1, <2>3, StutterStep
  <2>4. CASE Return(c, "Missing", NoRecord) /\ at[c] \notin made
    <3>1. Here = {}
      BY <2>4 DEF IInv, CoopInv, AtHome, DirOK
    <3>2. Observation(NoRecord) = Register!Tip(History)
      BY <3>1 DEF Observation, Register!Tip, History
    <3>3. known' = [known EXCEPT ![c] = NoRecord]
      BY <2>4 DEF Return
    <3>4. Register!Read(c)
      BY <2>1, <3>2, <3>3, ObservedStep
    <3> QED BY <3>4 DEF Register!Next
  <2> QED BY <1>1, <2>2, <2>3, <2>4 DEF EnterUnit
<1>2. CASE FinishRead(c)
  <2>1. UNCHANGED <<place, dirs, fsVars>>
    BY <1>2 DEF FinishRead, fsVars
  <2>2. CASE Fail(c)
    BY <2>1, <2>2, FailStep
  <2>3. CASE ~Fail(c)
    <3>1. acc[c] = Here /\ ProvenChain(c, Here)
      BY <1>2 DEF FinishRead, IInv, CoopInv, ViewOK
    <3>2. known' = [known EXCEPT ![c] = TipOf(Here)]
      BY <1>2, <2>3, <3>1 DEF FinishRead, Return
    <3>3. Register!Read(c)
      BY <2>1, <3>1, <3>2, TipIsRegisterTip, ObservedStep
    <3> QED BY <3>3 DEF Register!Next
  <2> QED BY <2>2, <2>3
<1> QED BY <1>1, <1>2

LEMMA PublishAnswers ==
  ASSUME IInv, NEW c \in Clients, FinishPublish(c)
  PROVE  Register!Next
<1>1. UNCHANGED <<place, dirs, fsVars>>
  BY DEF FinishPublish, fsVars
<1>2. CASE Fail(c) /\ UNCHANGED acked
  BY <1>1, <1>2, FailStep
<1>3. CASE /\ Return(c, "Published", tmp[c])
           /\ acked' = acked \cup {[gen |-> tmp[c].gen, doc |-> tmp[c].doc]}
  <2>1. tmp[c] \in Here /\ \A e \in Here : e = tmp[c] \/ e.gen < tmp[c].gen
    BY DEF FinishPublish, IInv, CoopInv, PublishOK, Linked
  <2>2. Register!Tip(History) = Numbered(tmp[c]) /\ History # {}
    BY <2>1, LinkedIsRegisterTip
  <2>3. tmp[c] \in Entry
    BY <2>1, ConstantsAssumption DEF IInv, TypeInv, TypeOK, Here
  <2>4. Observation(tmp[c]) = Register!Tip(History)
    BY <2>2, <2>3, MarkersAssumption DEF Observation
  <2>5. known' = [known EXCEPT ![c] = tmp[c]]
    BY <1>3 DEF Return
  <2>6. acked' = acked \cup {Register!Tip(History)}
    BY <1>3, <2>2 DEF Numbered
  <2>7. Register!Acknowledge(c)
    BY <1>1, <2>2, <2>4, <2>5, <2>6, ObservedStep
  <2> QED BY <2>7 DEF Register!Next
<1> QED BY <1>2, <1>3 DEF FinishPublish

LEMMA PowerLossLoses ==
  ASSUME IInv, PowerLoss, UNCHANGED acked
  PROVE  Register!Next
<1>1. /\ Here' \subseteq Here
      /\ \A e \in Here : Leaf(e) \in synced[FirstDir] => e \in Here'
  BY PowerLossCoop
<1>2. place = FirstDir /\ place' = FirstDir
  BY DEF IInv, CoopInv, AtHome, PowerLoss
<1>3. acked \subseteq History' /\ History' \subseteq History
  BY <1>1 DEF IInv, CoopInv, DirOK, History
<1>4. /\ {Numbered(e) : e \in dirs[place]} = History
      /\ {Numbered(e) : e \in dirs[place]}' = History'
  BY <1>2 DEF History, Here
<1>5. [x \in Clients |-> Observation(known[x])]' = [x \in Clients |-> NotRead]
  BY DEF PowerLoss, Observation
<1>6. Register!PowerLoss
  BY <1>3, <1>4, <1>5 DEF Register!PowerLoss
<1> QED BY <1>6 DEF Register!Next

(* Every step of the store is a step of the register or leaves it alone. *)
LEMMA StepRefines ==
  ASSUME IInv, [CoopNext]_vars
  PROVE  [Register!Next]_(Register!vars)
<1>1. ASSUME NEW c \in Clients, StepBefore(c), UNCHANGED acked
      PROVE  [Register!Next]_(Register!vars)
  <2>1. CASE Link(c)
    <3>1. CASE Fail(c) /\ UNCHANGED fsVars
      BY <1>1, <3>1, FailStep
    <3>2. CASE ~(Fail(c) /\ UNCHANGED fsVars)
      BY <1>1, <2>1, <3>2, LinkAppends
    <3> QED BY <3>1, <3>2
  <2>2. CASE EnterUnit(c) \/ FinishRead(c)
    BY <1>1, <2>2, ReadAnswers
  <2>3. CASE OpenStore(c) \/ PrepareRecord(c) \/ SyncUnit(c)
    <3>1. UNCHANGED <<place, dirs, known>>
      BY <2>3 DEF OpenStore, PrepareRecord, SyncUnit, fsVars
    <3> QED BY <1>1, <3>1, StutterStep
  <2>4. CASE \/ LockStore(c) \/ Scan(c) \/ Inspect(c) \/ Survey(c)
             \/ ReadRecord(c) \/ Conclude(c) \/ ReadTip(c)
             \/ ComparePredecessor(c) \/ RecheckPredecessor(c) \/ VerifyCommit(c)
    <3>1. UNCHANGED fsVars /\ (Fail(c) \/ FailUnsafe(c) \/ UNCHANGED known)
      BY <2>4 DEF LockStore, Scan, Inspect, Survey, ReadRecord, Conclude, ReadTip,
                  ComparePredecessor, RecheckPredecessor, VerifyCommit
    <3>2. CASE Fail(c) \/ FailUnsafe(c)
      BY <1>1, <3>1, <3>2, FailStep
    <3>3. CASE UNCHANGED known
      BY <1>1, <3>1, <3>3, StutterStep DEF fsVars
    <3> QED BY <3>1, <3>2, <3>3
  <2> QED BY <1>1, <2>1, <2>2, <2>3, <2>4 DEF StepBefore
<1>2. ASSUME NEW c \in Clients, Event(c) PROVE [Register!Next]_(Register!vars)
  <2>1. UNCHANGED acked
    BY <1>2 DEF Event
  <2>2. CASE StartRead(c) \/ \E d \in AllDocuments : StartPublish(c, d)
    <3>1. UNCHANGED <<place, dirs, known>>
      BY <2>2 DEF StartRead, StartPublish, fsVars
    <3> QED BY <2>1, <3>1, StutterStep
  <2>3. CASE OperationFails(c)
    BY <2>1, <2>3, FailStep DEF OperationFails
  <2>4. CASE Kill(c)
    <3>1. UNCHANGED <<place, dirs>> /\ known' = [known EXCEPT ![c] = NotRead]
      BY <2>4 DEF Kill, Return
    <3> QED BY <2>1, <3>1, ForgetStep
  <2> QED BY <1>2, <2>2, <2>3, <2>4 DEF Event
<1>3. CASE UNCHANGED vars
  BY <1>3, StutterStep DEF vars, fsVars
<1>4. CASE PowerLoss /\ UNCHANGED acked
  BY <1>4, PowerLossLoses
<1>5. ASSUME NEW c \in Clients, Step(c) PROVE [Register!Next]_(Register!vars)
  BY <1>1, <1>5, PublishAnswers DEF Step
<1> QED BY <1>2, <1>3, <1>4, <1>5 DEF CoopNext

LEMMA InitRefines == Init => Register!Init
<1> SUFFICES ASSUME Init PROVE Register!Init
  OBVIOUS
<1>1. dirs[place] = {} /\ acked = {} /\ \A c \in Clients : known[c] = NotRead
  BY ConstantsAssumption DEF Init, EmptyStore, NothingRunning
<1>2. [c \in Clients |-> Observation(known[c])] = [c \in Clients |-> NotRead]
  BY <1>1 DEF Observation
<1> QED BY <1>1, <1>2 DEF Register!Init

(* The directory of linked files, with its piecewise observations, killed   *)
(* processes and power failures, implements one compare-and-append          *)
(* register: publish_xdg_generation_store appends only to the record its    *)
(* caller observed, and what it answered Published is never lost.           *)
THEOREM StoreImplementsRegister == CoopSpec => ImplementsRegister
<1>1. IInv /\ [CoopNext]_vars => [Register!Next]_(Register!vars)
  BY StepRefines
<1> QED BY <1>1, InitRefines, CoopInvariant, PTL
        DEF CoopSpec, ImplementsRegister, Register!Spec
=============================================================================
