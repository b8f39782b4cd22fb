---------------------- MODULE StoreInterferenceProofs -----------------------
(***************************************************************************)
(* The store next to processes that take no lock, for every number of      *)
(* clients, directories, generations and changes: what a publication       *)
(* answers agrees with whether its record was linked, and an answer names  *)
(* a record that was the newest of one complete chain at an instant of the *)
(* operation, although the code never sees the directory at one instant.   *)
(*                                                                         *)
(* The second is the argument of the double collect.  On a clock that      *)
(* advances with every change a file that is gone, or was never there, can *)
(* not appear again with the status it had.  What the second proof finds   *)
(* equal to the first was therefore there all the time in between, and at  *)
(* the instant of the second scan, which listed no other name, it was      *)
(* everything.                                                             *)
(***************************************************************************)
EXTENDS MCStoreInterference, XdgGenerationStoreProofs

(* The clock advances with every change of a directory. *)
FineClock == 0 \notin Ticks

-----------------------------------------------------------------------------
(* The invariants. *)

(* While an operation runs it knows whether it has committed, and it has    *)
(* not answered yet.                                                        *)
CommitOK(c) ==
  /\ pc[c] # "idle" => /\ linked[c] <=> Committed(c)
                       /\ result[c].kind = "none"
  /\ result[c].kind \in {"Failure", "Unsafe"} => ~linked[c]
  /\ result[c].kind \in {"Published", "Uncertain"} => linked[c]

(* No file is younger than the clock, and none that was seen is. *)
ClockOK == \A d \in DirIds : \A e \in dirs[d] : e.ctime <= clock
SeenOK(c) == \A e \in acc[c] \cup token[c] : e.ctime <= clock

(* Names are unique, and a unit that does not exist holds nothing. *)
NamesOK ==
  \A d \in DirIds :
    /\ \A x, y \in dirs[d] : Leaf(x) = Leaf(y) => x = y
    /\ d \notin made => dirs[d] = {}

Listing == {"inspect", "collect"}

(* The names this scan has found. *)
Listed(c) == todo[c] \cup {Leaf(x) : x \in snap[c]}

(* The round can still end with what the first proof found. *)
Confirmable(c) ==
  /\ Listed(c) = {Leaf(e) : e \in token[c]}
  /\ token[c] \subseteq acc[c] \cup dirs[at[c]]
  /\ ProvenChain(c, token[c])
  /\ \A e \in token[c] : e.nlink = 1

(* What a client has seen of the directory, and what a second proof means. *)
ScanOK(c) ==
  /\ pc[c] \notin Outside \cup {"enter"} => at[c] \in made
  /\ pc[c] \in Listing =>
       /\ \A x \in snap[c] : x.gen = 0 \/ x.nlink = 1
       /\ \A e \in acc[c] : Status(e) \in snap[c]
       /\ round[c] # 1 /\ Confirmable(c) => TipOf(token[c]) \in window[c]
  /\ pc[c] = "collect" => todo[c] = {}
  /\ pc[c] = "finish" /\ task[c] = "read" => TipOf(acc[c]) \in window[c]

(* From the first proof to the link, and from the link to the answer. *)
Based(c) == pc[c] \in {"prepare", "recheck", "link", "verify"} \/ Again(c, 2)
Formed(c) == pc[c] \in {"recheck", "link", "verify"} \/ Again(c, 2)

NewestOf(t, v) == t \in v /\ \A e \in v : e = t \/ e.gen < t.gen

ChainOK(c) ==
  task[c] = "publish" =>
    /\ pc[c] = "compare" \/ Based(c) => ProvenChain(c, token[c])
    /\ Based(c) => known[c] = TipOf(token[c])
    /\ Formed(c) => Leaf(tmp[c]) = NewLeaf(c)
    /\ pc[c] \in {"sync", "finish"} \/ Again(c, 3) => NewestOf(tmp[c], token[c])
    /\ pc[c] \in {"sync", "finish"} => tmp[c] \in window[c]

AnswerOK(c) ==
  result[c].kind \in {"Missing", "Loaded", "Published"} =>
    pc[c] = "idle" /\ result[c].entry \in window[c]

CommitInv ==
  /\ TypeInv /\ DOMAIN linked = Clients
  /\ \A c \in Clients : CommitOK(c)

ViewInv(c) == SeenOK(c) /\ ScanOK(c) /\ ChainOK(c) /\ AnswerOK(c)

LinearInv ==
  /\ TypeInv /\ ClockOK /\ NamesOK /\ DOMAIN window = Clients
  /\ \A c \in Clients : ViewInv(c)

-----------------------------------------------------------------------------
(* What a step leaves alone, the answers included. *)

LEMMA ReturnEffect ==
  ASSUME TypeOK, NEW c \in Clients, NEW kind, NEW entry, Return(c, kind, entry)
  PROVE  /\ pc'[c] = "idle" /\ acc'[c] = {} /\ token'[c] = {}
         /\ result'[c] = [kind |-> kind, entry |-> entry]
         /\ \A x \in Clients \ {c} : result'[x] = result[x]
         /\ UNCHANGED <<task, at>>
BY DEF TypeOK, Return, ClearLocals, Goto

LEMMA FailEffect ==
  ASSUME TypeOK, NEW c \in Clients, Fail(c) \/ FailUnsafe(c)
  PROVE  \E kind \in {"Uncertain", "Failure", "Unsafe"} : \E entry :
           /\ Return(c, kind, entry)
           /\ kind = "Uncertain" <=> Committed(c)
BY DEF Fail, FailUnsafe

LEMMA FailResult ==
  ASSUME TypeOK, NEW c \in Clients, Fail(c) \/ FailUnsafe(c)
  PROVE  \A x \in Clients \ {c} : result'[x] = result[x]
BY FailEffect, ReturnEffect

LEMMA OthersResult ==
  ASSUME TypeOK, NEW c \in Clients, NEW x \in Clients \ {c}, Step(c) \/ Event(c)
  PROVE  result'[x] = result[x]
<1> USE DEF TypeOK, local
<1>1. CASE OpenStore(c)
  BY <1>1 DEF OpenStore
<1>2. CASE LockStore(c)
  BY <1>2, FailResult DEF LockStore
<1>3. CASE EnterUnit(c)
  BY <1>3, FailResult, ReturnEffect DEF EnterUnit
<1>4. CASE Scan(c)
  BY <1>4, FailResult DEF Scan
<1>5. CASE Inspect(c)
  BY <1>5, FailResult DEF Inspect
<1>6. CASE Survey(c)
  BY <1>6, FailResult DEF Survey
<1>7. CASE ReadRecord(c)
  BY <1>7, FailResult DEF ReadRecord
<1>8. CASE Conclude(c)
  BY <1>8, FailResult DEF Conclude
<1>9. CASE ReadTip(c)
  BY <1>9, FailResult DEF ReadTip
<1>10. CASE FinishRead(c)
  BY <1>10, FailResult, ReturnEffect DEF FinishRead
<1>11. CASE ComparePredecessor(c)
  BY <1>11, FailResult DEF ComparePredecessor
<1>12. CASE PrepareRecord(c)
  BY <1>12 DEF PrepareRecord
<1>13. CASE RecheckPredecessor(c)
  BY <1>13, FailResult DEF RecheckPredecessor
<1>14. CASE Link(c)
  BY <1>14, FailResult DEF Link
<1>15. CASE VerifyCommit(c)
  BY <1>15, FailResult DEF VerifyCommit
<1>16. CASE SyncUnit(c)
  BY <1>16 DEF SyncUnit
<1>17. CASE FinishPublish(c)
  BY <1>17, FailResult, ReturnEffect DEF FinishPublish
<1>18. CASE StartRead(c)
  BY <1>18 DEF StartRead
<1>19. CASE \E d \in AllDocuments : StartPublish(c, d)
  BY <1>19 DEF StartPublish
<1>20. CASE OperationFails(c)
  BY <1>20, FailResult DEF OperationFails
<1>21. CASE Kill(c)
  BY <1>21, ReturnEffect DEF Kill
<1> QED BY <1>1, <1>2, <1>3, <1>4, <1>5, <1>6, <1>7, <1>8, <1>9, <1>10, <1>11,
           <1>12, <1>13, <1>14, <1>15, <1>16, <1>17, <1>18, <1>19, <1>20, <1>21
        DEF Step, StepBefore, Event

-----------------------------------------------------------------------------
(* The answer of a publication and the link. *)

LEMMA CommitReturn ==
  ASSUME CommitInv, NEW c \in Clients, pc[c] # "idle", Observe,
         NEW kind, NEW entry, Return(c, kind, entry),
         kind \in {"Failure", "Unsafe"} => ~Committed(c),
         kind \in {"Published", "Uncertain"} => Committed(c)
  PROVE  CommitOK(c)'
<1>1. pc'[c] = "idle" /\ result'[c] = [kind |-> kind, entry |-> entry]
  BY ReturnEffect DEF CommitInv, TypeInv
<1>2. linked'[c] <=> linked[c]
  BY <1>1 DEF Observe
<1>3. linked[c] <=> Committed(c)
  BY DEF CommitInv, CommitOK
<1>4. result'[c].kind = kind
  BY <1>1
<1> QED BY <1>1, <1>2, <1>3, <1>4 DEF CommitOK

LEMMA CommitFail ==
  ASSUME CommitInv, NEW c \in Clients, pc[c] # "idle", Observe,
         Fail(c) \/ FailUnsafe(c)
  PROVE  CommitOK(c)'
<1>1. TypeOK
  BY DEF CommitInv, TypeInv
<1>2. PICK kind \in {"Uncertain", "Failure", "Unsafe"} :
        \E entry : Return(c, kind, entry) /\ (kind = "Uncertain" <=> Committed(c))
  BY <1>1, FailEffect
<1>3. PICK entry :
        Return(c, kind, entry) /\ (kind = "Uncertain" <=> Committed(c))
  BY <1>2
<1> QED BY <1>2, <1>3, CommitReturn

(* A step within an operation. *)
LEMMA CommitMove ==
  ASSUME CommitInv, NEW c \in Clients, pc[c] # "idle", pc'[c] # "idle",
         Observe, result'[c] = result[c],
         Committed(c)' <=> Committed(c) \/ (pc[c] = "link" /\ pc'[c] = "verify")
  PROVE  CommitOK(c)'
<1>1. linked'[c] <=> linked[c] \/ (pc[c] = "link" /\ pc'[c] = "verify")
  BY DEF Observe
<1>2. (linked[c] <=> Committed(c)) /\ result[c].kind = "none"
  BY DEF CommitInv, CommitOK
<1> QED BY <1>1, <1>2 DEF CommitOK

LEMMA CommitStepBefore ==
  ASSUME CommitInv, NEW c \in Clients, Observe, StepBefore(c)
  PROVE  CommitOK(c)'
<1> USE DEF Committed
<1>0. TypeOK /\ LocalOK(c)
  BY DEF CommitInv, TypeInv
<1>1. CASE OpenStore(c)
  <2>1. /\ pc[c] = "open" /\ pc'[c] = "lock"
        /\ result'[c] = result[c]
    BY <1>0, <1>1 DEF OpenStore, Goto, TypeOK
  <2> QED BY <2>1, CommitMove
<1>2. CASE LockStore(c)
  <2>1. CASE Fail(c)
    BY <1>2, <2>1, CommitFail DEF LockStore
  <2>2. CASE ~Fail(c)
    <3>1. pc[c] = "lock" /\ pc'[c] = "enter" /\ result'[c] = result[c]
      BY <1>0, <1>2, <2>2 DEF LockStore, Goto, TypeOK
    <3> QED BY <3>1, CommitMove
  <2> QED BY <2>1, <2>2
<1>3. CASE EnterUnit(c)
  <2>1. CASE Fail(c)
    BY <1>3, <2>1, CommitFail DEF EnterUnit
  <2>2. CASE Return(c, "Missing", NoRecord)
    BY <1>3, <2>2, CommitReturn DEF EnterUnit
  <2>3. CASE ~Fail(c) /\ ~Return(c, "Missing", NoRecord)
    <3>1. /\ pc[c] = "enter" /\ pc'[c] = "scan" /\ result'[c] = result[c]
          /\ round' = round
      BY <1>0, <1>3, <2>3 DEF EnterUnit, Goto, TypeOK, local
    <3>2. round[c] = 1
      BY <1>0, <3>1 DEF LocalOK
    <3> QED BY <3>1, <3>2, CommitMove
  <2> QED BY <2>1, <2>2, <2>3
<1>4. CASE Scan(c)
  <2>1. CASE Fail(c)
    BY <1>4, <2>1, CommitFail DEF Scan
  <2>2. CASE ~Fail(c)
    <3>1. /\ pc[c] = "scan" /\ pc'[c] = "inspect"
          /\ UNCHANGED <<round, task, result>>
      BY <1>0, <1>4, <2>2 DEF Scan, Goto, TypeOK
    <3> QED BY <3>1, CommitMove
  <2> QED BY <2>1, <2>2
<1>5. CASE Inspect(c)
  <2>1. CASE Fail(c)
    BY <1>5, <2>1, CommitFail DEF Inspect
  <2>2. CASE ~Fail(c)
    <3>1. pc[c] = "inspect" /\ UNCHANGED <<pc, round, task, result>>
      BY <1>5, <2>2 DEF Inspect
    <3> QED BY <3>1, CommitMove
  <2> QED BY <2>1, <2>2
<1>6. CASE Survey(c)
  <2>1. CASE FailUnsafe(c)
    BY <1>6, <2>1, CommitFail DEF Survey
  <2>2. CASE ~FailUnsafe(c)
    <3>1. /\ pc[c] = "inspect" /\ pc'[c] = "collect"
          /\ UNCHANGED <<round, task, result>>
      BY <1>0, <1>6, <2>2 DEF Survey, Goto, TypeOK, local
    <3> QED BY <3>1, CommitMove
  <2> QED BY <2>1, <2>2
<1>7. CASE ReadRecord(c)
  <2>1. CASE Fail(c)
    BY <1>7, <2>1, CommitFail DEF ReadRecord
  <2>2. CASE ~Fail(c)
    <3>1. pc[c] = "collect" /\ UNCHANGED <<pc, round, task, result>>
      BY <1>7, <2>2 DEF ReadRecord
    <3> QED BY <3>1, CommitMove
  <2> QED BY <2>1, <2>2
<1>8. CASE Conclude(c)
  <2>1. CASE Fail(c) \/ FailUnsafe(c)
    BY <1>8, <2>1, CommitFail DEF Conclude
  <2>2. CASE ~(Fail(c) \/ FailUnsafe(c))
    <3>1. /\ pc[c] = "collect" /\ pc'[c] = AfterProof(c)
          /\ round'[c] = IF AfterProof(c) = "scan" THEN 2 ELSE round[c]
          /\ UNCHANGED <<task, result>>
      BY <1>0, <1>8, <2>2 DEF Conclude, Goto, TypeOK
    <3>2. task[c] \in {"read", "publish"} /\ round[c] \in {1, 2, 3}
      BY <1>0 DEF TypeOK
    <3>3. pc'[c] # "idle" /\ (Committed(c)' <=> Committed(c))
      BY <3>1, <3>2 DEF AfterProof
    <3> QED BY <3>1, <3>3, CommitMove
  <2> QED BY <2>1, <2>2
<1>9. CASE ReadTip(c)
  <2>1. CASE Fail(c)
    BY <1>9, <2>1, CommitFail DEF ReadTip
  <2>2. CASE ~Fail(c)
    <3>1. /\ pc[c] = "readtip" /\ pc'[c] = "scan"
          /\ UNCHANGED <<task, result>>
      BY <1>0, <1>9, <2>2 DEF ReadTip, Goto, TypeOK
    <3>2. task[c] = "read"
      BY <1>0, <3>1 DEF LocalOK
    <3> QED BY <3>1, <3>2, CommitMove
  <2> QED BY <2>1, <2>2
<1>10. CASE FinishRead(c)
  <2>1. CASE Fail(c)
    BY <1>10, <2>1, CommitFail DEF FinishRead
  <2>2. CASE ~Fail(c)
    BY <1>10, <2>2, CommitReturn DEF FinishRead
  <2> QED BY <2>1, <2>2
<1>11. CASE ComparePredecessor(c)
  <2>1. CASE Fail(c)
    BY <1>11, <2>1, CommitFail DEF ComparePredecessor
  <2>2. CASE ~Fail(c)
    <3>1. pc[c] = "compare" /\ pc'[c] = "prepare" /\ result'[c] = result[c]
      BY <1>0, <1>11, <2>2 DEF ComparePredecessor, Goto, TypeOK
    <3> QED BY <3>1, CommitMove
  <2> QED BY <2>1, <2>2
<1>12. CASE PrepareRecord(c)
  <2>1. pc[c] = "prepare" /\ pc'[c] = "recheck" /\ result'[c] = result[c]
    BY <1>0, <1>12 DEF PrepareRecord, Goto, TypeOK
  <2> QED BY <2>1, CommitMove
<1>13. CASE RecheckPredecessor(c)
  <2>1. CASE Fail(c)
    BY <1>13, <2>1, CommitFail DEF RecheckPredecessor
  <2>2. CASE ~Fail(c)
    <3>1. /\ pc[c] = "recheck" /\ pc'[c] = "scan" /\ round'[c] = 2
          /\ result'[c] = result[c]
      BY <1>0, <1>13, <2>2 DEF RecheckPredecessor, Goto, TypeOK
    <3> QED BY <3>1, CommitMove
  <2> QED BY <2>1, <2>2
<1>14. CASE Link(c)
  <2>1. CASE Fail(c)
    BY <1>14, <2>1, CommitFail DEF Link
  <2>2. CASE ~Fail(c)
    <3>1. /\ pc[c] = "link" /\ pc'[c] = "verify" /\ task' = task
          /\ result'[c] = result[c]
      BY <1>0, <1>14, <2>2 DEF Link, Goto, TypeOK
    <3>2. task[c] = "publish"
      BY <1>0, <3>1 DEF LocalOK
    <3> QED BY <3>1, <3>2, CommitMove
  <2> QED BY <2>1, <2>2
<1>15. CASE VerifyCommit(c)
  <2>1. CASE Fail(c)
    BY <1>15, <2>1, CommitFail DEF VerifyCommit
  <2>2. CASE ~Fail(c)
    <3>1. /\ pc[c] = "verify" /\ pc'[c] = "scan" /\ round'[c] = 3
          /\ UNCHANGED <<task, result>>
      BY <1>0, <1>15, <2>2 DEF VerifyCommit, Goto, TypeOK
    <3> QED BY <3>1, CommitMove
  <2> QED BY <2>1, <2>2
<1>16. CASE SyncUnit(c)
  <2>1. /\ pc[c] = "sync" /\ pc'[c] = "finish"
        /\ UNCHANGED <<task, result>>
    BY <1>0, <1>16 DEF SyncUnit, Goto, TypeOK
  <2> QED BY <2>1, CommitMove
<1> QED BY <1>1, <1>2, <1>3, <1>4, <1>5, <1>6, <1>7, <1>8, <1>9, <1>10, <1>11,
           <1>12, <1>13, <1>14, <1>15, <1>16 DEF StepBefore

LEMMA CommitOwn ==
  ASSUME CommitInv, NEW c \in Clients, Observe, Step(c) \/ Event(c)
  PROVE  CommitOK(c)'
<1>0. TypeOK
  BY DEF CommitInv, TypeInv
<1>1. CASE StepBefore(c)
  BY <1>1, CommitStepBefore
<1>2. CASE FinishPublish(c)
  <2>1. CASE Fail(c)
    BY <1>2, <2>1, CommitFail DEF FinishPublish
  <2>2. CASE ~Fail(c)
    BY <1>2, <2>2, CommitReturn DEF FinishPublish, Committed
  <2> QED BY <2>1, <2>2
<1>3. CASE StartRead(c) \/ \E d \in AllDocuments : StartPublish(c, d)
  <2>1. /\ pc[c] = "idle" /\ pc'[c] = "open"
        /\ result'[c] = [kind |-> "none", entry |-> NoRecord]
    BY <1>0, <1>3 DEF StartRead, StartPublish, Goto, TypeOK
  <2>2. ~linked'[c]
    BY <2>1 DEF Observe
  <2>3. ~Committed(c)'
    BY <2>1 DEF Committed
  <2> QED BY <2>1, <2>2, <2>3 DEF CommitOK
<1>4. CASE OperationFails(c)
  BY <1>4, CommitFail DEF OperationFails
<1>5. CASE Kill(c)
  BY <1>5, CommitReturn DEF Kill
<1> QED BY <1>1, <1>2, <1>3, <1>4, <1>5 DEF Step, Event

(* An operation that does not move. *)
LEMMA CommitFrame ==
  ASSUME CommitInv, NEW x \in Clients, pc'[x] = pc[x], task'[x] = task[x],
         round'[x] = round[x], result'[x] = result[x], linked'[x] <=> linked[x]
  PROVE  CommitOK(x)'
BY DEF CommitInv, CommitOK, Committed

LEMMA CommitNext ==
  ASSUME CommitInv, [MCNext]_<<vars, ghosts>>
  PROVE  CommitInv'
<1>0. TypeOK
  BY DEF CommitInv, TypeInv
<1>1. TypeInv'
  BY NextType DEF CommitInv, MCNext, vars, ghosts
<1>2. DOMAIN linked' = Clients
  BY DEF CommitInv, MCNext, Observe, ghosts
<1>3. ASSUME NEW x \in Clients PROVE CommitOK(x)'
  <2>1. ASSUME NEW c \in Clients, Step(c) \/ Event(c), Observe
        PROVE  CommitOK(x)'
    <3>1. CASE x = c
      BY <2>1, <3>1, CommitOwn
    <3>2. CASE x # c
      <4>1. SameClient(x) /\ result'[x] = result[x]
        BY <1>0, <2>1, <3>2, OthersSame, OthersResult
      <4>2. linked'[x] <=> linked[x]
        BY <2>1, <4>1 DEF Observe, SameClient
      <4> QED BY <4>1, <4>2, CommitFrame DEF SameClient
    <3> QED BY <3>1, <3>2
  <2>2. CASE PowerLoss
    <3>1. pc'[x] = "idle" /\ result'[x].kind = "none"
      BY <2>2 DEF PowerLoss
    <3> QED BY <3>1 DEF CommitOK
  <2>3. ASSUME NEW d \in DirIds, NEW tick \in Ticks, Interfere(d, tick), Observe
        PROVE  CommitOK(x)'
    <3>1. UNCHANGED <<pc, task, round, result>>
      BY <2>3 DEF Interfere, local
    <3>2. linked'[x] <=> linked[x]
      BY <2>3, <3>1 DEF Observe
    <3> QED BY <3>1, <3>2, CommitFrame
  <2>4. CASE UNCHANGED <<vars, ghosts>>
    BY <2>4, CommitFrame DEF vars, local, ghosts
  <2> QED BY <2>1, <2>2, <2>3, <2>4 DEF MCNext, Next, CoopNext
<1> QED BY <1>1, <1>2, <1>3 DEF CommitInv

LEMMA InUseType ==
  ASSUME MCInit
  PROVE  TypeInv
<1>1. CASE EmptyStore
  BY <1>1, InitType DEF MCInit, Init
<1>2. CASE StoreInUse
  <2>1. First.doc \in Documents
    BY HistoryAssumption DEF First
  <2>2. First \in Entry
    BY <2>1, HistoryAssumption, ConstantsAssumption
    DEF First, Entry, AllDocuments, Binding, NoPredecessor
  <2>3. Second \in Entry
    BY <2>1, <2>2, EntryParts, HistoryAssumption, ConstantsAssumption
    DEF Second, Entry, AllDocuments
  <2>4. dirs \in [DirIds -> SUBSET Entry]
    BY <1>2, <2>2, <2>3 DEF StoreInUse
  <2>5. synced \in [DirIds -> SUBSET LeafName]
    BY <1>2, <2>4, EntryParts DEF StoreInUse
  <2>6. TypeOK
    BY <1>2, <2>4, <2>5, ConstantsAssumption
    DEF MCInit, StoreInUse, NothingRunning, TypeOK, Stages, Outcomes
  <2>7. \A c \in Clients : LocalOK(c)
    BY DEF MCInit, NothingRunning, LocalOK, Proving
  <2> QED BY <2>6, <2>7 DEF TypeInv
<1> QED BY <1>1, <1>2 DEF MCInit

LEMMA CommitInit ==
  ASSUME MCInit
  PROVE  CommitInv
<1>1. TypeInv
  BY InUseType
<1>2. DOMAIN linked = Clients
  BY DEF MCInit, GhostInit
<1>3. \A c \in Clients : CommitOK(c)
  BY DEF MCInit, NothingRunning, CommitOK
<1> QED BY <1>1, <1>2, <1>3 DEF CommitInv

(* Whatever fails and whatever other processes change meanwhile, a          *)
(* publication that has linked its record never reports a definite failure, *)
(* and one that has not never reports a commit (PublicationProgress).       *)
THEOREM CommitIsReported == MCSpec => []OutcomeMatchesCommit
<1>1. MCInit => CommitInv
  BY CommitInit
<1>2. CommitInv /\ [MCNext]_<<vars, ghosts>> => CommitInv'
  BY CommitNext
<1>3. CommitInv => OutcomeMatchesCommit
  BY DEF CommitInv, CommitOK, OutcomeMatchesCommit
<1> QED BY <1>1, <1>2, <1>3, PTL DEF MCSpec

-----------------------------------------------------------------------------
(* Files that are gone do not come back. *)

OnlyNew ==
  \A d \in DirIds : \A e \in dirs'[d] :
    e \in dirs[d] \/ (clock < e.ctime /\ e.ctime <= clock')

LEMMA SwapStep ==
  ASSUME TypeOK, NamesOK, NEW d \in DirIds, NEW e \in dirs[d], NEW f,
         Leaf(f) = Leaf(e), f.ctime = clock', clock < clock', clock' \in Nat,
         Swap(d, e, f), made' = made
  PROVE  OnlyNew /\ NamesOK'
<1>1. dirs' = [dirs EXCEPT ![d] = (@ \ {e}) \cup {f}]
  BY DEF Swap
<1>2. dirs'[d] = (dirs[d] \ {e}) \cup {f} /\ \A x \in DirIds \ {d} : dirs'[x] = dirs[x]
  BY <1>1 DEF TypeOK
<1>3. OnlyNew
  BY <1>2 DEF OnlyNew
<1>4. ASSUME NEW x \in DirIds
      PROVE  /\ \A y, z \in dirs'[x] : Leaf(y) = Leaf(z) => y = z
             /\ x \notin made' => dirs'[x] = {}
  <2>1. CASE x # d
    BY <1>2, <2>1 DEF NamesOK
  <2>2. CASE x = d
    <3>1. d \in made'
      BY DEF NamesOK
    <3>2. \A y \in dirs[d] \ {e} : Leaf(y) # Leaf(f)
      BY DEF NamesOK
    <3> QED BY <1>2, <2>2, <3>1, <3>2 DEF NamesOK
  <2> QED BY <2>1, <2>2
<1> QED BY <1>3, <1>4 DEF NamesOK

LEMMA AddStep ==
  ASSUME TypeOK, NamesOK, NEW d \in DirIds, NEW f, d \in made,
         f.ctime = clock', clock < clock', clock' \in Nat,
         \A x \in dirs[d] : Leaf(x) # Leaf(f),
         dirs' = [dirs EXCEPT ![d] = @ \cup {f}], made' = made
  PROVE  OnlyNew /\ NamesOK'
<1>2. dirs'[d] = dirs[d] \cup {f} /\ \A x \in DirIds \ {d} : dirs'[x] = dirs[x]
  BY DEF TypeOK
<1>3. OnlyNew
  BY <1>2 DEF OnlyNew
<1>4. ASSUME NEW x \in DirIds
      PROVE  /\ \A y, z \in dirs'[x] : Leaf(y) = Leaf(z) => y = z
             /\ x \notin made' => dirs'[x] = {}
  BY <1>2 DEF NamesOK
<1> QED BY <1>3, <1>4 DEF NamesOK

LEMMA ShrinkStep ==
  ASSUME TypeOK, NamesOK, \A d \in DirIds : dirs'[d] \subseteq dirs[d],
         made \subseteq made'
  PROVE  OnlyNew /\ NamesOK'
<1>1. OnlyNew
  BY DEF OnlyNew
<1>2. NamesOK'
  BY DEF NamesOK
<1> QED BY <1>1, <1>2

LEMMA FileParts ==
  ASSUME NEW leaf, NEW ino, NEW ctime, NEW nlink, NEW doc
  PROVE  LET f == File(leaf, ino, ctime, nlink, doc)
         IN Leaf(f) = Leaf(leaf) /\ f.ctime = ctime /\ f.gen = leaf.gen
BY DEF File, Leaf

LEMMA InterfereStep ==
  ASSUME FineClock, TypeOK, NamesOK, NEW d \in DirIds, NEW tick \in Ticks,
         Interfere(d, tick)
  PROVE  clock <= clock' /\ OnlyNew /\ NamesOK' /\ made \subseteq made'
<1> DEFINE now == clock + tick
<1>1. clock \in Nat /\ tick = 1
  BY ConstantsAssumption DEF TypeOK, FineClock
<1>2. clock' = now /\ clock < now /\ now \in Nat /\ made' = made
  BY <1>1 DEF Interfere
<1>3. \/ RewriteInPlace(d, now) \/ RenameOver(d, now) \/ ToggleAlias(d, now)
      \/ DeleteEntry(d) \/ AddEntry(d, now) \/ ExchangeDirectory(d)
  BY DEF Interfere
<1> HIDE DEF now
<1>4. ASSUME NEW e \in dirs[d], NEW ino, NEW links, NEW doc,
             Swap(d, e, File(e, ino, now, links, doc))
      PROVE  OnlyNew /\ NamesOK'
  BY <1>2, <1>4, SwapStep, FileParts
<1>5. OnlyNew /\ NamesOK'
  <2>1. CASE RewriteInPlace(d, now)
    BY <1>4, <2>1 DEF RewriteInPlace
  <2>2. CASE RenameOver(d, now)
    BY <1>4, <2>2 DEF RenameOver
  <2>3. CASE ToggleAlias(d, now)
    BY <1>4, <2>3 DEF ToggleAlias
  <2>4. CASE DeleteEntry(d)
    <3>1. \A x \in DirIds : dirs'[x] \subseteq dirs[x]
      BY <2>4 DEF DeleteEntry, TypeOK
    <3> QED BY <1>2, <3>1, ShrinkStep
  <2>5. CASE AddEntry(d, now)
    <3>0. PICK e \in dirs[d], doc \in AllDocuments :
            \E leaf \in [gen : {0, e.gen, e.gen + 1},
                         bind : {e.bind, BindingOf(e)}] :
              /\ ~\E x \in dirs[d] : Leaf(x) = leaf
              /\ dirs' = [dirs EXCEPT ![d] =
                            @ \cup {File(leaf, nextIno, now, 1, doc)}]
      BY <2>5 DEF AddEntry
    <3>1. PICK leaf \in [gen : {0, e.gen, e.gen + 1},
                         bind : {e.bind, BindingOf(e)}] :
              /\ ~\E x \in dirs[d] : Leaf(x) = leaf
              /\ dirs' = [dirs EXCEPT ![d] =
                            @ \cup {File(leaf, nextIno, now, 1, doc)}]
      BY <3>0
    <3>2. Leaf(leaf) = leaf
      BY <3>1 DEF Leaf
    <3>3. d \in made
      BY <3>0 DEF NamesOK
    <3>4. \A x \in dirs[d] : Leaf(x) # Leaf(File(leaf, nextIno, now, 1, doc))
      BY <3>1, <3>2, FileParts
    <3>5. File(leaf, nextIno, now, 1, doc).ctime = clock'
      BY <1>2, FileParts
    <3> QED BY <1>2, <3>1, <3>3, <3>4, <3>5, AddStep
  <2>6. CASE ExchangeDirectory(d)
    <3>1. dirs' = dirs
      BY <2>6 DEF ExchangeDirectory
    <3> QED BY <1>2, <3>1, ShrinkStep
  <2> QED BY <1>3, <2>1, <2>2, <2>3, <2>4, <2>5, <2>6
<1> QED BY <1>1, <1>2, <1>5

(* What linkat(2) does when the name is free. *)
LEMMA Linking ==
  ASSUME FineClock, LinearInv, NEW c \in Clients, Link(c), ~Fail(c)
  PROVE  /\ pc[c] = "link" /\ pc'[c] = "verify" /\ task[c] = "publish"
         /\ round[c] \in 1..3
         /\ clock' = clock + 1 /\ tmp'[c].ctime = clock'
         /\ Leaf(tmp'[c]) = Leaf(tmp[c])
         /\ dirs' = [dirs EXCEPT ![at[c]] = @ \cup {tmp'[c]}]
         /\ \A e \in dirs[at[c]] : Leaf(e) # Leaf(tmp'[c])
         /\ UNCHANGED <<made, task, at, known, round, todo, snap, acc, token,
                        result>>
<1>1. TypeOK /\ LocalOK(c)
  BY DEF LinearInv, TypeInv
<1>2. /\ pc[c] = "link" /\ \A e \in dirs[at[c]] : Leaf(e) # Leaf(tmp[c])
      /\ UNCHANGED <<made, task, at, known, round, todo, snap, acc, token, result>>
      /\ dirs' = [dirs EXCEPT ![at[c]] = @ \cup {tmp'[c]}]
      /\ Goto(c, "verify")
  BY DEF Link
<1>3. PICK tick \in Ticks :
        /\ clock' = clock + tick
        /\ tmp' = [tmp EXCEPT ![c] = File(@, @.ino, clock + tick, 1, @.doc)]
  BY DEF Link
<1>4. tick = 1
  BY <1>3, ConstantsAssumption DEF FineClock
<1>5. tmp'[c] = File(tmp[c], tmp[c].ino, clock', 1, tmp[c].doc)
  BY <1>1, <1>3 DEF TypeOK
<1>6. Leaf(tmp'[c]) = Leaf(tmp[c]) /\ tmp'[c].ctime = clock'
  BY <1>5, FileParts
<1>7. pc'[c] = "verify" /\ task[c] = "publish" /\ round[c] \in 1..3
  BY <1>1, <1>2 DEF Goto, TypeOK, LocalOK
<1> QED BY <1>2, <1>3, <1>4, <1>6, <1>7

(* Every other step of a client leaves the files alone. *)
LEMMA OwnDirs ==
  ASSUME FineClock, LinearInv, NEW c \in Clients, Step(c) \/ Event(c)
  PROVE  clock <= clock' /\ OnlyNew /\ NamesOK' /\ made \subseteq made'
<1>0. TypeOK /\ NamesOK /\ clock \in Nat /\ at[c] \in DirIds
  BY DEF LinearInv, TypeInv, TypeOK
<1>1. CASE UNCHANGED <<dirs, clock>> /\ made \subseteq made'
  BY <1>0, <1>1, ShrinkStep
<1>2. CASE Link(c) /\ ~Fail(c)
  <2>1. at[c] \in made
    BY <1>2 DEF LinearInv, ViewInv, ScanOK, Link, Outside
  <2>2. clock < clock' /\ clock' \in Nat /\ clock <= clock'
    BY <1>0, <1>2, Linking
  <2>3. /\ tmp'[c].ctime = clock' /\ made' = made
        /\ dirs' = [dirs EXCEPT ![at[c]] = @ \cup {tmp'[c]}]
        /\ \A e \in dirs[at[c]] : Leaf(e) # Leaf(tmp'[c])
    BY <1>2, Linking
  <2>4. OnlyNew /\ NamesOK'
    BY <1>0, <2>1, <2>2, <2>3, AddStep
  <2> QED BY <2>2, <2>3, <2>4
<1>3. ASSUME ~(Link(c) /\ ~Fail(c))
      PROVE  UNCHANGED <<dirs, clock>> /\ made \subseteq made'
  <2>1. CASE Link(c)
    <3>1. UNCHANGED fsVars
      <4>1. ~Goto(c, "verify")
        BY <1>0, <1>3, <2>1 DEF Fail, Return, Goto, TypeOK
      <4> QED BY <2>1, <4>1 DEF Link
    <3> QED BY <3>1 DEF fsVars
  <2>2. CASE StepBefore(c) /\ ~Link(c)
    BY <2>2
    DEF StepBefore, OpenStore, LockStore, EnterUnit, Scan, Inspect, Survey,
        ReadRecord, Conclude, ReadTip, FinishRead, ComparePredecessor,
        PrepareRecord, RecheckPredecessor, VerifyCommit, SyncUnit, fsVars
  <2>3. CASE FinishPublish(c) \/ Event(c)
    BY <2>3
    DEF FinishPublish, Event, StartRead, StartPublish, OperationFails, Kill, fsVars
  <2> QED BY <2>1, <2>2, <2>3 DEF Step
<1> QED BY <1>1, <1>2, <1>3

-----------------------------------------------------------------------------
(* The view of a client. *)

LEMMA WindowGrows ==
  ASSUME NEW c \in Clients, pc[c] # "idle", Observe
  PROVE  window'[c] = window[c] \cup TrueTip(c)'
BY DEF Observe

(* A client that does not move, whatever happens to the files. *)
LEMMA LinearFrame ==
  ASSUME LinearInv, NEW x \in Clients, SameClient(x), result'[x] = result[x],
         \A w \in window[x] : w \in window'[x],
         OnlyNew, clock \in Nat, clock <= clock', clock' \in Nat,
         made \subseteq made'
  PROVE  ViewInv(x)'
<1>0. /\ SeenOK(x) /\ ScanOK(x) /\ ChainOK(x) /\ AnswerOK(x)
      /\ at[x] \in DirIds /\ acc[x] \in SUBSET Entry /\ token[x] \in SUBSET Entry
  BY DEF LinearInv, ViewInv, TypeInv, TypeOK
<1>1. SeenOK(x)'
  <2>1. \A e \in acc[x] \cup token[x] : e.ctime \in Nat
    BY <1>0 DEF Entry
  <2> QED BY <1>0, <2>1 DEF SeenOK, SameClient
<1>2. Confirmable(x)' => Confirmable(x)
  <2>1. ASSUME Confirmable(x)', NEW e \in token[x]
        PROVE  e \in acc[x] \cup dirs[at[x]]
    <3>1. e \in acc[x] \/ e \in dirs'[at[x]]
      BY <2>1 DEF Confirmable, SameClient
    <3>2. e.ctime <= clock /\ e.ctime \in Nat
      BY <1>0 DEF SeenOK, Entry
    <3> QED BY <1>0, <3>1, <3>2 DEF OnlyNew
  <2> QED BY <2>1 DEF Confirmable, Listed, SameClient
<1>3. ScanOK(x)'
  BY <1>0, <1>2 DEF ScanOK, SameClient
<1>4. ChainOK(x)'
  BY <1>0 DEF ChainOK, Based, Formed, Again, NewLeaf, SameClient
<1>5. AnswerOK(x)'
  BY <1>0 DEF AnswerOK, SameClient
<1> QED BY <1>1, <1>3, <1>4, <1>5 DEF ViewInv

LEMMA LinearReturn ==
  ASSUME LinearInv, NEW c \in Clients, pc[c] # "idle", Observe,
         NEW kind, NEW entry, Return(c, kind, entry),
         kind \in {"Missing", "Loaded", "Published"} =>
           entry \in window[c] \cup TrueTip(c)'
  PROVE  ViewInv(c)'
<1>1. /\ pc'[c] = "idle" /\ acc'[c] = {} /\ token'[c] = {}
      /\ result'[c] = [kind |-> kind, entry |-> entry]
  BY ReturnEffect DEF LinearInv, TypeInv
<1>2. window'[c] = window[c] \cup TrueTip(c)'
  BY WindowGrows
<1>3. SeenOK(c)'
  BY <1>1 DEF SeenOK
<1>4. ScanOK(c)' /\ ChainOK(c)'
  BY <1>1 DEF ScanOK, ChainOK, Outside, Listing, Based, Formed, Again, Proving
<1>5. result'[c].kind = kind /\ result'[c].entry = entry
  BY <1>1
<1>6. AnswerOK(c)'
  BY <1>1, <1>2, <1>5 DEF AnswerOK
<1> QED BY <1>3, <1>4, <1>6 DEF ViewInv

LEMMA LinearFail ==
  ASSUME LinearInv, NEW c \in Clients, pc[c] # "idle", Observe,
         Fail(c) \/ FailUnsafe(c)
  PROVE  ViewInv(c)'
<1>1. TypeOK
  BY DEF LinearInv, TypeInv
<1>2. PICK kind \in {"Uncertain", "Failure", "Unsafe"} :
        \E entry : Return(c, kind, entry)
  BY <1>1, FailEffect
<1> QED BY <1>2, LinearReturn

(* A step within an operation: no answer, and the window only grows. *)
LEMMA LinearMove ==
  ASSUME LinearInv, NEW c \in Clients, pc[c] # "idle", Observe,
         result'[c] = result[c]
  PROVE  AnswerOK(c)' /\ \A w \in window[c] : w \in window'[c]
<1>1. result[c].kind \notin {"Missing", "Loaded", "Published"}
  BY DEF LinearInv, ViewInv, AnswerOK
<1> QED BY <1>1, WindowGrows DEF AnswerOK

(* The scan of a repeated proof: if the files of the first proof are all    *)
(* there and no other name is, this is the instant the answer names.        *)
LEMMA ScanLinear ==
  ASSUME LinearInv, NEW c \in Clients, Observe, Scan(c), ~Fail(c)
  PROVE  ViewInv(c)'
<1>0. /\ TypeOK /\ NamesOK /\ SeenOK(c) /\ ScanOK(c) /\ ChainOK(c)
      /\ at[c] \in DirIds
  BY DEF LinearInv, ViewInv, TypeInv, TypeOK
<1>1. /\ pc[c] = "scan" /\ pc'[c] = "inspect"
      /\ todo'[c] = {Leaf(e) : e \in dirs[at[c]]} /\ snap'[c] = {} /\ acc'[c] = {}
      /\ UNCHANGED <<dirs, made, clock, task, at, known, round, token, tmp, result>>
  BY <1>0 DEF Scan, Goto, TypeOK, fsVars
<1>2. AnswerOK(c)' /\ (\A w \in window[c] : w \in window'[c])
      /\ window'[c] = window[c] \cup TrueTip(c)'
  BY <1>1, LinearMove, WindowGrows
<1>3. SeenOK(c)'
  BY <1>0, <1>1 DEF SeenOK
<1>4. Confirmable(c)' => TipOf(token[c]) \in window'[c]
  <2> SUFFICES ASSUME Confirmable(c)' PROVE TipOf(token[c]) \in window'[c]
    OBVIOUS
  <2>1. /\ {Leaf(e) : e \in dirs[at[c]]} = {Leaf(e) : e \in token[c]}
        /\ token[c] \subseteq dirs[at[c]]
        /\ ProvenChain(c, token[c]) /\ \A e \in token[c] : e.nlink = 1
    <3>1. Listed(c)' = {Leaf(e) : e \in dirs[at[c]]}
      BY <1>1 DEF Listed
    <3> QED BY <1>1, <3>1 DEF Confirmable
  <2>2. ASSUME NEW e \in dirs[at[c]] PROVE e \in token[c]
    <3>1. PICK f \in token[c] : Leaf(f) = Leaf(e)
      BY <2>1
    <3> QED BY <1>0, <2>1, <3>1 DEF NamesOK
  <2>3. dirs[at[c]] = token[c]
    BY <2>1, <2>2
  <2>4. dirs'[at'[c]] = token[c]
    BY <1>1, <2>3
  <2>5. TrueTip(c)' = {TipOf(token[c])}
    BY <2>1, <2>4 DEF TrueTip
  <2> QED BY <1>2, <2>5
<1>5. ScanOK(c)'
  BY <1>0, <1>1, <1>4 DEF ScanOK, Outside, Listing
<1>6. ChainOK(c)'
  BY <1>0, <1>1, <1>2 DEF ChainOK, Based, Formed, Again, NewLeaf, Proving
<1> QED BY <1>2, <1>3, <1>5, <1>6 DEF ViewInv

LEMMA InspectLinear ==
  ASSUME LinearInv, NEW c \in Clients, Observe, Inspect(c), ~Fail(c)
  PROVE  ViewInv(c)'
<1>0. /\ TypeOK /\ SeenOK(c) /\ ScanOK(c) /\ ChainOK(c)
  BY DEF LinearInv, ViewInv, TypeInv
<1>1. PICK leaf \in todo[c] :
        LET usable == {e \in dirs[at[c]] :
                         Leaf(e) = leaf /\ (leaf.gen = 0 \/ e.nlink = 1)}
        IN /\ usable # {}
           /\ todo' = [todo EXCEPT ![c] = @ \ {leaf}]
           /\ snap' = [snap EXCEPT ![c] = @ \cup {Status(e) : e \in usable}]
  BY DEF Inspect
<1> DEFINE usable == {e \in dirs[at[c]] :
                        Leaf(e) = leaf /\ (leaf.gen = 0 \/ e.nlink = 1)}
<1>2. /\ pc[c] = "inspect"
      /\ UNCHANGED <<pc, dirs, made, clock, task, at, known, round, acc, token,
                     tmp, result>>
  BY DEF Inspect, fsVars
<1>3. /\ usable # {} /\ todo'[c] = todo[c] \ {leaf}
      /\ snap'[c] = snap[c] \cup {Status(e) : e \in usable}
  BY <1>0, <1>1 DEF TypeOK
<1>4. AnswerOK(c)' /\ \A w \in window[c] : w \in window'[c]
  BY <1>2, LinearMove
<1>5. \A e \in usable : /\ Leaf(Status(e)) = leaf
                        /\ Status(e).gen = 0 \/ Status(e).nlink = 1
  BY DEF Leaf, Status
<1> HIDE DEF usable
<1>6. Listed(c)' = Listed(c)
  BY <1>3, <1>5 DEF Listed
<1>7. Confirmable(c)' => Confirmable(c)
  BY <1>2, <1>6 DEF Confirmable
<1>8. ScanOK(c)'
  BY <1>0, <1>2, <1>3, <1>4, <1>5, <1>7 DEF ScanOK, Outside, Listing
<1>9. SeenOK(c)' /\ ChainOK(c)'
  BY <1>0, <1>2, <1>4
  DEF SeenOK, ChainOK, Based, Formed, Again, NewLeaf, Proving
<1> QED BY <1>4, <1>8, <1>9 DEF ViewInv

LEMMA SurveyLinear ==
  ASSUME LinearInv, NEW c \in Clients, Observe, Survey(c), ~FailUnsafe(c)
  PROVE  ViewInv(c)'
<1>0. /\ TypeOK /\ SeenOK(c) /\ ScanOK(c) /\ ChainOK(c)
  BY DEF LinearInv, ViewInv, TypeInv
<1>1. /\ pc[c] = "inspect" /\ pc'[c] = "collect" /\ todo[c] = {}
      /\ UNCHANGED <<dirs, made, clock, task, at, known, round, todo, snap, acc,
                     token, tmp, result>>
  BY <1>0 DEF Survey, Goto, TypeOK, fsVars, local
<1>2. AnswerOK(c)' /\ \A w \in window[c] : w \in window'[c]
  BY <1>1, LinearMove
<1>3. Confirmable(c)' => Confirmable(c)
  BY <1>1 DEF Confirmable, Listed
<1>4. ScanOK(c)'
  BY <1>0, <1>1, <1>2, <1>3 DEF ScanOK, Outside, Listing
<1>5. SeenOK(c)' /\ ChainOK(c)'
  BY <1>0, <1>1, <1>2
  DEF SeenOK, ChainOK, Based, Formed, Again, NewLeaf, Proving
<1> QED BY <1>2, <1>4, <1>5 DEF ViewInv

LEMMA ReadRecordLinear ==
  ASSUME LinearInv, NEW c \in Clients, Observe, ReadRecord(c), ~Fail(c)
  PROVE  ViewInv(c)'
<1>0. /\ TypeOK /\ SeenOK(c) /\ ScanOK(c) /\ ChainOK(c) /\ ClockOK
      /\ at[c] \in DirIds
  BY DEF LinearInv, ViewInv, TypeInv, TypeOK
<1>1. PICK x \in Unread(c) :
        acc' = [acc EXCEPT ![c] = @ \cup {e \in dirs[at[c]] : Status(e) = x}]
  BY DEF ReadRecord
<1>2. PICK same \in SUBSET dirs[at[c]] :
        /\ acc'[c] = acc[c] \cup same
        /\ \A e \in same : Status(e) \in snap[c]
  <2>1. acc'[c] = acc[c] \cup {e \in dirs[at[c]] : Status(e) = x}
    BY <1>0, <1>1 DEF TypeOK
  <2>2. x \in snap[c]
    BY <1>1 DEF Unread
  <2> QED BY <2>1, <2>2
<1>3. /\ pc[c] = "collect"
      /\ UNCHANGED <<pc, dirs, made, clock, task, at, known, round, todo, snap,
                     token, tmp, result>>
  BY DEF ReadRecord, fsVars
<1>4. AnswerOK(c)' /\ \A w \in window[c] : w \in window'[c]
  BY <1>3, LinearMove
<1>5. Confirmable(c)' => Confirmable(c)
  BY <1>2, <1>3 DEF Confirmable, Listed
<1>6. SeenOK(c)'
  BY <1>0, <1>2, <1>3 DEF SeenOK, ClockOK
<1>7. ScanOK(c)'
  BY <1>0, <1>2, <1>3, <1>4, <1>5 DEF ScanOK, Outside, Listing
<1>8. ChainOK(c)'
  BY <1>0, <1>3, <1>4 DEF ChainOK, Based, Formed, Again, NewLeaf, Proving
<1> QED BY <1>4, <1>6, <1>7, <1>8 DEF ViewInv

(* A proof that was concluded has read every file its scan has listed. *)
LEMMA ConcludedNames ==
  ASSUME TypeOK, NEW c \in Clients, pc[c] = "collect", ScanOK(c), Settled(c),
         ProvenChain(c, acc[c])
  PROVE  /\ Listed(c) = {Leaf(e) : e \in acc[c]}
         /\ \A e \in acc[c] : e.nlink = 1
<1>1. todo[c] = {} /\ \A e \in acc[c] : Status(e) \in snap[c]
  BY DEF ScanOK, Listing
<1>2. Unread(c) = {}
  <2>1. acc[c] \ Chain(acc[c]) = {}
    BY DEF ProvenChain, Chain
  <2> QED BY <2>1 DEF Settled
<1>3. ASSUME NEW x \in snap[c] PROVE \E e \in acc[c] : Leaf(e) = Leaf(x)
  <2>1. PICK e \in acc[c] : Status(e) = x
    BY <1>2 DEF Unread
  <2> QED BY <2>1 DEF Leaf, Status
<1>4. \A e \in acc[c] : Leaf(Status(e)) = Leaf(e)
  BY DEF Leaf, Status
<1>5. Listed(c) = {Leaf(e) : e \in acc[c]}
  BY <1>1, <1>3, <1>4 DEF Listed
<1>6. ASSUME NEW e \in acc[c] PROVE e.nlink = 1
  <2>1. e.gen # 0
    BY DEF ProvenChain, MalformedInventory, Unrecognized
  <2>2. Status(e).gen = 0 \/ Status(e).nlink = 1
    BY <1>1 DEF ScanOK, Listing
  <2> QED BY <2>1, <2>2 DEF Status
<1> QED BY <1>5, <1>6

LEMMA TipIsNewest ==
  ASSUME NEW v \in SUBSET Entry, NEW c, ProvenChain(c, v), NEW t, NewestOf(t, v)
  PROVE  TipOf(v) = t
<1>1. v # {} /\ Chain(v) = v
  BY DEF NewestOf, ProvenChain
<1>2. ChainTip(v) \in v /\ \A x \in v : x.gen <= ChainTip(v).gen
  BY <1>1, ChainTipIsNewest
<1>3. \A x \in v : x.gen \in Nat
  BY DEF Entry
<1>4. ChainTip(v) = t
  BY <1>2, <1>3 DEF NewestOf
<1> QED BY <1>1, <1>4 DEF TipOf

LEMMA ConcludeLinear ==
  ASSUME LinearInv, NEW c \in Clients, Observe, Conclude(c),
         ~(Fail(c) \/ FailUnsafe(c))
  PROVE  ViewInv(c)'
<1>0. /\ TypeOK /\ SeenOK(c) /\ ScanOK(c) /\ ChainOK(c) /\ acc[c] \in SUBSET Entry
  BY DEF LinearInv, ViewInv, TypeInv, TypeOK
<1>1. /\ pc[c] = "collect" /\ Settled(c) /\ ProvenChain(c, acc[c])
      /\ round[c] = 1 \/ acc[c] = token[c]
      /\ pc'[c] = AfterProof(c) /\ token'[c] = acc[c]
      /\ round'[c] = IF AfterProof(c) = "scan" THEN 2 ELSE round[c]
      /\ UNCHANGED <<dirs, made, clock, task, at, known, acc, tmp, result>>
  BY <1>0 DEF Conclude, Goto, TypeOK, fsVars
<1>2. AnswerOK(c)' /\ \A w \in window[c] : w \in window'[c]
  BY <1>1, LinearMove
<1>3. round[c] # 1 => TipOf(acc[c]) \in window[c] /\ acc[c] = token[c]
  <2> SUFFICES ASSUME round[c] # 1 PROVE TipOf(acc[c]) \in window[c]
    BY <1>1
  <2>1. acc[c] = token[c]
    BY <1>1
  <2>2. Confirmable(c)
    BY <1>0, <1>1, <2>1, ConcludedNames DEF Confirmable
  <2> QED BY <1>0, <1>1, <2>1, <2>2 DEF ScanOK, Listing
<1>4. SeenOK(c)'
  BY <1>0, <1>1 DEF SeenOK
<1>5. at[c] \in made
  BY <1>0, <1>1 DEF ScanOK, Outside
<1>6. CASE task[c] = "read"
  <2>1. ChainOK(c)'
    BY <1>1, <1>6 DEF ChainOK
  <2>2. pc'[c] \in {"scan", "readtip", "finish"} /\ (pc'[c] = "finish" => round[c] # 1)
    BY <1>1, <1>6 DEF AfterProof
  <2>3. ScanOK(c)'
    BY <1>1, <1>2, <1>3, <1>5, <2>2 DEF ScanOK, Listing
  <2> QED BY <1>2, <1>4, <2>1, <2>3 DEF ViewInv
<1>7. CASE task[c] = "publish"
  <2>1. round[c] \in {1, 2, 3}
    BY <1>0 DEF TypeOK
  <2>2. /\ round[c] = 1 => pc'[c] = "compare"
        /\ round[c] = 2 => pc'[c] = "link"
        /\ round[c] = 3 => pc'[c] = "sync"
        /\ round'[c] = round[c]
    BY <1>1, <1>7, <2>1 DEF AfterProof
  <2>3. ScanOK(c)'
    BY <1>1, <1>5, <1>7, <2>1, <2>2 DEF ScanOK, Listing
  <2>4. ChainOK(c)'
    <3>1. CASE round[c] = 1
      BY <1>1, <2>2, <3>1 DEF ChainOK, Based, Formed, Again, Proving
    <3>2. CASE round[c] = 2
      <4>1. token'[c] = token[c] /\ acc[c] = token[c]
        BY <1>1, <3>2
      <4>2. known[c] = TipOf(token[c]) /\ Leaf(tmp[c]) = NewLeaf(c)
        BY <1>0, <1>1, <1>7, <3>2 DEF ChainOK, Based, Formed, Again, Proving
      <4> QED BY <1>1, <2>2, <3>2, <4>1, <4>2
              DEF ChainOK, Based, Formed, Again, Proving, NewLeaf
    <3>3. CASE round[c] = 3
      <4>1. token'[c] = token[c] /\ acc[c] = token[c]
        BY <1>1, <3>3
      <4>2. NewestOf(tmp[c], token[c])
        BY <1>0, <1>1, <1>7, <3>3 DEF ChainOK, Again, Proving
      <4>3. tmp[c] \in window[c]
        BY <1>0, <1>1, <1>3, <3>3, <4>1, <4>2, TipIsNewest
      <4> QED BY <1>1, <1>2, <2>2, <3>3, <4>1, <4>2, <4>3
              DEF ChainOK, Based, Formed, Again, Proving
    <3> QED BY <2>1, <3>1, <3>2, <3>3
  <2> QED BY <1>2, <1>4, <2>3, <2>4 DEF ViewInv
<1> QED BY <1>0, <1>6, <1>7 DEF TypeOK

(* The record a publication is about to verify is the newest. *)
LEMMA VerifyLinear ==
  ASSUME LinearInv, NEW c \in Clients, Observe, VerifyCommit(c), ~Fail(c)
  PROVE  ViewInv(c)'
<1>0. /\ TypeOK /\ LocalOK(c) /\ SeenOK(c) /\ ScanOK(c) /\ ChainOK(c) /\ ClockOK
      /\ token[c] \in SUBSET Entry /\ at[c] \in DirIds
  BY DEF LinearInv, ViewInv, TypeInv, TypeOK
<1>1. PICK e \in dirs[at[c]] :
        /\ Leaf(e) = Leaf(tmp[c])
        /\ tmp' = [tmp EXCEPT ![c] = File(e, e.ino, e.ctime, 1, want[c])]
        /\ token' = [token EXCEPT ![c] = @ \cup {tmp'[c]}]
        /\ round' = [round EXCEPT ![c] = 3]
        /\ Goto(c, "scan")
        /\ UNCHANGED <<task, at, known, acc, result>>
  BY DEF VerifyCommit
<1>2. /\ pc[c] = "verify" /\ pc'[c] = "scan" /\ round'[c] = 3
      /\ token'[c] = token[c] \cup {tmp'[c]}
      /\ UNCHANGED <<dirs, made, clock, task, at, known, acc, result>>
  BY <1>0, <1>1 DEF VerifyCommit, Goto, TypeOK, fsVars
<1>3. task[c] = "publish" /\ at[c] \in made
  BY <1>0, <1>2 DEF LocalOK, ScanOK, Outside
<1>4. AnswerOK(c)' /\ \A w \in window[c] : w \in window'[c]
  BY <1>2, LinearMove
<1>5. tmp'[c] = File(e, e.ino, e.ctime, 1, want[c])
  BY <1>0, <1>1 DEF TypeOK
<1>6. Leaf(tmp'[c]) = Leaf(tmp[c]) /\ tmp'[c].ctime = e.ctime
  BY <1>1, <1>5, FileParts
<1>7. SeenOK(c)'
  BY <1>0, <1>2, <1>6 DEF SeenOK, ClockOK
<1>8. ScanOK(c)'
  BY <1>2, <1>3 DEF ScanOK, Listing
<1>9. \A f \in token[c] : f.gen < tmp'[c].gen
  <2>1. /\ ProvenChain(c, token[c]) /\ known[c] = TipOf(token[c])
        /\ Leaf(tmp[c]) = NewLeaf(c)
    BY <1>0, <1>2, <1>3 DEF ChainOK, Based, Formed
  <2> SUFFICES ASSUME NEW f \in token[c] PROVE f.gen < tmp'[c].gen
    OBVIOUS
  <2>2. token[c] # {} /\ Chain(token[c]) = token[c]
    BY <2>1 DEF ProvenChain
  <2>3. known[c] \in token[c] /\ f.gen <= known[c].gen
    BY <1>0, <2>1, <2>2, ChainTipIsNewest DEF TipOf
  <2>4. known[c] \in Entry /\ known[c] # NoRecord
    BY <1>0, <2>3, MarkersAssumption
  <2>5. Leaf(tmp'[c]).gen = known[c].gen + 1
    BY <1>6, <2>1, <2>4 DEF NewLeaf, SuccessorLeaf
  <2>6. tmp'[c].gen = known[c].gen + 1
    BY <2>5 DEF Leaf
  <2>7. f.gen \in Nat /\ known[c].gen \in Nat
    BY <1>0, <2>4 DEF Entry
  <2> QED BY <2>3, <2>6, <2>7
<1>10. NewestOf(tmp[c], token[c])'
  BY <1>2, <1>9 DEF NewestOf
<1>11. ChainOK(c)'
  BY <1>2, <1>10 DEF ChainOK, Based, Formed, Again, Proving
<1> QED BY <1>4, <1>7, <1>8, <1>11 DEF ViewInv

LEMMA LinkLinear ==
  ASSUME FineClock, LinearInv, NEW c \in Clients, Observe, Link(c), ~Fail(c)
  PROVE  ViewInv(c)'
<1>0. /\ TypeOK /\ SeenOK(c) /\ ScanOK(c) /\ ChainOK(c)
      /\ acc[c] \in SUBSET Entry /\ token[c] \in SUBSET Entry /\ clock \in Nat
  BY DEF LinearInv, ViewInv, TypeInv, TypeOK
<1>1. /\ pc[c] = "link" /\ pc'[c] = "verify" /\ task[c] = "publish"
      /\ clock' = clock + 1 /\ Leaf(tmp'[c]) = Leaf(tmp[c])
      /\ UNCHANGED <<made, task, at, known, round, todo, snap, acc, token, result>>
  BY Linking
<1>2. AnswerOK(c)'
  BY <1>1, LinearMove
<1>3. SeenOK(c)'
  <2>1. \A e \in acc[c] \cup token[c] : e.ctime \in Nat
    BY <1>0 DEF Entry
  <2> QED BY <1>0, <1>1, <2>1 DEF SeenOK
<1>4. ScanOK(c)'
  BY <1>0, <1>1 DEF ScanOK, Outside, Listing
<1>5. ChainOK(c)'
  BY <1>0, <1>1 DEF ChainOK, Based, Formed, Again, NewLeaf, Proving
<1> QED BY <1>2, <1>3, <1>4, <1>5 DEF ViewInv

(* The steps that neither read nor write a file: the stage they reach asks  *)
(* for nothing that the stage they left did not provide.                    *)
LEMMA PlainLinear ==
  ASSUME LinearInv, NEW c \in Clients, Observe, StepBefore(c), pc'[c] # "idle",
         pc[c] \in {"open", "lock", "enter", "readtip", "compare", "prepare",
                    "recheck", "sync"}
  PROVE  ViewInv(c)'
<1> USE DEF Goto, fsVars, local
<1>0. /\ TypeOK /\ LocalOK(c) /\ SeenOK(c) /\ ScanOK(c) /\ ChainOK(c)
  BY DEF LinearInv, ViewInv, TypeInv
<1>f. ~Fail(c) /\ \A kind, entry : ~Return(c, kind, entry)
  BY <1>0 DEF Fail, Return, TypeOK
<1>1. /\ result'[c] = result[c] /\ acc'[c] = acc[c] /\ token'[c] = token[c]
      /\ UNCHANGED <<dirs, clock, task, known>> /\ made \subseteq made'
      /\ \/ /\ pc[c] = "open" /\ pc'[c] = "lock"
         \/ /\ pc[c] = "lock" /\ pc'[c] = "enter"
         \/ /\ pc[c] = "enter" /\ pc'[c] = "scan" /\ round'[c] = round[c]
            /\ at[c] \in made' /\ at' = at
         \/ /\ pc[c] = "readtip" /\ pc'[c] = "scan" /\ at' = at
         \/ /\ pc[c] = "compare" /\ pc'[c] = "prepare" /\ at' = at
            /\ known[c] = TipOf(token[c])
         \/ /\ pc[c] = "prepare" /\ pc'[c] = "recheck" /\ at' = at
            /\ tmp'[c] = File(NewLeaf(c), nextIno, clock, 0, want[c])
         \/ /\ pc[c] = "recheck" /\ pc'[c] = "scan" /\ at' = at
            /\ round'[c] = 2 /\ tmp'[c] = tmp[c]
         \/ /\ pc[c] = "sync" /\ pc'[c] = "finish" /\ at' = at /\ tmp'[c] = tmp[c]
  <2>1. CASE OpenStore(c)
    BY <1>0, <2>1 DEF OpenStore, TypeOK
  <2>2. CASE LockStore(c)
    BY <1>0, <1>f, <2>2 DEF LockStore, TypeOK
  <2>3. CASE EnterUnit(c)
    BY <1>0, <1>f, <2>3 DEF EnterUnit, TypeOK
  <2>4. CASE ReadTip(c)
    BY <1>0, <1>f, <2>4 DEF ReadTip, TypeOK
  <2>5. CASE ComparePredecessor(c)
    BY <1>0, <1>f, <2>5 DEF ComparePredecessor, TypeOK
  <2>6. CASE PrepareRecord(c)
    BY <1>0, <2>6 DEF PrepareRecord, TypeOK
  <2>7. CASE RecheckPredecessor(c)
    BY <1>0, <1>f, <2>7 DEF RecheckPredecessor, TypeOK
  <2>8. CASE SyncUnit(c)
    BY <1>0, <2>8 DEF SyncUnit, TypeOK
  <2>9. CASE \/ Scan(c) \/ Inspect(c) \/ Survey(c) \/ ReadRecord(c) \/ Conclude(c)
             \/ FinishRead(c) \/ Link(c) \/ VerifyCommit(c)
    BY <2>9 DEF Scan, Inspect, Survey, ReadRecord, Conclude, FinishRead, Link,
                VerifyCommit
  <2> QED BY <2>1, <2>2, <2>3, <2>4, <2>5, <2>6, <2>7, <2>8, <2>9 DEF StepBefore
<1>2. AnswerOK(c)' /\ \A w \in window[c] : w \in window'[c]
  BY <1>1, LinearMove
<1>3. SeenOK(c)'
  BY <1>0, <1>1 DEF SeenOK
<1>4. ScanOK(c)'
  <2>1. pc'[c] \notin Outside \cup {"enter"} => at'[c] \in made'
    BY <1>0, <1>1 DEF ScanOK, Outside
  <2>2. pc'[c] \notin Listing
    BY <1>1 DEF Listing
  <2>3. pc'[c] = "finish" => task'[c] = "publish"
    BY <1>0, <1>1 DEF LocalOK
  <2> QED BY <1>1, <2>1, <2>2, <2>3 DEF ScanOK, Listing
<1>5. ChainOK(c)'
  <2> USE DEF ChainOK, Based, Formed, Again, Proving
  <2>1. CASE pc[c] \in {"open", "lock", "enter"}
    <3>1. pc[c] = "enter" => round'[c] = 1
      BY <1>0, <1>1 DEF LocalOK
    <3> QED BY <1>1, <2>1, <3>1
  <2>2. CASE pc[c] = "readtip"
    BY <1>0, <1>1, <2>2 DEF LocalOK
  <2>3. CASE pc[c] = "compare"
    BY <1>0, <1>1, <2>3
  <2>4. CASE pc[c] = "prepare"
    <3>1. Leaf(tmp'[c]) = NewLeaf(c)
      <4>1. Leaf(NewLeaf(c)) = NewLeaf(c)
        BY DEF NewLeaf, OriginLeaf, SuccessorLeaf, Leaf
      <4> QED BY <1>1, <2>4, <4>1, FileParts
    <3>2. NewLeaf(c)' = NewLeaf(c)
      BY <1>1 DEF NewLeaf
    <3> QED BY <1>0, <1>1, <2>4, <3>1, <3>2
  <2>5. CASE pc[c] = "recheck"
    <3>1. NewLeaf(c)' = NewLeaf(c)
      BY <1>1 DEF NewLeaf
    <3> QED BY <1>0, <1>1, <2>5, <3>1
  <2>6. CASE pc[c] = "sync"
    BY <1>0, <1>1, <1>2, <2>6
  <2> QED BY <2>1, <2>2, <2>3, <2>4, <2>5, <2>6
<1> QED BY <1>2, <1>3, <1>4, <1>5 DEF ViewInv

(* The answers. *)
LEMMA AnswerLinear ==
  ASSUME LinearInv, NEW c \in Clients, Observe,
         EnterUnit(c) \/ FinishRead(c) \/ FinishPublish(c), pc'[c] = "idle"
  PROVE  ViewInv(c)'
<1>0. /\ TypeOK /\ LocalOK(c) /\ ScanOK(c) /\ ChainOK(c) /\ NamesOK
      /\ at[c] \in DirIds
  BY DEF LinearInv, ViewInv, TypeInv, TypeOK
<1>1. CASE Fail(c)
  BY <1>1, LinearFail DEF EnterUnit, FinishRead, FinishPublish
<1>2. CASE EnterUnit(c) /\ ~Fail(c)
  <2>1. /\ Return(c, "Missing", NoRecord) /\ at[c] \notin made /\ pc[c] = "enter"
        /\ dirs' = dirs
    <3>1. ~Goto(c, "scan")
      BY <1>0 DEF Goto, TypeOK
    <3> QED BY <1>2, <3>1 DEF EnterUnit
  <2>2. dirs'[at'[c]] = {}
    BY <1>0, <2>1, ReturnEffect DEF NamesOK
  <2>3. ProvenChain(c, {})
    BY DEF ProvenChain, MalformedInventory, Unrecognized, MissingOrigin, Forked
  <2>4. TrueTip(c)' = {NoRecord}
    BY <2>2, <2>3 DEF TrueTip, TipOf
  <2> QED BY <2>1, <2>4, LinearReturn
<1>3. CASE FinishRead(c) /\ ~Fail(c)
  <2>1. /\ pc[c] = "finish" /\ task[c] = "read"
        /\ \E kind : Return(c, kind, TipOf(acc[c]))
    BY <1>3 DEF FinishRead
  <2>2. TipOf(acc[c]) \in window[c]
    BY <1>0, <2>1 DEF ScanOK
  <2> QED BY <2>1, <2>2, LinearReturn
<1>4. CASE FinishPublish(c) /\ ~Fail(c)
  <2>1. /\ pc[c] = "finish" /\ task[c] = "publish"
        /\ Return(c, "Published", tmp[c])
    BY <1>4 DEF FinishPublish
  <2>2. tmp[c] \in window[c]
    BY <1>0, <2>1 DEF ChainOK
  <2> QED BY <2>1, <2>2, LinearReturn
<1> QED BY <1>1, <1>2, <1>3, <1>4

LEMMA LinearOwn ==
  ASSUME FineClock, LinearInv, NEW c \in Clients, Observe, Step(c) \/ Event(c)
  PROVE  ViewInv(c)'
<1>0. TypeOK
  BY DEF LinearInv, TypeInv
<1>1. CASE Scan(c)
  BY <1>1, ScanLinear, LinearFail DEF Scan
<1>2. CASE Inspect(c)
  BY <1>2, InspectLinear, LinearFail DEF Inspect
<1>3. CASE Survey(c)
  BY <1>3, SurveyLinear, LinearFail DEF Survey
<1>4. CASE ReadRecord(c)
  BY <1>4, ReadRecordLinear, LinearFail DEF ReadRecord
<1>5. CASE Conclude(c)
  BY <1>5, ConcludeLinear, LinearFail DEF Conclude
<1>6. CASE Link(c)
  BY <1>6, LinkLinear, LinearFail DEF Link
<1>7. CASE VerifyCommit(c)
  BY <1>7, VerifyLinear, LinearFail DEF VerifyCommit
<1>8. CASE FinishRead(c) \/ FinishPublish(c)
  <2>1. \E kind, entry : Return(c, kind, entry)
    BY <1>8 DEF FinishRead, FinishPublish, Fail
  <2>2. pc'[c] = "idle"
    BY <1>0, <2>1, ReturnEffect
  <2> QED BY <1>8, <2>2, AnswerLinear
<1>9. CASE EnterUnit(c)
  <2>1. CASE pc'[c] = "idle"
    BY <1>9, <2>1, AnswerLinear
  <2>2. CASE pc'[c] # "idle"
    BY <1>9, <2>2, PlainLinear DEF EnterUnit, StepBefore
  <2> QED BY <2>1, <2>2
<1>10. CASE \/ OpenStore(c) \/ LockStore(c) \/ ReadTip(c) \/ ComparePredecessor(c)
            \/ PrepareRecord(c) \/ RecheckPredecessor(c) \/ SyncUnit(c)
  <2>1. /\ pc[c] \in {"open", "lock", "enter", "readtip", "compare", "prepare",
                      "recheck", "sync"}
        /\ StepBefore(c)
    BY <1>10 DEF StepBefore, OpenStore, LockStore, ReadTip, ComparePredecessor,
                 PrepareRecord, RecheckPredecessor, SyncUnit
  <2>2. CASE Fail(c)
    BY <2>1, <2>2, LinearFail
  <2>3. CASE ~Fail(c)
    <3>1. pc'[c] # "idle"
      BY <1>0, <1>10, <2>3
      DEF OpenStore, LockStore, ReadTip, ComparePredecessor, PrepareRecord,
          RecheckPredecessor, SyncUnit, Goto, TypeOK
    <3> QED BY <2>1, <3>1, PlainLinear
  <2> QED BY <2>2, <2>3
<1>11. CASE StartRead(c) \/ \E d \in AllDocuments : StartPublish(c, d)
  <2>1. /\ pc'[c] = "open" /\ result'[c].kind = "none"
        /\ UNCHANGED <<acc, token, clock>>
    BY <1>0, <1>11 DEF StartRead, StartPublish, Goto, TypeOK, local, fsVars
  <2>2. SeenOK(c)' /\ AnswerOK(c)'
    BY <2>1 DEF LinearInv, ViewInv, SeenOK, AnswerOK
  <2>3. ScanOK(c)' /\ ChainOK(c)'
    BY <2>1 DEF ScanOK, ChainOK, Outside, Listing, Based, Formed, Again, Proving
  <2> QED BY <2>2, <2>3 DEF ViewInv
<1>12. CASE OperationFails(c)
  BY <1>12, LinearFail DEF OperationFails
<1>13. CASE Kill(c)
  BY <1>13, LinearReturn DEF Kill
<1> QED BY <1>1, <1>2, <1>3, <1>4, <1>5, <1>6, <1>7, <1>8, <1>9, <1>10, <1>11,
           <1>12, <1>13 DEF Step, StepBefore, Event

LEMMA LinearNext ==
  ASSUME FineClock, LinearInv, [MCNext]_<<vars, ghosts>>
  PROVE  LinearInv'
<1>0. /\ TypeInv /\ TypeOK /\ ClockOK /\ NamesOK /\ clock \in Nat
      /\ dirs \in [DirIds -> SUBSET Entry]
  BY DEF LinearInv, TypeInv, TypeOK
<1>1. TypeInv' /\ clock' \in Nat
  <2>1. TypeInv'
    BY <1>0, NextType DEF MCNext, vars, ghosts
  <2> QED BY <2>1 DEF TypeInv, TypeOK
<1>2. DOMAIN window' = Clients
  BY DEF LinearInv, MCNext, Observe, ghosts
<1>3. ASSUME OnlyNew, clock <= clock' PROVE ClockOK'
  <2> SUFFICES ASSUME NEW d \in DirIds, NEW e \in dirs'[d]
               PROVE  e.ctime <= clock'
    BY DEF ClockOK
  <2>1. e \in dirs[d] => e.ctime \in Nat /\ e.ctime <= clock
    BY <1>0 DEF ClockOK, Entry
  <2> QED BY <1>0, <1>1, <1>3, <2>1 DEF OnlyNew
<1>4. ASSUME NEW c \in Clients, Step(c) \/ Event(c), Observe
      PROVE  ClockOK' /\ NamesOK' /\ \A x \in Clients : ViewInv(x)'
  <2>1. clock <= clock' /\ OnlyNew /\ NamesOK' /\ made \subseteq made'
    BY <1>4, OwnDirs
  <2>2. ASSUME NEW x \in Clients \ {c} PROVE ViewInv(x)'
    <3>1. SameClient(x) /\ result'[x] = result[x]
      BY <1>0, <1>4, OthersSame, OthersResult
    <3>2. \A w \in window[x] : w \in window'[x]
      BY <1>4, <3>1 DEF Observe, SameClient
    <3> QED BY <1>0, <1>1, <2>1, <3>1, <3>2, LinearFrame
  <2> QED BY <1>3, <1>4, <2>1, <2>2, LinearOwn
<1>5. ASSUME NEW d \in DirIds, NEW tick \in Ticks, Interfere(d, tick), Observe
      PROVE  ClockOK' /\ NamesOK' /\ \A x \in Clients : ViewInv(x)'
  <2>1. clock <= clock' /\ OnlyNew /\ NamesOK' /\ made \subseteq made'
    BY <1>0, <1>5, InterfereStep
  <2>2. ASSUME NEW x \in Clients PROVE ViewInv(x)'
    <3>1. SameClient(x) /\ result'[x] = result[x]
      BY <1>5 DEF Interfere, SameClient, local
    <3>2. \A w \in window[x] : w \in window'[x]
      BY <1>5, <3>1 DEF Observe, SameClient
    <3> QED BY <1>0, <1>1, <2>1, <3>1, <3>2, LinearFrame
  <2> QED BY <1>3, <2>1, <2>2
<1>6. ASSUME PowerLoss
      PROVE  ClockOK' /\ NamesOK' /\ \A x \in Clients : ViewInv(x)'
  <2>1. /\ \A d \in DirIds : dirs'[d] \subseteq dirs[d]
        /\ made' = made /\ clock' = clock
    BY <1>0, <1>6 DEF PowerLoss
  <2>2. OnlyNew /\ NamesOK' /\ clock <= clock'
    BY <1>0, <2>1, ShrinkStep
  <2>3. ASSUME NEW x \in Clients PROVE ViewInv(x)'
    <3>1. /\ pc'[x] = "idle" /\ acc'[x] = {} /\ token'[x] = {}
          /\ result'[x].kind = "none"
      BY <1>6 DEF PowerLoss
    <3>2. SeenOK(x)' /\ AnswerOK(x)'
      BY <3>1 DEF SeenOK, AnswerOK
    <3>3. ScanOK(x)' /\ ChainOK(x)'
      BY <3>1 DEF ScanOK, ChainOK, Outside, Listing, Based, Formed, Again, Proving
    <3> QED BY <3>2, <3>3 DEF ViewInv
  <2> QED BY <1>3, <2>2, <2>3
<1>7. ASSUME UNCHANGED <<vars, ghosts>>
      PROVE  ClockOK' /\ NamesOK' /\ \A x \in Clients : ViewInv(x)'
  <2>1. clock <= clock' /\ OnlyNew /\ NamesOK' /\ made \subseteq made'
    BY <1>0, <1>7, ShrinkStep DEF vars, fsVars
  <2>2. ASSUME NEW x \in Clients PROVE ViewInv(x)'
    <3>1. SameClient(x) /\ result'[x] = result[x] /\ window'[x] = window[x]
      BY <1>7 DEF vars, local, ghosts, SameClient
    <3> QED BY <1>0, <1>1, <2>1, <3>1, LinearFrame
  <2> QED BY <1>3, <2>1, <2>2
<1>8. ClockOK' /\ NamesOK' /\ \A x \in Clients : ViewInv(x)'
  BY <1>4, <1>5, <1>6, <1>7 DEF MCNext, Next, CoopNext
<1> QED BY <1>1, <1>2, <1>8 DEF LinearInv

LEMMA LinearInit ==
  ASSUME MCInit
  PROVE  LinearInv
<1>1. TypeInv
  BY InUseType
<1>2. ClockOK /\ NamesOK
  <2>1. CASE EmptyStore
    BY <2>1 DEF EmptyStore, ClockOK, NamesOK
  <2>2. CASE StoreInUse
    <3>1. /\ First.ctime = 1 /\ Second.ctime = 2
          /\ Leaf(First).gen = 1 /\ Leaf(Second).gen = 2
      BY DEF First, Second, Leaf
    <3>2. /\ clock = 3 /\ made = {FirstDir}
          /\ \A d \in DirIds :
               dirs[d] = IF d = FirstDir THEN {First, Second} ELSE {}
      BY <2>2 DEF StoreInUse
    <3>3. Leaf(First) # Leaf(Second)
      BY <3>1
    <3> QED BY <3>1, <3>2, <3>3 DEF ClockOK, NamesOK
  <2> QED BY <2>1, <2>2 DEF MCInit
<1>3. DOMAIN window = Clients
  BY DEF MCInit, GhostInit
<1>4. ASSUME NEW c \in Clients PROVE ViewInv(c)
  <2>1. /\ pc[c] = "idle" /\ acc[c] = {} /\ token[c] = {}
        /\ result[c].kind = "none"
    BY DEF MCInit, NothingRunning
  <2>2. SeenOK(c) /\ AnswerOK(c)
    BY <2>1 DEF SeenOK, AnswerOK
  <2>3. ScanOK(c) /\ ChainOK(c)
    BY <2>1 DEF ScanOK, ChainOK, Outside, Listing, Based, Formed, Again, Proving
  <2> QED BY <2>2, <2>3 DEF ViewInv
<1> QED BY <1>1, <1>2, <1>3, <1>4 DEF LinearInv

(* On a clock that advances with every change, an answer of Missing, Loaded *)
(* or Published names a record that was the newest of one complete chain at *)
(* an instant of the operation, whatever processes without the lock did     *)
(* between any two observations (the reproof in read_xdg_generation_store   *)
(* and publish_generation_store).                                           *)
THEOREM AnswersAreInstants ==
  ASSUME FineClock
  PROVE  MCSpec => []AnswersLinearize
<1>1. MCInit => LinearInv
  BY LinearInit
<1>2. LinearInv /\ [MCNext]_<<vars, ghosts>> => LinearInv'
  BY LinearNext
<1>3. LinearInv => AnswersLinearize
  BY DEF LinearInv, ViewInv, AnswerOK, AnswersLinearize
<1> QED BY <1>1, <1>2, <1>3, PTL DEF MCSpec
=============================================================================
