------------------------- MODULE XdgGenerationStore -------------------------
(***************************************************************************)
(* The immutable-generation store of one unit (one PackageBase) under an   *)
(* XDG state directory: source/xdg_generation_store.cpp.                   *)
(*                                                                         *)
(* A record is a file that is written as an unnamed inode and then linked, *)
(* without replacing anything, under a name that holds its generation and  *)
(* the inode, ctime and digest of its predecessor.  Nothing is ever        *)
(* unlinked.  The current record is not a pointer: every lookup and every  *)
(* publication re-derives it by proving that the directory is one complete *)
(* chain, and proves it again at the point where it answers.               *)
(*                                                                         *)
(* The model keeps every observation the code makes of the directory as a  *)
(* step of its own, so that other processes run between two of them: other *)
(* clients of the store, which take the lock, and processes that do not    *)
(* (an editor, a backup being restored), as the actions of Interfere.      *)
(***************************************************************************)
EXTENDS Integers, FiniteSets

CONSTANTS
  Clients,        \* invocations of the program
  Newer,          \* the clients that are of a later release
  Documents,      \* raw documents of the current schema ...
  FutureDocuments,\* ... and the ones only a later release understands
  DirIds,         \* directories that the store's path may come to name
  FirstDir,       \* the one it names at first
  NotRead,        \* the caller holds no observation
  NoRecord,       \* the caller observed that there is no record
  MaxGen,         \* largest generation number (UINT64_MAX in the code)
  MaxEntries,     \* MAX_UNIT_DIRECTORY_ENTRIES
  Ticks,          \* how far ctime may advance at a change; 0 is a coarse clock
  MaxOps,         \* bound: operations per client
  MaxMutations,   \* bound: changes made by processes that take no lock
  MaxCrashes      \* bound: killed processes and power failures

AllDocuments == Documents \cup FutureDocuments

ASSUME ConstantsAssumption ==
  /\ Newer \subseteq Clients
  /\ FirstDir \in DirIds
  /\ MaxGen \in Nat \ {0} /\ MaxEntries \in Nat
  /\ MaxOps \in Nat /\ MaxMutations \in Nat /\ MaxCrashes \in Nat
  /\ Ticks \subseteq {0, 1}
  /\ NotRead # NoRecord

VARIABLES
  place,      \* the directory the path names now
  dirs,       \* the entries of each directory
  made,       \* the directories in which the unit directory exists
  synced,     \* the entries of each directory that are on disk
  clock,      \* the file system's notion of ctime
  nextIno,    \* next unused inode number
  mutations,  \* budget left for lock-free processes
  crashes     \* budget left for crashes

VARIABLES
  pc,         \* where each client is
  task,       \* the operation it runs
  at,         \* the directory it has open
  held,       \* the lock it holds on that directory
  known,      \* what its caller observed last
  want,       \* the document it publishes
  round,      \* which proof of the chain it is at
  todo,       \* the names of this scan whose status it has not seen yet
  snap,       \* the names and status it found in this scan
  acc,        \* the records it has read in this scan
  token,      \* the evidence of the first proof
  raw,        \* the bytes of the tip a lookup will return
  tmp,        \* the record a publication is about to link or has linked
  result,     \* how its last operation ended
  opsLeft,    \* operations left
  acked       \* history: the records some caller was told are Published

fsVars == <<place, dirs, made, synced, clock, nextIno, mutations, crashes>>
local  == <<round, todo, snap, acc, token, raw, tmp>>
vars   == <<fsVars, pc, task, at, held, known, want, local, result, opsLeft,
            acked>>

Stages == {"idle", "open", "lock", "enter", "scan", "inspect", "collect", "readtip",
           "compare", "prepare", "recheck", "link", "verify", "sync", "finish"}
Outcomes == {"none", "Missing", "Loaded", "Unsafe", "Failure",
             "Published", "Uncertain"}

-----------------------------------------------------------------------------
(* Entries of the unit directory. *)

(* What a successor's name records of its predecessor. *)
Binding == [ino : Nat, ctime : Nat, doc : AllDocuments \cup {NoRecord}]
NoPredecessor == [ino |-> 0, ctime |-> 0, doc |-> NoRecord]

(* gen 0 stands for a name that is not a generation leaf. *)
Entry == [gen : 0..MaxGen, bind : Binding, ino : Nat, ctime : Nat,
          nlink : Nat, doc : AllDocuments]

(* A caller's observation is a record or one of the two markers. *)
ASSUME MarkersAssumption ==
  /\ NotRead \notin Entry /\ NoRecord \notin Entry
  /\ NotRead \notin [gen : Nat, doc : AllDocuments]
  /\ NoRecord \notin AllDocuments

LeafName == [gen : 0..MaxGen, bind : Binding]
FileStatus == [gen : 0..MaxGen, bind : Binding, ino : Nat, ctime : Nat,
               nlink : Nat]

Leaf(e) == [gen |-> e.gen, bind |-> e.bind]
Status(e) == [gen |-> e.gen, bind |-> e.bind, ino |-> e.ino,
              ctime |-> e.ctime, nlink |-> e.nlink]
BindingOf(p) == [ino |-> p.ino, ctime |-> p.ctime, doc |-> p.doc]

(* The file of a given inode and contents under a name. *)
File(leaf, ino, ctime, nlink, doc) ==
  [gen |-> leaf.gen, bind |-> leaf.bind, ino |-> ino, ctime |-> ctime,
   nlink |-> nlink, doc |-> doc]

OriginLeaf == [gen |-> 1, bind |-> NoPredecessor]
SuccessorLeaf(p) == [gen |-> p.gen + 1, bind |-> BindingOf(p)]

IsFuture(c, d) == d \in FutureDocuments /\ c \notin Newer

(* Faults of a scanned directory that show before any record is read. *)
Unrecognized(s) == \E x \in s : x.gen = 0
MissingOrigin(s) == s # {} /\ ~\E x \in s : Leaf(x) = OriginLeaf
Forked(s) == \E x, y \in s : x # y /\ x.gen = y.gen
MalformedInventory(s) == Unrecognized(s) \/ MissingOrigin(s) \/ Forked(s)

(* The records reachable from the origin over matching predecessor names. *)
Chain(v) ==
  {e \in v : \A g \in 1..e.gen : \E x \in v :
     /\ x.gen = g
     /\ g = 1 \/ \E p \in v : p.gen = g - 1 /\ x.bind = BindingOf(p)}

ChainTip(v) == CHOOSE e \in Chain(v) : \A x \in Chain(v) : x.gen <= e.gen

(* A document of a later release anywhere but at the end of the chain. *)
FutureOwned(c, v) ==
  \E e \in v : IsFuture(c, e.doc) /\ e # ChainTip(v)

(* The proof of one complete chain without holes or leftovers. *)
ProvenChain(c, v) ==
  /\ ~MalformedInventory(v)
  /\ v # {} => ~FutureOwned(c, v) /\ Chain(v) = v

TipOf(v) == IF v = {} THEN NoRecord ELSE ChainTip(v)

-----------------------------------------------------------------------------
EmptyStore ==
  /\ place = FirstDir
  /\ dirs = [d \in DirIds |-> {}]
  /\ made = {}
  /\ synced = [d \in DirIds |-> {}]
  /\ clock = 1
  /\ nextIno = 1

NothingRunning ==
  /\ mutations = MaxMutations
  /\ crashes = MaxCrashes
  /\ pc = [c \in Clients |-> "idle"]
  /\ task = [c \in Clients |-> "read"]
  /\ at = [c \in Clients |-> FirstDir]
  /\ held = [c \in Clients |-> "none"]
  /\ known = [c \in Clients |-> NotRead]
  /\ want = [c \in Clients |-> NoRecord]
  /\ round = [c \in Clients |-> 1]
  /\ todo = [c \in Clients |-> {}]
  /\ snap = [c \in Clients |-> {}]
  /\ acc = [c \in Clients |-> {}]
  /\ token = [c \in Clients |-> {}]
  /\ raw = [c \in Clients |-> NoRecord]
  /\ tmp = [c \in Clients |-> NoRecord]
  /\ result = [c \in Clients |-> [kind |-> "none", entry |-> NoRecord]]
  /\ opsLeft = [c \in Clients |-> MaxOps]
  /\ acked = {}

Init == EmptyStore /\ NothingRunning

Goto(c, stage) == pc' = [pc EXCEPT ![c] = stage]

ClearLocals(c) ==
  /\ round' = [round EXCEPT ![c] = 1]
  /\ todo' = [todo EXCEPT ![c] = {}]
  /\ snap' = [snap EXCEPT ![c] = {}]
  /\ acc' = [acc EXCEPT ![c] = {}]
  /\ token' = [token EXCEPT ![c] = {}]
  /\ raw' = [raw EXCEPT ![c] = NoRecord]
  /\ tmp' = [tmp EXCEPT ![c] = NoRecord]

(* Mutant: the lock descriptor leaks. *)
Mutant_Return(c, kind, entry) ==
  /\ result' = [result EXCEPT ![c] = [kind |-> kind, entry |-> entry]]
  /\ known' = [known EXCEPT ![c] =
       IF kind \in {"Missing", "Loaded", "Published"} THEN entry ELSE NotRead]
  /\ Goto(c, "idle")
  /\ ClearLocals(c)
  /\ UNCHANGED <<task, at, held, want, opsLeft>>

(* Returning closes every descriptor, the locked one included. *)
Return(c, kind, entry) ==
  /\ result' = [result EXCEPT ![c] = [kind |-> kind, entry |-> entry]]
  /\ known' = [known EXCEPT ![c] =
       IF kind \in {"Missing", "Loaded", "Published"} THEN entry ELSE NotRead]
  /\ held' = [held EXCEPT ![c] = "none"]
  /\ Goto(c, "idle")
  /\ ClearLocals(c)
  /\ UNCHANGED <<task, at, want, opsLeft>>

(* Mutant: the commit flag is consulted only outside the last proof. *)
Mutant_Committed(c) ==
  task[c] = "publish" /\ pc[c] \in {"verify", "sync", "finish"}

(* Past the link the record is named and permanent: no definite failure. *)
Committed(c) ==
  /\ task[c] = "publish"
  /\ \/ pc[c] \in {"verify", "sync", "finish"}
     \/ pc[c] \in {"scan", "inspect", "collect"} /\ round[c] = 3

Fail(c) ==
  IF Committed(c) THEN Return(c, "Uncertain", tmp[c])
                  ELSE Return(c, "Failure", NoRecord)

(* A lookup answers "unsafe history" only for the directory named now. *)
FailUnsafe(c) ==
  IF Committed(c) \/ (task[c] = "read" /\ at[c] # place)
  THEN Fail(c)
  ELSE Return(c, "Unsafe", NoRecord)

-----------------------------------------------------------------------------
(* Beginning an operation: open the directory, lock it, enter the unit. *)

StartRead(c) ==
  /\ pc[c] = "idle" /\ opsLeft[c] > 0
  /\ task' = [task EXCEPT ![c] = "read"]
  /\ opsLeft' = [opsLeft EXCEPT ![c] = @ - 1]
  /\ result' = [result EXCEPT ![c] = [kind |-> "none", entry |-> NoRecord]]
  /\ Goto(c, "open")
  /\ UNCHANGED <<fsVars, at, held, known, want, local>>

(* The caller passes the exact record it observed, or nothing for Missing. *)
StartPublish(c, d) ==
  /\ pc[c] = "idle" /\ opsLeft[c] > 0
  /\ known[c] # NotRead
  /\ d \in IF c \in Newer THEN FutureDocuments ELSE Documents
  /\ task' = [task EXCEPT ![c] = "publish"]
  /\ want' = [want EXCEPT ![c] = d]
  /\ opsLeft' = [opsLeft EXCEPT ![c] = @ - 1]
  /\ result' = [result EXCEPT ![c] = [kind |-> "none", entry |-> NoRecord]]
  /\ Goto(c, "open")
  /\ UNCHANGED <<fsVars, at, held, known, local>>

OpenStore(c) ==
  /\ pc[c] = "open"
  /\ at' = [at EXCEPT ![c] = place]
  /\ Goto(c, "lock")
  /\ UNCHANGED <<fsVars, task, held, known, want, local, result, opsLeft>>

(* flock(2): shared for a lookup, exclusive for a publication. *)
CanLock(c) ==
  \A x \in Clients \ {c} : at[x] = at[c] =>
    held[x] = "none" \/ (task[c] = "read" /\ held[x] = "sh")

LockStore(c) ==
  /\ pc[c] = "lock" /\ CanLock(c)
  /\ \/ /\ at[c] = place
        /\ held' = [held EXCEPT ![c] = IF task[c] = "read" THEN "sh" ELSE "ex"]
        /\ Goto(c, "enter")
        /\ UNCHANGED <<task, at, known, want, local, result, opsLeft>>
     \/ at[c] # place /\ Fail(c)
  /\ UNCHANGED fsVars

(* A lookup never creates the unit; a publication creates and syncs it. *)
EnterUnit(c) ==
  /\ pc[c] = "enter"
  /\ \/ /\ task[c] = "read" /\ at[c] \notin made
        /\ IF at[c] = place THEN Return(c, "Missing", NoRecord) ELSE Fail(c)
        /\ UNCHANGED made
     \/ /\ task[c] = "publish" \/ at[c] \in made
        /\ made' = made \cup {at[c]}
        /\ Goto(c, "scan")
        /\ UNCHANGED <<task, at, held, known, want, local, result, opsLeft>>
  /\ UNCHANGED <<place, dirs, synced, clock, nextIno, mutations, crashes>>

-----------------------------------------------------------------------------
(* Proving the chain: names first, then status, then record after record. *)

(* readdir(3) lists the names; too many of them is a failure. *)
Scan(c) ==
  /\ pc[c] = "scan"
  /\ \/ Cardinality(dirs[at[c]]) > MaxEntries /\ Fail(c)
     \/ /\ Cardinality(dirs[at[c]]) <= MaxEntries
        /\ todo' = [todo EXCEPT ![c] = {Leaf(e) : e \in dirs[at[c]]}]
        /\ snap' = [snap EXCEPT ![c] = {}]
        /\ acc' = [acc EXCEPT ![c] = {}]
        /\ Goto(c, "inspect")
        /\ UNCHANGED <<task, at, held, known, want, round, token, raw, tmp,
                       result, opsLeft>>
  /\ UNCHANGED fsVars

(* A name that is gone, or a record with another name elsewhere, ends it; *)
(* a foreign name is kept for the proof without looking at the file.      *)
Inspect(c) ==
  /\ pc[c] = "inspect" /\ todo[c] # {}
  /\ \E leaf \in todo[c] :
       /\ \A other \in todo[c] : leaf.gen <= other.gen
       /\ LET usable == {e \in dirs[at[c]] :
                           Leaf(e) = leaf /\ (leaf.gen = 0 \/ e.nlink = 1)}
          IN \/ usable = {} /\ Fail(c)
             \/ /\ usable # {}
                /\ todo' = [todo EXCEPT ![c] = @ \ {leaf}]
                /\ snap' = [snap EXCEPT ![c] = @ \cup {Status(e) : e \in usable}]
                /\ UNCHANGED <<pc, task, at, held, known, want, round, acc,
                               token, raw, tmp, result, opsLeft>>
  /\ UNCHANGED fsVars

(* The whole inventory is known: reject it or go on to read it. *)
Survey(c) ==
  /\ pc[c] = "inspect" /\ todo[c] = {}
  /\ \/ MalformedInventory(snap[c]) /\ FailUnsafe(c)
     \/ /\ ~MalformedInventory(snap[c])
        /\ Goto(c, "collect")
        /\ UNCHANGED <<task, at, held, known, want, local, result, opsLeft>>
  /\ UNCHANGED fsVars

Unread(c) == {x \in snap[c] : ~\E e \in acc[c] : Status(e) = x}

(* A record of a later release outside the chain settles the proof early. *)
Settled(c) ==
  \/ Unread(c) = {}
  \/ \E e \in acc[c] \ Chain(acc[c]) : IsFuture(c, e.doc)

(* Open by name, read, and check that the name still leads to that inode. *)
ReadRecord(c) ==
  /\ pc[c] = "collect" /\ ~Settled(c)
  /\ \E x \in Unread(c) :
       /\ \A y \in Unread(c) : x.gen <= y.gen
       /\ LET same == {e \in dirs[at[c]] : Status(e) = x}
          IN \/ same = {} /\ Fail(c)
             \/ /\ same # {}
                /\ acc' = [acc EXCEPT ![c] = @ \cup same]
                /\ UNCHANGED <<pc, task, at, held, known, want, round, todo,
                               snap, token, raw, tmp, result, opsLeft>>
  /\ UNCHANGED fsVars

AfterProof(c) ==
  CASE task[c] = "publish" /\ round[c] = 1 -> "compare"
    [] task[c] = "publish" /\ round[c] = 2 -> "link"
    [] task[c] = "publish" /\ round[c] = 3 -> "sync"
    [] task[c] = "read" /\ round[c] = 1 ->
         IF acc[c] = {} THEN "scan" ELSE "readtip"
    [] OTHER -> "finish"

(* Mutant: a repeated proof is accepted by itself, not compared. *)
Mutant_Conclude(c) ==
  /\ pc[c] = "collect" /\ Settled(c)
  /\ \/ ~ProvenChain(c, acc[c]) /\ FailUnsafe(c)
     \/ /\ ProvenChain(c, acc[c])
        /\ token' = [token EXCEPT ![c] = acc[c]]
        /\ Goto(c, AfterProof(c))
        /\ round' = [round EXCEPT ![c] =
             IF AfterProof(c) = "scan" THEN 2 ELSE @]
        /\ UNCHANGED <<task, at, held, known, want, todo, snap, acc, raw, tmp,
                       result, opsLeft>>
  /\ UNCHANGED fsVars

(* The first proof becomes the evidence; a later one must equal it. *)
Conclude(c) ==
  /\ pc[c] = "collect" /\ Settled(c)
  /\ \/ ~ProvenChain(c, acc[c]) /\ FailUnsafe(c)
     \/ ProvenChain(c, acc[c]) /\ round[c] # 1 /\ acc[c] # token[c] /\ Fail(c)
     \/ /\ ProvenChain(c, acc[c])
        /\ round[c] = 1 \/ acc[c] = token[c]
        /\ token' = [token EXCEPT ![c] = acc[c]]
        /\ Goto(c, AfterProof(c))
        /\ round' = [round EXCEPT ![c] =
             IF AfterProof(c) = "scan" THEN 2 ELSE @]
        /\ UNCHANGED <<task, at, held, known, want, todo, snap, acc, raw, tmp,
                       result, opsLeft>>
  /\ UNCHANGED fsVars

-----------------------------------------------------------------------------
(* Lookup: the tip's bytes are read between two equal proofs. *)

ReadTip(c) ==
  /\ pc[c] = "readtip"
  /\ LET same == {e \in dirs[at[c]] : Status(e) = Status(TipOf(token[c]))}
     IN \/ same = {} /\ Fail(c)
        \/ \E e \in same :
             /\ raw' = [raw EXCEPT ![c] = e.doc]
             /\ round' = [round EXCEPT ![c] = 2]
             /\ Goto(c, "scan")
             /\ UNCHANGED <<task, at, held, known, want, todo, snap, acc, token,
                            tmp, result, opsLeft>>
  /\ UNCHANGED fsVars

FinishRead(c) ==
  /\ pc[c] = "finish" /\ task[c] = "read"
  /\ IF at[c] = place /\ (acc[c] # {} => raw[c] = TipOf(acc[c]).doc)
     THEN Return(c, IF acc[c] = {} THEN "Missing" ELSE "Loaded", TipOf(acc[c]))
     ELSE Fail(c)
  /\ UNCHANGED fsVars

-----------------------------------------------------------------------------
(* Publication. *)

(* The named predecessor is still the file and the bytes the caller saw. *)
PredecessorIntact(c) ==
  IF known[c] = NoRecord
  THEN ~\E e \in dirs[at[c]] : Leaf(e) = OriginLeaf
  ELSE known[c] \in dirs[at[c]]

(* Mutant: the generation number is incremented unchecked. *)
Mutant_CompareNoLimit(c) ==
  /\ pc[c] = "compare"
  /\ IF /\ known[c] = TipOf(token[c])
        /\ known[c] # NoRecord => known[c] \in dirs[at[c]]
        /\ known[c] # NoRecord => ~IsFuture(c, known[c].doc)
     THEN /\ Goto(c, "prepare")
          /\ UNCHANGED <<task, at, held, known, want, local, result, opsLeft>>
     ELSE Fail(c)
  /\ UNCHANGED fsVars

(* Mutant: the schema of the predecessor is not looked at. *)
Mutant_CompareNoSchema(c) ==
  /\ pc[c] = "compare"
  /\ IF /\ known[c] = TipOf(token[c])
        /\ known[c] # NoRecord => known[c] \in dirs[at[c]]
        /\ known[c] # NoRecord => known[c].gen < MaxGen
     THEN /\ Goto(c, "prepare")
          /\ UNCHANGED <<task, at, held, known, want, local, result, opsLeft>>
     ELSE Fail(c)
  /\ UNCHANGED fsVars

(* Exact compare with the caller's observation; no downgrade, no wrap. *)
ComparePredecessor(c) ==
  /\ pc[c] = "compare"
  /\ IF /\ known[c] = TipOf(token[c])
        /\ known[c] # NoRecord => known[c] \in dirs[at[c]]
        /\ known[c] # NoRecord => ~IsFuture(c, known[c].doc)
        /\ known[c] # NoRecord => known[c].gen < MaxGen
     THEN /\ Goto(c, "prepare")
          /\ UNCHANGED <<task, at, held, known, want, local, result, opsLeft>>
     ELSE Fail(c)
  /\ UNCHANGED fsVars

NewLeaf(c) ==
  IF known[c] = NoRecord THEN OriginLeaf ELSE SuccessorLeaf(known[c])

(* The record is written and synced as an inode that has no name yet. *)
PrepareRecord(c) ==
  /\ pc[c] = "prepare"
  /\ tmp' = [tmp EXCEPT ![c] = File(NewLeaf(c), nextIno, clock, 0, want[c])]
  /\ nextIno' = nextIno + 1
  /\ Goto(c, "recheck")
  /\ UNCHANGED <<place, dirs, made, synced, clock, mutations, crashes,
                 task, at, held, known, want, round, todo, snap, acc, token, raw,
                 result, opsLeft>>

RecheckPredecessor(c) ==
  /\ pc[c] = "recheck"
  /\ \/ /\ PredecessorIntact(c) /\ at[c] = place
        /\ round' = [round EXCEPT ![c] = 2]
        /\ Goto(c, "scan")
        /\ UNCHANGED <<task, at, held, known, want, todo, snap, acc, token, raw,
                       tmp, result, opsLeft>>
     \/ ~(PredecessorIntact(c) /\ at[c] = place) /\ Fail(c)
  /\ UNCHANGED fsVars

(* linkat(2) names the inode, or refuses because the name is taken. *)
Link(c) ==
  /\ pc[c] = "link"
  /\ IF \E e \in dirs[at[c]] : Leaf(e) = Leaf(tmp[c])
     THEN Fail(c) /\ UNCHANGED fsVars
     ELSE \E tick \in Ticks :
            /\ clock' = clock + tick
            /\ tmp' = [tmp EXCEPT ![c] =
                         File(@, @.ino, clock + tick, 1, @.doc)]
            /\ dirs' = [dirs EXCEPT ![at[c]] = @ \cup {tmp'[c]}]
            /\ Goto(c, "verify")
            /\ UNCHANGED <<place, made, synced, nextIno, mutations, crashes,
                           task, at, held, known, want, round, todo, snap, acc,
                           token, raw, result, opsLeft>>

(* The name leads to the inode that was linked, over an intact predecessor; *)
(* the proof to repeat is the first one plus exactly this record.           *)
VerifyCommit(c) ==
  /\ pc[c] = "verify"
  /\ LET named == {e \in dirs[at[c]] : Leaf(e) = Leaf(tmp[c])
                                      /\ e.ino = tmp[c].ino /\ e.nlink = 1}
         intact == known[c] # NoRecord => PredecessorIntact(c)
     IN \/ (named = {} \/ ~intact) /\ Fail(c)
        \/ \E e \in named :
             /\ intact
             /\ tmp' = [tmp EXCEPT ![c] = File(e, e.ino, e.ctime, 1, want[c])]
             /\ token' = [token EXCEPT ![c] = @ \cup {tmp'[c]}]
             /\ round' = [round EXCEPT ![c] = 3]
             /\ Goto(c, "scan")
             /\ UNCHANGED <<task, at, held, known, want, todo, snap, acc, raw,
                            result, opsLeft>>
  /\ UNCHANGED fsVars

(* Mutant: the directory entry is not synced before the answer. *)
Mutant_SyncUnit(c) ==
  /\ pc[c] = "sync"
  /\ Goto(c, "finish")
  /\ UNCHANGED <<fsVars, task, at, held, known, want, local, result, opsLeft>>

SyncUnit(c) ==
  /\ pc[c] = "sync"
  /\ synced' = [synced EXCEPT ![at[c]] = {Leaf(e) : e \in dirs[at[c]]}]
  /\ Goto(c, "finish")
  /\ UNCHANGED <<place, dirs, made, clock, nextIno, mutations, crashes,
                 task, at, held, known, want, local, result, opsLeft>>

FinishPublish(c) ==
  /\ pc[c] = "finish" /\ task[c] = "publish"
  /\ \/ /\ at[c] = place
        /\ Return(c, "Published", tmp[c])
        /\ acked' = acked \cup {[gen |-> tmp[c].gen, doc |-> tmp[c].doc]}
     \/ at[c] # place /\ Fail(c) /\ UNCHANGED acked
  /\ UNCHANGED fsVars

(* A system call fails or memory runs out, at any point of an operation. *)
OperationFails(c) ==
  /\ pc[c] # "idle"
  /\ Fail(c)
  /\ UNCHANGED fsVars

-----------------------------------------------------------------------------
(* The world around the clients. *)

(* The process is killed: its descriptors and its lock go with it. *)
Kill(c) ==
  /\ crashes > 0 /\ pc[c] # "idle"
  /\ crashes' = crashes - 1
  /\ Return(c, "none", NoRecord)
  /\ UNCHANGED <<place, dirs, made, synced, clock, nextIno, mutations>>

(* Every process dies; entries whose directory was not synced may be lost. *)
PowerLoss ==
  /\ crashes > 0
  /\ crashes' = crashes - 1
  /\ \E kept \in SUBSET dirs[place] :
       /\ \A e \in dirs[place] : Leaf(e) \in synced[place] => e \in kept
       /\ dirs' = [dirs EXCEPT ![place] = kept]
       /\ synced' = [synced EXCEPT ![place] = {Leaf(e) : e \in kept}]
  /\ pc' = [c \in Clients |-> "idle"]
  /\ held' = [c \in Clients |-> "none"]
  /\ known' = [c \in Clients |-> NotRead]
  /\ result' = [c \in Clients |-> [kind |-> "none", entry |-> NoRecord]]
  /\ round' = [c \in Clients |-> 1]
  /\ todo' = [c \in Clients |-> {}]
  /\ snap' = [c \in Clients |-> {}]
  /\ acc' = [c \in Clients |-> {}]
  /\ token' = [c \in Clients |-> {}]
  /\ raw' = [c \in Clients |-> NoRecord]
  /\ tmp' = [c \in Clients |-> NoRecord]
  /\ UNCHANGED <<place, made, clock, nextIno, mutations, task, at, want,
                 opsLeft>>

Swap(d, e, f) == dirs' = [dirs EXCEPT ![d] = (@ \ {e}) \cup {f}]

(* What a process of the same user may do to a directory without the lock. *)
RewriteInPlace(d, now) ==
  /\ \E e \in dirs[d], doc \in AllDocuments :
       doc # e.doc /\ Swap(d, e, File(e, e.ino, now, e.nlink, doc))
  /\ UNCHANGED <<place, nextIno>>

RenameOver(d, now) ==
  /\ \E e \in dirs[d], doc \in AllDocuments :
       Swap(d, e, File(e, nextIno, now, 1, doc))
  /\ nextIno' = nextIno + 1
  /\ UNCHANGED place

ToggleAlias(d, now) ==
  /\ \E e \in dirs[d] :
       Swap(d, e, File(e, e.ino, now, IF e.nlink = 1 THEN 2 ELSE 1, e.doc))
  /\ UNCHANGED <<place, nextIno>>

DeleteEntry(d) ==
  /\ \E e \in dirs[d] : dirs' = [dirs EXCEPT ![d] = @ \ {e}]
  /\ UNCHANGED <<place, nextIno>>

(* A foreign name, a second record of a generation, or a stray successor. *)
AddEntry(d, now) ==
  /\ \E e \in dirs[d], doc \in AllDocuments :
     \E leaf \in [gen : {0, e.gen, e.gen + 1}, bind : {e.bind, BindingOf(e)}] :
       /\ leaf.gen # 1 /\ leaf.gen <= MaxGen
       /\ leaf.gen > 1 => leaf.bind # NoPredecessor
       /\ ~\E x \in dirs[d] : Leaf(x) = leaf
       /\ dirs' = [dirs EXCEPT ![d] = @ \cup {File(leaf, nextIno, now, 1, doc)}]
  /\ nextIno' = nextIno + 1
  /\ UNCHANGED place

ExchangeDirectory(d) ==
  /\ place # d
  /\ place' = d
  /\ UNCHANGED <<dirs, nextIno>>

Interfere(d, tick) ==
  /\ mutations > 0
  /\ mutations' = mutations - 1
  /\ clock' = clock + tick
  /\ \/ RewriteInPlace(d, clock + tick)
     \/ RenameOver(d, clock + tick)
     \/ ToggleAlias(d, clock + tick)
     \/ DeleteEntry(d)
     \/ AddEntry(d, clock + tick)
     \/ ExchangeDirectory(d)
  /\ UNCHANGED <<made, synced, crashes, pc, task, at, held, known, want,
                 local, result, opsLeft>>

-----------------------------------------------------------------------------
(* One step of a client towards the end of its operation. *)
StepBefore(c) ==
  \/ OpenStore(c) \/ LockStore(c) \/ EnterUnit(c)
  \/ Scan(c) \/ Inspect(c) \/ Survey(c) \/ ReadRecord(c) \/ Conclude(c)
  \/ ReadTip(c) \/ FinishRead(c)
  \/ ComparePredecessor(c) \/ PrepareRecord(c) \/ RecheckPredecessor(c)
  \/ Link(c) \/ VerifyCommit(c) \/ SyncUnit(c)

Step(c) == (StepBefore(c) /\ UNCHANGED acked) \/ FinishPublish(c)

(* A new call, a failing call or the end of the process. *)
Event(c) ==
  /\ \/ StartRead(c)
     \/ \E d \in AllDocuments : StartPublish(c, d)
     \/ OperationFails(c)
     \/ Kill(c)
  /\ UNCHANGED acked

(* Only clients of the store touch its directory. *)
CoopNext ==
  \/ \E c \in Clients : Step(c) \/ Event(c)
  \/ PowerLoss /\ UNCHANGED acked

Next ==
  \/ CoopNext
  \/ \E d \in DirIds, tick \in Ticks : Interfere(d, tick) /\ UNCHANGED acked

CoopSpec == Init /\ [][CoopNext]_vars
Spec == Init /\ [][Next]_vars

(* A running process is scheduled, and a lock that stays free is granted. *)
Fairness == \A c \in Clients : WF_vars(Step(c))
FairCoopSpec == CoopSpec /\ Fairness

-----------------------------------------------------------------------------
(* Properties of the store among its own clients. *)

Numbered(e) == [gen |-> e.gen, doc |-> e.doc]
Observation(k) == IF k \in {NotRead, NoRecord} THEN k ELSE Numbered(k)

(* The types of the variables; generation numbers never pass the largest    *)
(* one, so that a successor's number never wraps around.                    *)
TypeOK ==
  /\ place \in DirIds /\ dirs \in [DirIds -> SUBSET Entry]
  /\ made \subseteq DirIds /\ synced \in [DirIds -> SUBSET LeafName]
  /\ clock \in Nat /\ nextIno \in Nat \ {0}
  /\ mutations \in Nat /\ crashes \in Nat
  /\ pc \in [Clients -> Stages] /\ task \in [Clients -> {"read", "publish"}]
  /\ at \in [Clients -> DirIds] /\ held \in [Clients -> {"none", "sh", "ex"}]
  /\ known \in [Clients -> Entry \cup {NotRead, NoRecord}]
  /\ want \in [Clients -> AllDocuments \cup {NoRecord}]
  /\ round \in [Clients -> 1..3]
  /\ todo \in [Clients -> SUBSET LeafName]
  /\ snap \in [Clients -> SUBSET FileStatus]
  /\ acc \in [Clients -> SUBSET Entry] /\ token \in [Clients -> SUBSET Entry]
  /\ raw \in [Clients -> AllDocuments \cup {NoRecord}]
  /\ tmp \in [Clients -> Entry \cup {NoRecord}]
  /\ result \in [Clients -> [kind : Outcomes, entry : Entry \cup {NoRecord}]]
  /\ opsLeft \in [Clients -> Nat]

Register == INSTANCE GenerationRegister WITH
  Documents <- AllDocuments,
  history <- {Numbered(e) : e \in dirs[place]},
  known <- [c \in Clients |-> Observation(known[c])]

(* The store is one compare-and-append register: an append succeeds only    *)
(* against the newest record, no client loses or overwrites another's       *)
(* record, and what was answered Published outlives killed processes and    *)
(* power failures (publish_xdg_generation_store, read_xdg_generation_store).*)
ImplementsRegister == Register!Spec

(* No client of an older release ever publishes on top of a document that   *)
(* only a later release understands (FutureSchemaOverwriteRefused).         *)
NoDowngrade ==
  \A e, p \in dirs[place] :
    (e.gen = p.gen + 1 /\ p.doc \in FutureDocuments)
      => e.doc \in FutureDocuments

(* Every lookup and publication returns: waiting for the lock, a killed     *)
(* lock holder and a power failure never leave a caller hanging.            *)
EveryOperationReturns ==
  \A c \in Clients : pc[c] # "idle" ~> pc[c] = "idle"
=============================================================================
