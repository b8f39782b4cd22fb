------------------------ MODULE MCStoreInterference -------------------------
(***************************************************************************)
(* The store's clients next to processes of the same user that take no     *)
(* lock: records rewritten, replaced, aliased, deleted or added, and the   *)
(* directory exchanged, between any two observations a client makes.       *)
(* Every change advances the ctime, as file systems with fine-grained      *)
(* timestamps do; see the README for what a coarse clock would allow.      *)
(***************************************************************************)
EXTENDS XdgGenerationStore

VARIABLES
  window,   \* history: the true tips a client's operation has lived through
  linked    \* history: the client's current or last operation linked a record

ghosts == <<window, linked>>

(* The current record of the directory a client works on, seen all at once. *)
TrueTip(c) ==
  LET v == dirs[at[c]]
  IN IF ProvenChain(c, v) /\ \A e \in v : e.nlink = 1
     THEN {TipOf(v)} ELSE {}

GhostInit ==
  /\ window = [c \in Clients |-> {}]
  /\ linked = [c \in Clients |-> FALSE]

Observe ==
  /\ window' = [c \in Clients |->
       IF pc[c] # "idle" THEN window[c] \cup TrueTip(c)'
       ELSE IF pc'[c] # "idle" THEN {} ELSE window[c]]
  /\ linked' = [c \in Clients |->
       IF pc[c] = "idle" /\ pc'[c] # "idle" THEN FALSE
       ELSE linked[c] \/ (pc[c] = "link" /\ pc'[c] = "verify")]

ASSUME HistoryAssumption == Documents # {} /\ MaxGen >= 2

(* Earlier invocations left two generations behind. *)
First == [gen |-> 1, bind |-> NoPredecessor, ino |-> 1, ctime |-> 1,
          nlink |-> 1, doc |-> CHOOSE d \in Documents : TRUE]
Second == [gen |-> 2, bind |-> BindingOf(First), ino |-> 2, ctime |-> 2,
           nlink |-> 1, doc |-> First.doc]

StoreInUse ==
  /\ place = FirstDir
  /\ dirs = [d \in DirIds |-> IF d = FirstDir THEN {First, Second} ELSE {}]
  /\ made = {FirstDir}
  /\ synced = [d \in DirIds |-> {Leaf(e) : e \in dirs[d]}]
  /\ clock = 3
  /\ nextIno = 3

MCInit == (EmptyStore \/ StoreInUse) /\ NothingRunning /\ GhostInit
MCNext == Next /\ Observe
MCSpec == MCInit /\ [][MCNext]_<<vars, ghosts>>

(* Although the code observes the directory piece by piece and other        *)
(* processes change it in between, an answer of Missing, Loaded or          *)
(* Published names a record that really was the newest record of one        *)
(* complete chain at some instant of the operation (the reproof in          *)
(* read_xdg_generation_store and publish_generation_store).                 *)
AnswersLinearize ==
  \A c \in Clients :
    result[c].kind \in {"Missing", "Loaded", "Published"}
      => result[c].entry \in window[c]

(* A publication that has linked its record never reports a definite        *)
(* failure, and one that has not never reports a commit, whatever fails     *)
(* and whatever others change meanwhile (PublicationProgress).              *)
OutcomeMatchesCommit ==
  \A c \in Clients :
    /\ result[c].kind \in {"Failure", "Unsafe"} => ~linked[c]
    /\ result[c].kind \in {"Published", "Uncertain"} => linked[c]
=============================================================================
