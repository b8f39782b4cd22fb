------------------------ MODULE ReviewedSourceBuild -------------------------
(***************************************************************************)
(* Invocations that build one AUR PackageBase from its persistent checkout *)
(* with review of the upstream revision: source_build.cpp,                 *)
(* reviewed_source_{lifecycle,acceptance,pinned_build,package_base_lease}  *)
(* .cpp, the pinned checkout of trusted_git.cpp, checkout_fetch.cpp and    *)
(* separated_source_build.cpp.                                             *)
(*                                                                         *)
(* An invocation reads the reviewed state, takes the lease of the checkout *)
(* directory, fetches, pins the fetched revision, shows it to the user     *)
(* against the recorded one, checks it out, lets the user edit, records    *)
(* the accepted revision and builds.  The store is only touched by the     *)
(* actions of GenerationRegister, which the store is shown to implement.   *)
(* The lease is a lock on the directory's open file description: a command *)
(* that outlives its killed invocation still holds it.                     *)
(*                                                                         *)
(* Modelled is the ordinary route: no selected upgrade patch, and no       *)
(* tracking of VCS sources.                                                *)
(***************************************************************************)
EXTENDS Integers, FiniteSets, TLC

CONSTANTS
  Invocations,
  Revisions,      \* commits of the upstream repository
  Edits,          \* changes to tracked files
  Dirs,           \* directories (inodes) the checkout path may name
  NotRead, NoRecord, None,
  MaxKills,       \* bound: killed invocations
  MaxRogue        \* bound: changes by processes that take no lease

(* The record of a later release, and one that cannot be used as a baseline: *)
(* invalid, corrupted or of another source.                                  *)
Future == "future"
Abnormal == "abnormal"
Full == "full"
Residue == "residue"

Documents == Revisions \cup {Future, Abnormal}

ASSUME ConstantsAssumption ==
  /\ IsFiniteSet(Invocations) /\ IsFiniteSet(Dirs) /\ Dirs # {}
  /\ Cardinality(Dirs) >= Cardinality(Invocations) + MaxKills
  /\ MaxKills \in Nat /\ MaxRogue \in Nat
  /\ NotRead # NoRecord
  /\ None \notin Revisions \cup Dirs \cup Invocations
  /\ {Future, Abnormal, Full} \cap Revisions = {}
  /\ NoRecord \notin Revisions \cup {Future, None}
  /\ Residue \notin Edits

(* Invocations and revisions are interchangeable. *)
Symmetry == Permutations(Invocations) \cup Permutations(Revisions)

VARIABLES
  history, acked, known,  \* the reviewed state (see GenerationRegister)
  remote,                 \* the revision the upstream branch is at
  place,                  \* the directory the checkout path names, or None
  tree,                   \* what each directory holds
  lease,                  \* the invocation that holds each directory's lease
  orphan,                 \* the command of a killed invocation still running
  kills, rogue            \* budgets left

VARIABLES
  pc, mode,
  dir,        \* the directory an invocation has open
  existed,    \* the checkout existed before this invocation
  authority,  \* none, compatibility, accepted or already
  target,     \* the pinned revision
  shown,      \* the revision the review was shown against, or Full
  edited,     \* the editor ran
  sealed,     \* the work tree observed when the editor boundary was sealed
  build       \* the invocation is to build, not only to check for updates

VARIABLES
  reviews,    \* history: every record appended, its predecessor and review
  leasedAt,   \* history: the newest generation when the lease was taken
  touched     \* history: changed without the lease since last proved

storeVars == <<history, acked, known>>
worldVars == <<remote, place, tree, lease, orphan, kills, rogue>>
own       == <<mode, dir, existed, authority, target, shown, edited, sealed,
               build>>
ghosts    == <<reviews, leasedAt, touched>>
vars      == <<storeVars, worldVars, pc, own, ghosts>>

Store == INSTANCE GenerationRegister WITH Clients <- Invocations

(* Stages in which a command runs in the checkout. *)
Commands == {"fetch", "clone", "checkout", "clean", "reset", "editor",
             "query", "makepkg"}
Stages == Commands \cup
  {"start", "preflight", "open", "fetched", "create", "lease", "claim", "plan", "ask",
   "check", "prompt", "seal", "confirm", "publish", "answer", "reread", "pin",
   "ready", "listed", "install", "done"}

Tree == [git : BOOLEAN, ref : Revisions \cup {None},
         head : Revisions \cup {None}, work : SUBSET (Edits \cup {Residue})]
EmptyDirectory == [git |-> FALSE, ref |-> None, head |-> None, work |-> {}]

(* A command that runs, with the authority it was started under. *)
Job == [kind : Commands, authority : {"none", "compatibility", "accepted", "already"},
        target : Revisions \cup {None}, sealed : SUBSET (Edits \cup {Residue})]

JobOf(i) == [kind |-> pc[i], authority |-> authority[i], target |-> target[i],
             sealed |-> sealed[i]]

TipDocument == IF history = {} THEN NoRecord ELSE Store!Tip(history).doc
TipGeneration == IF history = {} THEN 0 ELSE Store!Tip(history).gen

(* A publication holds the store's lock until it has answered. *)
StoreFree(i) == \A j \in Invocations \ {i} : pc[j] # "answer"

Init ==
  /\ \/ history = {}
     \/ \E d \in Documents \ {Future} : history = {[gen |-> 1, doc |-> d]}
  /\ acked = history
  /\ known = [i \in Invocations |-> NotRead]
  /\ remote \in Revisions
  /\ place \in {None, CHOOSE d \in Dirs : TRUE}
  /\ tree = [d \in Dirs |->
       IF d = place THEN [git |-> TRUE, ref |-> remote, head |-> remote,
                          work |-> {}]
       ELSE EmptyDirectory]
  /\ lease = [d \in Dirs |-> None]
  /\ orphan = [d \in Dirs |-> None]
  /\ kills = MaxKills /\ rogue = MaxRogue
  /\ pc = [i \in Invocations |-> "start"]
  /\ mode = [i \in Invocations |-> "none"]
  /\ dir = [i \in Invocations |-> None]
  /\ existed = [i \in Invocations |-> FALSE]
  /\ authority = [i \in Invocations |-> "none"]
  /\ target = [i \in Invocations |-> None]
  /\ shown = [i \in Invocations |-> None]
  /\ edited = [i \in Invocations |-> FALSE]
  /\ sealed = [i \in Invocations |-> {}]
  /\ build = [i \in Invocations |-> TRUE]
  /\ reviews = {}
  /\ leasedAt = [i \in Invocations |-> 0]
  /\ touched = [d \in Dirs |-> FALSE]

Goto(i, stage) == pc' = [pc EXCEPT ![i] = stage]

(* The invocation's path still leads to the directory it has open. *)
SameIdentity(i) == place = dir[i]

(* HEAD is the pinned revision and the work tree is exactly as given. *)
PinnedWith(i, work) ==
  /\ SameIdentity(i)
  /\ tree[dir[i]].head = target[i]
  /\ tree[dir[i]].work = work

Reviewed(i) == authority[i] \in {"accepted", "already"}

(* What is proved again before each command of a build. *)
Reproved(i) == IF Reviewed(i) THEN PinnedWith(i, sealed[i]) ELSE SameIdentity(i)

Proved(i) == touched' = [touched EXCEPT ![dir[i]] = FALSE]

(* The end of an invocation closes its descriptors. *)
ReleaseLease(i) == lease' = [d \in Dirs |-> IF lease[d] = i THEN None ELSE lease[d]]

(* Leaving the scope of the clone removes the directory it was made for. *)
Rollback(i) ==
  place' = IF pc[i] = "clone" /\ SameIdentity(i) THEN None ELSE place

(* Its values go with it. *)
Discard(i) ==
  /\ mode' = [mode EXCEPT ![i] = "none"]
  /\ dir' = [dir EXCEPT ![i] = None]
  /\ existed' = [existed EXCEPT ![i] = FALSE]
  /\ authority' = [authority EXCEPT ![i] = "none"]
  /\ target' = [target EXCEPT ![i] = None]
  /\ shown' = [shown EXCEPT ![i] = None]
  /\ edited' = [edited EXCEPT ![i] = FALSE]
  /\ sealed' = [sealed EXCEPT ![i] = {}]
  /\ build' = [build EXCEPT ![i] = TRUE]
  /\ leasedAt' = [leasedAt EXCEPT ![i] = 0]

(* An exception, or the last return, unwinds the invocation. *)
Unwind(i) ==
  /\ Goto(i, "done")
  /\ ReleaseLease(i)
  /\ Rollback(i)
  /\ Store!Forget(i)
  /\ Discard(i)
  /\ UNCHANGED <<remote, orphan, kills, rogue, reviews>>

Stop(i) == Unwind(i) /\ UNCHANGED <<tree, touched>>

-----------------------------------------------------------------------------
(* Commands: what each may leave in the directory when it succeeds. *)

Cloned == {[git |-> TRUE, ref |-> remote, head |-> remote, work |-> {}]}
Fetched(t) == {[t EXCEPT !.ref = remote]}
CheckedOut(t, rev) == {[t EXCEPT !.head = rev, !.work = @ \cap {Residue}]}
Cleaned(t) == {[t EXCEPT !.work = @ \ {Residue}]}
WorkedOn(t) ==
  {[t EXCEPT !.work = w \cup (@ \cap {Residue})] : w \in SUBSET Edits}
Built(t) == {[t EXCEPT !.work = @ \cup {Residue}]}

Effects(job, t) ==
  CASE job.kind = "clone"    -> Cloned
    [] job.kind = "fetch"    -> Fetched(t)
    [] job.kind = "checkout" -> CheckedOut(t, job.target)
    [] job.kind = "clean"    -> Cleaned(t)
    [] job.kind = "reset"    -> CheckedOut(t, t.ref)
    [] job.kind = "editor"   -> WorkedOn(t)
    [] job.kind = "makepkg"  -> Built(t)
    [] job.kind = "query"    -> {t}

AfterCommand(i) ==
  CASE pc[i] \in {"fetch", "clone"} -> IF mode[i] = "fetch" THEN "fetched" ELSE "plan"
    [] pc[i] = "checkout" -> "clean"
    [] pc[i] = "clean"    -> "check"
    [] pc[i] = "reset"    -> "check"
    [] pc[i] = "editor"   -> "seal"
    [] pc[i] = "query"    -> "listed"
    [] pc[i] = "makepkg"  -> "install"

(* After the clean-up the checkout is validated against the pin. *)
Validated(i) ==
  pc[i] = "clean" => tree'[dir[i]].head = target[i] /\ tree'[dir[i]].work = {}

CommandSucceeds(i) ==
  /\ pc[i] \in Commands
  /\ \E t \in Effects(JobOf(i), tree[dir[i]]) : tree' = [tree EXCEPT ![dir[i]] = t]
  /\ IF SameIdentity(i) /\ Validated(i)
     THEN /\ Goto(i, AfterCommand(i))
          /\ UNCHANGED <<storeVars, remote, place, lease, orphan, kills, rogue,
                         own, ghosts>>
     ELSE Unwind(i) /\ UNCHANGED touched

(* A command that fails may have done its work or not. *)
CommandFails(i) ==
  /\ pc[i] \in Commands
  /\ \E t \in {tree[dir[i]]} \cup Effects(JobOf(i), tree[dir[i]]) :
       tree' = [tree EXCEPT ![dir[i]] = t]
  /\ Unwind(i) /\ UNCHANGED touched

-----------------------------------------------------------------------------
(* From the reviewed state to the pinned revision. *)

(* Review needs a terminal and a user who did not switch it off; the fetch  *)
(* command only brings the repository up to date.                           *)
Start(i, how) ==
  /\ pc[i] = "start"
  /\ mode' = [mode EXCEPT ![i] = how]
  /\ Goto(i, IF how = "fetch" THEN "open" ELSE "preflight")
  /\ UNCHANGED <<storeVars, worldVars, dir, existed, authority, target, shown,
                 edited, sealed, build, ghosts>>

(* The state is read before anything else, outside the lease. *)
Preflight(i) ==
  /\ pc[i] = "preflight" /\ StoreFree(i)
  /\ IF TipDocument = Future
     THEN Stop(i)
     ELSE /\ Store!Read(i)
          /\ Goto(i, "open")
          /\ UNCHANGED <<worldVars, own, ghosts>>

(* Only a missing entry is cloned; a build stops at one that is no clone. *)
OpenCheckout(i) ==
  /\ pc[i] = "open"
  /\ \/ /\ place = None
        /\ Goto(i, "create")
        /\ UNCHANGED <<storeVars, worldVars, own, ghosts>>
     \/ /\ place # None
        /\ mode[i] = "fetch" \/ tree[place].git
        /\ dir' = [dir EXCEPT ![i] = place]
        /\ existed' = [existed EXCEPT ![i] = TRUE]
        /\ Goto(i, "lease")
        /\ UNCHANGED <<storeVars, worldVars, mode, authority, target, shown,
                       edited, sealed, build, ghosts>>
     \/ /\ place # None /\ mode[i] # "fetch" /\ ~tree[place].git
        /\ Stop(i)

(* An inode nobody refers to any more, for the next directory. *)
FreshDirectory ==
  CHOOSE d \in Dirs :
    /\ d # place /\ lease[d] = None /\ orphan[d] = None
    /\ \A j \in Invocations : dir[j] # d

CreateDirectory(i) ==
  /\ pc[i] = "create"
  /\ IF place # None
     THEN Stop(i)
     ELSE /\ place' = FreshDirectory
          /\ dir' = [dir EXCEPT ![i] = FreshDirectory]
          /\ tree' = [tree EXCEPT ![FreshDirectory] = EmptyDirectory]
          /\ touched' = [touched EXCEPT ![FreshDirectory] = FALSE]
          /\ Goto(i, "claim")
          /\ UNCHANGED <<storeVars, remote, lease, orphan, kills, rogue, mode,
                         existed, authority, target, shown, edited, sealed,
                         build, reviews, leasedAt>>

(* Mutant: the running command of a killed invocation does not hold it. *)
Mutant_LeaseFree(d) == lease[d] = None

LeaseFree(d) == lease[d] = None /\ orphan[d] = None

(* Mutant: a contended lease is waited for. *)
Mutant_AcquireLease(i) ==
  /\ pc[i] \in {"lease", "claim"}
  /\ LeaseFree(dir[i])
  /\ IF SameIdentity(i) /\ (pc[i] = "lease" => tree[dir[i]].git)
     THEN /\ lease' = [lease EXCEPT ![dir[i]] = i]
          /\ leasedAt' = [leasedAt EXCEPT ![i] = TipGeneration]
          /\ Goto(i, IF pc[i] = "claim" THEN "clone" ELSE "fetch")
          /\ UNCHANGED <<storeVars, remote, place, tree, orphan, kills, rogue,
                         own, reviews, touched>>
     ELSE Stop(i)

(* LOCK_NB: a contended lease ends the invocation; then the origin of an    *)
(* existing clone is inspected and the repository fetched or cloned.        *)
AcquireLease(i) ==
  /\ pc[i] \in {"lease", "claim"}
  /\ IF /\ SameIdentity(i) /\ LeaseFree(dir[i])
        /\ pc[i] = "lease" => tree[dir[i]].git
     THEN /\ lease' = [lease EXCEPT ![dir[i]] = i]
          /\ leasedAt' = [leasedAt EXCEPT ![i] = TipGeneration]
          /\ Goto(i, IF pc[i] = "claim" THEN "clone" ELSE "fetch")
          /\ UNCHANGED <<storeVars, remote, place, tree, orphan, kills, rogue,
                         own, reviews, touched>>
     ELSE Stop(i)

(* Without review the checkout is reset to the fetched revision, unless it  *)
(* was cloned just now.                                                     *)
ContinueWithoutReview(i) ==
  IF SameIdentity(i)
  THEN /\ authority' = [authority EXCEPT ![i] = "compatibility"]
       /\ Goto(i, IF existed[i] THEN "reset" ELSE "check")
       /\ UNCHANGED <<storeVars, worldVars, mode, dir, existed, target, shown,
                      edited, sealed, build, ghosts>>
  ELSE Stop(i)

(* What the review will be shown against: the recorded revision while its   *)
(* commit is still available, and the whole tree otherwise.                 *)
Baselines(i) ==
  IF known[i] # NoRecord /\ known[i].doc \in Revisions
  THEN {known[i].doc, Full} ELSE {Full}

AlreadyReviewed(i) == known[i] # NoRecord /\ known[i].doc = tree[dir[i]].ref

(* The revision is pinned to what was fetched and compared with the record. *)
PlanReview(i) ==
  /\ pc[i] = "plan"
  /\ \/ /\ mode[i] = "bypass"
        /\ ContinueWithoutReview(i)
     \/ /\ mode[i] = "review"
        /\ SameIdentity(i)
        /\ target' = [target EXCEPT ![i] = tree[dir[i]].ref]
        /\ \/ /\ AlreadyReviewed(i)
              /\ authority' = [authority EXCEPT ![i] = "already"]
              /\ shown' = shown
              /\ Goto(i, "checkout")
           \/ /\ ~AlreadyReviewed(i)
              /\ \E b \in Baselines(i) : shown' = [shown EXCEPT ![i] = b]
              /\ authority' = authority
              /\ Goto(i, "ask")
        /\ UNCHANGED <<storeVars, worldVars, mode, dir, existed, edited, sealed,
                       build, ghosts>>
     \/ /\ mode[i] = "review" /\ ~SameIdentity(i)
        /\ Stop(i)

(* The user accepts, declines (and builds without review) or cancels. *)
DecideAcceptance(i) ==
  /\ pc[i] = "ask"
  /\ \/ /\ SameIdentity(i)
        /\ authority' = [authority EXCEPT ![i] = "accepted"]
        /\ Goto(i, "checkout")
        /\ UNCHANGED <<storeVars, worldVars, mode, dir, existed, target, shown,
                       edited, sealed, build, ghosts>>
     \/ ContinueWithoutReview(i)
     \/ Stop(i)

-----------------------------------------------------------------------------
(* From the checkout to the recorded revision. *)

(* With OnlyIfUpdated an up-to-date package is recorded but not built, and  *)
(* one whose status is unknown may be skipped.                              *)
CheckUpdateStatus(i) ==
  /\ pc[i] = "check"
  /\ \/ /\ SameIdentity(i)
        /\ Goto(i, "prompt")
        /\ UNCHANGED <<storeVars, worldVars, own, ghosts>>
     \/ /\ SameIdentity(i) /\ Reviewed(i)
        /\ build' = [build EXCEPT ![i] = FALSE]
        /\ Goto(i, "seal")
        /\ UNCHANGED <<storeVars, worldVars, mode, dir, existed, authority,
                       target, shown, edited, sealed, ghosts>>
     \/ Stop(i)

(* The editor opens over a checkout that is proved clean. *)
ReviewBuildFiles(i) ==
  /\ pc[i] = "prompt"
  /\ \/ /\ Goto(i, IF Reviewed(i) THEN "seal" ELSE "ready")
        /\ UNCHANGED <<storeVars, worldVars, own, ghosts>>
     \/ /\ IF Reviewed(i) THEN PinnedWith(i, {}) ELSE SameIdentity(i)
        /\ edited' = [edited EXCEPT ![i] = TRUE]
        /\ Goto(i, "editor")
        /\ Proved(i)
        /\ UNCHANGED <<storeVars, worldVars, mode, dir, existed, authority,
                       target, shown, sealed, build, reviews, leasedAt>>
     \/ Stop(i)

(* What the editor left is observed once; without an editor it is nothing. *)
SealOverlay(i) ==
  /\ pc[i] = "seal"
  /\ LET work == tree[dir[i]].work
     IN IF Reviewed(i) => PinnedWith(i, work) /\ (edited[i] \/ work = {})
        THEN /\ sealed' = [sealed EXCEPT ![i] = IF Reviewed(i) THEN work ELSE {}]
             /\ Goto(i, IF edited[i] THEN "confirm"
                        ELSE IF Reviewed(i) THEN "publish" ELSE "ready")
             /\ Proved(i)
             /\ UNCHANGED <<storeVars, worldVars, mode, dir, existed, authority,
                            target, shown, edited, build, reviews, leasedAt>>
        ELSE Stop(i)

ConfirmEdit(i) ==
  /\ pc[i] = "confirm"
  /\ \/ /\ Goto(i, IF Reviewed(i) THEN "publish" ELSE "ready")
        /\ UNCHANGED <<storeVars, worldVars, own, ghosts>>
     \/ Stop(i)

(* The store's compare: no record where none was seen, or the very record. *)
PredecessorUnchanged(i) ==
  IF known[i] = NoRecord THEN history = {} ELSE known[i] = Store!Tip(history)

(* Mutant: the record is appended to whatever is newest by now. *)
Mutant_PublishState(i) ==
  /\ pc[i] = "publish" /\ StoreFree(i)
  /\ IF ~PinnedWith(i, sealed[i]) THEN Stop(i)
     ELSE IF authority[i] = "already"
     THEN Goto(i, "reread") /\ UNCHANGED <<storeVars, worldVars, own, ghosts>>
     ELSE /\ history' = history \cup {[gen |-> TipGeneration + 1, doc |-> target[i]]}
          /\ reviews' = reviews \cup
               {[before |-> TipDocument, doc |-> target[i], shown |-> shown[i]]}
          /\ Goto(i, "answer")
          /\ UNCHANGED <<acked, known, worldVars, own, leasedAt, touched>>

(* The accepted revision is appended to the very record that was read; a    *)
(* revision that needed no review is only looked up again.                  *)
PublishState(i) ==
  /\ pc[i] = "publish" /\ StoreFree(i)
  /\ IF ~PinnedWith(i, sealed[i]) THEN Stop(i)
     ELSE IF authority[i] = "already" \/ ~PredecessorUnchanged(i)
     THEN Goto(i, "reread") /\ UNCHANGED <<storeVars, worldVars, own, ghosts>>
     ELSE /\ Store!Append(i, target[i])
          /\ reviews' = reviews \cup
               {[before |-> TipDocument, doc |-> target[i], shown |-> shown[i]]}
          /\ Goto(i, "answer")
          /\ UNCHANGED <<worldVars, own, leasedAt, touched>>

(* Published, or PublishedUncertain, which ends the invocation. *)
PublishAnswers(i) ==
  /\ pc[i] = "answer"
  /\ \/ /\ Store!Acknowledge(i)
        /\ Goto(i, "pin")
        /\ UNCHANGED <<worldVars, own, ghosts>>
     \/ Stop(i)

(* Mutant: the observation made before the lease is trusted. *)
Mutant_RereadState(i) ==
  /\ pc[i] = "reread" /\ StoreFree(i)
  /\ IF TipDocument = target[i] \/ authority[i] = "already"
     THEN /\ Store!Read(i)
          /\ Goto(i, "pin")
          /\ UNCHANGED <<worldVars, own, ghosts>>
     ELSE Stop(i)

(* Already reviewed, or a conflict: only the same target may continue. *)
RereadState(i) ==
  /\ pc[i] = "reread" /\ StoreFree(i)
  /\ IF TipDocument = target[i]
     THEN /\ Store!Read(i)
          /\ Goto(i, "pin")
          /\ UNCHANGED <<worldVars, own, ghosts>>
     ELSE Stop(i)

(* The checkout is proved once more after the record exists. *)
PinCheckout(i) ==
  /\ pc[i] = "pin"
  /\ IF PinnedWith(i, sealed[i]) /\ build[i]
     THEN /\ Goto(i, "ready")
          /\ Proved(i)
          /\ UNCHANGED <<storeVars, worldVars, own, reviews, leasedAt>>
     ELSE Stop(i)

-----------------------------------------------------------------------------
(* The build: every command is preceded by the proof of what it builds. *)

StartBuildCommand(i, kind) ==
  IF Reproved(i)
  THEN /\ Goto(i, kind)
       /\ Proved(i)
       /\ UNCHANGED <<storeVars, worldVars, own, reviews, leasedAt>>
  ELSE Stop(i)

QueryPackageList(i) == pc[i] = "ready" /\ StartBuildCommand(i, "query")

RunMakepkg(i) == pc[i] = "listed" /\ StartBuildCommand(i, "makepkg")

(* The lease is held until the artifact is installed or has failed to be. *)
InstallArtifact(i) == pc[i] = "install" /\ Stop(i)

FetchReturns(i) == pc[i] = "fetched" /\ Stop(i)

(* Any other failure: of a system call, of Git, of the store. *)
Fails(i) ==
  /\ pc[i] \notin Commands \cup {"start", "done"}
  /\ Stop(i)

-----------------------------------------------------------------------------
(* The world. *)

(* SIGKILL: nothing unwinds, and a running command lives on with the lease. *)
Kill(i) ==
  /\ kills > 0 /\ pc[i] \notin {"start", "done"}
  /\ kills' = kills - 1
  /\ Goto(i, "done")
  /\ ReleaseLease(i)
  /\ Store!Forget(i)
  /\ IF pc[i] \in Commands
     THEN orphan' = [orphan EXCEPT ![dir[i]] = JobOf(i)]
     ELSE UNCHANGED orphan
  /\ Discard(i)
  /\ UNCHANGED <<remote, place, tree, rogue, reviews, touched>>

OrphanEnds(d) ==
  /\ orphan[d] # None
  /\ \E t \in {tree[d]} \cup Effects(orphan[d], tree[d]) :
       tree' = [tree EXCEPT ![d] = t]
  /\ orphan' = [orphan EXCEPT ![d] = None]
  /\ UNCHANGED <<storeVars, remote, place, lease, kills, rogue, pc, own, ghosts>>

(* Upstream pushes, by force where it likes. *)
MoveRemote ==
  /\ \E r \in Revisions \ {remote} : remote' = r
  /\ UNCHANGED <<storeVars, place, tree, lease, orphan, kills, rogue, pc, own,
                 ghosts>>

(* A later release, run by the same user, records a review of its own. *)
NewerRelease ==
  /\ \A r \in history : r.doc # Future
  /\ \A j \in Invocations : pc[j] # "answer"
  /\ history' = history \cup {[gen |-> TipGeneration + 1, doc |-> Future]}
  /\ UNCHANGED <<acked, known, worldVars, pc, own, ghosts>>

(* A process that takes no lease edits a checkout or moves it away. *)
EditUnleased(d) ==
  /\ tree[d].git
  /\ \/ \E w \in SUBSET Edits \ {tree[d].work} :
          tree' = [tree EXCEPT ![d].work = w]
     \/ \E r \in Revisions \ {tree[d].head} :
          tree' = [tree EXCEPT ![d].head = r]
  /\ touched' = [touched EXCEPT ![d] = TRUE]
  /\ UNCHANGED place

MoveAway(d) ==
  /\ place = d
  /\ place' = None
  /\ UNCHANGED <<tree, touched>>

Rogue(d) ==
  /\ rogue > 0
  /\ rogue' = rogue - 1
  /\ EditUnleased(d) \/ MoveAway(d)
  /\ UNCHANGED <<storeVars, remote, lease, orphan, kills, pc, own, reviews,
                 leasedAt>>

-----------------------------------------------------------------------------
Step(i) ==
  \/ Preflight(i) \/ OpenCheckout(i) \/ CreateDirectory(i) \/ AcquireLease(i)
  \/ CommandSucceeds(i) \/ CommandFails(i)
  \/ PlanReview(i) \/ DecideAcceptance(i) \/ CheckUpdateStatus(i)
  \/ ReviewBuildFiles(i) \/ SealOverlay(i) \/ ConfirmEdit(i)
  \/ PublishState(i) \/ PublishAnswers(i) \/ RereadState(i) \/ PinCheckout(i)
  \/ QueryPackageList(i) \/ RunMakepkg(i) \/ InstallArtifact(i)
  \/ FetchReturns(i)

Next ==
  \/ \E i \in Invocations, how \in {"review", "bypass", "fetch"} : Start(i, how)
  \/ \E i \in Invocations : Step(i) \/ Fails(i) \/ Kill(i)
  \/ \E d \in Dirs : OrphanEnds(d) \/ Rogue(d)
  \/ MoveRemote \/ NewerRelease

Spec == Init /\ [][Next]_vars

(* A live invocation runs on, its commands end and its user answers; the    *)
(* command of a killed invocation may run for ever.                         *)
FairSpec == Spec /\ \A i \in Invocations : WF_vars(Step(i))

-----------------------------------------------------------------------------
(* The types of the variables. *)
TypeOK ==
  /\ remote \in Revisions /\ place \in Dirs \cup {None}
  /\ tree \in [Dirs -> Tree]
  /\ lease \in [Dirs -> Invocations \cup {None}]
  /\ orphan \in [Dirs -> Job \cup {None}]
  /\ kills \in Nat /\ rogue \in Nat
  /\ pc \in [Invocations -> Stages]
  /\ mode \in [Invocations -> {"none", "review", "bypass", "fetch"}]
  /\ dir \in [Invocations -> Dirs \cup {None}]
  /\ authority \in [Invocations -> {"none", "compatibility", "accepted", "already"}]
  /\ target \in [Invocations -> Revisions \cup {None}]
  /\ shown \in [Invocations -> Revisions \cup {Full, None}]
  /\ sealed \in [Invocations -> SUBSET (Edits \cup {Residue})]

(* Every recorded revision was accepted from a review of the whole tree or  *)
(* of the difference from exactly the record it succeeds, so that the chain *)
(* of records leaves no upstream change unseen although the state is read   *)
(* before the lease is taken; and none replaces a later release's record    *)
(* (publish_accepted_reviewed_source_checkout_with_editor_overlay).         *)
ReviewCoversGap ==
  \A r \in reviews :
    /\ r.shown = Full \/ r.shown = r.before
    /\ r.before # Future

(* The commands that run in a directory, orphans included. *)
Running(d) ==
  {JobOf(i) : i \in {j \in Invocations : dir[j] = d /\ pc[j] \in Commands}}
    \cup ({orphan[d]} \ {None})

(* While a reviewed build runs, even after its invocation was killed, the   *)
(* checkout is the pinned revision with exactly the edits that were sealed, *)
(* unless a process without the lease changed it after the last proof       *)
(* (PinnedReviewedSourceBuild::run_guarded_command).                        *)
BuildsWhatWasReviewed ==
  \A d \in Dirs : \A job \in Running(d) :
    /\ job.kind \in {"query", "makepkg"}
    /\ job.authority \in {"accepted", "already"}
    /\ ~touched[d]
    => tree[d].head = job.target /\ tree[d].work = job.sealed

(* A reviewed build's revision was the newest record at some time since the *)
(* invocation took the lease, however old its first observation is          *)
(* (confirm_already_reviewed_source_checkout_with_editor_overlay).          *)
ReviewedBuildIsCurrent ==
  \A i \in Invocations :
    pc[i] \in {"ready", "query", "listed", "makepkg", "install"} /\ Reviewed(i)
      => \E r \in history : r.doc = target[i] /\ r.gen >= leasedAt[i]

(* Every invocation ends, even while the command of a killed one keeps the  *)
(* lease for ever (LOCK_NB in acquire_reviewed_source_package_base_lease).  *)
EveryInvocationEnds ==
  \A i \in Invocations : pc[i] # "start" ~> pc[i] = "done"
=============================================================================
