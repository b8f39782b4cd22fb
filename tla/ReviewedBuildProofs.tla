------------------------- MODULE ReviewedBuildProofs ------------------------
(***************************************************************************)
(* A reviewed build builds what was reviewed, and what it builds is the    *)
(* newest record of some moment since it took the lease; and the chain of  *)
(* reviews has no gap.  For any number of invocations, revisions, edits,   *)
(* kills and processes without the lease.                                  *)
(*                                                                         *)
(* None of them is inductive.  The first needs the lease's discipline:     *)
(* an invocation past the acquisition holds the lease of exactly the       *)
(* directory it has open, no orphaned command runs there, and a directory  *)
(* made for a clone is one that nobody uses - which is a counting argument *)
(* over the orphans that kills have left.  The second needs that records   *)
(* are only ever added on top, and that a publication or the reread leads  *)
(* into the build with the record in hand.                                 *)
(***************************************************************************)
EXTENDS ReviewedSourceBuild, FiniteSetTheorems, TLAPS

(* The stages without the lease. *)
Unopened == {"start", "preflight", "open", "create", "done"}
Unleased == Unopened \cup {"lease", "claim"}

(* An invocation past the acquisition holds its directory alone. *)
Holds(i) ==
  /\ pc[i] \in Unopened => dir[i] = None
  /\ pc[i] \notin Unopened => dir[i] \in Dirs
  /\ pc[i] \notin Unleased => lease[dir[i]] = i

(* A lease leads back to its holder's directory; an orphan excludes it. *)
HeldBack(d) ==
  lease[d] # None => dir[lease[d]] = d /\ orphan[d] = None

(* What a running command was started over is still there. *)
JobPinned(job, d) ==
  job.kind \in {"query", "makepkg"} /\ job.authority \in {"accepted", "already"}
    /\ ~touched[d]
  => tree[d].head = job.target /\ tree[d].work = job.sealed

Building(i) == pc[i] \in Commands => JobPinned(JobOf(i), dir[i])
Orphaned(d) == orphan[d] # None => JobPinned(orphan[d], d)

(* Every orphan was paid for by a kill. *)
Orphans == {d \in Dirs : orphan[d] # None}
Paid == Cardinality(Orphans) + kills <= MaxKills

Ghosts == DOMAIN touched = Dirs

(* The inductive invariant of the lease. *)
LeaseInv ==
  /\ TypeOK /\ Ghosts /\ Paid
  /\ \A i \in Invocations : Holds(i) /\ Building(i)
  /\ \A d \in Dirs : HeldBack(d) /\ Orphaned(d)

(* Records are numbered, and one of them is the newest. *)
Ordered ==
  /\ \A r \in history : r.gen \in Nat
  /\ history # {} => Store!Newest(history) # {}

(* The lease was taken under a record that exists. *)
LeasedUnder(i) == leasedAt[i] \in Nat /\ leasedAt[i] <= TipGeneration

(* From its publication on, a reviewed target is in the store. *)
Published == {"answer", "pin", "ready", "query", "listed", "makepkg", "install"}

Recorded(i) ==
  pc[i] \in Published /\ Reviewed(i)
  => \E r \in history : r.doc = target[i] /\ r.gen >= leasedAt[i]

(* The inductive invariant of the record. *)
RecordInv ==
  /\ Ordered /\ DOMAIN leasedAt = Invocations
  /\ \A i \in Invocations : LeasedUnder(i) /\ Recorded(i)

-----------------------------------------------------------------------------
(* Types. *)

(* What a command leaves is a directory. *)
LEMMA CheckedOutTyped ==
  ASSUME NEW t \in Tree, NEW rev \in Revisions \cup {None},
         NEW u \in CheckedOut(t, rev)
  PROVE  u \in Tree
<1>1. t.work \cap {Residue} \in SUBSET (Edits \cup {Residue})
  OBVIOUS
<1>2. u = [t EXCEPT !.head = rev, !.work = t.work \cap {Residue}]
  BY DEF CheckedOut
<1>. QED
  BY <1>1, <1>2 DEF Tree

LEMMA EffectsTyped ==
  ASSUME remote \in Revisions, NEW job \in Job, NEW t \in Tree,
         NEW u \in Effects(job, t)
  PROVE  u \in Tree
<1>. /\ t.ref \in Revisions \cup {None} /\ t.head \in Revisions \cup {None}
     /\ t.work \in SUBSET (Edits \cup {Residue})
     /\ job.target \in Revisions \cup {None}
  BY DEF Tree, Job
<1>1. CASE job.kind = "clone"
  <2>1. u = [git |-> TRUE, ref |-> remote, head |-> remote, work |-> {}]
    BY <1>1 DEF Effects, Cloned
  <2>. QED
    BY <2>1 DEF Tree
<1>2. CASE job.kind = "fetch"
  <2>1. u = [t EXCEPT !.ref = remote]
    BY <1>2 DEF Effects, Fetched
  <2>. QED
    BY <2>1 DEF Tree
<1>3. CASE job.kind = "checkout"
  <2>1. u \in CheckedOut(t, job.target)
    BY <1>3 DEF Effects
  <2>. QED
    BY <2>1, CheckedOutTyped
<1>4. CASE job.kind = "clean"
  <2>1. u = [t EXCEPT !.work = t.work \ {Residue}]
    BY <1>4 DEF Effects, Cleaned
  <2>. QED
    BY <2>1 DEF Tree
<1>5. CASE job.kind = "reset"
  <2>1. u \in CheckedOut(t, t.ref)
    BY <1>5 DEF Effects
  <2>. QED
    BY <2>1, CheckedOutTyped
<1>6. CASE job.kind = "editor"
  <2>1. PICK w \in SUBSET Edits : u = [t EXCEPT !.work = w \cup (t.work \cap {Residue})]
    BY <1>6 DEF Effects, WorkedOn
  <2>2. w \cup (t.work \cap {Residue}) \in SUBSET (Edits \cup {Residue})
    OBVIOUS
  <2>. QED
    BY <2>1, <2>2 DEF Tree
<1>7. CASE job.kind = "makepkg"
  <2>1. u = [t EXCEPT !.work = t.work \cup {Residue}]
    BY <1>7 DEF Effects, Built
  <2>2. t.work \cup {Residue} \in SUBSET (Edits \cup {Residue})
    OBVIOUS
  <2>. QED
    BY <2>1, <2>2 DEF Tree
<1>8. CASE job.kind = "query"
  BY <1>8 DEF Effects
<1>. QED
  BY <1>1, <1>2, <1>3, <1>4, <1>5, <1>6, <1>7, <1>8 DEF Job, Commands

LEMMA JobTyped ==
  ASSUME TypeOK, NEW i \in Invocations, pc[i] \in Commands
  PROVE  JobOf(i) \in Job
BY DEF TypeOK, JobOf, Job

(* Unwinding keeps the types of everything but the directories. *)
LEMMA UnwindTypes ==
  ASSUME TypeOK, NEW i \in Invocations, Unwind(i), tree' \in [Dirs -> Tree]
  PROVE  TypeOK'
<1>1. /\ pc' \in [Invocations -> Stages] /\ remote' = remote /\ orphan' = orphan
      /\ kills' = kills /\ rogue' = rogue /\ place' \in Dirs \cup {None}
  BY DEF TypeOK, Unwind, Goto, Rollback, Stages
<1>2. lease' \in [Dirs -> Invocations \cup {None}]
  BY DEF TypeOK, Unwind, ReleaseLease
<1>3. /\ mode' \in [Invocations -> {"none", "review", "bypass", "fetch"}]
      /\ dir' \in [Invocations -> Dirs \cup {None}]
      /\ authority' \in [Invocations -> {"none", "compatibility", "accepted", "already"}]
      /\ target' \in [Invocations -> Revisions \cup {None}]
      /\ shown' \in [Invocations -> Revisions \cup {Full, None}]
      /\ sealed' \in [Invocations -> SUBSET (Edits \cup {Residue})]
  BY DEF TypeOK, Unwind, Discard
<1>. QED
  BY <1>1, <1>2, <1>3 DEF TypeOK

(* A command that ends leaves a directory in its place. *)
LEMMA CommandTree ==
  ASSUME LeaseInv, NEW i \in Invocations, pc[i] \in Commands,
         \E t \in {tree[dir[i]]} \cup Effects(JobOf(i), tree[dir[i]]) :
            tree' = [tree EXCEPT ![dir[i]] = t]
  PROVE  /\ tree' \in [Dirs -> Tree]
         /\ \A d \in Dirs \ {dir[i]} : tree'[d] = tree[d]
<1>1. PICK t \in {tree[dir[i]]} \cup Effects(JobOf(i), tree[dir[i]]) :
        tree' = [tree EXCEPT ![dir[i]] = t]
  OBVIOUS
<1>2. dir[i] \in Dirs
  BY DEF LeaseInv, Holds, Commands, Unopened
<1>3. tree[dir[i]] \in Tree /\ remote \in Revisions
  BY <1>2 DEF LeaseInv, TypeOK
<1>4. t \in Tree
  BY <1>1, <1>3, EffectsTyped, JobTyped DEF LeaseInv
<1>. QED
  BY <1>1, <1>2, <1>4 DEF LeaseInv, TypeOK

-----------------------------------------------------------------------------
(* The lease. *)

(* Two invocations past the acquisition have different directories. *)
LEMMA Exclusive ==
  ASSUME LeaseInv, NEW i \in Invocations, NEW j \in Invocations,
         pc[i] \notin Unleased, pc[j] \notin Unleased, dir[i] = dir[j]
  PROVE  i = j
BY DEF LeaseInv, Holds

(* No orphan runs in the directory of an invocation that has the lease. *)
LEMMA NoOrphan ==
  ASSUME LeaseInv, NEW i \in Invocations, pc[i] \notin Unleased
  PROVE  dir[i] \in Dirs /\ lease[dir[i]] = i /\ orphan[dir[i]] = None
<1>1. dir[i] \in Dirs /\ lease[dir[i]] = i
  BY DEF LeaseInv, Holds, Unleased
<1>2. i # None
  BY ConstantsAssumption
<1>. QED
  BY <1>1, <1>2 DEF LeaseInv, HeldBack

(* What one invocation's step leaves alone of another. *)
SameJob(j) ==
  /\ pc'[j] = pc[j] /\ dir'[j] = dir[j] /\ authority'[j] = authority[j]
  /\ target'[j] = target[j] /\ sealed'[j] = sealed[j]

SameDir(d) == tree'[d] = tree[d] /\ touched'[d] = touched[d]

LEMMA JobFrame ==
  ASSUME NEW j \in Invocations, Building(j), SameJob(j),
         pc[j] \in Commands => SameDir(dir[j])
  PROVE  Building(j)'
BY DEF Building, SameJob, SameDir, JobPinned, JobOf

(* The end of an invocation, whatever its command did to its directory. *)
LEMMA UnwindLease ==
  ASSUME LeaseInv, NEW i \in Invocations, Unwind(i), touched' = touched,
         tree' \in [Dirs -> Tree],
         \A d \in Dirs : tree'[d] = tree[d] \/ (pc[i] \in Commands /\ d = dir[i])
  PROVE  LeaseInv'
<1>1. /\ pc' = [pc EXCEPT ![i] = "done"] /\ dir' = [dir EXCEPT ![i] = None]
      /\ authority' = [authority EXCEPT ![i] = "none"]
      /\ target' = [target EXCEPT ![i] = None]
      /\ sealed' = [sealed EXCEPT ![i] = {}]
      /\ orphan' = orphan /\ kills' = kills
      /\ lease' = [d \in Dirs |-> IF lease[d] = i THEN None ELSE lease[d]]
  BY DEF Unwind, Goto, Discard, ReleaseLease
<1>2. TypeOK'
  BY UnwindTypes DEF LeaseInv
<1>3. Ghosts' /\ Paid'
  BY <1>1 DEF LeaseInv, Ghosts, Paid, Orphans
<1>4. pc'[i] = "done" /\ dir'[i] = None /\ \A j \in Invocations \ {i} : SameJob(j)
  BY <1>1 DEF LeaseInv, TypeOK, SameJob
<1>5. ASSUME NEW j \in Invocations PROVE Holds(j)' /\ Building(j)'
  <2>1. CASE j = i
    BY <1>4, <2>1 DEF Holds, Building, Unopened, Unleased, Commands
  <2>2. CASE j # i
    <3>1. Holds(j)'
      BY <1>1, <1>4, <2>2 DEF LeaseInv, Holds, SameJob, Unopened, Unleased
    <3>2. pc[j] \in Commands => SameDir(dir[j])
      <4> SUFFICES ASSUME pc[j] \in Commands PROVE SameDir(dir[j])
        OBVIOUS
      <4>1. pc[j] \notin Unleased
        BY DEF Commands, Unleased, Unopened
      <4>2. pc[i] \in Commands => dir[i] # dir[j]
        BY <2>2, <4>1, Exclusive DEF Commands, Unleased, Unopened
      <4>. QED
        BY <4>1, <4>2, NoOrphan DEF SameDir
    <3>. QED
      BY <1>4, <2>2, <3>1, <3>2, JobFrame DEF LeaseInv
  <2>. QED
    BY <2>1, <2>2
<1>6. ASSUME NEW d \in Dirs PROVE HeldBack(d)' /\ Orphaned(d)'
  <2>1. HeldBack(d)'
    <3> SUFFICES ASSUME lease'[d] # None PROVE dir'[lease'[d]] = d /\ orphan'[d] = None
      BY DEF HeldBack
    <3>1. lease'[d] = lease[d] /\ lease[d] # i
      BY <1>1
    <3>2. lease[d] \in Invocations
      BY <3>1 DEF LeaseInv, TypeOK
    <3>. QED
      BY <1>1, <1>4, <3>1, <3>2 DEF LeaseInv, HeldBack, SameJob
  <2>2. Orphaned(d)'
    <3>1. orphan[d] # None => ~(pc[i] \in Commands /\ d = dir[i])
      BY NoOrphan DEF Commands, Unleased, Unopened
    <3>. QED
      BY <1>1, <3>1 DEF LeaseInv, Orphaned, JobPinned
  <2>. QED
    BY <2>1, <2>2
<1>. QED
  BY <1>2, <1>3, <1>5, <1>6 DEF LeaseInv

LEMMA StopLease ==
  ASSUME LeaseInv, NEW i \in Invocations, Stop(i)
  PROVE  LeaseInv'
BY UnwindLease DEF Stop, LeaseInv, TypeOK

(* A step of an invocation within its lease. *)
LEMMA HolderLease ==
  ASSUME LeaseInv, NEW i \in Invocations, TypeOK', Ghosts',
         pc[i] \notin Unleased, pc'[i] \notin Unleased,
         dir' = dir, lease' = lease, orphan' = orphan, kills' = kills,
         \A j \in Invocations \ {i} : SameJob(j),
         \A d \in Dirs \ {dir[i]} : SameDir(d),
         Building(i)'
  PROVE  LeaseInv'
<1>1. Paid'
  BY DEF LeaseInv, Paid, Orphans
<1>2. dir[i] \in Dirs /\ lease[dir[i]] = i /\ orphan[dir[i]] = None
  BY NoOrphan
<1>3. ASSUME NEW j \in Invocations PROVE Holds(j)' /\ Building(j)'
  <2>1. CASE j = i
    BY <1>2, <2>1 DEF Holds, Unleased
  <2>2. CASE j # i
    <3>1. Holds(j)'
      BY <2>2 DEF LeaseInv, Holds, SameJob
    <3>2. pc[j] \in Commands => SameDir(dir[j])
      <4> SUFFICES ASSUME pc[j] \in Commands PROVE SameDir(dir[j])
        OBVIOUS
      <4>1. pc[j] \notin Unleased
        BY DEF Commands, Unleased, Unopened
      <4>. QED
        BY <2>2, <4>1, Exclusive, NoOrphan
    <3>. QED
      BY <2>2, <3>1, <3>2, JobFrame DEF LeaseInv
  <2>. QED
    BY <2>1, <2>2
<1>4. ASSUME NEW d \in Dirs PROVE HeldBack(d)' /\ Orphaned(d)'
  <2>1. HeldBack(d)'
    BY DEF LeaseInv, HeldBack
  <2>2. Orphaned(d)'
    BY <1>2 DEF LeaseInv, Orphaned, JobPinned, SameDir
  <2>. QED
    BY <2>1, <2>2
<1>. QED
  BY <1>1, <1>3, <1>4 DEF LeaseInv

(* A step of an invocation on its way to the lease. *)
LEMMA ApproachLease ==
  ASSUME LeaseInv, NEW i \in Invocations, TypeOK',
         pc[i] \in Unopened, pc'[i] \in Unleased,
         pc'[i] \in Unopened => dir'[i] = None,
         pc'[i] \notin Unopened => dir'[i] \in Dirs,
         tree' = tree, touched' = touched, lease' = lease, orphan' = orphan,
         kills' = kills,
         \A j \in Invocations \ {i} : SameJob(j)
  PROVE  LeaseInv'
<1>1. Paid' /\ Ghosts'
  BY DEF LeaseInv, Paid, Orphans, Ghosts
<1>2. ASSUME NEW j \in Invocations PROVE Holds(j)' /\ Building(j)'
  <2>1. CASE j = i
    BY <2>1 DEF Holds, Building, Unleased, Unopened, Commands
  <2>2. CASE j # i
    BY <2>2, JobFrame DEF LeaseInv, Holds, SameJob, SameDir
  <2>. QED
    BY <2>1, <2>2
<1>3. ASSUME NEW d \in Dirs PROVE HeldBack(d)' /\ Orphaned(d)'
  <2>1. lease[d] # i
    <3>1. dir[i] = None /\ None \notin Dirs /\ None \notin Invocations
      BY ConstantsAssumption DEF LeaseInv, Holds
    <3>. QED
      BY <3>1 DEF LeaseInv, HeldBack
  <2>2. lease[d] # None => lease[d] \in Invocations
    BY DEF LeaseInv, TypeOK
  <2>3. HeldBack(d)'
    BY <2>1, <2>2 DEF LeaseInv, HeldBack, SameJob
  <2>4. Orphaned(d)'
    BY DEF LeaseInv, Orphaned, JobPinned
  <2>. QED
    BY <2>3, <2>4
<1>. QED
  BY <1>1, <1>2, <1>3 DEF LeaseInv

(* A step within the lease that leaves the directories alone. *)
Within(i, s) ==
  /\ pc' = [pc EXCEPT ![i] = s]
  /\ UNCHANGED <<remote, place, tree, lease, orphan, kills, rogue, mode, dir>>
  /\ authority' \in [Invocations -> {"none", "compatibility", "accepted", "already"}]
  /\ target' \in [Invocations -> Revisions \cup {None}]
  /\ shown' \in [Invocations -> Revisions \cup {Full, None}]
  /\ sealed' \in [Invocations -> SUBSET (Edits \cup {Residue})]
  /\ \A j \in Invocations \ {i} :
       authority'[j] = authority[j] /\ target'[j] = target[j] /\ sealed'[j] = sealed[j]
  /\ touched' = touched \/ Proved(i)

Held == Stages \ Unleased

LEMMA WithinLease ==
  ASSUME LeaseInv, NEW i \in Invocations, pc[i] \in Held, NEW s \in Held,
         Within(i, s), Building(i)'
  PROVE  LeaseInv'
<1>1. pc'[i] = s /\ \A j \in Invocations \ {i} : pc'[j] = pc[j]
  BY DEF Within, LeaseInv, TypeOK
<1>2. TypeOK'
  BY DEF Within, LeaseInv, TypeOK, Held
<1>3. Ghosts' /\ \A d \in Dirs \ {dir[i]} : touched'[d] = touched[d]
  BY DEF Within, Proved, LeaseInv, Ghosts
<1>. QED
  BY <1>1, <1>2, <1>3, HolderLease DEF Within, Held, SameJob, SameDir

LEMMA QuietLease ==
  ASSUME LeaseInv, NEW i \in Invocations, pc[i] \in Held,
         NEW s \in Held \ {"query", "makepkg"}, Within(i, s)
  PROVE  LeaseInv'
<1>1. pc'[i] = s
  BY DEF Within, LeaseInv, TypeOK
<1>2. Building(i)'
  BY <1>1 DEF Building, JobPinned, JobOf
<1>. QED
  BY <1>2, WithinLease

(* Steps within the lease that start no build command. *)
LEMMA QuietSteps ==
  ASSUME LeaseInv, NEW i \in Invocations,
         \/ CheckUpdateStatus(i) \/ ReviewBuildFiles(i) \/ ConfirmEdit(i)
         \/ PublishState(i) \/ PublishAnswers(i) \/ RereadState(i) \/ PinCheckout(i)
  PROVE  LeaseInv'
<1>1. CASE CheckUpdateStatus(i)
  <2>1. Stop(i) \/ (pc[i] = "check" /\ (Within(i, "prompt") \/ Within(i, "seal")))
    BY <1>1 DEF CheckUpdateStatus, Within, Goto, worldVars, own, ghosts, LeaseInv, TypeOK
  <2>. QED
    BY <2>1, StopLease, QuietLease DEF Held, Stages, Commands, Unleased, Unopened
<1>2. CASE ReviewBuildFiles(i)
  <2>1. \/ Stop(i)
        \/ /\ pc[i] = "prompt"
           /\ Within(i, "seal") \/ Within(i, "ready") \/ Within(i, "editor")
    BY <1>2 DEF ReviewBuildFiles, Within, Goto, worldVars, own, ghosts, LeaseInv, TypeOK
  <2>. QED
    BY <2>1, StopLease, QuietLease DEF Held, Stages, Commands, Unleased, Unopened
<1>3. CASE ConfirmEdit(i)
  <2>1. Stop(i) \/ (pc[i] = "confirm" /\ (Within(i, "publish") \/ Within(i, "ready")))
    BY <1>3 DEF ConfirmEdit, Within, Goto, worldVars, own, ghosts, LeaseInv, TypeOK
  <2>. QED
    BY <2>1, StopLease, QuietLease DEF Held, Stages, Commands, Unleased, Unopened
<1>4. CASE PublishState(i)
  <2>1. Stop(i) \/ (pc[i] = "publish" /\ (Within(i, "reread") \/ Within(i, "answer")))
    BY <1>4 DEF PublishState, Within, Goto, worldVars, own, ghosts, LeaseInv, TypeOK
  <2>. QED
    BY <2>1, StopLease, QuietLease DEF Held, Stages, Commands, Unleased, Unopened
<1>5. CASE PublishAnswers(i) \/ RereadState(i)
  <2>1. Stop(i) \/ (pc[i] \in {"answer", "reread"} /\ Within(i, "pin"))
    BY <1>5 DEF PublishAnswers, RereadState, Within, Goto, worldVars, own, ghosts,
                LeaseInv, TypeOK
  <2>. QED
    BY <2>1, StopLease, QuietLease DEF Held, Stages, Commands, Unleased, Unopened
<1>6. CASE PinCheckout(i)
  <2>1. Stop(i) \/ (pc[i] = "pin" /\ Within(i, "ready"))
    BY <1>6 DEF PinCheckout, Within, Goto, worldVars, own, LeaseInv, TypeOK
  <2>. QED
    BY <2>1, StopLease, QuietLease DEF Held, Stages, Commands, Unleased, Unopened
<1>. QED
  BY <1>1, <1>2, <1>3, <1>4, <1>5, <1>6

(* The seal is what the directory holds. *)
LEMMA SealStep ==
  ASSUME LeaseInv, NEW i \in Invocations, SealOverlay(i)
  PROVE  LeaseInv'
<1>1. CASE Stop(i)
  BY <1>1, StopLease
<1>2. CASE ~Stop(i)
  <2>1. pc[i] = "seal" /\ dir[i] \in Dirs
    BY DEF SealOverlay, LeaseInv, Holds, Unopened
  <2>2. tree[dir[i]].work \in SUBSET (Edits \cup {Residue})
    BY <2>1 DEF LeaseInv, TypeOK, Tree
  <2>3. /\ Proved(i) /\ UNCHANGED <<worldVars, mode, dir, authority, target, shown>>
        /\ sealed' = [sealed EXCEPT ![i] = IF Reviewed(i) THEN tree[dir[i]].work ELSE {}]
        /\ \E s \in {"confirm", "publish", "ready"} : pc' = [pc EXCEPT ![i] = s]
    BY <1>2 DEF SealOverlay, Goto
  <2>4. \E s \in {"confirm", "publish", "ready"} : Within(i, s)
    BY <2>2, <2>3 DEF Within, worldVars, LeaseInv, TypeOK
  <2>. QED
    BY <2>1, <2>4, QuietLease DEF Held, Stages, Commands, Unleased, Unopened
<1>. QED
  BY <1>1, <1>2

LEMMA ContinueLease ==
  ASSUME LeaseInv, NEW i \in Invocations, pc[i] \in Held, ContinueWithoutReview(i)
  PROVE  LeaseInv'
<1>1. Stop(i) \/ Within(i, "reset") \/ Within(i, "check")
  BY DEF ContinueWithoutReview, Within, Goto, worldVars, ghosts, LeaseInv, TypeOK
<1>. QED
  BY <1>1, StopLease, QuietLease DEF Held, Stages, Commands, Unleased, Unopened

(* What a record may be shown against is a revision or the whole tree. *)
LEMMA PlanSteps ==
  ASSUME LeaseInv, NEW i \in Invocations, PlanReview(i) \/ DecideAcceptance(i)
  PROVE  LeaseInv'
<1>1. pc[i] \in Held /\ dir[i] \in Dirs
  BY DEF PlanReview, DecideAcceptance, LeaseInv, Holds, Held, Stages, Commands,
         Unleased, Unopened
<1>2. tree[dir[i]].ref \in Revisions \cup {None}
  BY <1>1 DEF LeaseInv, TypeOK, Tree
<1>3. \A b \in Baselines(i) : b \in Revisions \cup {Full, None}
  BY DEF Baselines
<1>4. CASE PlanReview(i)
  <2>1. \/ ContinueWithoutReview(i) \/ Stop(i)
        \/ /\ UNCHANGED <<worldVars, mode, dir, sealed, touched>>
           /\ target' = [target EXCEPT ![i] = tree[dir[i]].ref]
           /\ authority' = [authority EXCEPT ![i] = "already"] /\ shown' = shown
           /\ pc' = [pc EXCEPT ![i] = "checkout"]
        \/ /\ UNCHANGED <<worldVars, mode, dir, sealed, touched>>
           /\ target' = [target EXCEPT ![i] = tree[dir[i]].ref]
           /\ \E b \in Baselines(i) : shown' = [shown EXCEPT ![i] = b]
           /\ authority' = authority
           /\ pc' = [pc EXCEPT ![i] = "ask"]
    BY <1>4 DEF PlanReview, Goto, ghosts
  <2>2. \/ ContinueWithoutReview(i) \/ Stop(i)
        \/ Within(i, "checkout") \/ Within(i, "ask")
    BY <1>2, <1>3, <2>1 DEF Within, worldVars, LeaseInv, TypeOK
  <2>. QED
    BY <1>1, <2>2, StopLease, ContinueLease, QuietLease
    DEF Held, Stages, Commands, Unleased, Unopened
<1>5. CASE DecideAcceptance(i)
  <2>1. ContinueWithoutReview(i) \/ Stop(i) \/ Within(i, "checkout")
    BY <1>5 DEF DecideAcceptance, Within, Goto, worldVars, ghosts, LeaseInv, TypeOK
  <2>. QED
    BY <1>1, <2>1, StopLease, ContinueLease, QuietLease
    DEF Held, Stages, Commands, Unleased, Unopened
<1>. QED
  BY <1>4, <1>5

(* The proof before a build command establishes what the command builds. *)
LEMMA BuildSteps ==
  ASSUME LeaseInv, NEW i \in Invocations, QueryPackageList(i) \/ RunMakepkg(i)
  PROVE  LeaseInv'
<1>1. CASE Stop(i)
  BY <1>1, StopLease
<1>2. CASE ~Stop(i)
  <2>1. PICK s \in {"query", "makepkg"} :
          /\ pc[i] \in {"ready", "listed"} /\ pc' = [pc EXCEPT ![i] = s]
          /\ Reproved(i) /\ Proved(i) /\ UNCHANGED <<worldVars, own>>
    BY <1>2 DEF QueryPackageList, RunMakepkg, StartBuildCommand, Goto
  <2>2. Within(i, s)
    BY <2>1 DEF Within, worldVars, own, LeaseInv, TypeOK
  <2>3. Reviewed(i) => tree[dir[i]].head = target[i] /\ tree[dir[i]].work = sealed[i]
    BY <2>1 DEF Reproved, PinnedWith
  <2>4. Building(i)'
    BY <2>1, <2>3 DEF Building, JobPinned, JobOf, Reviewed, worldVars, own
  <2>. QED
    BY <2>1, <2>2, <2>4, WithinLease DEF Held, Stages, Commands, Unleased, Unopened
<1>. QED
  BY <1>1, <1>2

(* A command works in a directory that nobody else builds in. *)
LEMMA CommandSteps ==
  ASSUME LeaseInv, NEW i \in Invocations, CommandSucceeds(i) \/ CommandFails(i)
  PROVE  LeaseInv'
<1>1. /\ pc[i] \in Commands
      /\ \E t \in {tree[dir[i]]} \cup Effects(JobOf(i), tree[dir[i]]) :
            tree' = [tree EXCEPT ![dir[i]] = t]
  BY DEF CommandSucceeds, CommandFails
<1>2. tree' \in [Dirs -> Tree] /\ \A d \in Dirs \ {dir[i]} : tree'[d] = tree[d]
  BY <1>1, CommandTree
<1>3. CASE Unwind(i) /\ touched' = touched
  BY <1>1, <1>2, <1>3, UnwindLease
<1>4. CASE ~(Unwind(i) /\ touched' = touched)
  <2>1. /\ pc' = [pc EXCEPT ![i] = AfterCommand(i)]
        /\ UNCHANGED <<remote, place, lease, orphan, kills, rogue, own, touched>>
    BY <1>4 DEF CommandSucceeds, CommandFails, Goto, ghosts
  <2>2. AfterCommand(i) \in Held \ {"query", "makepkg"}
    BY <1>1 DEF AfterCommand, Held, Stages, Commands, Unleased, Unopened
  <2>3. pc'[i] = AfterCommand(i) /\ \A j \in Invocations \ {i} : SameJob(j)
    BY <2>1 DEF LeaseInv, TypeOK, SameJob, own
  <2>4. TypeOK' /\ Ghosts'
    BY <1>2, <2>1, <2>2 DEF LeaseInv, TypeOK, Ghosts, own, Held
  <2>5. Building(i)'
    BY <2>2, <2>3 DEF Building, JobPinned, JobOf
  <2>6. \A d \in Dirs \ {dir[i]} : SameDir(d)
    BY <1>2, <2>1 DEF SameDir
  <2>7. pc[i] \notin Unleased /\ pc'[i] \notin Unleased
    BY <1>1, <2>2, <2>3 DEF Held, Commands, Unleased, Unopened
  <2>. QED
    BY <2>1, <2>3, <2>4, <2>5, <2>6, <2>7, HolderLease DEF own
<1>. QED
  BY <1>3, <1>4

(* The way to the lease. *)
LEMMA ApproachSteps ==
  ASSUME LeaseInv, NEW i \in Invocations,
         \/ \E how \in {"review", "bypass", "fetch"} : Start(i, how)
         \/ Preflight(i) \/ OpenCheckout(i)
  PROVE  LeaseInv'
<1>1. CASE Stop(i)
  BY <1>1, StopLease
<1>2. CASE ~Stop(i)
  <2>1. /\ UNCHANGED <<worldVars, authority, target, shown, sealed, touched>>
        /\ mode' = mode \/ \E how \in {"review", "bypass", "fetch"} :
                              mode' = [mode EXCEPT ![i] = how]
        /\ pc[i] \in {"start", "preflight", "open"}
        /\ \/ dir' = dir /\ \E s \in {"open", "preflight", "create"} :
                               pc' = [pc EXCEPT ![i] = s]
           \/ /\ place # None /\ dir' = [dir EXCEPT ![i] = place]
              /\ pc' = [pc EXCEPT ![i] = "lease"]
    BY <1>2 DEF Start, Preflight, OpenCheckout, Goto, own, ghosts
  <2>2. TypeOK'
    BY <2>1 DEF LeaseInv, TypeOK, worldVars, Stages
  <2>3. \A j \in Invocations \ {i} : SameJob(j)
    BY <2>1 DEF LeaseInv, TypeOK, SameJob
  <2>4. dir[i] = None
    BY <2>1 DEF LeaseInv, Holds, Unopened
  <2>5. /\ pc[i] \in Unopened /\ pc'[i] \in Unleased
        /\ pc'[i] \in Unopened => dir'[i] = None
        /\ pc'[i] \notin Unopened => dir'[i] \in Dirs
    BY <2>1, <2>4 DEF LeaseInv, TypeOK, Unopened, Unleased
  <2>. QED
    BY <2>1, <2>2, <2>3, <2>5, ApproachLease DEF worldVars
<1>. QED
  BY <1>1, <1>2

(* There is always a directory that nobody refers to: every one in use is   *)
(* open in another invocation or was left with an orphan by a kill.         *)
LEMMA FreshExists ==
  ASSUME LeaseInv, NEW i \in Invocations, dir[i] = None, place = None
  PROVE  /\ FreshDirectory \in Dirs
         /\ lease[FreshDirectory] = None /\ orphan[FreshDirectory] = None
         /\ \A j \in Invocations : dir[j] # FreshDirectory
<1> DEFINE Others == Invocations \ {i}
           Opened == {dir[j] : j \in Others}
           open == [j \in Others |-> dir[j]]
           Fresh(d) == /\ d # place /\ lease[d] = None /\ orphan[d] = None
                       /\ \A j \in Invocations : dir[j] # d
<1>1. \E d \in Dirs : Fresh(d)
  <2>1. SUFFICES ASSUME \A d \in Dirs : ~Fresh(d) PROVE FALSE
    OBVIOUS
  <2>2. Dirs \subseteq Opened \cup Orphans
    <3> SUFFICES ASSUME NEW d \in Dirs, orphan[d] = None PROVE d \in Opened
      BY DEF Orphans
    <3>1. d # None /\ None \notin Invocations
      BY ConstantsAssumption
    <3>2. PICK j \in Invocations : dir[j] = d
      <4>1. CASE lease[d] # None
        <5>1. lease[d] \in Invocations /\ dir[lease[d]] = d
          BY <4>1 DEF LeaseInv, TypeOK, HeldBack
        <5>. QED
          BY <5>1
      <4>2. CASE lease[d] = None
        BY <2>1, <3>1, <4>2
      <4>. QED
        BY <4>1, <4>2
    <3>. QED
      BY <3>1, <3>2
  <2>3. IsFiniteSet(Others) /\ Cardinality(Others) = Cardinality(Invocations) - 1
    BY FS_RemoveElement, ConstantsAssumption
  <2>4. open \in Surjection(Others, Opened)
    BY DEF Surjection
  <2>5. IsFiniteSet(Opened) /\ Cardinality(Opened) <= Cardinality(Others)
    BY <2>3, <2>4, FS_Surjection
  <2>6. IsFiniteSet(Orphans) /\ Cardinality(Orphans) <= MaxKills
    <3>1. IsFiniteSet(Orphans)
      BY FS_Subset, ConstantsAssumption DEF Orphans
    <3>2. Cardinality(Orphans) \in Nat
      BY <3>1, FS_CardinalityType
    <3>. QED
      BY <3>1, <3>2, ConstantsAssumption DEF LeaseInv, Paid, TypeOK
  <2>7. /\ IsFiniteSet(Opened \cup Orphans)
        /\ Cardinality(Opened \cup Orphans) =
             Cardinality(Opened) + Cardinality(Orphans) - Cardinality(Opened \cap Orphans)
    BY <2>5, <2>6, FS_Union
  <2>8. IsFiniteSet(Opened \cap Orphans)
    BY <2>6, FS_Subset
  <2>9. Cardinality(Dirs) <= Cardinality(Opened \cup Orphans)
    BY <2>2, <2>7, FS_Subset
  <2>10. /\ Cardinality(Opened) \in Nat /\ Cardinality(Orphans) \in Nat
         /\ Cardinality(Opened \cap Orphans) \in Nat
         /\ Cardinality(Invocations) \in Nat /\ Cardinality(Dirs) \in Nat
    BY <2>5, <2>6, <2>8, FS_CardinalityType, ConstantsAssumption
  <2> HIDE DEF Others, Opened, open
  <2>. QED
    BY <2>3, <2>5, <2>6, <2>7, <2>9, <2>10, ConstantsAssumption
<1>2. FreshDirectory = CHOOSE d \in Dirs : Fresh(d)
  BY DEF FreshDirectory
<1>3. FreshDirectory \in Dirs /\ Fresh(FreshDirectory)
  BY <1>1, <1>2
<1>. QED
  BY <1>3

(* A directory made for a clone disturbs nobody. *)
LEMMA CreateStep ==
  ASSUME LeaseInv, NEW i \in Invocations, CreateDirectory(i)
  PROVE  LeaseInv'
<1>1. CASE Stop(i)
  BY <1>1, StopLease
<1>2. CASE ~Stop(i)
  <2> DEFINE f == FreshDirectory
  <2>1. /\ pc[i] = "create" /\ place = None /\ place' = f
        /\ dir' = [dir EXCEPT ![i] = f]
        /\ tree' = [tree EXCEPT ![f] = EmptyDirectory]
        /\ touched' = [touched EXCEPT ![f] = FALSE]
        /\ pc' = [pc EXCEPT ![i] = "claim"]
        /\ UNCHANGED <<remote, lease, orphan, kills, rogue, mode, authority, target,
                       shown, sealed>>
    BY <1>2 DEF CreateDirectory, Goto
  <2>2. dir[i] = None
    BY <2>1 DEF LeaseInv, Holds, Unopened
  <2>3. /\ f \in Dirs /\ lease[f] = None /\ orphan[f] = None
        /\ \A j \in Invocations : dir[j] # f
    BY <2>1, <2>2, FreshExists
  <2> HIDE DEF f
  <2>4. EmptyDirectory \in Tree
    BY DEF EmptyDirectory, Tree
  <2>5. TypeOK' /\ Ghosts' /\ Paid'
    BY <2>1, <2>3, <2>4 DEF LeaseInv, TypeOK, Ghosts, Paid, Orphans, Stages
  <2>6. \A d \in Dirs \ {f} : SameDir(d)
    BY <2>1 DEF SameDir, LeaseInv, TypeOK, Ghosts
  <2>7. /\ pc'[i] = "claim" /\ dir'[i] = f
        /\ \A j \in Invocations \ {i} : SameJob(j)
    BY <2>1 DEF LeaseInv, TypeOK, SameJob
  <2>8. ASSUME NEW j \in Invocations PROVE Holds(j)' /\ Building(j)'
    <3>1. CASE j = i
      BY <2>3, <2>7, <3>1 DEF Holds, Building, Unleased, Unopened, Commands
    <3>2. CASE j # i
      <4>1. Holds(j)'
        BY <2>1, <2>7, <3>2 DEF LeaseInv, Holds, SameJob
      <4>2. pc[j] \in Commands => SameDir(dir[j])
        BY <2>3, <2>6 DEF LeaseInv, Holds, Commands, Unopened
      <4>. QED
        BY <2>7, <3>2, <4>1, <4>2, JobFrame DEF LeaseInv
    <3>. QED
      BY <3>1, <3>2
  <2>9. ASSUME NEW d \in Dirs PROVE HeldBack(d)' /\ Orphaned(d)'
    <3>1. lease[d] # None => lease[d] \in Invocations /\ lease[d] # i
      <4>1. None \notin Dirs
        BY ConstantsAssumption
      <4>. QED
        BY <2>2, <4>1 DEF LeaseInv, TypeOK, HeldBack
    <3>2. HeldBack(d)'
      BY <2>1, <2>7, <3>1 DEF LeaseInv, HeldBack, SameJob
    <3>3. Orphaned(d)'
      BY <2>1, <2>3, <2>6 DEF LeaseInv, Orphaned, JobPinned, SameDir
    <3>. QED
      BY <3>2, <3>3
  <2>. QED
    BY <2>5, <2>8, <2>9 DEF LeaseInv
<1>. QED
  BY <1>1, <1>2

(* The lease is granted where nobody holds it, orphans included. *)
LEMMA AcquireStep ==
  ASSUME LeaseInv, NEW i \in Invocations, AcquireLease(i)
  PROVE  LeaseInv'
<1>1. CASE Stop(i)
  BY <1>1, StopLease
<1>2. CASE ~Stop(i)
  <2>1. PICK s \in {"clone", "fetch"} :
          /\ pc[i] \in {"lease", "claim"} /\ LeaseFree(dir[i])
          /\ lease' = [lease EXCEPT ![dir[i]] = i]
          /\ pc' = [pc EXCEPT ![i] = s]
          /\ UNCHANGED <<remote, place, tree, orphan, kills, rogue, own, touched>>
    BY <1>2 DEF AcquireLease, Goto
  <2>2. dir[i] \in Dirs /\ lease[dir[i]] = None /\ orphan[dir[i]] = None
    BY <2>1 DEF LeaseInv, Holds, Unopened, LeaseFree
  <2>3. /\ lease'[dir[i]] = i /\ \A d \in Dirs \ {dir[i]} : lease'[d] = lease[d]
        /\ pc'[i] = s /\ \A j \in Invocations \ {i} : SameJob(j)
    BY <2>1, <2>2 DEF LeaseInv, TypeOK, SameJob, own
  <2>4. TypeOK' /\ Ghosts' /\ Paid'
    BY <2>1, <2>2 DEF LeaseInv, TypeOK, Ghosts, Paid, Orphans, own, Stages, Commands
  <2>5. ASSUME NEW j \in Invocations PROVE Holds(j)' /\ Building(j)'
    <3>1. CASE j = i
      BY <2>1, <2>2, <2>3, <3>1
      DEF Holds, Building, JobPinned, JobOf, Unleased, Unopened, own
    <3>2. CASE j # i
      <4>1. Holds(j)'
        <5>1. j # None
          BY ConstantsAssumption
        <5>2. pc[j] \notin Unleased => dir[j] \in Dirs \ {dir[i]}
          BY <2>2, <5>1 DEF LeaseInv, Holds, Unleased
        <5>. QED
          BY <2>3, <3>2, <5>2 DEF LeaseInv, Holds, SameJob
      <4>2. SameDir(dir[j])
        BY <2>1 DEF SameDir
      <4>. QED
        BY <2>3, <3>2, <4>1, <4>2, JobFrame DEF LeaseInv
    <3>. QED
      BY <3>1, <3>2
  <2>6. ASSUME NEW d \in Dirs PROVE HeldBack(d)' /\ Orphaned(d)'
    <3>1. HeldBack(d)'
      BY <2>1, <2>2, <2>3 DEF LeaseInv, HeldBack, own
    <3>2. Orphaned(d)'
      BY <2>1 DEF LeaseInv, Orphaned, JobPinned
    <3>. QED
      BY <3>1, <3>2
  <2>. QED
    BY <2>4, <2>5, <2>6 DEF LeaseInv
<1>. QED
  BY <1>1, <1>2

(* A kill turns the running command into an orphan that keeps the others out. *)
LEMMA KillStep ==
  ASSUME LeaseInv, NEW i \in Invocations, Kill(i)
  PROVE  LeaseInv'
<1>1. /\ kills > 0 /\ kills' = kills - 1
      /\ pc' = [pc EXCEPT ![i] = "done"]
      /\ lease' = [d \in Dirs |-> IF lease[d] = i THEN None ELSE lease[d]]
      /\ orphan' = IF pc[i] \in Commands
                   THEN [orphan EXCEPT ![dir[i]] = JobOf(i)] ELSE orphan
      /\ UNCHANGED <<remote, place, tree, rogue, touched>>
  BY DEF Kill, Goto, ReleaseLease
<1>2. /\ mode' = [mode EXCEPT ![i] = "none"]
      /\ dir' = [dir EXCEPT ![i] = None]
      /\ authority' = [authority EXCEPT ![i] = "none"]
      /\ target' = [target EXCEPT ![i] = None]
      /\ shown' = [shown EXCEPT ![i] = None]
      /\ sealed' = [sealed EXCEPT ![i] = {}]
  BY DEF Kill, Discard
<1>3. pc[i] \in Commands =>
        /\ dir[i] \in Dirs /\ lease[dir[i]] = i /\ orphan[dir[i]] = None
        /\ JobOf(i) \in Job
  BY NoOrphan, JobTyped DEF LeaseInv, Commands, Unleased, Unopened
<1>4. orphan' \in [Dirs -> Job \cup {None}]
  BY <1>1, <1>3 DEF LeaseInv, TypeOK
<1>5. TypeOK' /\ Ghosts'
  <2>1. kills' \in Nat
    BY <1>1 DEF LeaseInv, TypeOK
  <2>2. pc' \in [Invocations -> Stages] /\ lease' \in [Dirs -> Invocations \cup {None}]
    BY <1>1 DEF LeaseInv, TypeOK, Stages
  <2>3. /\ mode' \in [Invocations -> {"none", "review", "bypass", "fetch"}]
        /\ dir' \in [Invocations -> Dirs \cup {None}]
        /\ authority' \in [Invocations -> {"none", "compatibility", "accepted", "already"}]
        /\ target' \in [Invocations -> Revisions \cup {None}]
        /\ shown' \in [Invocations -> Revisions \cup {Full, None}]
        /\ sealed' \in [Invocations -> SUBSET (Edits \cup {Residue})]
    BY <1>2 DEF LeaseInv, TypeOK
  <2>. QED
    BY <1>1, <1>4, <2>1, <2>2, <2>3 DEF LeaseInv, TypeOK, Ghosts
<1>6. Paid'
  <2>1. IsFiniteSet(Orphans)
    BY FS_Subset, ConstantsAssumption DEF Orphans
  <2>2. /\ IsFiniteSet(Orphans \cup {dir[i]})
        /\ Cardinality(Orphans \cup {dir[i]}) <= Cardinality(Orphans) + 1
    <3>1. /\ IsFiniteSet(Orphans \cup {dir[i]})
          /\ Cardinality(Orphans \cup {dir[i]}) =
               IF dir[i] \in Orphans THEN Cardinality(Orphans) ELSE Cardinality(Orphans) + 1
      BY <2>1, FS_AddElement
    <3>2. Cardinality(Orphans) \in Nat
      BY <2>1, FS_CardinalityType
    <3>. QED
      BY <3>1, <3>2
  <2>3. Orphans' \subseteq Orphans \cup {dir[i]}
    BY <1>1, <1>3 DEF Orphans, LeaseInv, TypeOK
  <2>4. IsFiniteSet(Orphans') /\ Cardinality(Orphans') <= Cardinality(Orphans \cup {dir[i]})
    BY <2>2, <2>3, FS_Subset
  <2>5. /\ Cardinality(Orphans) \in Nat /\ Cardinality(Orphans') \in Nat
        /\ Cardinality(Orphans \cup {dir[i]}) \in Nat
    BY <2>1, <2>2, <2>4, FS_CardinalityType
  <2>. QED
    BY <1>1, <2>2, <2>4, <2>5, ConstantsAssumption DEF LeaseInv, TypeOK, Paid
<1>7. pc'[i] = "done" /\ dir'[i] = None /\ \A j \in Invocations \ {i} : SameJob(j)
  BY <1>1, <1>2 DEF LeaseInv, TypeOK, SameJob
<1>8. ASSUME NEW j \in Invocations PROVE Holds(j)' /\ Building(j)'
  <2>1. CASE j = i
    BY <1>7, <2>1 DEF Holds, Building, Unopened, Unleased, Commands
  <2>2. CASE j # i
    <3>1. Holds(j)'
      BY <1>1, <1>7, <2>2 DEF LeaseInv, Holds, SameJob, Unopened, Unleased
    <3>2. SameDir(dir[j])
      BY <1>1 DEF SameDir
    <3>. QED
      BY <1>7, <2>2, <3>1, <3>2, JobFrame DEF LeaseInv
  <2>. QED
    BY <2>1, <2>2
<1>9. ASSUME NEW d \in Dirs PROVE HeldBack(d)' /\ Orphaned(d)'
  <2>1. HeldBack(d)'
    <3> SUFFICES ASSUME lease'[d] # None PROVE dir'[lease'[d]] = d /\ orphan'[d] = None
      BY DEF HeldBack
    <3>1. lease'[d] = lease[d] /\ lease[d] # i /\ lease[d] \in Invocations
      BY <1>1 DEF LeaseInv, TypeOK
    <3>2. dir[lease[d]] = d /\ orphan[d] = None
      BY <3>1 DEF LeaseInv, HeldBack
    <3>3. pc[i] \in Commands => d # dir[i]
      BY <1>3, <3>1
    <3>4. orphan'[d] = orphan[d]
      BY <1>1, <1>3, <3>3 DEF LeaseInv, TypeOK
    <3>. QED
      BY <1>7, <3>1, <3>2, <3>4 DEF SameJob
  <2>2. Orphaned(d)'
    <3>1. CASE pc[i] \in Commands /\ d = dir[i]
      <4>1. orphan'[d] = JobOf(i)
        BY <1>1, <1>3, <3>1 DEF LeaseInv, TypeOK
      <4>. QED
        BY <1>1, <3>1, <4>1 DEF LeaseInv, Building, Orphaned, JobPinned
    <3>2. CASE ~(pc[i] \in Commands /\ d = dir[i])
      <4>1. orphan'[d] = orphan[d]
        BY <1>1, <1>3, <3>2 DEF LeaseInv, TypeOK
      <4>. QED
        BY <1>1, <4>1 DEF LeaseInv, Orphaned, JobPinned
    <3>. QED
      BY <3>1, <3>2
  <2>. QED
    BY <2>1, <2>2
<1>. QED
  BY <1>5, <1>6, <1>8, <1>9 DEF LeaseInv

(* An orphan that ends was alone in its directory. *)
LEMMA OrphanStep ==
  ASSUME LeaseInv, NEW e \in Dirs, OrphanEnds(e)
  PROVE  LeaseInv'
<1>1. PICK t \in {tree[e]} \cup Effects(orphan[e], tree[e]) :
        tree' = [tree EXCEPT ![e] = t]
  BY DEF OrphanEnds
<1>2. /\ orphan[e] # None /\ orphan' = [orphan EXCEPT ![e] = None]
      /\ UNCHANGED <<remote, place, lease, kills, rogue, pc, own, touched>>
  BY DEF OrphanEnds, ghosts
<1>3. orphan[e] \in Job /\ tree[e] \in Tree
  BY <1>2 DEF LeaseInv, TypeOK
<1>4. t \in Tree
  BY <1>1, <1>3, EffectsTyped DEF LeaseInv, TypeOK
<1>5. TypeOK' /\ Ghosts'
  BY <1>1, <1>2, <1>4 DEF LeaseInv, TypeOK, Ghosts, own
<1>6. Paid'
  <2>1. IsFiniteSet(Orphans)
    BY FS_Subset, ConstantsAssumption DEF Orphans
  <2>2. Orphans' \subseteq Orphans
    BY <1>2 DEF Orphans, LeaseInv, TypeOK
  <2>3. IsFiniteSet(Orphans') /\ Cardinality(Orphans') <= Cardinality(Orphans)
    BY <2>1, <2>2, FS_Subset
  <2>4. Cardinality(Orphans) \in Nat /\ Cardinality(Orphans') \in Nat
    BY <2>1, <2>3, FS_CardinalityType
  <2>. QED
    BY <1>2, <2>3, <2>4, ConstantsAssumption DEF LeaseInv, TypeOK, Paid
<1>7. \A d \in Dirs \ {e} : SameDir(d) /\ orphan'[d] = orphan[d]
  BY <1>1, <1>2 DEF SameDir, LeaseInv, TypeOK
<1>8. ASSUME NEW j \in Invocations PROVE Holds(j)' /\ Building(j)'
  <2>1. Holds(j)'
    BY <1>2 DEF LeaseInv, Holds, own
  <2>2. SameJob(j)
    BY <1>2 DEF SameJob, own
  <2>3. pc[j] \in Commands => SameDir(dir[j])
    BY <1>2, <1>7, NoOrphan DEF Commands, Unleased, Unopened
  <2>. QED
    BY <2>1, <2>2, <2>3, JobFrame DEF LeaseInv
<1>9. ASSUME NEW d \in Dirs PROVE HeldBack(d)' /\ Orphaned(d)'
  <2>1. orphan'[d] = None \/ (d # e /\ orphan'[d] = orphan[d])
    BY <1>2, <1>7 DEF LeaseInv, TypeOK
  <2>2. HeldBack(d)'
    BY <1>2, <2>1 DEF LeaseInv, HeldBack, own
  <2>3. Orphaned(d)'
    BY <1>7, <2>1 DEF LeaseInv, Orphaned, JobPinned, SameDir
  <2>. QED
    BY <2>2, <2>3
<1>. QED
  BY <1>5, <1>6, <1>8, <1>9 DEF LeaseInv

(* A process without the lease marks what it touches. *)
LEMMA RogueStep ==
  ASSUME LeaseInv, NEW e \in Dirs, Rogue(e)
  PROVE  LeaseInv'
<1>1. /\ rogue > 0 /\ rogue' = rogue - 1
      /\ UNCHANGED <<remote, lease, orphan, kills, pc, own>>
      /\ EditUnleased(e) \/ MoveAway(e)
  BY DEF Rogue
<1>2. /\ tree' \in [Dirs -> Tree] /\ place' \in Dirs \cup {None} /\ Ghosts'
      /\ \A d \in Dirs : touched'[d] \/ SameDir(d)
  <2>1. CASE EditUnleased(e)
    <3>1. /\ touched' = [touched EXCEPT ![e] = TRUE] /\ place' = place
          /\ \/ \E w \in SUBSET Edits : tree' = [tree EXCEPT ![e].work = w]
             \/ \E r \in Revisions : tree' = [tree EXCEPT ![e].head = r]
      BY <2>1 DEF EditUnleased
    <3>2. \E t \in Tree : tree' = [tree EXCEPT ![e] = t]
      <4>1. tree[e] \in Tree
        BY DEF LeaseInv, TypeOK
      <4>2. CASE \E w \in SUBSET Edits : tree' = [tree EXCEPT ![e].work = w]
        <5>1. PICK w \in SUBSET Edits : tree' = [tree EXCEPT ![e].work = w]
          BY <4>2
        <5>2. [tree[e] EXCEPT !.work = w] \in Tree
          BY <4>1 DEF Tree
        <5>3. tree' = [tree EXCEPT ![e] = [tree[e] EXCEPT !.work = w]]
          BY <5>1
        <5>. QED
          BY <5>2, <5>3
      <4>3. CASE \E r \in Revisions : tree' = [tree EXCEPT ![e].head = r]
        <5>1. PICK r \in Revisions : tree' = [tree EXCEPT ![e].head = r]
          BY <4>3
        <5>2. [tree[e] EXCEPT !.head = r] \in Tree
          BY <4>1 DEF Tree
        <5>3. tree' = [tree EXCEPT ![e] = [tree[e] EXCEPT !.head = r]]
          BY <5>1
        <5>. QED
          BY <5>2, <5>3
      <4>. QED
        BY <3>1, <4>2, <4>3
    <3>. QED
      BY <3>1, <3>2 DEF LeaseInv, TypeOK, Ghosts, SameDir
  <2>2. CASE MoveAway(e)
    BY <2>2 DEF MoveAway, LeaseInv, TypeOK, Ghosts, SameDir
  <2>. QED
    BY <1>1, <2>1, <2>2
<1>3. TypeOK'
  BY <1>1, <1>2 DEF LeaseInv, TypeOK, own
<1>4. Paid'
  BY <1>1 DEF LeaseInv, Paid, Orphans
<1>5. ASSUME NEW j \in Invocations PROVE Holds(j)' /\ Building(j)'
  <2>1. Holds(j)'
    BY <1>1 DEF LeaseInv, Holds, own
  <2>2. pc[j] \in Commands => dir[j] \in Dirs
    BY DEF LeaseInv, Holds, Commands, Unopened
  <2>3. Building(j)'
    BY <1>1, <1>2, <2>2 DEF LeaseInv, Building, JobPinned, JobOf, SameDir, own
  <2>. QED
    BY <2>1, <2>3
<1>6. ASSUME NEW d \in Dirs PROVE HeldBack(d)' /\ Orphaned(d)'
  <2>1. HeldBack(d)'
    BY <1>1 DEF LeaseInv, HeldBack, own
  <2>2. Orphaned(d)'
    BY <1>1, <1>2 DEF LeaseInv, Orphaned, JobPinned, SameDir
  <2>. QED
    BY <2>1, <2>2
<1>. QED
  BY <1>2, <1>3, <1>4, <1>5, <1>6 DEF LeaseInv

LEMMA IdleStep ==
  ASSUME LeaseInv, MoveRemote \/ NewerRelease \/ UNCHANGED vars
  PROVE  LeaseInv'
<1>1. /\ UNCHANGED <<place, tree, lease, orphan, kills, rogue, pc, own, touched>>
      /\ remote' \in Revisions
  BY DEF MoveRemote, NewerRelease, vars, worldVars, ghosts, LeaseInv, TypeOK
<1>2. TypeOK' /\ Ghosts' /\ Paid'
  BY <1>1 DEF LeaseInv, TypeOK, Ghosts, Paid, Orphans, own
<1>3. \A j \in Invocations : Holds(j)' /\ Building(j)'
  BY <1>1 DEF LeaseInv, Holds, Building, JobPinned, JobOf, own
<1>4. \A d \in Dirs : HeldBack(d)' /\ Orphaned(d)'
  BY <1>1 DEF LeaseInv, HeldBack, Orphaned, JobPinned, own
<1>. QED
  BY <1>2, <1>3, <1>4 DEF LeaseInv

LEMMA LeaseInit ==
  ASSUME Init
  PROVE  LeaseInv
<1>1. /\ remote \in Revisions /\ lease = [d \in Dirs |-> None]
      /\ orphan = [d \in Dirs |-> None]
      /\ kills = MaxKills /\ rogue = MaxRogue
      /\ pc = [i \in Invocations |-> "start"]
      /\ mode = [i \in Invocations |-> "none"]
      /\ dir = [i \in Invocations |-> None]
      /\ authority = [i \in Invocations |-> "none"]
      /\ target = [i \in Invocations |-> None]
      /\ shown = [i \in Invocations |-> None]
      /\ sealed = [i \in Invocations |-> {}]
      /\ touched = [d \in Dirs |-> FALSE]
  BY DEF Init
<1>2. place \in Dirs \cup {None}
  <2>1. (CHOOSE d \in Dirs : TRUE) \in Dirs
    BY ConstantsAssumption
  <2>. QED
    BY <2>1 DEF Init
<1>3. tree \in [Dirs -> Tree]
  <2>1. tree = [d \in Dirs |-> IF d = place
                 THEN [git |-> TRUE, ref |-> remote, head |-> remote, work |-> {}]
                 ELSE EmptyDirectory]
    BY DEF Init
  <2>2. /\ [git |-> TRUE, ref |-> remote, head |-> remote, work |-> {}] \in Tree
        /\ EmptyDirectory \in Tree
    BY <1>1 DEF Tree, EmptyDirectory
  <2>. QED
    BY <2>1, <2>2
<1>4. TypeOK /\ Ghosts
  BY <1>1, <1>2, <1>3, ConstantsAssumption DEF TypeOK, Ghosts, Stages
<1>5. Paid
  <2>1. Orphans = {}
    BY <1>1 DEF Orphans
  <2>. QED
    BY <1>1, <2>1, FS_EmptySet, ConstantsAssumption DEF Paid
<1>6. \A i \in Invocations : Holds(i) /\ Building(i)
  BY <1>1 DEF Holds, Building, Unopened, Unleased, Commands
<1>7. \A d \in Dirs : HeldBack(d) /\ Orphaned(d)
  BY <1>1 DEF HeldBack, Orphaned
<1>. QED
  BY <1>4, <1>5, <1>6, <1>7 DEF LeaseInv

(* The lease's discipline is inductive. *)
LEMMA LeaseStep ==
  ASSUME LeaseInv, [Next]_vars
  PROVE  LeaseInv'
<1>1. CASE \E i \in Invocations : Step(i) \/ Fails(i) \/ Kill(i)
  <2>1. PICK i \in Invocations : Step(i) \/ Fails(i) \/ Kill(i)
    BY <1>1
  <2>2. CASE Step(i)
    <3>1. CASE Preflight(i) \/ OpenCheckout(i)
      BY <3>1, ApproachSteps
    <3>2. CASE CreateDirectory(i) \/ AcquireLease(i)
      BY <3>2, CreateStep, AcquireStep
    <3>3. CASE CommandSucceeds(i) \/ CommandFails(i)
      BY <3>3, CommandSteps
    <3>4. CASE PlanReview(i) \/ DecideAcceptance(i) \/ SealOverlay(i)
      BY <3>4, PlanSteps, SealStep
    <3>5. CASE \/ CheckUpdateStatus(i) \/ ReviewBuildFiles(i) \/ ConfirmEdit(i)
               \/ PublishState(i) \/ PublishAnswers(i) \/ RereadState(i)
               \/ PinCheckout(i)
      BY <3>5, QuietSteps
    <3>6. CASE QueryPackageList(i) \/ RunMakepkg(i)
      BY <3>6, BuildSteps
    <3>7. CASE InstallArtifact(i) \/ FetchReturns(i)
      BY <3>7, StopLease DEF InstallArtifact, FetchReturns
    <3>. QED
      BY <2>2, <3>1, <3>2, <3>3, <3>4, <3>5, <3>6, <3>7 DEF Step
  <2>3. CASE Fails(i)
    BY <2>3, StopLease DEF Fails
  <2>4. CASE Kill(i)
    BY <2>4, KillStep
  <2>. QED
    BY <2>1, <2>2, <2>3, <2>4
<1>2. CASE \E i \in Invocations, how \in {"review", "bypass", "fetch"} : Start(i, how)
  BY <1>2, ApproachSteps
<1>3. CASE \E d \in Dirs : OrphanEnds(d) \/ Rogue(d)
  BY <1>3, OrphanStep, RogueStep
<1>4. CASE MoveRemote \/ NewerRelease \/ UNCHANGED vars
  BY <1>4, IdleStep
<1>. QED
  BY <1>1, <1>2, <1>3, <1>4 DEF Next

(* The lease's discipline holds throughout. *)
THEOREM LeaseDiscipline == Spec => []LeaseInv
<1>1. Init => LeaseInv
  BY LeaseInit
<1>2. LeaseInv /\ [Next]_vars => LeaseInv'
  BY LeaseStep
<1>. QED
  BY <1>1, <1>2, PTL DEF Spec

(* Whatever else runs, is killed or is left running, a reviewed package is  *)
(* built from the pinned revision with exactly the sealed edits, unless a   *)
(* process without the lease changed the checkout after the last proof      *)
(* (PinnedReviewedSourceBuild::run_guarded_command under the lease of       *)
(* acquire_reviewed_source_package_base_lease).                             *)
THEOREM BuiltAsReviewed == Spec => []BuildsWhatWasReviewed
<1>1. LeaseInv => BuildsWhatWasReviewed
  <2> SUFFICES ASSUME LeaseInv, NEW d \in Dirs, NEW job \in Running(d),
                      job.kind \in {"query", "makepkg"},
                      job.authority \in {"accepted", "already"}, ~touched[d]
               PROVE  tree[d].head = job.target /\ tree[d].work = job.sealed
    BY DEF BuildsWhatWasReviewed
  <2>1. JobPinned(job, d)
    <3>1. CASE job \in {JobOf(i) : i \in {j \in Invocations : dir[j] = d /\ pc[j] \in Commands}}
      BY <3>1 DEF LeaseInv, Building
    <3>2. CASE job \in {orphan[d]} \ {None}
      BY <3>2 DEF LeaseInv, Orphaned
    <3>. QED
      BY <3>1, <3>2 DEF Running
  <2>. QED
    BY <2>1 DEF JobPinned
<1>. QED
  BY <1>1, LeaseDiscipline, PTL

-----------------------------------------------------------------------------
(* The record. *)

(* The newest record is one of the records. *)
LEMMA TipNewest ==
  ASSUME Ordered, history # {}
  PROVE  /\ Store!Tip(history) \in history
         /\ \A r \in history : r.gen <= Store!Tip(history).gen
<1>1. Store!Tip(history) = CHOOSE r \in Store!Newest(history) : TRUE
  BY DEF Store!Tip
<1>2. Store!Tip(history) \in Store!Newest(history)
  BY <1>1 DEF Ordered
<1>. QED
  BY <1>2 DEF Store!Newest

LEMMA TipBounds ==
  ASSUME Ordered
  PROVE  TipGeneration \in Nat /\ \A r \in history : r.gen <= TipGeneration
<1>1. CASE history = {}
  BY <1>1 DEF TipGeneration
<1>2. CASE history # {}
  BY <1>2, TipNewest DEF TipGeneration, Ordered
<1>. QED
  BY <1>1, <1>2

(* A record on top keeps the order. *)
Grows(doc) == history' = history \cup {[gen |-> TipGeneration + 1, doc |-> doc]}

LEMMA GrowsOrdered ==
  ASSUME Ordered, NEW doc, Grows(doc)
  PROVE  Ordered' /\ TipGeneration' = TipGeneration + 1
<1> DEFINE r == [gen |-> TipGeneration + 1, doc |-> doc]
<1>1. history' = history \cup {r} /\ r.gen = TipGeneration + 1
  BY DEF Grows
<1>2. TipGeneration \in Nat /\ \A s \in history : s.gen \in Nat /\ s.gen <= TipGeneration
  BY TipBounds DEF Ordered
<1>3. r \in history' /\ \A s \in history' : s.gen \in Nat /\ s.gen <= r.gen
  BY <1>1, <1>2
<1> HIDE DEF r
<1>4. r \in Store!Newest(history')
  BY <1>3 DEF Store!Newest
<1>5. Ordered'
  BY <1>3, <1>4 DEF Ordered
<1>6. history' # {}
  BY <1>3
<1>7. \A s \in history' : s.gen <= Store!Tip(history').gen
  <2>1. Store!Tip(history') = CHOOSE s \in Store!Newest(history') : TRUE
    BY <1>6 DEF Store!Tip
  <2>2. Store!Tip(history') \in Store!Newest(history')
    BY <1>4, <2>1
  <2>. QED
    BY <2>2 DEF Store!Newest
<1>8. Store!Tip(history') \in history'
  <2>1. Store!Tip(history') = CHOOSE s \in Store!Newest(history') : TRUE
    BY <1>6 DEF Store!Tip
  <2>. QED
    BY <1>4, <2>1 DEF Store!Newest
<1>9. Store!Tip(history').gen = r.gen
  BY <1>3, <1>7, <1>8
<1>. QED
  BY <1>1, <1>5, <1>6, <1>9 DEF TipGeneration

(* What Recorded and LeasedUnder read of an invocation. *)
SameClaim(j) ==
  /\ pc'[j] = pc[j] /\ authority'[j] = authority[j] /\ target'[j] = target[j]
  /\ leasedAt'[j] = leasedAt[j]

LEMMA ClaimFrame ==
  ASSUME Ordered, NEW j \in Invocations, LeasedUnder(j), Recorded(j), SameClaim(j),
         history' = history \/ \E doc : Grows(doc)
  PROVE  LeasedUnder(j)' /\ Recorded(j)'
<1>1. TipGeneration \in Nat
  BY TipBounds
<1>2. history \subseteq history'
  BY DEF Grows
<1>3. TipGeneration' \in {TipGeneration, TipGeneration + 1}
  BY GrowsOrdered DEF TipGeneration
<1>4. LeasedUnder(j)'
  BY <1>1, <1>3 DEF LeasedUnder, SameClaim
<1>5. Recorded(j)'
  BY <1>2 DEF Recorded, Reviewed, SameClaim
<1>. QED
  BY <1>4, <1>5

LEMMA ClaimStep ==
  ASSUME RecordInv, NEW i \in Invocations,
         history' = history \/ \E doc : Grows(doc),
         DOMAIN leasedAt' = Invocations,
         \A j \in Invocations \ {i} : SameClaim(j),
         LeasedUnder(i)', Recorded(i)'
  PROVE  RecordInv'
<1>1. Ordered'
  BY GrowsOrdered DEF RecordInv, Ordered
<1>2. \A j \in Invocations \ {i} : LeasedUnder(j)' /\ Recorded(j)'
  BY ClaimFrame DEF RecordInv
<1>. QED
  BY <1>1, <1>2 DEF RecordInv

(* The end of an invocation claims nothing. *)
LEMMA EndRecord ==
  ASSUME TypeOK, RecordInv, NEW i \in Invocations, Unwind(i) \/ Kill(i)
  PROVE  RecordInv'
<1>1. /\ pc' = [pc EXCEPT ![i] = "done"] /\ history' = history
      /\ authority' = [authority EXCEPT ![i] = "none"]
      /\ target' = [target EXCEPT ![i] = None]
      /\ leasedAt' = [leasedAt EXCEPT ![i] = 0]
  BY DEF Unwind, Kill, Goto, Discard, Store!Forget
<1>2. /\ pc'[i] = "done" /\ leasedAt'[i] = 0 /\ DOMAIN leasedAt' = Invocations
      /\ \A j \in Invocations \ {i} : SameClaim(j)
  BY <1>1 DEF TypeOK, RecordInv, SameClaim
<1>3. TipGeneration' = TipGeneration /\ TipGeneration \in Nat
  BY <1>1, TipBounds DEF TipGeneration, RecordInv
<1>4. LeasedUnder(i)' /\ Recorded(i)'
  BY <1>2, <1>3 DEF LeasedUnder, Recorded, Published
<1>. QED
  BY <1>1, <1>2, <1>4, ClaimStep

LEMMA StopRecord ==
  ASSUME TypeOK, RecordInv, NEW i \in Invocations, Stop(i)
  PROVE  RecordInv'
BY EndRecord DEF Stop

(* A step that leaves the store alone and makes no new claim. *)
LEMMA MoveRecord ==
  ASSUME TypeOK, RecordInv, NEW i \in Invocations, NEW s,
         pc' = [pc EXCEPT ![i] = s], history' = history, leasedAt' = leasedAt,
         \A j \in Invocations \ {i} : authority'[j] = authority[j] /\ target'[j] = target[j],
         s \in Published =>
           \/ ~Reviewed(i)'
           \/ pc[i] \in Published /\ authority'[i] = authority[i] /\ target'[i] = target[i]
  PROVE  RecordInv'
<1>1. pc'[i] = s /\ \A j \in Invocations \ {i} : SameClaim(j)
  BY DEF TypeOK, SameClaim
<1>2. LeasedUnder(i)'
  BY DEF RecordInv, LeasedUnder, TipGeneration
<1>3. Recorded(i)'
  BY <1>1 DEF RecordInv, Recorded, Reviewed
<1>. QED
  BY <1>1, <1>2, <1>3, ClaimStep DEF RecordInv

(* Steps that append nothing and start no build of a reviewed target. *)
LEMMA MovesRecord ==
  ASSUME TypeOK, RecordInv, NEW i \in Invocations,
         \/ \E how \in {"review", "bypass", "fetch"} : Start(i, how)
         \/ Preflight(i) \/ OpenCheckout(i) \/ CreateDirectory(i)
         \/ CommandSucceeds(i) \/ CommandFails(i) \/ CheckUpdateStatus(i)
         \/ ReviewBuildFiles(i) \/ SealOverlay(i) \/ ConfirmEdit(i)
         \/ PinCheckout(i) \/ QueryPackageList(i) \/ RunMakepkg(i)
         \/ InstallArtifact(i) \/ FetchReturns(i) \/ Fails(i)
  PROVE  RecordInv'
<1> DEFINE Moves(s) == /\ pc' = [pc EXCEPT ![i] = s] /\ history' = history
                       /\ leasedAt' = leasedAt
                       /\ authority' = authority /\ target' = target
<1>1. ASSUME NEW s, Moves(s), s \in Published => ~Reviewed(i) \/ pc[i] \in Published
      PROVE  RecordInv'
  <2>1. Reviewed(i)' <=> Reviewed(i)
    BY <1>1 DEF Reviewed
  <2>. QED
    BY <1>1, <2>1, MoveRecord
<1>2. CASE \E how \in {"review", "bypass", "fetch"} : Start(i, how)
  <2>1. \E s \in {"open", "preflight"} : Moves(s)
    BY <1>2 DEF Start, Goto, storeVars, ghosts
  <2>. QED
    BY <1>1, <2>1 DEF Published
<1>3. CASE Preflight(i) \/ OpenCheckout(i) \/ CreateDirectory(i)
  <2>1. Stop(i) \/ \E s \in {"open", "create", "lease", "claim"} : Moves(s)
    BY <1>3 DEF Preflight, OpenCheckout, CreateDirectory, Goto, Store!Read,
                storeVars, own, ghosts
  <2>. QED
    BY <1>1, <2>1, StopRecord DEF Published
<1>4. CASE CommandSucceeds(i) \/ CommandFails(i)
  <2>1. Unwind(i) \/ (pc[i] \in Commands /\ Moves(AfterCommand(i)))
    BY <1>4 DEF CommandSucceeds, CommandFails, Goto, storeVars, own, ghosts
  <2>2. pc[i] \in Commands /\ AfterCommand(i) \in Published => pc[i] \in Published
    BY DEF AfterCommand, Commands, Published
  <2>. QED
    BY <1>1, <2>1, <2>2, EndRecord
<1>5. CASE CheckUpdateStatus(i)
  <2>1. Stop(i) \/ \E s \in {"prompt", "seal"} : Moves(s)
    BY <1>5 DEF CheckUpdateStatus, Goto, storeVars, own, ghosts
  <2>. QED
    BY <1>1, <2>1, StopRecord DEF Published
<1>6. CASE ReviewBuildFiles(i)
  <2>1. \/ Stop(i) \/ (~Reviewed(i) /\ Moves("ready"))
        \/ \E s \in {"seal", "editor"} : Moves(s)
    BY <1>6 DEF ReviewBuildFiles, Goto, storeVars, own, ghosts
  <2>. QED
    BY <1>1, <2>1, StopRecord DEF Published
<1>7. CASE SealOverlay(i) \/ ConfirmEdit(i)
  <2>1. \/ Stop(i) \/ (~Reviewed(i) /\ Moves("ready"))
        \/ \E s \in {"confirm", "publish"} : Moves(s)
    BY <1>7 DEF SealOverlay, ConfirmEdit, Goto, storeVars, own, ghosts
  <2>. QED
    BY <1>1, <2>1, StopRecord DEF Published
<1>8. CASE PinCheckout(i) \/ QueryPackageList(i) \/ RunMakepkg(i)
  <2>1. \/ Stop(i)
        \/ /\ pc[i] \in {"pin", "ready", "listed"}
           /\ \E s \in {"ready", "query", "makepkg"} : Moves(s)
    BY <1>8 DEF PinCheckout, QueryPackageList, RunMakepkg, StartBuildCommand, Goto,
                storeVars, own
  <2>. QED
    BY <1>1, <2>1, StopRecord DEF Published
<1>9. CASE InstallArtifact(i) \/ FetchReturns(i) \/ Fails(i)
  BY <1>9, StopRecord DEF InstallArtifact, FetchReturns, Fails
<1>. QED
  BY <1>2, <1>3, <1>4, <1>5, <1>6, <1>7, <1>8, <1>9

LEMMA PlanRecord ==
  ASSUME TypeOK, RecordInv, NEW i \in Invocations, PlanReview(i) \/ DecideAcceptance(i)
  PROVE  RecordInv'
<1>1. \/ Stop(i)
      \/ /\ \E s \in {"reset", "check", "checkout", "ask"} : pc' = [pc EXCEPT ![i] = s]
         /\ authority' = authority \/ \E a : authority' = [authority EXCEPT ![i] = a]
         /\ target' = target \/ \E r : target' = [target EXCEPT ![i] = r]
         /\ history' = history /\ leasedAt' = leasedAt
  BY DEF PlanReview, DecideAcceptance, ContinueWithoutReview, Goto, storeVars, ghosts
<1>2. CASE /\ \E s \in {"reset", "check", "checkout", "ask"} : pc' = [pc EXCEPT ![i] = s]
           /\ authority' = authority \/ \E a : authority' = [authority EXCEPT ![i] = a]
           /\ target' = target \/ \E r : target' = [target EXCEPT ![i] = r]
           /\ history' = history /\ leasedAt' = leasedAt
  <2>1. PICK s \in {"reset", "check", "checkout", "ask"} : pc' = [pc EXCEPT ![i] = s]
    BY <1>2
  <2>2. \A j \in Invocations \ {i} : authority'[j] = authority[j] /\ target'[j] = target[j]
    BY <1>2 DEF TypeOK
  <2>. QED
    BY <1>2, <2>1, <2>2, MoveRecord DEF Published
<1>. QED
  BY <1>1, <1>2, StopRecord

(* The lease is taken under the newest record of that moment. *)
LEMMA AcquireRecord ==
  ASSUME TypeOK, RecordInv, NEW i \in Invocations, AcquireLease(i)
  PROVE  RecordInv'
<1>1. CASE Stop(i)
  BY <1>1, StopRecord
<1>2. CASE ~Stop(i)
  <2>1. PICK s \in {"clone", "fetch"} :
          /\ pc' = [pc EXCEPT ![i] = s]
          /\ leasedAt' = [leasedAt EXCEPT ![i] = TipGeneration]
          /\ history' = history /\ authority' = authority /\ target' = target
    BY <1>2 DEF AcquireLease, Goto, storeVars, own
  <2>2. /\ pc'[i] = s /\ leasedAt'[i] = TipGeneration /\ DOMAIN leasedAt' = Invocations
        /\ \A j \in Invocations \ {i} : SameClaim(j)
    BY <2>1 DEF TypeOK, RecordInv, SameClaim
  <2>3. TipGeneration' = TipGeneration /\ TipGeneration \in Nat
    BY <2>1, TipBounds DEF TipGeneration, RecordInv
  <2>4. LeasedUnder(i)' /\ Recorded(i)'
    BY <2>2, <2>3 DEF LeasedUnder, Recorded, Published
  <2>. QED
    BY <2>1, <2>2, <2>4, ClaimStep
<1>. QED
  BY <1>1, <1>2

(* The append puts the target on top of every earlier record. *)
LEMMA PublishRecord ==
  ASSUME TypeOK, RecordInv, NEW i \in Invocations, PublishState(i)
  PROVE  RecordInv'
<1>1. \/ Stop(i)
      \/ /\ pc' = [pc EXCEPT ![i] = "reread"] /\ history' = history
         /\ leasedAt' = leasedAt /\ authority' = authority /\ target' = target
      \/ /\ pc' = [pc EXCEPT ![i] = "answer"] /\ Store!Append(i, target[i])
         /\ leasedAt' = leasedAt /\ authority' = authority /\ target' = target
  BY DEF PublishState, Goto, storeVars, own, ghosts
<1>2. CASE /\ pc' = [pc EXCEPT ![i] = "reread"] /\ history' = history
           /\ leasedAt' = leasedAt /\ authority' = authority /\ target' = target
  BY <1>2, MoveRecord DEF Published
<1>3. CASE /\ pc' = [pc EXCEPT ![i] = "answer"] /\ Store!Append(i, target[i])
           /\ leasedAt' = leasedAt /\ authority' = authority /\ target' = target
  <2>1. Grows(target[i])
    BY <1>3 DEF Store!Append, Grows, TipGeneration
  <2>2. pc'[i] = "answer" /\ \A j \in Invocations \ {i} : SameClaim(j)
    BY <1>3 DEF TypeOK, SameClaim
  <2>3. /\ TipGeneration \in Nat /\ TipGeneration' = TipGeneration + 1
        /\ leasedAt[i] \in Nat /\ leasedAt[i] <= TipGeneration
    BY <2>1, TipBounds, GrowsOrdered DEF RecordInv, LeasedUnder
  <2>4. LeasedUnder(i)'
    BY <1>3, <2>3 DEF LeasedUnder
  <2>5. Recorded(i)'
    <3>1. [gen |-> TipGeneration + 1, doc |-> target[i]] \in history'
      BY <2>1 DEF Grows
    <3>. QED
      BY <1>3, <2>3, <3>1 DEF Recorded
  <2>. QED
    BY <1>3, <2>1, <2>2, <2>4, <2>5, ClaimStep DEF RecordInv
<1>. QED
  BY <1>1, <1>2, <1>3, StopRecord

(* A reread that continues has found the target newest. *)
LEMMA AnswerRecord ==
  ASSUME TypeOK, RecordInv, NEW i \in Invocations, PublishAnswers(i) \/ RereadState(i)
  PROVE  RecordInv'
<1>1. CASE Stop(i)
  BY <1>1, StopRecord
<1>2. CASE ~Stop(i)
  <2>1. /\ pc' = [pc EXCEPT ![i] = "pin"] /\ history' = history
        /\ leasedAt' = leasedAt /\ authority' = authority /\ target' = target
        /\ pc[i] = "answer" \/ TipDocument = target[i]
    BY <1>2 DEF PublishAnswers, RereadState, Store!Acknowledge, Store!Read, Goto,
                own, ghosts
  <2>2. CASE pc[i] = "answer"
    BY <2>1, <2>2, MoveRecord DEF Published
  <2>3. CASE TipDocument = target[i]
    <3>1. target[i] # NoRecord
      BY ConstantsAssumption DEF TypeOK
    <3>2. /\ history # {} /\ Store!Tip(history).doc = target[i]
          /\ Store!Tip(history).gen = TipGeneration
      BY <2>3, <3>1 DEF TipDocument, TipGeneration
    <3>3. Store!Tip(history) \in history /\ TipGeneration \in Nat
      BY <3>2, TipNewest, TipBounds DEF RecordInv
    <3>4. leasedAt[i] \in Nat /\ leasedAt[i] <= TipGeneration
      BY DEF RecordInv, LeasedUnder
    <3>5. Recorded(i)'
      BY <2>1, <3>2, <3>3, <3>4 DEF Recorded
    <3>6. LeasedUnder(i)'
      BY <2>1, <3>4 DEF LeasedUnder, TipGeneration
    <3>7. \A j \in Invocations \ {i} : SameClaim(j)
      BY <2>1 DEF TypeOK, SameClaim
    <3>. QED
      BY <2>1, <3>5, <3>6, <3>7, ClaimStep DEF RecordInv
  <2>. QED
    BY <2>1, <2>2, <2>3
<1>. QED
  BY <1>1, <1>2

(* The world only adds records. *)
LEMMA WorldRecord ==
  ASSUME TypeOK, RecordInv,
         \/ \E d \in Dirs : OrphanEnds(d) \/ Rogue(d)
         \/ MoveRemote \/ NewerRelease \/ UNCHANGED vars
  PROVE  RecordInv'
<1>1. /\ pc' = pc /\ authority' = authority /\ target' = target /\ leasedAt' = leasedAt
      /\ history' = history \/ Grows(Future)
  BY DEF OrphanEnds, Rogue, MoveRemote, NewerRelease, Grows, vars, storeVars, own, ghosts
<1>2. \A j \in Invocations : LeasedUnder(j)' /\ Recorded(j)'
  BY <1>1, ClaimFrame DEF RecordInv, SameClaim
<1>3. Ordered'
  BY <1>1, GrowsOrdered DEF RecordInv, Ordered
<1>. QED
  BY <1>1, <1>2, <1>3 DEF RecordInv

LEMMA RecordStep ==
  ASSUME TypeOK, RecordInv, [Next]_vars
  PROVE  RecordInv'
<1>1. CASE \E i \in Invocations : Step(i) \/ Fails(i) \/ Kill(i)
  <2>1. PICK i \in Invocations : Step(i) \/ Fails(i) \/ Kill(i)
    BY <1>1
  <2>2. CASE Step(i)
    <3>1. CASE PlanReview(i) \/ DecideAcceptance(i) \/ AcquireLease(i)
      BY <3>1, PlanRecord, AcquireRecord
    <3>2. CASE PublishState(i) \/ PublishAnswers(i) \/ RereadState(i)
      BY <3>2, PublishRecord, AnswerRecord
    <3>. QED
      BY <2>2, <3>1, <3>2, MovesRecord DEF Step
  <2>. QED
    BY <2>1, <2>2, MovesRecord, EndRecord
<1>2. CASE \E i \in Invocations, how \in {"review", "bypass", "fetch"} : Start(i, how)
  BY <1>2, MovesRecord
<1>. QED
  BY <1>1, <1>2, WorldRecord DEF Next

LEMMA RecordInit ==
  ASSUME Init
  PROVE  RecordInv
<1>1. /\ history = {} \/ \E d : history = {[gen |-> 1, doc |-> d]}
      /\ pc = [i \in Invocations |-> "start"] /\ leasedAt = [i \in Invocations |-> 0]
  BY DEF Init
<1>2. Ordered
  BY <1>1 DEF Ordered, Store!Newest
<1>3. TipGeneration \in Nat
  BY <1>2, TipBounds
<1>4. \A i \in Invocations : LeasedUnder(i) /\ Recorded(i)
  BY <1>1, <1>3 DEF LeasedUnder, Recorded, Published
<1>. QED
  BY <1>1, <1>2, <1>4 DEF RecordInv

(* However old the first observation, a reviewed build's revision was the   *)
(* newest record at some moment since the invocation took the lease         *)
(* (publish_accepted_ and confirm_already_reviewed_source_checkout_with_    *)
(* editor_overlay).                                                         *)
THEOREM BuiltIsCurrent == Spec => []ReviewedBuildIsCurrent
<1>1. Init => RecordInv
  BY RecordInit
<1>2. LeaseInv /\ RecordInv /\ [Next]_vars => RecordInv'
  BY RecordStep DEF LeaseInv
<1>3. RecordInv => ReviewedBuildIsCurrent
  BY DEF RecordInv, ReviewedBuildIsCurrent, Recorded, Published
<1>. QED
  BY <1>1, <1>2, <1>3, LeaseDiscipline, PTL DEF Spec

-----------------------------------------------------------------------------
(***************************************************************************)
(* Every recorded revision was reviewed against the record it succeeds.    *)
(*                                                                         *)
(* ReviewCoversGap is not inductive: it speaks of records already there.   *)
(* The strengthening follows an invocation from its first observation of   *)
(* the state to its publication: the observation is no later release's     *)
(* record, and what the user is shown stays the difference from exactly    *)
(* that observation until it is used as the expected predecessor.          *)
(***************************************************************************)

(* The stages before the plan, and from the accepted plan to the append. *)
Approach == {"open", "create", "lease", "claim", "fetch", "clone", "plan"}
Accepted == {"checkout", "clean", "reset", "check", "prompt", "editor", "seal",
             "confirm", "publish"}

ShownOK(i) == shown[i] = Full \/ (known[i] # NoRecord /\ shown[i] = known[i].doc)
NotFuture(i) == known[i] = NoRecord \/ known[i].doc # Future

Followed(i) ==
  /\ pc[i] \in Approach /\ mode[i] # "fetch" => NotFuture(i)
  /\ pc[i] = "ask" => ShownOK(i) /\ NotFuture(i)
  /\ pc[i] \in Accepted /\ authority[i] = "accepted" => ShownOK(i) /\ NotFuture(i)
  /\ pc[i] = "publish" => Reviewed(i)

Domains ==
  /\ DOMAIN pc = Invocations /\ DOMAIN known = Invocations
  /\ DOMAIN mode = Invocations /\ DOMAIN shown = Invocations
  /\ DOMAIN authority = Invocations

(* The inductive invariant. *)
ReviewInv ==
  /\ Domains
  /\ \A i \in Invocations : Followed(i)
  /\ ReviewCoversGap

(* The part of the state that Followed reads. *)
SameView(j) ==
  /\ pc'[j] = pc[j] /\ known'[j] = known[j] /\ mode'[j] = mode[j]
  /\ shown'[j] = shown[j] /\ authority'[j] = authority[j]

(* An invocation whose view does not change stays followed. *)
LEMMA ViewFrame ==
  ASSUME NEW j \in Invocations, Followed(j), SameView(j)
  PROVE  Followed(j)'
BY DEF Followed, SameView, ShownOK, NotFuture, Reviewed

(* What one invocation's step leaves alone. *)
OthersKeep(i) == \A j \in Invocations \ {i} : SameView(j)

(* Unwinding ends an invocation and touches no record. *)
LEMMA UnwindStep ==
  ASSUME ReviewInv, NEW i \in Invocations, Unwind(i)
  PROVE  /\ Domains' /\ OthersKeep(i) /\ reviews' = reviews
         /\ Followed(i)'
<1>1. pc' = [pc EXCEPT ![i] = "done"] /\ reviews' = reviews
  BY DEF Unwind, Goto
<1>2. /\ known' = [known EXCEPT ![i] = NotRead]
      /\ mode' = [mode EXCEPT ![i] = "none"]
      /\ shown' = [shown EXCEPT ![i] = None]
      /\ authority' = [authority EXCEPT ![i] = "none"]
  BY DEF Unwind, Discard, Store!Forget
<1>3. Domains' /\ OthersKeep(i)
  BY <1>1, <1>2 DEF ReviewInv, Domains, OthersKeep, SameView
<1>4. Followed(i)'
  <2>1. pc'[i] = "done"
    BY <1>1 DEF ReviewInv, Domains
  <2>. QED
    BY <2>1 DEF Followed, Approach, Accepted
<1>. QED
  BY <1>1, <1>3, <1>4

(* What every step of an invocation has to show. *)
Kept(i) == Domains' /\ OthersKeep(i) /\ Followed(i)' /\ ReviewCoversGap'

LEMMA UnwindKeeps ==
  ASSUME ReviewInv, NEW i \in Invocations, Unwind(i)
  PROVE  Kept(i)
BY UnwindStep DEF Kept, ReviewInv, ReviewCoversGap

LEMMA StopKeeps ==
  ASSUME ReviewInv, NEW i \in Invocations, Stop(i)
  PROVE  Kept(i)
BY UnwindKeeps DEF Stop

(* A step that only moves an invocation to another stage. *)
LEMMA MoveKeeps ==
  ASSUME ReviewInv, NEW i \in Invocations, NEW s, Goto(i, s),
         known' = known, mode' = mode, shown' = shown, authority' = authority,
         reviews' = reviews,
         s \in Approach => pc[i] \in Approach,
         s # "ask",
         s \in Accepted => pc[i] \in Accepted,
         s = "publish" => Reviewed(i)
  PROVE  Kept(i)
<1>1. pc'[i] = s /\ \A j \in Invocations \ {i} : pc'[j] = pc[j]
  BY DEF Goto, ReviewInv, Domains
<1>2. Domains' /\ OthersKeep(i)
  BY <1>1 DEF Goto, ReviewInv, Domains, OthersKeep, SameView
<1>3. Followed(i)'
  BY <1>1 DEF ReviewInv, Followed, ShownOK, NotFuture, Reviewed
<1>. QED
  BY <1>2, <1>3 DEF Kept, ReviewInv, ReviewCoversGap

(* Steps that only move an invocation or end it. *)
LEMMA MovesKeep ==
  ASSUME ReviewInv, NEW i \in Invocations,
         \/ OpenCheckout(i) \/ CreateDirectory(i) \/ AcquireLease(i)
         \/ CommandSucceeds(i) \/ CommandFails(i) \/ CheckUpdateStatus(i)
         \/ ReviewBuildFiles(i) \/ SealOverlay(i) \/ ConfirmEdit(i)
         \/ PinCheckout(i) \/ QueryPackageList(i) \/ RunMakepkg(i)
         \/ InstallArtifact(i) \/ FetchReturns(i) \/ Fails(i)
  PROVE  Kept(i)
<1> DEFINE Moves(s) == /\ Goto(i, s) /\ known' = known /\ mode' = mode
                       /\ shown' = shown /\ authority' = authority
                       /\ reviews' = reviews
<1>1. CASE OpenCheckout(i)
  <2>1. Stop(i) \/ (pc[i] = "open" /\ \E s \in {"create", "lease"} : Moves(s))
    BY <1>1 DEF OpenCheckout, storeVars, own, ghosts
  <2>. QED
    BY <2>1, StopKeeps, MoveKeeps DEF Approach, Accepted
<1>2. CASE CreateDirectory(i)
  <2>1. Stop(i) \/ (pc[i] = "create" /\ Moves("claim"))
    BY <1>2 DEF CreateDirectory, storeVars
  <2>. QED
    BY <2>1, StopKeeps, MoveKeeps DEF Approach, Accepted
<1>3. CASE AcquireLease(i)
  <2>1. Stop(i) \/ (pc[i] \in {"lease", "claim"} /\ \E s \in {"clone", "fetch"} : Moves(s))
    BY <1>3 DEF AcquireLease, storeVars, own
  <2>. QED
    BY <2>1, StopKeeps, MoveKeeps DEF Approach, Accepted
<1>4. CASE CommandSucceeds(i)
  <2>1. Unwind(i) \/ (pc[i] \in Commands /\ Moves(AfterCommand(i)))
    BY <1>4 DEF CommandSucceeds, storeVars, own, ghosts
  <2>2. CASE pc[i] \in Commands /\ Moves(AfterCommand(i))
    <3>1. \/ pc[i] \in {"fetch", "clone"} /\ AfterCommand(i) \in {"fetched", "plan"}
          \/ /\ pc[i] \in {"checkout", "clean", "reset", "editor"}
             /\ AfterCommand(i) \in {"clean", "check", "seal"}
          \/ pc[i] \in {"query", "makepkg"} /\ AfterCommand(i) \in {"listed", "install"}
      BY <2>2 DEF AfterCommand, Commands
    <3>. QED
      BY <2>2, <3>1, MoveKeeps DEF Approach, Accepted
  <2>. QED
    BY <2>1, <2>2, UnwindKeeps
<1>5. CASE CommandFails(i)
  BY <1>5, UnwindKeeps DEF CommandFails
<1>6. CASE CheckUpdateStatus(i)
  <2>1. Stop(i) \/ (pc[i] = "check" /\ \E s \in {"prompt", "seal"} : Moves(s))
    BY <1>6 DEF CheckUpdateStatus, storeVars, own, ghosts
  <2>. QED
    BY <2>1, StopKeeps, MoveKeeps DEF Approach, Accepted
<1>7. CASE ReviewBuildFiles(i)
  <2>1. Stop(i) \/ (pc[i] = "prompt" /\ \E s \in {"seal", "ready", "editor"} : Moves(s))
    BY <1>7 DEF ReviewBuildFiles, storeVars, own, ghosts
  <2>. QED
    BY <2>1, StopKeeps, MoveKeeps DEF Approach, Accepted
<1>8. CASE SealOverlay(i)
  <2>1. \/ Stop(i)
        \/ /\ pc[i] = "seal"
           /\ Moves("confirm") \/ (Moves("publish") /\ Reviewed(i)) \/ Moves("ready")
    BY <1>8 DEF SealOverlay, storeVars
  <2>. QED
    BY <2>1, StopKeeps, MoveKeeps DEF Approach, Accepted
<1>9. CASE ConfirmEdit(i)
  <2>1. \/ Stop(i)
        \/ /\ pc[i] = "confirm"
           /\ (Moves("publish") /\ Reviewed(i)) \/ Moves("ready")
    BY <1>9 DEF ConfirmEdit, storeVars, own, ghosts
  <2>. QED
    BY <2>1, StopKeeps, MoveKeeps DEF Approach, Accepted
<1>10. CASE PinCheckout(i)
  <2>1. Stop(i) \/ Moves("ready")
    BY <1>10 DEF PinCheckout, storeVars, own
  <2>. QED
    BY <2>1, StopKeeps, MoveKeeps DEF Approach, Accepted
<1>11. CASE QueryPackageList(i) \/ RunMakepkg(i)
  <2>1. Stop(i) \/ \E s \in {"query", "makepkg"} : Moves(s)
    BY <1>11 DEF QueryPackageList, RunMakepkg, StartBuildCommand, storeVars, own
  <2>. QED
    BY <2>1, StopKeeps, MoveKeeps DEF Approach, Accepted
<1>12. CASE InstallArtifact(i) \/ FetchReturns(i) \/ Fails(i)
  BY <1>12, StopKeeps DEF InstallArtifact, FetchReturns, Fails
<1>. QED
  BY <1>1, <1>2, <1>3, <1>4, <1>5, <1>6, <1>7, <1>8, <1>9, <1>10, <1>11, <1>12

LEMMA StartKeeps ==
  ASSUME ReviewInv, NEW i \in Invocations, NEW how \in {"review", "bypass", "fetch"},
         Start(i, how)
  PROVE  Kept(i)
<1>1. /\ mode' = [mode EXCEPT ![i] = how]
      /\ pc' = [pc EXCEPT ![i] = IF how = "fetch" THEN "open" ELSE "preflight"]
      /\ known' = known /\ shown' = shown /\ authority' = authority
      /\ reviews' = reviews
  BY DEF Start, Goto, storeVars, ghosts
<1>2. /\ mode'[i] = how /\ pc'[i] = IF how = "fetch" THEN "open" ELSE "preflight"
      /\ Domains' /\ OthersKeep(i)
  BY <1>1 DEF ReviewInv, Domains, OthersKeep, SameView
<1>3. Followed(i)'
  BY <1>2 DEF Followed, Approach, Accepted
<1>. QED
  BY <1>1, <1>2, <1>3 DEF Kept, ReviewInv, ReviewCoversGap

(* The observation is made while no later release's record is the newest. *)
LEMMA PreflightKeeps ==
  ASSUME ReviewInv, NEW i \in Invocations, Preflight(i)
  PROVE  Kept(i)
<1>1. CASE TipDocument = Future
  BY <1>1, StopKeeps DEF Preflight
<1>2. CASE TipDocument # Future
  <2>1. /\ known' = [known EXCEPT ![i] = Store!Tip(history)]
        /\ pc' = [pc EXCEPT ![i] = "open"]
        /\ mode' = mode /\ shown' = shown /\ authority' = authority
        /\ reviews' = reviews
    BY <1>2 DEF Preflight, Goto, Store!Read, own, ghosts
  <2>2. /\ known'[i] = Store!Tip(history) /\ pc'[i] = "open"
        /\ Domains' /\ OthersKeep(i)
    BY <2>1 DEF ReviewInv, Domains, OthersKeep, SameView
  <2>3. NotFuture(i)'
    BY <1>2, <2>2 DEF NotFuture, TipDocument, Store!Tip
  <2>4. Followed(i)'
    BY <2>2, <2>3 DEF Followed, Approach, Accepted
  <2>. QED
    BY <2>1, <2>2, <2>4 DEF Kept, ReviewInv, ReviewCoversGap
<1>. QED
  BY <1>1, <1>2

LEMMA ContinueKeeps ==
  ASSUME ReviewInv, NEW i \in Invocations, ContinueWithoutReview(i)
  PROVE  Kept(i)
<1>1. CASE SameIdentity(i)
  <2>1. /\ authority' = [authority EXCEPT ![i] = "compatibility"]
        /\ pc' = [pc EXCEPT ![i] = IF existed[i] THEN "reset" ELSE "check"]
        /\ known' = known /\ shown' = shown /\ mode' = mode
        /\ reviews' = reviews
    BY <1>1 DEF ContinueWithoutReview, Goto, storeVars, ghosts
  <2>2. /\ authority'[i] = "compatibility" /\ pc'[i] \in {"reset", "check"}
        /\ Domains' /\ OthersKeep(i)
    BY <2>1 DEF ReviewInv, Domains, OthersKeep, SameView
  <2>3. Followed(i)'
    BY <2>2 DEF Followed, Approach, Accepted
  <2>. QED
    BY <2>1, <2>2, <2>3 DEF Kept, ReviewInv, ReviewCoversGap
<1>. QED
  BY <1>1, StopKeeps DEF ContinueWithoutReview

(* The plan fixes what will be shown: the observed record or everything. *)
LEMMA PlanKeeps ==
  ASSUME ReviewInv, NEW i \in Invocations, PlanReview(i)
  PROVE  Kept(i)
<1>1. \/ ContinueWithoutReview(i) \/ Stop(i)
      \/ /\ pc[i] = "plan" /\ mode[i] = "review"
         /\ authority' = [authority EXCEPT ![i] = "already"] /\ shown' = shown
         /\ pc' = [pc EXCEPT ![i] = "checkout"]
         /\ known' = known /\ mode' = mode /\ reviews' = reviews
      \/ /\ pc[i] = "plan" /\ mode[i] = "review"
         /\ \E b \in Baselines(i) : shown' = [shown EXCEPT ![i] = b]
         /\ authority' = authority
         /\ pc' = [pc EXCEPT ![i] = "ask"]
         /\ known' = known /\ mode' = mode /\ reviews' = reviews
  BY DEF PlanReview, Goto, storeVars, ghosts
<1>2. CASE /\ authority' = [authority EXCEPT ![i] = "already"] /\ shown' = shown
           /\ pc' = [pc EXCEPT ![i] = "checkout"]
           /\ known' = known /\ mode' = mode /\ reviews' = reviews
  <2>1. /\ authority'[i] = "already" /\ pc'[i] = "checkout"
        /\ Domains' /\ OthersKeep(i)
    BY <1>2 DEF ReviewInv, Domains, OthersKeep, SameView
  <2>2. Followed(i)'
    BY <2>1 DEF Followed, Approach, Accepted
  <2>. QED
    BY <1>2, <2>1, <2>2 DEF Kept, ReviewInv, ReviewCoversGap
<1>3. CASE /\ pc[i] = "plan" /\ mode[i] = "review"
           /\ \E b \in Baselines(i) : shown' = [shown EXCEPT ![i] = b]
           /\ authority' = authority
           /\ pc' = [pc EXCEPT ![i] = "ask"]
           /\ known' = known /\ mode' = mode /\ reviews' = reviews
  <2>1. PICK b \in Baselines(i) : shown' = [shown EXCEPT ![i] = b]
    BY <1>3
  <2>2. b = Full \/ (known[i] # NoRecord /\ b = known[i].doc)
    BY <2>1 DEF Baselines
  <2>3. /\ shown'[i] = b /\ pc'[i] = "ask" /\ known'[i] = known[i]
        /\ Domains' /\ OthersKeep(i)
    BY <1>3, <2>1 DEF ReviewInv, Domains, OthersKeep, SameView
  <2>4. ShownOK(i)'
    BY <2>2, <2>3 DEF ShownOK
  <2>5. NotFuture(i)'
    BY <1>3, <2>3 DEF ReviewInv, Followed, Approach, NotFuture
  <2>6. Followed(i)'
    BY <2>3, <2>4, <2>5 DEF Followed, Approach, Accepted
  <2>. QED
    BY <1>3, <2>3, <2>6 DEF Kept, ReviewInv, ReviewCoversGap
<1>. QED
  BY <1>1, <1>2, <1>3, ContinueKeeps, StopKeeps

LEMMA DecideKeeps ==
  ASSUME ReviewInv, NEW i \in Invocations, DecideAcceptance(i)
  PROVE  Kept(i)
<1>1. \/ ContinueWithoutReview(i) \/ Stop(i)
      \/ /\ pc[i] = "ask"
         /\ authority' = [authority EXCEPT ![i] = "accepted"] /\ shown' = shown
         /\ pc' = [pc EXCEPT ![i] = "checkout"]
         /\ known' = known /\ mode' = mode /\ reviews' = reviews
  BY DEF DecideAcceptance, Goto, storeVars, ghosts
<1>2. CASE /\ pc[i] = "ask"
           /\ authority' = [authority EXCEPT ![i] = "accepted"] /\ shown' = shown
           /\ pc' = [pc EXCEPT ![i] = "checkout"]
           /\ known' = known /\ mode' = mode /\ reviews' = reviews
  <2>1. pc'[i] = "checkout" /\ Domains' /\ OthersKeep(i)
    BY <1>2 DEF ReviewInv, Domains, OthersKeep, SameView
  <2>2. ShownOK(i)' /\ NotFuture(i)'
    BY <1>2 DEF ReviewInv, Followed, ShownOK, NotFuture
  <2>3. Followed(i)'
    BY <2>1, <2>2 DEF Followed, Approach, Accepted
  <2>. QED
    BY <1>2, <2>1, <2>3 DEF Kept, ReviewInv, ReviewCoversGap
<1>. QED
  BY <1>1, <1>2, ContinueKeeps, StopKeeps

(* The append: the predecessor is the record the review was shown against. *)
LEMMA PublishKeeps ==
  ASSUME ReviewInv, NEW i \in Invocations, PublishState(i)
  PROVE  Kept(i)
<1>1. \/ Stop(i)
      \/ /\ Goto(i, "reread") /\ known' = known /\ mode' = mode /\ shown' = shown
         /\ authority' = authority /\ reviews' = reviews
      \/ /\ pc[i] = "publish" /\ authority[i] # "already"
         /\ known[i] = Store!Tip(history) /\ PredecessorUnchanged(i)
         /\ reviews' = reviews \cup
              {[before |-> TipDocument, doc |-> target[i], shown |-> shown[i]]}
         /\ pc' = [pc EXCEPT ![i] = "answer"]
         /\ known' = known /\ mode' = mode /\ shown' = shown
         /\ authority' = authority
  BY DEF PublishState, Goto, Store!Append, storeVars, own, ghosts
<1>2. CASE /\ Goto(i, "reread") /\ known' = known /\ mode' = mode /\ shown' = shown
           /\ authority' = authority /\ reviews' = reviews
  BY <1>2, MoveKeeps DEF Approach, Accepted
<1>3. CASE /\ pc[i] = "publish" /\ authority[i] # "already"
           /\ known[i] = Store!Tip(history) /\ PredecessorUnchanged(i)
           /\ reviews' = reviews \cup
                {[before |-> TipDocument, doc |-> target[i], shown |-> shown[i]]}
           /\ pc' = [pc EXCEPT ![i] = "answer"]
           /\ known' = known /\ mode' = mode /\ shown' = shown
           /\ authority' = authority
  <2>1. authority[i] = "accepted"
    BY <1>3 DEF ReviewInv, Followed, Reviewed
  <2>2. ShownOK(i) /\ NotFuture(i)
    BY <1>3, <2>1 DEF ReviewInv, Followed, Accepted
  <2>3. shown[i] = Full \/ shown[i] = TipDocument
    BY <1>3, <2>2 DEF ShownOK, TipDocument, Store!Tip
  <2>4. TipDocument # Future
    BY <1>3, <2>2, ConstantsAssumption
    DEF NotFuture, TipDocument, PredecessorUnchanged
  <2>5. ReviewCoversGap'
    BY <1>3, <2>3, <2>4 DEF ReviewInv, ReviewCoversGap
  <2>6. pc'[i] = "answer" /\ Domains' /\ OthersKeep(i)
    BY <1>3 DEF ReviewInv, Domains, OthersKeep, SameView
  <2>7. Followed(i)'
    BY <2>6 DEF Followed, Approach, Accepted
  <2>. QED
    BY <2>5, <2>6, <2>7 DEF Kept
<1>. QED
  BY <1>1, <1>2, <1>3, StopKeeps

LEMMA AnswerKeeps ==
  ASSUME ReviewInv, NEW i \in Invocations, PublishAnswers(i) \/ RereadState(i)
  PROVE  Kept(i)
<1>1. \/ Stop(i)
      \/ /\ known' = [known EXCEPT ![i] = Store!Tip(history)]
         /\ pc' = [pc EXCEPT ![i] = "pin"]
         /\ mode' = mode /\ shown' = shown /\ authority' = authority
         /\ reviews' = reviews
  BY DEF PublishAnswers, RereadState, Store!Acknowledge, Store!Read, Goto, own, ghosts
<1>2. CASE /\ known' = [known EXCEPT ![i] = Store!Tip(history)]
           /\ pc' = [pc EXCEPT ![i] = "pin"]
           /\ mode' = mode /\ shown' = shown /\ authority' = authority
           /\ reviews' = reviews
  <2>1. pc'[i] = "pin" /\ Domains' /\ OthersKeep(i)
    BY <1>2 DEF ReviewInv, Domains, OthersKeep, SameView
  <2>2. Followed(i)'
    BY <2>1 DEF Followed, Approach, Accepted
  <2>. QED
    BY <1>2, <2>1, <2>2 DEF Kept, ReviewInv, ReviewCoversGap
<1>. QED
  BY <1>1, <1>2, StopKeeps

LEMMA KillKeeps ==
  ASSUME ReviewInv, NEW i \in Invocations, Kill(i)
  PROVE  Kept(i)
<1>1. /\ pc' = [pc EXCEPT ![i] = "done"] /\ reviews' = reviews
      /\ known' = [known EXCEPT ![i] = NotRead]
  BY DEF Kill, Goto, Store!Forget
<1>2. /\ mode' = [mode EXCEPT ![i] = "none"]
      /\ shown' = [shown EXCEPT ![i] = None]
      /\ authority' = [authority EXCEPT ![i] = "none"]
  BY DEF Kill, Discard
<1>3. pc'[i] = "done" /\ Domains' /\ OthersKeep(i)
  BY <1>1, <1>2 DEF ReviewInv, Domains, OthersKeep, SameView
<1>4. Followed(i)'
  BY <1>3 DEF Followed, Approach, Accepted
<1>. QED
  BY <1>1, <1>3, <1>4 DEF Kept, ReviewInv, ReviewCoversGap

(* The world around the invocations changes none of what they are at. *)
LEMMA WorldKeeps ==
  ASSUME ReviewInv,
         \/ \E d \in Dirs : OrphanEnds(d) \/ Rogue(d)
         \/ MoveRemote \/ NewerRelease \/ UNCHANGED vars
  PROVE  ReviewInv'
<1>1. /\ pc' = pc /\ known' = known /\ mode' = mode /\ shown' = shown
      /\ authority' = authority /\ reviews' = reviews
  BY DEF OrphanEnds, Rogue, MoveRemote, NewerRelease, vars, storeVars, own, ghosts
<1>2. \A j \in Invocations : Followed(j)'
  BY <1>1, ViewFrame DEF ReviewInv, SameView
<1>. QED
  BY <1>1, <1>2 DEF ReviewInv, Domains, ReviewCoversGap

LEMMA KeptSuffices ==
  ASSUME ReviewInv, NEW i \in Invocations, Kept(i)
  PROVE  ReviewInv'
<1>1. \A j \in Invocations \ {i} : Followed(j)'
  BY ViewFrame DEF Kept, OthersKeep, ReviewInv
<1>. QED
  BY <1>1 DEF Kept, ReviewInv

(* Every recorded revision was accepted from a full review or from the      *)
(* difference from exactly the record it succeeds, and no later release's   *)
(* record is ever replaced: whatever the interleaving, for every number of  *)
(* invocations, revisions, kills and processes without the lease            *)
(* (prepare_aur_checkout_authority up to publish_reviewed_source_state).    *)
THEOREM ReviewsLeaveNoGap == Spec => []ReviewCoversGap
<1>1. Init => ReviewInv
  <2> SUFFICES ASSUME Init PROVE ReviewInv
    OBVIOUS
  <2>1. Domains /\ reviews = {} /\ \A i \in Invocations : pc[i] = "start"
    BY DEF Init, Domains
  <2>. QED
    BY <2>1 DEF ReviewInv, ReviewCoversGap, Followed, Approach, Accepted
<1>2. ReviewInv /\ [Next]_vars => ReviewInv'
  <2> SUFFICES ASSUME ReviewInv, [Next]_vars PROVE ReviewInv'
    OBVIOUS
  <2>1. CASE \E i \in Invocations : Step(i) \/ Fails(i)
    <3>1. PICK i \in Invocations : Step(i) \/ Fails(i)
      BY <2>1
    <3>2. Kept(i)
      BY <3>1, MovesKeep, PreflightKeeps, PlanKeeps, DecideKeeps, PublishKeeps,
         AnswerKeeps DEF Step
    <3>. QED
      BY <3>2, KeptSuffices
  <2>2. CASE \E i \in Invocations : Kill(i)
    BY <2>2, KillKeeps, KeptSuffices
  <2>3. CASE \E i \in Invocations, how \in {"review", "bypass", "fetch"} : Start(i, how)
    BY <2>3, StartKeeps, KeptSuffices
  <2>. QED
    BY <2>1, <2>2, <2>3, WorldKeeps DEF Next
<1>3. ReviewInv => ReviewCoversGap
  BY DEF ReviewInv
<1>. QED
  BY <1>1, <1>2, <1>3, PTL DEF Spec
=============================================================================
