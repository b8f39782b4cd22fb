------------------------ MODULE TrustedInstallProofs ------------------------
(***************************************************************************)
(* For any number of processes and commands one transaction token runs     *)
(* pacman at most once, what pacman reads stays while it is read, and the  *)
(* files of a transaction say what is so: RunsPacmanOnce,                  *)
(* StageHeldWhileUsed and EvidenceTruthful of TrustedInstallStore.  Then   *)
(* what its client reports: OutcomeTruthful and CleanupTruthful of         *)
(* TrustedInstallTransport.                                                *)
(***************************************************************************)
EXTENDS TrustedInstallTransport, TLAPS

(* Where an execute is between its claim and pacman, and where it is after *)
(* the final reproof.                                                      *)
Authorizing == {"authorize", "write_authorized", "exec"}
Claiming == Authorizing \cup {"write_claim", "reprove"}
Building == {"stage", "publish"}
Cleaning == {"clean_stage", "clean_claims", "clean_lifetime"}
Retiring == Cleaning \cup {"retire"}

(* Until the stage is published nothing but prepare has come anywhere. *)
Early == {"mkdir", "open"} \cup Building \cup Ended

ShapeOK ==
  /\ DOMAIN pc = Helpers /\ DOMAIN lock = Helpers /\ DOMAIN cmd = Helpers
  /\ DOMAIN file = Leaves
  /\ starts \in {0, 1}

(* An exclusive holder is alone, and the stages that rely on a lock hold   *)
(* it.                                                                     *)
LocksOK ==
  /\ \A g, h \in Helpers : g # h /\ lock[g] = "ex" => lock[h] = "none"
  /\ \A h \in Helpers :
       /\ pc[h] = "read" => lock[h] = IF Exclusive(h) THEN "ex" ELSE "sh"
       /\ pc[h] \in Retiring => lock[h] = "ex"
       /\ pc[h] \in Claiming \cup {"claim"} => lock[h] = "sh"

(* Before publication: one prepare at most, no lock but its own. *)
UnpublishedOK ==
  /\ \A h \in Helpers : pc[h] \in Building => place = "preparing"
  /\ \A g, h \in Helpers : pc[g] \in Building /\ pc[h] \in Building => g = h
  /\ place \in {"none", "preparing"} =>
       /\ starts = 0
       /\ \A h \in Helpers :
            /\ pc[h] \in Early
            /\ lock[h] # "none" => pc[h] = "publish"

(* While the transaction is active its claim is there from the moment an   *)
(* execute made it, and only that execute goes on; afterwards no execute   *)
(* passes the final reproof.                                               *)
ClaimOK ==
  /\ \A h \in Helpers : pc[h] \in Authorizing => place = "active"
  /\ \A h \in Helpers : pc[h] \in Cleaning => place = "used"
  /\ place = "active" =>
       /\ starts = 1 => file["execution"] # "absent"
       /\ \A h \in Helpers : pc[h] \in Claiming =>
            /\ starts = 0
            /\ file["execution"] # "absent"
            /\ \A g \in Helpers : pc[g] \in Claiming => g = h

RunInv == ShapeOK /\ LocksOK /\ UnpublishedOK /\ ClaimOK

-----------------------------------------------------------------------------
(* Most steps disturb nothing of this: each process keeps its place, or    *)
(* leaves, or moves among stages the invariant says nothing of, or goes on *)
(* within the part it is in.                                               *)

(* The stages about which the invariant says nothing. *)
Plain == {"reproof", "answer", "fork", "wait", "lock", "pacman", "refuse",
          "mark", "write_mark", "baseline", "partial", "rename",
          "claim_record", "join", "publish_record", "anchor", "done"}

Kept(h) == pc'[h] = pc[h] /\ lock'[h] = lock[h] /\ cmd'[h] = cmd[h]

Left(h) ==
  /\ pc'[h] \in {"mkdir", "open"} \cup Ended
  /\ lock'[h] = "none" \/ (lock'[h] = lock[h] /\ pc[h] # "publish")

Moved(h) ==
  /\ pc'[h] \in Plain
  /\ pc[h] \notin Early \/ place = "active"
  /\ lock'[h] \in {lock[h], "none"}

Advanced(h) ==
  /\ lock'[h] = lock[h] /\ cmd'[h] = cmd[h]
  /\ \/ pc[h] = "read" /\ Exclusive(h) /\ pc'[h] = "retire"
     \/ pc[h] = "read" /\ ~Exclusive(h) /\ pc'[h] = "claim"
     \/ pc[h] \in Cleaning /\ pc'[h] \in Cleaning
     \/ /\ pc[h] \in Claiming /\ pc'[h] \in Claiming
        /\ pc'[h] \in Authorizing => place = "active"

ShapeKept ==
  /\ DOMAIN pc' = Helpers /\ DOMAIN lock' = Helpers /\ DOMAIN cmd' = Helpers
  /\ DOMAIN file' = Leaves

(* No step of this kind unmakes the claim of an active transaction. *)
ClaimKept ==
  place = "active" /\ file["execution"] # "absent" =>
     file'["execution"] # "absent"

(* Steps of this kind keep the invariant: every action of the helper but   *)
(* the ones that create, publish, claim, execute and retire.               *)
LEMMA Frame ==
  ASSUME RunInv, ShapeKept, ClaimKept, place' = place, starts' = starts,
         \A h \in Helpers : Kept(h) \/ Left(h) \/ Moved(h) \/ Advanced(h)
  PROVE  RunInv'
<1> USE DEF Kept, Left, Moved, Advanced
<1> USE DEF Authorizing, Claiming, Building, Cleaning, Retiring, Early, Plain,
            Ended
<1>1. ShapeOK'
  BY DEF RunInv, ShapeOK, ShapeKept
<1>2. LocksOK'
  <2>1. \A g, h \in Helpers : g # h /\ lock'[g] = "ex" => lock'[h] = "none"
    BY DEF RunInv, LocksOK
  <2>2. ASSUME NEW h \in Helpers
        PROVE  /\ pc'[h] = "read" =>
                    lock'[h] = IF Exclusive(h)' THEN "ex" ELSE "sh"
               /\ pc'[h] \in Retiring => lock'[h] = "ex"
               /\ pc'[h] \in Claiming \cup {"claim"} => lock'[h] = "sh"
    BY DEF RunInv, LocksOK, Exclusive
  <2> QED BY <2>1, <2>2 DEF LocksOK
<1>3. UnpublishedOK'
  BY DEF RunInv, UnpublishedOK
<1>4. ClaimOK'
  BY DEF RunInv, ClaimOK, ClaimKept
<1> QED BY <1>1, <1>2, <1>3, <1>4 DEF RunInv

(* A slot that is freed held nothing the invariant speaks of. *)
LEMMA SettleFacts ==
  ASSUME NEW pcs, NEW bys, NEW replies, Settle(pcs, bys, replies)
  PROVE  /\ DOMAIN pc' = Helpers /\ DOMAIN cmd' = Helpers
         /\ \A h \in Helpers :
              \/ pc'[h] = pcs[h] /\ cmd'[h] = cmd[h]
              \/ pcs[h] \in Ended /\ pc'[h] = "idle"
BY DEF Settle

(* A process that ends leaves, and the others stay or are freed. *)
LEMMA FinishFacts ==
  ASSUME RunInv, NEW h \in Helpers, NEW rc \in Ended, Finish(h, rc)
  PROVE  /\ DOMAIN pc' = Helpers /\ DOMAIN cmd' = Helpers
         /\ DOMAIN lock' = Helpers
         /\ \A g \in Helpers : Kept(g) \/ Left(g)
<1> DEFINE pcs == [pc EXCEPT ![h] = rc]
<1>1. Settle(pcs, by, reply) /\ lock' = [lock EXCEPT ![h] = "none"]
  BY DEF Finish
<1>2. DOMAIN pc = Helpers /\ DOMAIN lock = Helpers
  BY DEF RunInv, ShapeOK
<1>3. /\ DOMAIN pc' = Helpers /\ DOMAIN cmd' = Helpers
      /\ \A g \in Helpers :
           \/ pc'[g] = pcs[g] /\ cmd'[g] = cmd[g]
           \/ pcs[g] \in Ended /\ pc'[g] = "idle"
  BY <1>1, SettleFacts
<1>4. DOMAIN lock' = Helpers /\ \A g \in Helpers :
         lock'[g] = IF g = h THEN "none" ELSE lock[g]
  BY <1>1, <1>2
<1>5. \A g \in Helpers : pcs[g] = IF g = h THEN rc ELSE pc[g]
  BY <1>2
<1> HIDE DEF pcs
<1>6. ASSUME NEW g \in Helpers
      PROVE  Kept(g) \/ Left(g)
  BY <1>3, <1>4, <1>5 DEF Kept, Left, Ended
<1> QED BY <1>3, <1>4, <1>6

(* A slot that is taken was idle. *)
LEMMA LaunchFacts ==
  ASSUME RunInv, NEW h \in Helpers, NEW c, NEW who, Launch(h, c, who)
  PROVE  /\ DOMAIN pc' = Helpers /\ DOMAIN cmd' = Helpers
         /\ DOMAIN lock' = Helpers
         /\ \A g \in Helpers : Kept(g) \/ Left(g)
BY DEF RunInv, ShapeOK, Launch, Goto, Kept, Left, Ended

(* One process goes on, the others stay. *)
LEMMA Alone ==
  ASSUME RunInv, NEW h \in Helpers, NEW p, Goto(h, p), cmd' = cmd,
         lock' = lock \/ lock' = [lock EXCEPT ![h] = "none"],
         DOMAIN file' = Leaves, ClaimKept, place' = place, starts' = starts,
         Left(h) \/ Moved(h) \/ Advanced(h)
  PROVE  RunInv'
<1>1. ShapeKept
  BY DEF RunInv, ShapeOK, ShapeKept, Goto
<1>2. \A g \in Helpers : g # h => Kept(g)
  BY DEF RunInv, ShapeOK, Goto, Kept
<1> QED BY <1>1, <1>2, Frame

-----------------------------------------------------------------------------
(* The steps that the frame does not cover. *)

LEMMA MakeStagingKeeps ==
  ASSUME RunInv, NEW h \in Helpers, MakeStaging(h)
  PROVE  RunInv'
<1>1. /\ pc[h] = "mkdir" /\ place = "none" /\ place' = "preparing"
      /\ pc' = [pc EXCEPT ![h] = "stage"]
      /\ UNCHANGED <<file, lock, cmd, starts>>
  BY DEF MakeStaging, Goto, pacmanVars
<1>2. /\ DOMAIN pc' = Helpers
      /\ \A g \in Helpers : pc'[g] = IF g = h THEN "stage" ELSE pc[g]
  BY <1>1 DEF RunInv, ShapeOK
<1> USE DEF Authorizing, Claiming, Building, Cleaning, Retiring, Early, Ended
<1>3. ShapeOK' BY <1>1, <1>2 DEF RunInv, ShapeOK
<1>4. LocksOK' BY <1>1, <1>2 DEF RunInv, LocksOK, Exclusive
<1>5. UnpublishedOK' BY <1>1, <1>2 DEF RunInv, UnpublishedOK
<1>6. ClaimOK' BY <1>1, <1>2 DEF RunInv, ClaimOK
<1> QED BY <1>3, <1>4, <1>5, <1>6 DEF RunInv

LEMMA WriteStageKeeps ==
  ASSUME RunInv, NEW h \in Helpers, WriteStage(h)
  PROVE  RunInv'
<1>1. /\ pc[h] = "stage"
      /\ file' = [file EXCEPT !["stage"] = "whole", !["lifetime"] = "whole"]
      /\ lock' = [lock EXCEPT ![h] = "ex"]
      /\ pc' = [pc EXCEPT ![h] = "publish"]
      /\ UNCHANGED <<place, cmd, starts>>
  BY DEF WriteStage, Goto, pacmanVars
<1>2. /\ DOMAIN pc' = Helpers /\ DOMAIN lock' = Helpers
      /\ DOMAIN file' = Leaves
      /\ \A g \in Helpers : pc'[g] = IF g = h THEN "publish" ELSE pc[g]
      /\ \A g \in Helpers : lock'[g] = IF g = h THEN "ex" ELSE lock[g]
  BY <1>1 DEF RunInv, ShapeOK
<1>3. place = "preparing"
  BY <1>1 DEF RunInv, UnpublishedOK, Building
<1>4. \A g \in Helpers : g # h => lock[g] = "none"
  BY <1>1, <1>3 DEF RunInv, UnpublishedOK, Building
<1> USE DEF Authorizing, Claiming, Building, Cleaning, Retiring, Early, Ended
<1>5. ShapeOK' BY <1>1, <1>2 DEF RunInv, ShapeOK
<1>6. LocksOK' BY <1>1, <1>2, <1>4 DEF RunInv, LocksOK, Exclusive
<1>7. UnpublishedOK' BY <1>1, <1>2, <1>3 DEF RunInv, UnpublishedOK
<1>8. ClaimOK' BY <1>1, <1>2, <1>3 DEF RunInv, ClaimOK
<1> QED BY <1>5, <1>6, <1>7, <1>8 DEF RunInv

LEMMA PublishStageKeeps ==
  ASSUME RunInv, NEW h \in Helpers, PublishStage(h)
  PROVE  RunInv'
<1>1. /\ pc[h] = "publish" /\ place' = "active"
      /\ pc' = [pc EXCEPT ![h] = "reproof"]
      /\ UNCHANGED <<file, lock, cmd, starts>>
  BY DEF PublishStage, Goto, pacmanVars
<1>2. /\ DOMAIN pc' = Helpers
      /\ \A g \in Helpers : pc'[g] = IF g = h THEN "reproof" ELSE pc[g]
  BY <1>1 DEF RunInv, ShapeOK
<1> USE DEF Authorizing, Claiming, Building, Cleaning, Retiring, Early, Ended
<1>3. place = "preparing" /\ starts = 0
  BY <1>1 DEF RunInv, UnpublishedOK
<1>4. ShapeOK' BY <1>1, <1>2 DEF RunInv, ShapeOK
<1>5. LocksOK' BY <1>1, <1>2 DEF RunInv, LocksOK, Exclusive
<1>6. UnpublishedOK' BY <1>1, <1>2 DEF RunInv, UnpublishedOK
<1>7. ClaimOK' BY <1>1, <1>2, <1>3 DEF RunInv, ClaimOK, UnpublishedOK
<1> QED BY <1>4, <1>5, <1>6, <1>7 DEF RunInv

LEMMA PrepareThrowsKeeps ==
  ASSUME RunInv, NEW h \in Helpers, PrepareThrows(h)
  PROVE  RunInv'
<1>1. /\ pc[h] \in Building /\ Finish(h, "failed") /\ starts' = starts
      /\ \/ place' = "none" /\ file' = [f \in Leaves |-> "absent"]
         \/ UNCHANGED <<place, file>>
  BY DEF PrepareThrows, pacmanVars, Building
<1>2. /\ DOMAIN pc' = Helpers /\ DOMAIN cmd' = Helpers
      /\ DOMAIN lock' = Helpers
      /\ \A g \in Helpers : Kept(g) \/ Left(g)
  BY <1>1, FinishFacts DEF Ended
<1>3. CASE UNCHANGED <<place, file>>
  BY <1>1, <1>2, <1>3, Frame DEF ShapeKept, ClaimKept, RunInv, ShapeOK
<1>4. CASE place' = "none" /\ file' = [f \in Leaves |-> "absent"]
  <2>1. /\ pc'[h] \in Ended
        /\ \A g \in Helpers : g # h => Kept(g) \/ Left(g)
    BY <1>1, <1>2 DEF Finish, Settle, RunInv, ShapeOK, Ended
  <2>2. place = "preparing"
    BY <1>1 DEF RunInv, UnpublishedOK
  <2> USE DEF Authorizing, Claiming, Building, Cleaning, Retiring, Early, Ended
  <2> USE DEF Kept, Left
  <2>3. ShapeOK' BY <1>1, <1>2, <1>4 DEF RunInv, ShapeOK
  <2>4. LocksOK' BY <1>2, <2>2 DEF RunInv, LocksOK, UnpublishedOK, Exclusive
  <2>5. \A g \in Helpers : pc'[g] \notin Building
    BY <1>1, <1>2, <2>1 DEF RunInv, UnpublishedOK
  <2>6. UnpublishedOK' BY <1>1, <1>2, <2>2, <2>5 DEF RunInv, UnpublishedOK
  <2>7. ClaimOK'
    BY <1>1, <1>2, <1>4, <2>2 DEF RunInv, ClaimOK, UnpublishedOK
  <2> QED BY <2>3, <2>4, <2>6, <2>7 DEF RunInv
<1> QED BY <1>1, <1>3, <1>4

LEMMA AcquireLeaseKeeps ==
  ASSUME RunInv, NEW h \in Helpers, AcquireLease(h)
  PROVE  RunInv'
<1> DEFINE mode == IF Exclusive(h) THEN "ex" ELSE "sh"
<1>1. /\ pc[h] = "lock" /\ LeaseGrantable(h)
      /\ lock' = [lock EXCEPT ![h] = mode]
      /\ pc' = [pc EXCEPT ![h] = "read"]
      /\ UNCHANGED <<place, file, cmd, starts>>
  BY DEF AcquireLease, Goto, pacmanVars, store
<1>2. /\ DOMAIN pc' = Helpers /\ DOMAIN lock' = Helpers
      /\ \A g \in Helpers : pc'[g] = IF g = h THEN "read" ELSE pc[g]
      /\ \A g \in Helpers : lock'[g] = IF g = h THEN mode ELSE lock[g]
  BY <1>1 DEF RunInv, ShapeOK
<1>3. \A g \in Helpers \ {h} :
         IF Exclusive(h) THEN lock[g] = "none" ELSE lock[g] # "ex"
  BY <1>1 DEF LeaseGrantable
<1> USE DEF Authorizing, Claiming, Building, Cleaning, Retiring, Early, Ended
<1>4. ShapeOK' BY <1>1, <1>2 DEF RunInv, ShapeOK
<1>5. LocksOK' BY <1>1, <1>2, <1>3 DEF RunInv, LocksOK, Exclusive
<1>6. UnpublishedOK' BY <1>1, <1>2 DEF RunInv, UnpublishedOK
<1>7. ClaimOK' BY <1>1, <1>2 DEF RunInv, ClaimOK
<1> QED BY <1>4, <1>5, <1>6, <1>7 DEF RunInv

(* O_EXCL: the first claim of an active transaction is the only one. *)
LEMMA CreateClaimKeeps ==
  ASSUME RunInv, NEW h \in Helpers, CreateClaim(h)
  PROVE  RunInv'
<1>1. pc[h] \in {"claim", "authorize"}
  BY DEF CreateClaim, Creates
<1> USE DEF Authorizing, Claiming, Building, Cleaning, Retiring, Early, Ended
<1>2. CASE pc[h] = "authorize"
  <2>1. /\ file' = [file EXCEPT !["authorized"] = "torn"]
        /\ Goto(h, "write_authorized")
        /\ UNCHANGED <<place, lock, cmd, starts>>
    BY <1>2 DEF CreateClaim, Creates, pacmanVars
  <2>2. DOMAIN file' = Leaves /\ ClaimKept
    BY <2>1 DEF RunInv, ShapeOK, ClaimKept, Leaves, Claims
  <2>3. Advanced(h)
    BY <1>2, <2>1 DEF Advanced, Goto, RunInv, ShapeOK, ClaimOK
  <2> QED BY <2>1, <2>2, <2>3, Alone
<1>3. CASE pc[h] = "claim"
  <2>1. /\ file["execution"] = "absent"
        /\ file' = [file EXCEPT !["execution"] = "torn"]
        /\ pc' = [pc EXCEPT ![h] = "write_claim"]
        /\ UNCHANGED <<place, lock, cmd, starts>>
    BY <1>3 DEF CreateClaim, Creates, Goto, pacmanVars
  <2>2. /\ DOMAIN pc' = Helpers /\ DOMAIN file' = Leaves
        /\ \A g \in Helpers : pc'[g] = IF g = h THEN "write_claim" ELSE pc[g]
        /\ file'["execution"] = "torn"
    BY <2>1 DEF RunInv, ShapeOK, Leaves, Claims
  <2>3. ShapeOK' BY <2>1, <2>2 DEF RunInv, ShapeOK
  <2>4. LocksOK' BY <1>3, <2>1, <2>2 DEF RunInv, LocksOK, Exclusive
  <2>5. UnpublishedOK' BY <1>3, <2>1, <2>2 DEF RunInv, UnpublishedOK
  <2>6. place = "active" =>
           starts = 0 /\ \A g \in Helpers : pc[g] \notin Claiming
    BY <2>1 DEF RunInv, ShapeOK, ClaimOK
  <2>7. ClaimOK' BY <2>1, <2>2, <2>6 DEF RunInv, ClaimOK
  <2> QED BY <2>3, <2>4, <2>5, <2>7 DEF RunInv
<1> QED BY <1>1, <1>2, <1>3

(* Whoever reaches exec is the only claimant, and pacman never ran. *)
LEMMA ExecKeeps ==
  ASSUME RunInv, NEW h \in Helpers, Exec(h)
  PROVE  RunInv'
<1>1. /\ pc[h] = "exec" /\ starts' = starts + 1
      /\ pc' = [pc EXCEPT ![h] = "pacman"]
      /\ UNCHANGED <<place, file, lock, cmd>>
  BY DEF Exec, Goto, store
<1>2. /\ DOMAIN pc' = Helpers
      /\ \A g \in Helpers : pc'[g] = IF g = h THEN "pacman" ELSE pc[g]
  BY <1>1 DEF RunInv, ShapeOK
<1> USE DEF Authorizing, Claiming, Building, Cleaning, Retiring, Early, Ended
<1>3. place = "active"
  BY <1>1 DEF RunInv, ClaimOK
<1>4. /\ starts = 0 /\ file["execution"] # "absent"
      /\ \A g \in Helpers : pc[g] \in Claiming => g = h
  BY <1>1, <1>3 DEF RunInv, ClaimOK
<1>5. ShapeOK' BY <1>1, <1>2, <1>4 DEF RunInv, ShapeOK
<1>6. LocksOK' BY <1>1, <1>2 DEF RunInv, LocksOK, Exclusive
<1>7. UnpublishedOK' BY <1>1, <1>2, <1>3 DEF RunInv, UnpublishedOK
<1>8. ClaimOK' BY <1>1, <1>2, <1>3, <1>4 DEF RunInv, ClaimOK
<1> QED BY <1>5, <1>6, <1>7, <1>8 DEF RunInv

(* The exclusive lock: no execute is past its final reproof. *)
LEMMA RetireKeeps ==
  ASSUME RunInv, NEW h \in Helpers, Retire(h)
  PROVE  RunInv'
<1>1. /\ pc[h] = "retire" /\ place' = "used"
      /\ pc' = [pc EXCEPT ![h] = "clean_stage"]
      /\ UNCHANGED <<file, lock, cmd, starts>>
  BY DEF Retire, Goto, pacmanVars
<1>2. /\ DOMAIN pc' = Helpers
      /\ \A g \in Helpers : pc'[g] = IF g = h THEN "clean_stage" ELSE pc[g]
  BY <1>1 DEF RunInv, ShapeOK
<1> USE DEF Authorizing, Claiming, Building, Cleaning, Retiring, Early, Ended
<1>3. \A g \in Helpers : g # h => lock[g] = "none"
  BY <1>1 DEF RunInv, LocksOK
<1>4. place # "preparing"
  BY <1>1 DEF RunInv, UnpublishedOK
<1>5. ShapeOK' BY <1>1, <1>2 DEF RunInv, ShapeOK
<1>6. LocksOK' BY <1>1, <1>2 DEF RunInv, LocksOK, Exclusive
<1>7. UnpublishedOK' BY <1>1, <1>2, <1>4 DEF RunInv, UnpublishedOK
<1>8. \A g \in Helpers : pc'[g] \notin Authorizing
  BY <1>1, <1>2, <1>3 DEF RunInv, LocksOK
<1>9. ClaimOK' BY <1>1, <1>2, <1>8 DEF RunInv, ClaimOK
<1> QED BY <1>5, <1>6, <1>7, <1>9 DEF RunInv

-----------------------------------------------------------------------------
(* The steps that it covers. *)

LEMMA HelperStepKeeps ==
  ASSUME RunInv, NEW h \in Helpers, HelperStep(h)
  PROVE  RunInv'
<1> USE DEF Authorizing, Claiming, Building, Cleaning, Retiring, Early, Plain,
            Ended, pacmanVars, store
<1>s. /\ DOMAIN pc = Helpers /\ DOMAIN lock = Helpers /\ DOMAIN cmd = Helpers
      /\ DOMAIN file = Leaves /\ "execution" \in Leaves
  BY DEF RunInv, ShapeOK, Leaves, Claims
<1>1. CASE \/ MakeStaging(h) \/ WriteStage(h) \/ PublishStage(h)
           \/ AcquireLease(h) \/ CreateClaim(h) \/ Exec(h) \/ Retire(h)
  BY <1>1, MakeStagingKeeps, WriteStageKeeps, PublishStageKeeps,
     AcquireLeaseKeeps, CreateClaimKeeps, ExecKeeps, RetireKeeps
<1>2. CASE ReproveStage(h) \/ Open(h)
  <2>1. \E p \in {"answer", "fork", "lock"} : Goto(h, p)
    BY <1>2 DEF ReproveStage, Open
  <2>2. /\ UNCHANGED <<place, file, cmd, starts>>
        /\ lock' = lock \/ lock' = [lock EXCEPT ![h] = "none"]
        /\ pc[h] = "reproof" \/ place = "active"
    BY <1>2 DEF ReproveStage, Open
  <2>3. Moved(h)
    BY <1>s, <2>1, <2>2 DEF Moved, Goto
  <2>4. ClaimKept /\ DOMAIN file' = Leaves
    BY <1>s, <2>2 DEF ClaimKept
  <2> QED BY <2>1, <2>2, <2>3, <2>4, Alone
<1>3. CASE CheckUnclaimed(h) \/ Reprove(h) \/ ReadForRetirement(h)
  <2>1. \E p : Goto(h, p)
    BY <1>3 DEF CheckUnclaimed, Reprove, ReadForRetirement
  <2>2. UNCHANGED <<place, file, lock, cmd, starts>>
    BY <1>3 DEF CheckUnclaimed, Reprove, ReadForRetirement
  <2>3. Advanced(h)
    BY <1>3, <1>s, <2>2
    DEF CheckUnclaimed, Reprove, FinalReproof, ReadForRetirement, Advanced,
        Goto, Exclusive, Preparers, Consumers
  <2>4. ClaimKept /\ DOMAIN file' = Leaves
    BY <1>s, <2>2 DEF ClaimKept
  <2> QED BY <2>1, <2>2, <2>3, <2>4, Alone
<1>4. CASE WriteClaim(h) \/ WriteAuthorized(h)
  <2>1. \E p : Goto(h, p)
    BY <1>4 DEF WriteClaim, WriteAuthorized
  <2>2. UNCHANGED <<place, lock, cmd, starts>>
    BY <1>4 DEF WriteClaim, WriteAuthorized
  <2>3. Advanced(h)
    BY <1>4, <1>s, <2>2
    DEF WriteClaim, WriteAuthorized, Advanced, Goto, RunInv, ClaimOK
  <2>4. ClaimKept /\ DOMAIN file' = Leaves
    BY <1>4, <1>s DEF ClaimKept, WriteClaim, WriteAuthorized, Leaves, Claims
  <2> QED BY <2>1, <2>2, <2>3, <2>4, Alone
<1>5. CASE CleanStage(h) \/ CleanClaims(h)
  <2>1. \E p : Goto(h, p)
    BY <1>5 DEF CleanStage, CleanClaims
  <2>2. UNCHANGED <<place, lock, cmd, starts>> /\ pc[h] \in Cleaning
    BY <1>5 DEF CleanStage, CleanClaims
  <2>3. Advanced(h)
    BY <1>5, <1>s, <2>2 DEF CleanStage, CleanClaims, Advanced, Goto
  <2>4. ClaimKept
    BY <2>2 DEF ClaimKept, RunInv, ClaimOK
  <2>5. DOMAIN file' = Leaves
    BY <1>5 DEF CleanStage, CleanClaims
  <2> QED BY <2>1, <2>2, <2>3, <2>4, <2>5, Alone
<1>6. CASE CleanLifetime(h)
  <2>1. /\ pc[h] \in Cleaning /\ UNCHANGED <<place, starts>>
        /\ file' = [file EXCEPT !["lifetime"] = "absent"]
    BY <1>6 DEF CleanLifetime
  <2>2. ClaimKept /\ DOMAIN file' = Leaves
    BY <1>s, <2>1 DEF ClaimKept, RunInv, ClaimOK
  <2>3. CASE cmd[h] \in Consumers
    <3>1. /\ lock' = [lock EXCEPT ![h] = "none"] /\ Goto(h, "answer")
          /\ cmd' = cmd
      BY <1>6, <2>3 DEF CleanLifetime
    <3>2. Moved(h)
      BY <1>s, <2>1, <3>1 DEF Moved, Goto
    <3> QED BY <2>1, <2>2, <3>1, <3>2, Alone
  <2>4. CASE cmd[h] \notin Consumers
    <3>1. Finish(h, AbortCode(h, TRUE)) /\ AbortCode(h, TRUE) \in Ended
      BY <1>6, <2>4 DEF CleanLifetime, AbortCode
    <3>2. ShapeKept /\ \A g \in Helpers : Kept(g) \/ Left(g)
      BY <2>2, <3>1, FinishFacts DEF ShapeKept
    <3> QED BY <2>1, <2>2, <3>2, Frame
  <2> QED BY <2>3, <2>4
<1>7. CASE \/ ReadStatus(h) \/ CheckHook(h) \/ JoinRecord(h)
           \/ CreateMark(h) \/ WriteMark(h)
  <2>1. /\ \E p \in Plain : Goto(h, p)
        /\ UNCHANGED <<place, file, cmd, starts>>
        /\ lock' = lock \/ lock' = [lock EXCEPT ![h] = "none"]
        /\ pc[h] \notin Early
    BY <1>7
    DEF ReadStatus, CheckHook, JoinRecord, CreateMark, WriteMark, AfterMark
  <2>2. Moved(h)
    BY <1>s, <2>1 DEF Moved, Goto
  <2>3. ClaimKept /\ DOMAIN file' = Leaves
    BY <1>s, <2>1 DEF ClaimKept
  <2> QED BY <2>1, <2>2, <2>3, Alone
<1>8. CASE \/ RecordBaseline(h) \/ WritePartial(h) \/ PublishReceipt(h)
           \/ ClaimRecord(h) \/ PublishRecord(h) \/ RecordAnchor(h)
  <2>1. /\ \E p \in Plain : Goto(h, p)
        /\ UNCHANGED <<place, lock, cmd, starts>>
        /\ pc[h] \notin Early
    BY <1>8
    DEF RecordBaseline, WritePartial, PublishReceipt, ClaimRecord,
        PublishRecord, RecordAnchor
  <2>2. Moved(h)
    BY <1>s, <2>1 DEF Moved, Goto
  <2>3. DOMAIN file' = Leaves /\ file'["execution"] = file["execution"]
    <3>1. CASE PublishReceipt(h)
      BY <3>1, <1>s DEF PublishReceipt
    <3>2. CASE ClaimRecord(h) \/ PublishRecord(h)
      BY <3>2, <1>s DEF ClaimRecord, PublishRecord, Leaf
    <3>3. CASE RecordAnchor(h)
      BY <3>3, <1>s DEF RecordAnchor, AnchorOf
    <3>4. CASE RecordBaseline(h) \/ WritePartial(h)
      BY <3>4, <1>s DEF RecordBaseline, WritePartial
    <3> QED BY <1>8, <3>1, <3>2, <3>3, <3>4
  <2>4. ClaimKept
    BY <2>3 DEF ClaimKept
  <2> QED BY <2>1, <2>2, <2>3, <2>4, Alone
<1>9. CASE PublishRefusal(h) \/ Answer(h) \/ Done(h)
  <2>1. /\ UNCHANGED <<place, starts>>
        /\ DOMAIN file' = Leaves /\ file'["execution"] = file["execution"]
        /\ Finish(h, "ok") \/ Finish(h, "failed")
    <3>1. CASE PublishRefusal(h)
      BY <3>1, <1>s DEF PublishRefusal
    <3>2. CASE Answer(h) \/ Done(h)
      BY <3>2, <1>s DEF Answer, Done
    <3> QED BY <1>9, <3>1, <3>2
  <2>2. /\ DOMAIN pc' = Helpers /\ DOMAIN cmd' = Helpers
        /\ DOMAIN lock' = Helpers /\ \A g \in Helpers : Kept(g) \/ Left(g)
    BY <2>1, FinishFacts
  <2> QED BY <2>1, <2>2, Frame DEF ShapeKept, ClaimKept
<1>10. ASSUME NEW g \in Helpers \ {h}, ForkExecute(h, g)
       PROVE  RunInv'
  <2>1. /\ pc[h] = "fork" /\ pc[g] = "idle"
        /\ cmd' = [cmd EXCEPT ![g] = "execute"]
        /\ pc' = [pc EXCEPT ![h] = "wait", ![g] = "open"]
        /\ UNCHANGED <<place, file, lock, starts>>
    BY <1>10 DEF ForkExecute
  <2>2. \A k \in Helpers : Kept(k) \/ Left(k) \/ Moved(k)
    BY <1>s, <2>1 DEF Kept, Left, Moved
  <2> QED BY <1>s, <2>1, <2>2, Frame DEF ShapeKept, ClaimKept
<1>11. ASSUME NEW g \in Helpers \ {h}, WaitExecute(h, g)
       PROVE  RunInv'
  <2> DEFINE pcs == [pc EXCEPT ![h] = "open"]
  <2>1. /\ pc[h] = "wait" /\ UNCHANGED <<place, file, lock, starts>>
        /\ \E bys, replies : Settle(pcs, bys, replies)
    BY <1>11 DEF WaitExecute
  <2>2. \A k \in Helpers : pcs[k] = IF k = h THEN "open" ELSE pc[k]
    BY <1>s
  <2> HIDE DEF pcs
  <2>3. /\ DOMAIN pc' = Helpers /\ DOMAIN cmd' = Helpers
        /\ \A k \in Helpers :
             \/ pc'[k] = pcs[k] /\ cmd'[k] = cmd[k]
             \/ pcs[k] \in Ended /\ pc'[k] = "idle"
    BY <2>1, SettleFacts
  <2>4. \A k \in Helpers : Kept(k) \/ Left(k)
    BY <2>1, <2>2, <2>3 DEF Kept, Left
  <2> QED BY <1>s, <2>1, <2>3, <2>4, Frame DEF ShapeKept, ClaimKept
<1> QED
  BY <1>1, <1>2, <1>3, <1>4, <1>5, <1>6, <1>7, <1>8, <1>9, <1>10, <1>11
  DEF HelperStep

(* Steps in which the directory stays as it is and slots are freed after   *)
(* one process x, if there is such a one, ended or went back to open.      *)
LEMMA SettleKeeps ==
  ASSUME RunInv, NEW x, NEW p \in Ended \cup {"open"}, NEW bys, NEW replies,
         Settle([pc EXCEPT ![x] = p], bys, replies),
         lock' = [lock EXCEPT ![x] = "none"] \/ (lock' = lock /\ pc[x] = "wait"),
         UNCHANGED <<place, file, starts>>
  PROVE  RunInv'
<1> DEFINE pcs == [pc EXCEPT ![x] = p]
<1>1. DOMAIN pc = Helpers /\ DOMAIN lock = Helpers /\ DOMAIN file = Leaves
  BY DEF RunInv, ShapeOK
<1>2. \A k \in Helpers : pcs[k] = IF k = x THEN p ELSE pc[k]
  BY <1>1
<1>3. /\ DOMAIN pc' = Helpers /\ DOMAIN cmd' = Helpers
      /\ \A k \in Helpers :
           \/ pc'[k] = pcs[k] /\ cmd'[k] = cmd[k]
           \/ pcs[k] \in Ended /\ pc'[k] = "idle"
  BY SettleFacts
<1> HIDE DEF pcs
<1>4. \A k \in Helpers : Kept(k) \/ Left(k)
  BY <1>1, <1>2, <1>3 DEF Kept, Left, Ended
<1>5. DOMAIN lock' = Helpers
  BY <1>1
<1> QED BY <1>1, <1>3, <1>4, <1>5, Frame DEF ShapeKept, ClaimKept

(* Slots are freed because nobody waits for them any longer. *)
LEMMA FreeKeeps ==
  ASSUME RunInv, NEW bys, NEW replies, Settle(pc, bys, replies),
         UNCHANGED <<place, file, starts, lock>>
  PROVE  RunInv'
<1>1. /\ DOMAIN pc' = Helpers /\ DOMAIN cmd' = Helpers
      /\ \A k \in Helpers :
           \/ pc'[k] = pc[k] /\ cmd'[k] = cmd[k]
           \/ pc[k] \in Ended /\ pc'[k] = "idle"
  BY SettleFacts
<1>2. \A k \in Helpers : Kept(k) \/ Left(k)
  BY <1>1 DEF Kept, Left, Ended
<1> QED BY <1>1, <1>2, Frame DEF ShapeKept, ClaimKept, RunInv, ShapeOK

(* A slot is taken by a new process. *)
LEMMA LaunchKeeps ==
  ASSUME RunInv, NEW h \in Helpers, NEW c, NEW who, Launch(h, c, who),
         UNCHANGED <<place, file, starts>>
  PROVE  RunInv'
BY LaunchFacts, Frame DEF ShapeKept, ClaimKept, RunInv, ShapeOK

LEMMA HelperFaultKeeps ==
  ASSUME RunInv, NEW h \in Helpers, HelperFault(h)
  PROVE  RunInv'
<1> USE DEF Early, Building, Plain, Ended, pacmanVars, store
<1>s. /\ DOMAIN pc = Helpers /\ DOMAIN lock = Helpers /\ DOMAIN cmd = Helpers
      /\ DOMAIN file = Leaves
  BY DEF RunInv, ShapeOK
<1>1. CASE PrepareThrows(h)
  BY <1>1, PrepareThrowsKeeps
<1>2. CASE PublishedThrows(h) \/ ExecuteThrows(h) \/ ConsumeExactThrows(h)
  <2>1. /\ \E p \in {"open", "refuse", "answer"} : Goto(h, p)
        /\ UNCHANGED <<place, file, cmd, starts>>
        /\ \/ lock' = lock /\ Goto(h, "refuse")
           \/ lock' = [lock EXCEPT ![h] = "none"]
        /\ pc[h] \notin Early
    BY <1>2 DEF PublishedThrows, ExecuteThrows, ConsumeExactThrows
  <2>2. Left(h) \/ Moved(h)
    BY <1>s, <2>1 DEF Left, Moved, Goto
  <2> QED BY <1>s, <2>1, <2>2, Alone DEF ClaimKept
<1>3. CASE Stops(h) \/ LegacyAbortThrows(h)
  <2>1. /\ UNCHANGED <<place, file, starts>>
        /\ Finish(h, "ok") \/ Finish(h, "failed")
    BY <1>3 DEF Stops, LegacyAbortThrows, AbortCode
  <2>2. /\ DOMAIN pc' = Helpers /\ DOMAIN cmd' = Helpers
        /\ DOMAIN lock' = Helpers /\ \A g \in Helpers : Kept(g) \/ Left(g)
    BY <2>1, FinishFacts
  <2> QED BY <1>s, <2>1, <2>2, Frame DEF ShapeKept, ClaimKept
<1>4. ASSUME NEW g \in Helpers \ {h}, LosesChild(h, g)
      PROVE  RunInv'
  BY <1>4, SettleKeeps DEF LosesChild
<1> QED BY <1>1, <1>2, <1>3, <1>4 DEF HelperFault

LEMMA PacmanStepKeeps ==
  ASSUME RunInv, PacmanStep
  PROVE  RunInv'
<1> USE DEF pacmanVars, store
<1>1. ASSUME NEW h \in Helpers, RunHook(h)
      PROVE  RunInv'
  BY <1>1, LaunchKeeps DEF RunHook
<1>2. CASE HookEnds
  BY <1>2, FreeKeeps DEF HookEnds
<1>3. CASE Advances
  BY <1>3, Frame
  DEF Advances, procs, ShapeKept, ClaimKept, Kept, RunInv, ShapeOK
<1>4. CASE PacmanSucceeds \/ PacmanFails
  <2>1. PacmanEnds("ok") \/ PacmanEnds("failed")
    BY <1>4 DEF PacmanSucceeds, PacmanFails
  <2>2. ASSUME NEW rc \in Ended, PacmanEnds(rc)
        PROVE  RunInv'
    BY <2>2, SettleKeeps DEF PacmanEnds
  <2> QED BY <2>1, <2>2 DEF Ended
<1> QED BY <1>1, <1>2, <1>3, <1>4 DEF PacmanStep

(* The invariant speaks of nothing else. *)
LEMMA StutterKeeps ==
  ASSUME RunInv, UNCHANGED <<place, file, pc, lock, cmd, starts>>
  PROVE  RunInv'
BY Frame DEF ShapeKept, ClaimKept, Kept, RunInv, ShapeOK

LEMMA StoreNextKeeps ==
  ASSUME RunInv, StoreNext
  PROVE  RunInv'
<1>1. CASE StragglerEnds
  BY <1>1, StutterKeeps DEF StragglerEnds, procs, store
<1> QED
  BY <1>1, HelperStepKeeps, HelperFaultKeeps, PacmanStepKeeps DEF StoreNext

LEMMA InitRuns == Init => RunInv
BY DEF Init, RunInv, ShapeOK, LocksOK, UnpublishedOK, ClaimOK, Authorizing,
       Claiming, Building, Cleaning, Retiring, Early, Ended

(* However many processes run commands of one transaction, in whatever     *)
(* order, and wherever they are killed, pacman is executed at most once:   *)
(* the claim of execute and the locks of helper_state.cpp suffice.         *)
THEOREM PacmanRunsOnce == Spec => []RunsPacmanOnce
<1>1. RunInv /\ [Next]_storeVars => RunInv'
  <2> SUFFICES ASSUME RunInv, [Next]_storeVars PROVE RunInv'
    OBVIOUS
  <2>1. CASE StoreNext
    BY <2>1, StoreNextKeeps
  <2>2. ASSUME NEW h \in Helpers, NEW c \in Commands \ HookCommands,
               Invoke(h, c)
        PROVE  RunInv'
    BY <2>2, LaunchKeeps DEF Invoke, store, pacmanVars
  <2>3. CASE UNCHANGED storeVars
    BY <2>3, StutterKeeps DEF storeVars, store, procs, pacmanVars
  <2> QED BY <2>1, <2>2, <2>3 DEF Next
<1>2. RunInv => RunsPacmanOnce
  BY DEF RunInv, ShapeOK, RunsPacmanOnce
<1> QED BY <1>1, <1>2, InitRuns, PTL DEF Spec

-----------------------------------------------------------------------------
(* The stage stays while it is used. *)

(* Somebody relies on the stage: pacman, a descendant, or an execute that  *)
(* has passed its final reproof.                                           *)
InUse ==
  \/ phase \in Running \/ straggler
  \/ \E h \in Helpers : pc[h] \in Authorizing

(* pacman keeps the shared lock of the execute it was, a descendant keeps  *)
(* everyone from the exclusive one, and what they use is there.            *)
HeldOK ==
  /\ phase \in Running =>
       slot \in Helpers /\ pc[slot] = "pacman" /\ lock[slot] = "sh"
  /\ straggler => \A h \in Helpers : lock[h] # "ex"
  /\ InUse => place = "active" /\ StageIntact

(* Before it is executed pacman is nowhere, and a hook runs in its phases. *)
PacmanOK ==
  /\ starts = 0 => phase = "none"
  /\ hook # NoHelper => phase \in HookPhases

HeldInv == RunInv /\ HeldOK /\ PacmanOK

(* Nobody holds the exclusive lock meanwhile. *)
LEMMA NoExclusive ==
  ASSUME HeldInv, InUse
  PROVE  \A h \in Helpers : lock[h] # "ex"
<1>1. CASE phase \in Running
  BY <1>1 DEF HeldInv, HeldOK, RunInv, LocksOK
<1>2. CASE straggler
  BY <1>2 DEF HeldInv, HeldOK
<1>3. CASE \E h \in Helpers : pc[h] \in Authorizing
  BY <1>3 DEF HeldInv, RunInv, LocksOK, Claiming
<1> QED BY <1>1, <1>2, <1>3 DEF InUse

PacmanKept == UNCHANGED <<phase, slot, straggler>>

(* A step of processes that leaves the stage alone, does not disturb       *)
(* pacman, and takes no exclusive lock next to a descendant of it.         *)
LEMMA HeldFrame ==
  ASSUME HeldInv, PacmanKept, place' = place,
         StageIntact => StageIntact',
         \A h \in Helpers :
           /\ pc[h] = "pacman" => pc'[h] = "pacman" /\ lock'[h] = lock[h]
           /\ pc'[h] \in Authorizing =>
                pc[h] \in Authorizing \/ (place = "active" /\ StageIntact)
           /\ lock'[h] = "ex" => lock[h] = "ex" \/ ~straggler
  PROVE  HeldOK'
<1>1. phase' \in Running =>
        slot' \in Helpers /\ pc'[slot'] = "pacman" /\ lock'[slot'] = "sh"
  BY DEF HeldInv, HeldOK, PacmanKept
<1>2. straggler' => \A h \in Helpers : lock'[h] # "ex"
  BY DEF HeldInv, HeldOK, PacmanKept
<1>3. InUse' => place = "active" /\ StageIntact
  BY DEF HeldInv, HeldOK, InUse, PacmanKept
<1> QED BY <1>1, <1>2, <1>3 DEF HeldOK

(* A step while nothing is in use, after which nothing is. *)
LEMMA UnusedFrame ==
  ASSUME ~InUse, PacmanKept,
         \A h \in Helpers : pc'[h] \in Authorizing => pc'[h] = pc[h]
  PROVE  HeldOK'
<1>1. ~InUse'
  BY DEF InUse, PacmanKept
<1> QED BY <1>1 DEF HeldOK, InUse

(* Steps that create, publish, retire or remove the stage. *)
LEMMA StageStepHeld ==
  ASSUME HeldInv, NEW h \in Helpers,
         \/ MakeStaging(h) \/ WriteStage(h) \/ PublishStage(h)
         \/ PrepareThrows(h) \/ Retire(h) \/ CleanStage(h)
         \/ CleanClaims(h) \/ CleanLifetime(h)
  PROVE  HeldOK'
<1> USE DEF Authorizing, Building, Cleaning, Retiring, Ended, pacmanVars
<1>1. PacmanKept
  BY DEF MakeStaging, WriteStage, PublishStage, PrepareThrows, Retire,
         CleanStage, CleanClaims, CleanLifetime, PacmanKept
<1>2. ~InUse
  <2>1. CASE MakeStaging(h)
    BY <2>1 DEF MakeStaging, HeldInv, HeldOK
  <2>2. CASE WriteStage(h) \/ PublishStage(h) \/ PrepareThrows(h)
    BY <2>2
    DEF WriteStage, PublishStage, PrepareThrows, HeldInv, HeldOK, RunInv,
        UnpublishedOK
  <2>3. CASE \/ Retire(h) \/ CleanStage(h) \/ CleanClaims(h)
             \/ CleanLifetime(h)
    <3>1. pc[h] \in Retiring
      BY <2>3 DEF Retire, CleanStage, CleanClaims, CleanLifetime
    <3>2. lock[h] = "ex"
      BY <3>1 DEF HeldInv, RunInv, LocksOK
    <3> QED BY <3>2, NoExclusive
  <2> QED BY <2>1, <2>2, <2>3
<1>3. DOMAIN pc = Helpers
  BY DEF HeldInv, RunInv, ShapeOK
<1>4. \A g \in Helpers : pc'[g] \in Authorizing => pc'[g] = pc[g]
  <2>1. CASE Finish(h, "ok") \/ Finish(h, "failed")
    BY <1>3, <2>1 DEF Finish, Settle
  <2>2. CASE \E p : p \notin Authorizing /\ pc' = [pc EXCEPT ![h] = p]
    BY <1>3, <2>2
  <2> QED
    BY <2>1, <2>2
    DEF MakeStaging, WriteStage, PublishStage, PrepareThrows, Retire,
        CleanStage, CleanClaims, CleanLifetime, AbortCode, Goto
<1> QED BY <1>1, <1>2, <1>4, UnusedFrame

(* A process ends. *)
LEMMA FinishHeld ==
  ASSUME HeldInv, NEW h \in Helpers, Finish(h, "ok") \/ Finish(h, "failed"),
         pc[h] # "pacman", PacmanKept, place' = place,
         StageIntact => StageIntact'
  PROVE  HeldOK'
<1>1. DOMAIN pc = Helpers /\ DOMAIN lock = Helpers
  BY DEF HeldInv, RunInv, ShapeOK
<1>2. \A g \in Helpers :
        /\ lock'[g] = IF g = h THEN "none" ELSE lock[g]
        /\ pc'[g] \in Ended \/ (g # h /\ pc'[g] = pc[g])
        /\ g # h /\ pc[g] = "pacman" => pc'[g] = pc[g]
  BY <1>1 DEF Finish, Settle, Ended
<1> QED BY <1>2, HeldFrame DEF Authorizing, Ended

(* A process goes on without the stage. *)
LEMMA GotoHeld ==
  ASSUME HeldInv, NEW h \in Helpers, NEW p, Goto(h, p), pc[h] # "pacman",
         p \in Authorizing =>
           pc[h] \in Authorizing \/ (place = "active" /\ StageIntact),
         lock' = lock \/ lock' = [lock EXCEPT ![h] = "none"],
         PacmanKept, place' = place, StageIntact => StageIntact'
  PROVE  HeldOK'
<1>1. DOMAIN pc = Helpers /\ DOMAIN lock = Helpers
  BY DEF HeldInv, RunInv, ShapeOK
<1>2. \A g \in Helpers :
        /\ pc'[g] = IF g = h THEN p ELSE pc[g]
        /\ lock'[g] = lock[g] \/ (g = h /\ lock'[g] = "none")
  BY <1>1 DEF Goto
<1> QED BY <1>2, HeldFrame

LEMMA HelperStepHeld ==
  ASSUME HeldInv, NEW h \in Helpers, HelperStep(h)
  PROVE  HeldOK' \/ Exec(h)
<1> USE DEF pacmanVars, store
<1>s. /\ DOMAIN pc = Helpers /\ DOMAIN lock = Helpers /\ DOMAIN cmd = Helpers
      /\ DOMAIN file = Leaves /\ {"stage", "lifetime"} \subseteq Leaves
  BY DEF HeldInv, RunInv, ShapeOK, Leaves, Staged
<1>1. CASE \/ MakeStaging(h) \/ WriteStage(h) \/ PublishStage(h)
           \/ Retire(h) \/ CleanStage(h) \/ CleanClaims(h)
           \/ CleanLifetime(h)
  BY <1>1, StageStepHeld
<1>2. CASE AcquireLease(h)
  <2>1. /\ pc[h] = "lock" /\ LeaseGrantable(h)
        /\ lock' = [lock EXCEPT ![h] = IF Exclusive(h) THEN "ex" ELSE "sh"]
        /\ pc' = [pc EXCEPT ![h] = "read"]
        /\ UNCHANGED <<place, file>> /\ PacmanKept
    BY <1>2 DEF AcquireLease, Goto, PacmanKept
  <2>2. Exclusive(h) => ~straggler
    BY <2>1 DEF LeaseGrantable
  <2> QED BY <1>s, <2>1, <2>2, HeldFrame DEF StageIntact, Authorizing
<1>3. CASE \/ ReproveStage(h) \/ Open(h) \/ CheckUnclaimed(h) \/ Reprove(h)
           \/ ReadForRetirement(h) \/ ReadStatus(h) \/ CheckHook(h)
           \/ JoinRecord(h) \/ CreateMark(h) \/ WriteMark(h)
  <2>1. /\ UNCHANGED <<place, file>> /\ PacmanKept /\ pc[h] # "pacman"
        /\ lock' = lock \/ lock' = [lock EXCEPT ![h] = "none"]
    BY <1>3
    DEF ReproveStage, Open, CheckUnclaimed, Reprove, ReadForRetirement,
        ReadStatus, CheckHook, JoinRecord, CreateMark, WriteMark, PacmanKept
  <2>2. \E p : /\ Goto(h, p)
               /\ p \in Authorizing => place = "active" /\ StageIntact
    <3>1. CASE Reprove(h)
      BY <3>1 DEF Reprove, FinalReproof
    <3>2. CASE ~Reprove(h)
      <4>1. \E p \in {"answer", "fork", "lock", "claim", "retire", "mark",
                      "partial", "claim_record", "publish_record",
                      "write_mark", "baseline", "done"} : Goto(h, p)
        BY <1>3, <3>2
        DEF ReproveStage, Open, CheckUnclaimed, ReadForRetirement, ReadStatus,
            CheckHook, JoinRecord, CreateMark, WriteMark, AfterMark
      <4> QED BY <4>1 DEF Authorizing
    <3> QED BY <3>1, <3>2
  <2>3. StageIntact => StageIntact'
    BY <2>1 DEF StageIntact
  <2> QED BY <2>1, <2>2, <2>3, GotoHeld
<1>4. CASE CreateClaim(h) \/ WriteClaim(h) \/ WriteAuthorized(h)
  <2>1. /\ UNCHANGED <<place, lock>> /\ PacmanKept /\ pc[h] # "pacman"
    BY <1>4 DEF CreateClaim, Creates, WriteClaim, WriteAuthorized, PacmanKept
  <2>2. \E p : Goto(h, p) /\ (p \in Authorizing => pc[h] \in Authorizing)
    BY <1>4
    DEF CreateClaim, Creates, WriteClaim, WriteAuthorized, Authorizing
  <2>3. \E f \in Claims : \E st : file' = [file EXCEPT ![f] = st]
    BY <1>4 DEF CreateClaim, Creates, WriteClaim, WriteAuthorized, Claims
  <2>4. StageIntact => StageIntact'
    BY <1>s, <2>3 DEF StageIntact, Claims
  <2> QED BY <2>1, <2>2, <2>4, GotoHeld
<1>5. CASE \/ RecordBaseline(h) \/ WritePartial(h) \/ PublishReceipt(h)
           \/ ClaimRecord(h) \/ PublishRecord(h) \/ RecordAnchor(h)
  <2>1. /\ UNCHANGED <<place, lock>> /\ PacmanKept /\ pc[h] # "pacman"
        /\ \E p \in {"done", "rename", "join", "anchor"} : Goto(h, p)
    BY <1>5
    DEF RecordBaseline, WritePartial, PublishReceipt, ClaimRecord,
        PublishRecord, RecordAnchor, PacmanKept
  <2>2. StageIntact => StageIntact'
    <3>1. CASE PublishReceipt(h)
      BY <3>1, <1>s DEF PublishReceipt, StageIntact
    <3>2. CASE ClaimRecord(h) \/ PublishRecord(h)
      BY <3>2, <1>s DEF ClaimRecord, PublishRecord, Leaf, StageIntact
    <3>3. CASE RecordAnchor(h)
      BY <3>3, <1>s DEF RecordAnchor, AnchorOf, StageIntact
    <3>4. CASE RecordBaseline(h) \/ WritePartial(h)
      BY <3>4, <1>s DEF RecordBaseline, WritePartial, StageIntact
    <3> QED BY <1>5, <3>1, <3>2, <3>3, <3>4
  <2> QED BY <2>1, <2>2, GotoHeld DEF Authorizing
<1>6. CASE PublishRefusal(h) \/ Answer(h) \/ Done(h)
  <2>1. /\ place' = place /\ PacmanKept /\ pc[h] # "pacman"
        /\ Finish(h, "ok") \/ Finish(h, "failed")
    BY <1>6 DEF PublishRefusal, Answer, Done, PacmanKept
  <2>2. StageIntact => StageIntact'
    <3>1. CASE PublishRefusal(h)
      BY <3>1, <1>s DEF PublishRefusal, StageIntact
    <3>2. CASE Answer(h) \/ Done(h)
      BY <3>2 DEF Answer, Done, StageIntact
    <3> QED BY <1>6, <3>1, <3>2
  <2> QED BY <2>1, <2>2, FinishHeld
<1>7. ASSUME NEW g \in Helpers \ {h}, ForkExecute(h, g)
      PROVE  HeldOK'
  <2>1. /\ pc[h] = "fork" /\ pc[g] = "idle"
        /\ pc' = [pc EXCEPT ![h] = "wait", ![g] = "open"]
        /\ UNCHANGED <<place, file, lock>> /\ PacmanKept
    BY <1>7 DEF ForkExecute, PacmanKept
  <2> QED BY <1>s, <2>1, HeldFrame DEF StageIntact, Authorizing
<1>8. ASSUME NEW g \in Helpers \ {h}, WaitExecute(h, g)
      PROVE  HeldOK'
  <2>1. /\ pc[h] = "wait" /\ UNCHANGED <<place, file, lock>> /\ PacmanKept
        /\ \E bys, replies :
             Settle([pc EXCEPT ![h] = "open"], bys, replies)
    BY <1>8 DEF WaitExecute, PacmanKept
  <2>2. \A k \in Helpers :
          /\ pc'[k] \in Ended \cup {"open"} \/ pc'[k] = pc[k]
          /\ pc[k] = "pacman" => pc'[k] = pc[k]
    BY <1>s, <2>1 DEF Settle, Ended
  <2> QED BY <2>1, <2>2, HeldFrame DEF StageIntact, Authorizing, Ended
<1> QED
  BY <1>1, <1>2, <1>3, <1>4, <1>5, <1>6, <1>7, <1>8 DEF HelperStep

LEMMA HelperFaultHeld ==
  ASSUME HeldInv, NEW h \in Helpers, HelperFault(h)
  PROVE  HeldOK'
<1> USE DEF pacmanVars, store
<1>s. DOMAIN pc = Helpers
  BY DEF HeldInv, RunInv, ShapeOK
<1>1. CASE PrepareThrows(h)
  BY <1>1, StageStepHeld
<1>2. CASE PublishedThrows(h) \/ ExecuteThrows(h) \/ ConsumeExactThrows(h)
  <2>1. /\ \E p \in {"open", "refuse", "answer"} : Goto(h, p)
        /\ UNCHANGED <<place, file>> /\ PacmanKept /\ pc[h] # "pacman"
        /\ lock' = lock \/ lock' = [lock EXCEPT ![h] = "none"]
    BY <1>2
    DEF PublishedThrows, ExecuteThrows, ConsumeExactThrows, PacmanKept
  <2> QED BY <2>1, GotoHeld DEF Authorizing, StageIntact
<1>3. CASE Stops(h) \/ LegacyAbortThrows(h)
  <2>1. /\ UNCHANGED <<place, file>> /\ PacmanKept /\ pc[h] # "pacman"
        /\ Finish(h, "ok") \/ Finish(h, "failed")
    BY <1>3 DEF Stops, LegacyAbortThrows, AbortCode, PacmanKept
  <2> QED BY <2>1, FinishHeld DEF StageIntact
<1>4. ASSUME NEW g \in Helpers \ {h}, LosesChild(h, g)
      PROVE  HeldOK'
  <2>1. /\ pc[h] = "wait" /\ UNCHANGED <<place, file, lock>> /\ PacmanKept
        /\ \E bys, replies :
             Settle([pc EXCEPT ![h] = "failed"], bys, replies)
    BY <1>4 DEF LosesChild, PacmanKept
  <2>2. \A k \in Helpers :
          /\ pc'[k] \in Ended \/ pc'[k] = pc[k]
          /\ pc[k] = "pacman" => pc'[k] = pc[k]
    BY <1>s, <2>1 DEF Settle, Ended
  <2> QED BY <2>1, <2>2, HeldFrame DEF StageIntact, Authorizing, Ended
<1> QED BY <1>1, <1>2, <1>3, <1>4 DEF HelperFault

LEMMA ExecHeld ==
  ASSUME HeldInv, NEW h \in Helpers, Exec(h)
  PROVE  HeldOK' /\ PacmanOK'
<1> USE DEF Authorizing, Claiming
<1>1. /\ pc[h] = "exec" /\ pc' = [pc EXCEPT ![h] = "pacman"]
      /\ phase' = "start" /\ slot' = h /\ starts' = starts + 1
      /\ UNCHANGED <<place, file, lock, straggler, hook>>
  BY DEF Exec, Goto, store
<1>2. InUse /\ lock[h] = "sh" /\ starts = 0
  BY <1>1 DEF InUse, HeldInv, RunInv, LocksOK, ClaimOK
<1>3. place = "active" /\ StageIntact /\ \A g \in Helpers : lock[g] # "ex"
  BY <1>2, NoExclusive DEF HeldInv, HeldOK
<1>4. hook = NoHelper
  BY <1>2 DEF HeldInv, PacmanOK, HookPhases
<1>5. pc'[h] = "pacman"
  BY <1>1 DEF HeldInv, RunInv, ShapeOK
<1> QED BY <1>1, <1>2, <1>3, <1>4, <1>5 DEF HeldOK, PacmanOK, StageIntact

LEMMA PacmanStepHeld ==
  ASSUME HeldInv, PacmanStep
  PROVE  HeldOK' /\ PacmanOK'
<1> USE DEF store
<1>s. DOMAIN pc = Helpers /\ DOMAIN lock = Helpers
  BY DEF HeldInv, RunInv, ShapeOK
<1>1. ASSUME NEW h \in Helpers, RunHook(h)
      PROVE  HeldOK' /\ PacmanOK'
  <2>1. /\ \E c, who : Launch(h, c, who)
        /\ phase \in HookPhases
        /\ UNCHANGED <<place, file, phase, slot, straggler, starts>>
    BY <1>1 DEF RunHook
  <2>2. /\ lock' = lock
        /\ \E p \in {"mkdir", "open"} : pc' = [pc EXCEPT ![h] = p]
        /\ pc[h] = "idle"
    BY <2>1 DEF Launch, Goto
  <2>3. HeldOK'
    BY <1>s, <2>1, <2>2, HeldFrame DEF StageIntact, Authorizing, PacmanKept
  <2> QED BY <2>1, <2>3 DEF HeldInv, PacmanOK
<1>2. CASE HookEnds
  <2>1. /\ hook # NoHelper /\ hook' = NoHelper /\ phase' = After(phase)
        /\ \E bys, replies : Settle(pc, bys, replies)
        /\ UNCHANGED <<place, file, lock, slot, straggler, starts>>
    BY <1>2 DEF HookEnds
  <2>2. phase \in HookPhases
    BY <2>1 DEF HeldInv, PacmanOK
  <2>3. phase \in Running /\ phase' \in Running /\ starts # 0
    BY <2>1, <2>2 DEF Running, HookPhases, After, HeldInv, PacmanOK
  <2>4. \A k \in Helpers :
          /\ pc'[k] \in Ended \/ pc'[k] = pc[k]
          /\ pc[k] = "pacman" => pc'[k] = pc[k]
    BY <2>1 DEF Settle, Ended
  <2> QED
    BY <2>1, <2>3, <2>4
    DEF HeldInv, HeldOK, PacmanOK, InUse, StageIntact
<1>3. CASE Advances
  <2>1. /\ phase \in HookPhases \cup {"start", "commit"}
        /\ hook = NoHelper /\ phase' = After(phase)
        /\ UNCHANGED <<place, file, pc, lock, slot, straggler, starts, hook>>
    BY <1>3 DEF Advances, procs
  <2>2. phase \in Running /\ phase' \in Running /\ starts # 0
    BY <2>1 DEF Running, HookPhases, After, HeldInv, PacmanOK
  <2> QED
    BY <2>1, <2>2 DEF HeldInv, HeldOK, PacmanOK, InUse, StageIntact
<1>4. CASE PacmanSucceeds \/ PacmanFails
  <2>1. /\ phase \in Running
        /\ \E rc \in Ended : PacmanEnds(rc)
    BY <1>4 DEF PacmanSucceeds, PacmanFails, Running, Ended
  <2>2. /\ phase' = "ended" /\ hook' = NoHelper
        /\ lock' = [lock EXCEPT ![slot] = "none"]
        /\ UNCHANGED <<place, file, starts>>
        /\ \E bys, replies, rc :
             rc \in Ended /\ Settle([pc EXCEPT ![slot] = rc], bys, replies)
    BY <2>1 DEF PacmanEnds
  <2>3. InUse /\ starts # 0
    BY <2>1 DEF InUse, HeldInv, PacmanOK, Running, HookPhases
  <2>4. place = "active" /\ StageIntact /\ \A g \in Helpers : lock[g] # "ex"
    BY <2>3, NoExclusive DEF HeldInv, HeldOK
  <2>5. \A g \in Helpers : lock'[g] # "ex"
    BY <1>s, <2>2, <2>4
  <2>6. phase' \notin Running
    BY <2>2 DEF Running, HookPhases
  <2> QED
    BY <2>2, <2>3, <2>4, <2>5, <2>6 DEF HeldOK, PacmanOK, StageIntact
<1> QED BY <1>1, <1>2, <1>3, <1>4 DEF PacmanStep

LEMMA PacmanOKKept ==
  ASSUME PacmanOK, UNCHANGED pacmanVars
  PROVE  PacmanOK'
BY DEF PacmanOK, pacmanVars

(* The processes leave pacman's variables alone, but for exec. *)
LEMMA HelpersLeavePacman ==
  ASSUME NEW h \in Helpers, HelperStep(h) \/ HelperFault(h), ~Exec(h)
  PROVE  UNCHANGED pacmanVars
BY DEF HelperStep, MakeStaging, WriteStage, PublishStage, ReproveStage, Open,
   AcquireLease, CheckUnclaimed, CreateClaim, WriteClaim, Reprove,
   WriteAuthorized, PublishRefusal, ReadStatus, Answer, CheckHook, CreateMark,
   WriteMark, RecordBaseline, WritePartial, PublishReceipt, ClaimRecord,
   JoinRecord, PublishRecord, RecordAnchor, Done, ReadForRetirement, Retire,
   CleanStage, CleanClaims, CleanLifetime, ForkExecute, WaitExecute,
   HelperFault, PrepareThrows, PublishedThrows, ExecuteThrows,
   ConsumeExactThrows, Stops, LegacyAbortThrows, LosesChild

LEMMA StoreNextHeld ==
  ASSUME HeldInv, StoreNext
  PROVE  HeldInv'
<1>1. RunInv'
  BY StoreNextKeeps DEF HeldInv
<1>2. ASSUME NEW h \in Helpers, HelperStep(h) \/ HelperFault(h)
      PROVE  HeldOK' /\ PacmanOK'
  BY <1>2, HelperStepHeld, HelperFaultHeld, ExecHeld, HelpersLeavePacman,
     PacmanOKKept DEF HeldInv
<1>3. CASE StragglerEnds
  BY <1>1, <1>3
  DEF StragglerEnds, procs, store, HeldInv, HeldOK, PacmanOK, InUse,
      StageIntact
<1> QED BY <1>1, <1>2, <1>3, PacmanStepHeld DEF StoreNext, HeldInv

(* No abort and no consume retires or removes the staged packages and      *)
(* hooks while pacman or a descendant of it may read them, whatever runs,  *)
(* fails or is killed beside it.                                           *)
THEOREM StageStaysWhileUsed == Spec => []StageHeldWhileUsed
<1>1. Init => HeldInv
  <2>1. Init => HeldOK /\ PacmanOK
    BY DEF Init, HeldOK, PacmanOK, InUse, Running, HookPhases, Authorizing
  <2> QED BY <2>1, InitRuns DEF HeldInv
<1>2. HeldInv /\ [Next]_storeVars => HeldInv'
  <2> SUFFICES ASSUME HeldInv, [Next]_storeVars PROVE HeldInv'
    OBVIOUS
  <2>1. CASE StoreNext
    BY <2>1, StoreNextHeld
  <2>2. ASSUME NEW h \in Helpers, NEW c \in Commands \ HookCommands,
               Invoke(h, c)
        PROVE  HeldInv'
    <3>1. /\ Launch(h, c, "nobody") /\ UNCHANGED <<store, pacmanVars>>
      BY <2>2 DEF Invoke
    <3>2. /\ lock' = lock /\ pc[h] = "idle"
          /\ \E p \in {"mkdir", "open"} : pc' = [pc EXCEPT ![h] = p]
      BY <3>1 DEF Launch, Goto
    <3>3. RunInv'
      BY <3>1, LaunchKeeps DEF HeldInv, store, pacmanVars
    <3>4. HeldOK'
      BY <3>1, <3>2, HeldFrame
      DEF HeldInv, RunInv, ShapeOK, store, pacmanVars, PacmanKept, StageIntact,
          Authorizing
    <3> QED BY <3>1, <3>3, <3>4, PacmanOKKept DEF HeldInv
  <2>3. CASE UNCHANGED storeVars
    <3>1. UNCHANGED <<place, file, pc, lock, cmd, pacmanVars>>
      BY <2>3 DEF storeVars, store, procs
    <3>2. RunInv'
      BY <3>1, StutterKeeps DEF HeldInv, pacmanVars
    <3>3. HeldOK'
      BY <3>1, HeldFrame DEF pacmanVars, PacmanKept, StageIntact
    <3> QED BY <3>1, <3>2, <3>3, PacmanOKKept DEF HeldInv
  <2> QED BY <2>1, <2>2, <2>3 DEF Next
<1>3. HeldInv => StageHeldWhileUsed
  BY DEF HeldInv, HeldOK, InUse, StageHeldWhileUsed
<1> QED BY <1>1, <1>2, <1>3, PTL DEF Spec

-----------------------------------------------------------------------------
(***************************************************************************)
(* What the files of an active transaction say is what happened, and what  *)
(* a process has read of them stays true: EvidenceTruthful, and the facts  *)
(* about answers that the client's report rests on.                        *)
(***************************************************************************)
Recording == {"claim_record", "join", "publish_record", "anchor"}

(* Where a process writes evidence, or is about to. *)
Writing == Recording \cup {"refuse", "mark", "write_mark", "baseline",
                           "partial", "rename", "done"}

Recorders == HookCommands \ {"observe"}

(* Which command a process is, by where it is. *)
Role(h) ==
  /\ pc[h] \in Building \cup {"mkdir", "reproof"} => cmd[h] \in Preparers
  /\ pc[h] \in {"fork", "wait"} => cmd[h] = "install_legacy"
  /\ pc[h] = "answer" => cmd[h] \in {"prepare", "status"} \cup Consumers
  /\ pc[h] \in Claiming \cup {"claim", "refuse", "pacman"} =>
       cmd[h] = "execute"
  /\ pc[h] \in {"mark", "write_mark", "baseline", "done"} =>
       cmd[h] \in HookCommands
  /\ pc[h] \in {"partial", "rename"} => cmd[h] = "record"
  /\ pc[h] \in Recording => cmd[h] \in {"record_install", "record_upgrade"}
  /\ pc[h] \in Retiring => Exclusive(h)
  /\ cmd[h] = "install_legacy" => purpose = "legacy"
  /\ by[h] = "parent" => cmd[h] = "execute"
  /\ by[h] # "nobody" => pc[h] # "idle"

(* A hook is there because pacman ran, a record because it committed, and  *)
(* whoever writes holds the lease.                                         *)
HookOK(h) ==
  /\ cmd[h] \in HookCommands => starts = 1
  /\ cmd[h] \in Recorders => committed
  /\ pc[h] \in Writing => lock[h] = "sh"

(* pacman did not run and never will. *)
Refused ==
  /\ starts = 0
  /\ place = "used" \/ (place = "active" /\ file["refusal"] # "absent")

(* The transaction is retired and nothing of it is left, and nobody is in  *)
(* it any more.                                                            *)
Vanished ==
  /\ place = "used" /\ observed = "absent"
  /\ \A f \in Leaves : file[f] = "absent"
  /\ \A h \in Helpers : lock[h] = "none"

Replies ==
  [authorized : BOOLEAN, refused : BOOLEAN, observed : BOOLEAN,
   receipt : {"missing", "invalid", "complete"},
   pkgs : SUBSET (Packages \cup Extra),
   cleanup : {"done", "retirement", "stage"}, code : {"ok", "failed"}]

(* The packages of a complete receipt. *)
Receivable ==
  IF purpose = "exact" THEN Touched \cap Packages ELSE Targets("install")

(* What a reply says is so. *)
ReplyTrue(r) ==
  /\ r.refused => Refused
  /\ r.observed => starts = 1
  /\ r.receipt = "complete" => committed /\ r.pkgs = Receivable
  /\ r.receipt = "invalid" => purpose = "exact"
  /\ r.code = "ok" => exit = "ok"

(* How a process ended says what happened. *)
EndTrue(h) ==
  /\ pc[h] = "ok" /\ cmd[h] \in {"execute", "install_legacy"} => exit = "ok"
  /\ pc[h] = "ok" /\ cmd[h] = "abort" => Vanished
  /\ /\ pc[h] \in {"answer", "ok"} /\ cmd[h] = "consume_exact"
     /\ reply[h].cleanup = "done"
     => Vanished

Proc(h) == Role(h) /\ HookOK(h) /\ ReplyTrue(reply[h]) /\ EndTrue(h)

ProcOK == \A h \in Helpers : Proc(h)

FormOK ==
  /\ DOMAIN by = Helpers
  /\ reply \in [Helpers -> Replies]
  /\ listed \in [Records \cup {"receipt"} -> SUBSET (Packages \cup Extra)]
  /\ committed \in BOOLEAN
  /\ NoHelper \notin Helpers /\ slot \in Helpers \cup {NoHelper}

(* pacman's own progress. *)
PhaseOK ==
  /\ phase \in {"post_install", "post_upgrade", "end"} => committed
  /\ committed => starts = 1
  /\ exit # "none" => phase = "ended"
  /\ hook # NoHelper => hook \in Helpers /\ by[hook] = "pacman"

Kind(r) == IF r = "upgrade" THEN "upgrade" ELSE "install"

(* Markers and records are written by hooks, of the packages pacman chose. *)
FilesOK ==
  /\ observed # "absent" => starts = 1
  /\ observed = "post" => committed
  /\ \A r \in Records \cup {"receipt"} : file[r] = "whole" =>
       committed /\ listed[r] = Targets(Kind(r))

(* Only the one execute that made the claim refuses, and then it has not   *)
(* become pacman and nobody else can.                                      *)
RefusalOK ==
  /\ place \in {"none", "preparing"} => file["refusal"] = "absent"
  /\ place = "active" =>
       /\ \A h \in Helpers : pc[h] = "refuse" =>
            /\ starts = 0 /\ file["execution"] # "absent"
            /\ \A g \in Helpers : pc[g] \in Claiming \cup {"refuse"} => g = h
       /\ file["refusal"] # "absent" =>
            /\ starts = 0 /\ file["execution"] # "absent"
            /\ \A h \in Helpers : pc[h] \notin Claiming \cup {"refuse"}

(* The claim and the authorization are whole before pacman is executed. *)
ClaimWhole ==
  place = "active" =>
    /\ \A h \in Helpers : pc[h] \in Authorizing => file["execution"] = "whole"
    /\ \A h \in Helpers : pc[h] = "exec" => file["authorized"] = "whole"
    /\ starts = 1 => file["execution"] = "whole" /\ file["authorized"] = "whole"

(* What the exclusive holder has removed stays removed. *)
GoneOK ==
  \A h \in Helpers :
    /\ pc[h] \in {"clean_claims", "clean_lifetime"} =>
         \A f \in Staged : file[f] = "absent"
    /\ pc[h] = "clean_lifetime" =>
         observed = "absent" /\ \A f \in Claims : file[f] = "absent"

EvidenceInv ==
  HeldInv /\ FormOK /\ ProcOK /\ PhaseOK /\ FilesOK /\ RefusalOK /\ ClaimWhole
    /\ GoneOK

-----------------------------------------------------------------------------
(* The shape of a step.  A process it is not about stays as it is, or has  *)
(* ended and its slot is freed.                                            *)

Same(g) ==
  /\ pc'[g] = pc[g] /\ cmd'[g] = cmd[g] /\ lock'[g] = lock[g]
  /\ by'[g] = by[g] /\ reply'[g] = reply[g]

Freed(g) ==
  /\ pc'[g] = "idle" /\ cmd'[g] = "abort" /\ by'[g] = "nobody"
  /\ reply'[g] = NoReply /\ lock'[g] \in {lock[g], "none"}

Ends(h, rc) ==
  /\ pc'[h] = rc /\ cmd'[h] = cmd[h] /\ by'[h] = by[h]
  /\ reply'[h] = reply[h] /\ lock'[h] = "none"

Domains ==
  /\ DOMAIN pc = Helpers /\ DOMAIN cmd = Helpers /\ DOMAIN lock = Helpers
  /\ DOMAIN by = Helpers /\ DOMAIN reply = Helpers /\ DOMAIN file = Leaves
  /\ DOMAIN listed = Records \cup {"receipt"}

LEMMA HaveDomains ==
  ASSUME EvidenceInv
  PROVE  Domains
BY DEF EvidenceInv, HeldInv, RunInv, ShapeOK, FormOK, Domains

LEMMA NoReplyIsReply == NoReply \in Replies
BY DEF NoReply, Replies

LEMMA SettleShape ==
  ASSUME NEW pcs, NEW bys, NEW replies, Settle(pcs, bys, replies)
  PROVE  /\ by' = bys
         /\ DOMAIN reply' = Helpers
         /\ \A g \in Helpers :
              \/ /\ pc'[g] = pcs[g] /\ cmd'[g] = cmd[g]
                 /\ by'[g] = bys[g] /\ reply'[g] = replies[g]
              \/ /\ pc'[g] = "idle" /\ cmd'[g] = "abort"
                 /\ by'[g] = "nobody" /\ reply'[g] = NoReply
                 /\ bys[g] = "nobody" /\ pcs[g] \in Ended
BY DEF Settle

LEMMA FinishShape ==
  ASSUME Domains, NEW h \in Helpers, NEW rc, Finish(h, rc)
  PROVE  /\ by' = by /\ DOMAIN reply' = Helpers
         /\ \A g \in Helpers : g # h => Same(g) \/ Freed(g)
         /\ Ends(h, rc) \/ Freed(h)
<1> DEFINE pcs == [pc EXCEPT ![h] = rc]
<1>1. Settle(pcs, by, reply) /\ lock' = [lock EXCEPT ![h] = "none"]
  BY DEF Finish
<1>2. \A g \in Helpers :
        /\ lock'[g] = IF g = h THEN "none" ELSE lock[g]
        /\ pcs[g] = IF g = h THEN rc ELSE pc[g]
  BY <1>1 DEF Domains
<1> HIDE DEF pcs
<1>3. /\ by' = by /\ DOMAIN reply' = Helpers
      /\ \A g \in Helpers :
           \/ /\ pc'[g] = pcs[g] /\ cmd'[g] = cmd[g]
              /\ by'[g] = by[g] /\ reply'[g] = reply[g]
           \/ /\ pc'[g] = "idle" /\ cmd'[g] = "abort"
              /\ by'[g] = "nobody" /\ reply'[g] = NoReply
  BY <1>1, SettleShape
<1> QED BY <1>2, <1>3 DEF Same, Freed, Ends

(* One process goes on. *)
Changes(old, new, h) == new = old \/ \E v : new = [old EXCEPT ![h] = v]

LEMMA MoveShape ==
  ASSUME Domains, NEW h \in Helpers, NEW p, Goto(h, p), UNCHANGED <<cmd, by>>,
         Changes(lock, lock', h), Changes(reply, reply', h)
  PROVE  /\ DOMAIN reply' = Helpers
         /\ pc'[h] = p /\ cmd'[h] = cmd[h] /\ by'[h] = by[h]
         /\ \A g \in Helpers : g # h => Same(g)
BY DEF Domains, Goto, Changes, Same

-----------------------------------------------------------------------------
(* What has come about stays. *)

Forward ==
  /\ purpose' = purpose
  /\ starts = 1 => starts' = 1 /\ op' = op
  /\ committed => committed'
  /\ exit = "ok" => exit' = "ok"
  /\ Refused => Refused'
  /\ Vanished => Vanished'

LEMMA ReplyFrame ==
  ASSUME EvidenceInv, Forward, NEW r, ReplyTrue(r)
  PROVE  ReplyTrue(r)'
<1>1. r.receipt = "complete" => committed' /\ r.pkgs = Receivable'
  <2>1. committed => starts = 1
    BY DEF EvidenceInv, PhaseOK
  <2>2. r.receipt = "complete" => op' = op /\ purpose' = purpose /\ committed'
    BY <2>1 DEF Forward, ReplyTrue
  <2> QED BY <2>2 DEF ReplyTrue, Receivable, Touched, Targets
<1> QED BY <1>1 DEF ReplyTrue, Forward

LEMMA NoReplyTrue == ReplyTrue(NoReply)
BY DEF ReplyTrue, NoReply

(* A process that stays keeps what is known of it. *)
LEMMA ProcFrame ==
  ASSUME EvidenceInv, Forward, NEW g \in Helpers, Same(g) \/ Freed(g)
  PROVE  Proc(g)'
<1>0. Proc(g)
  BY DEF EvidenceInv, ProcOK
<1>1. CASE Freed(g)
  <2> USE <1>1 DEF Freed
  <2>1. Role(g)'
    BY DEF Role, Building, Claiming, Authorizing, Recording, Retiring,
       Cleaning, Exclusive
  <2>2. HookOK(g)' /\ EndTrue(g)'
    BY DEF HookOK, EndTrue, HookCommands, Recorders, Writing, Recording
  <2>3. ReplyTrue(reply[g])'
    <3>1. ReplyTrue(NoReply)'
      BY NoReplyTrue, ReplyFrame
    <3> QED BY <3>1 DEF ReplyTrue, NoReply
  <2> QED BY <2>1, <2>2, <2>3 DEF Proc
<1>2. CASE Same(g)
  <2> USE <1>2 DEF Same
  <2>1. Role(g)'
    BY <1>0 DEF Proc, Role, Exclusive, Forward
  <2>2. HookOK(g)' /\ EndTrue(g)'
    BY <1>0 DEF Proc, HookOK, EndTrue, Forward
  <2>3. ReplyTrue(reply[g])'
    <3>1. PICK r : r = reply[g]
      OBVIOUS
    <3>2. ReplyTrue(r)'
      BY <1>0, <3>1, ReplyFrame DEF Proc
    <3> QED BY <3>1, <3>2 DEF ReplyTrue
  <2> QED BY <2>1, <2>2, <2>3 DEF Proc
<1> QED BY <1>1, <1>2

-----------------------------------------------------------------------------
(* Whoever holds no lock writes nothing once the stage is published. *)
LEMMA Lockless ==
  ASSUME EvidenceInv, NEW h \in Helpers, HelperStep(h) \/ HelperFault(h),
         lock[h] = "none", place \notin {"none", "preparing"}
  PROVE  /\ UNCHANGED store
         /\ AcquireLease(h) \/ \A g \in Helpers : lock'[g] \in {lock[g], "none"}
<1> USE DEF Building, Retiring, Cleaning, Claiming, Authorizing, Writing,
            Recording
<1>1. pc[h] \notin Building \cup Retiring \cup Claiming \cup Writing
                     \cup {"read", "claim"}
  BY DEF EvidenceInv, HeldInv, RunInv, LocksOK, UnpublishedOK, ProcOK, Proc,
     HookOK
<1>2. Domains
  BY HaveDomains
<1>3. CASE HelperStep(h)
  <2>1. \/ ReproveStage(h) \/ Open(h) \/ AcquireLease(h) \/ Answer(h)
        \/ \E g \in Helpers \ {h} : ForkExecute(h, g) \/ WaitExecute(h, g)
    BY <1>1, <1>3
    DEF HelperStep, MakeStaging, WriteStage, PublishStage, CheckUnclaimed,
        CreateClaim, Creates, WriteClaim, Reprove, WriteAuthorized, Exec,
        PublishRefusal, ReadStatus, CheckHook, CreateMark, WriteMark,
        RecordBaseline, WritePartial, PublishReceipt, ClaimRecord, JoinRecord,
        PublishRecord, RecordAnchor, Done, ReadForRetirement, Retire,
        CleanStage, CleanClaims, CleanLifetime
  <2> QED
    BY <1>2, <2>1
    DEF ReproveStage, Open, AcquireLease, Answer, ForkExecute, WaitExecute,
        Finish, store, Domains
<1>4. CASE HelperFault(h)
  <2>1. \/ PublishedThrows(h) \/ Stops(h) \/ LegacyAbortThrows(h)
        \/ \E g \in Helpers \ {h} : LosesChild(h, g)
    BY <1>1, <1>4
    DEF HelperFault, PrepareThrows, ExecuteThrows, ConsumeExactThrows
  <2> QED
    BY <1>2, <2>1
    DEF PublishedThrows, Stops, LegacyAbortThrows, LosesChild, Finish, store,
        Domains
<1> QED BY <1>3, <1>4

(* The claims of an active transaction stay, and it ends by retirement. *)
LEMMA ClaimsStay ==
  ASSUME EvidenceInv, NEW h \in Helpers, HelperStep(h) \/ HelperFault(h)
  PROVE  /\ place = "used" => place' = "used"
         /\ place = "active" =>
              /\ place' \in {"active", "used"}
              /\ \A f \in Claims :
                   /\ file[f] # "absent" => file'[f] # "absent"
                   /\ file[f] = "whole" => file'[f] = "whole"
<1>d. Domains
  BY HaveDomains
<1>1. /\ pc[h] \in Building => place = "preparing"
      /\ pc[h] \in Cleaning => place = "used"
  BY DEF EvidenceInv, HeldInv, RunInv, UnpublishedOK, ClaimOK
<1>2. CASE \/ MakeStaging(h) \/ WriteStage(h) \/ PublishStage(h)
           \/ PrepareThrows(h) \/ Retire(h) \/ CleanStage(h)
           \/ CleanClaims(h) \/ CleanLifetime(h)
  BY <1>1, <1>2
  DEF MakeStaging, WriteStage, PublishStage, PrepareThrows, Retire, CleanStage,
      CleanClaims, CleanLifetime, Building, Cleaning
<1>3. CASE \/ CreateClaim(h) \/ WriteClaim(h) \/ WriteAuthorized(h)
           \/ PublishRefusal(h)
  BY <1>d, <1>3
  DEF CreateClaim, Creates, WriteClaim, WriteAuthorized, PublishRefusal,
      Domains, Leaves, Claims
<1>4. CASE \/ RecordBaseline(h) \/ WritePartial(h) \/ PublishReceipt(h)
           \/ ClaimRecord(h) \/ PublishRecord(h) \/ RecordAnchor(h)
  BY <1>d, <1>4
  DEF RecordBaseline, WritePartial, PublishReceipt, ClaimRecord, PublishRecord,
      RecordAnchor, Leaf, AnchorOf, Domains, Leaves, Claims
<1>5. CASE UNCHANGED <<place, file>>
  BY <1>5
<1> QED
  BY <1>2, <1>3, <1>4, <1>5
  DEF HelperStep, ReproveStage, Open, AcquireLease, CheckUnclaimed, Reprove,
      Exec, ReadStatus, Answer, CheckHook, CreateMark, WriteMark, JoinRecord,
      Done, ReadForRetirement, ForkExecute, WaitExecute, HelperFault,
      PublishedThrows, ExecuteThrows, ConsumeExactThrows, Stops,
      LegacyAbortThrows, LosesChild, store

LEMMA PurposeKept ==
  ASSUME NEW h \in Helpers, HelperStep(h) \/ HelperFault(h)
  PROVE  purpose' = purpose
BY DEF HelperStep, MakeStaging, WriteStage, PublishStage, ReproveStage, Open,
   AcquireLease, CheckUnclaimed, CreateClaim, WriteClaim, Reprove, Exec,
   WriteAuthorized, PublishRefusal, ReadStatus, Answer, CheckHook, CreateMark,
   WriteMark, RecordBaseline, WritePartial, PublishReceipt, ClaimRecord,
   JoinRecord, PublishRecord, RecordAnchor, Done, ReadForRetirement, Retire,
   CleanStage, CleanClaims, CleanLifetime, ForkExecute, WaitExecute,
   HelperFault, PrepareThrows, PublishedThrows, ExecuteThrows,
   ConsumeExactThrows, Stops, LegacyAbortThrows, LosesChild

LEMMA HelperForward ==
  ASSUME EvidenceInv, NEW h \in Helpers, HelperStep(h) \/ HelperFault(h)
  PROVE  Forward
<1>1. purpose' = purpose
  BY PurposeKept
<1>2. CASE Exec(h)
  <2>1. /\ pc[h] \in Claiming /\ place = "active"
        /\ UNCHANGED <<place, file, committed, exit>>
    BY <1>2
    DEF Exec, Claiming, Authorizing, EvidenceInv, HeldInv, RunInv, ClaimOK,
        store
  <2>2. starts = 0 /\ file["refusal"] = "absent"
    BY <2>1 DEF EvidenceInv, HeldInv, RunInv, ClaimOK, RefusalOK
  <2> QED BY <1>1, <2>1, <2>2 DEF Forward, Refused, Vanished
<1>3. CASE ~Exec(h)
  <2>1. UNCHANGED pacmanVars
    BY <1>3, HelpersLeavePacman
  <2>2. Refused => Refused'
    BY <2>1, ClaimsStay DEF Refused, pacmanVars, Claims
  <2>3. ASSUME Vanished PROVE Vanished'
    <3>1. ~AcquireLease(h)
      BY <2>3 DEF Vanished, AcquireLease, LeaseGrantable, Leaves
    <3>2. UNCHANGED store /\ \A g \in Helpers : lock'[g] = "none"
      BY <2>3, <3>1, Lockless DEF Vanished
    <3> QED BY <2>3, <3>2 DEF Vanished, store
  <2> QED BY <1>1, <2>1, <2>2, <2>3 DEF Forward, pacmanVars
<1> QED BY <1>2, <1>3

-----------------------------------------------------------------------------
(* The files: frames for the steps that leave them, or some, alone. *)

LEMMA ClaimFrame ==
  ASSUME EvidenceInv, place' = place, starts' = starts,
         \A f \in Claims : file'[f] = file[f],
         \A h \in Helpers :
           /\ pc'[h] \in Claiming => pc[h] \in Claiming
           /\ pc'[h] = "refuse" => pc[h] \in Claiming \cup {"refuse"}
           /\ pc'[h] \in Authorizing =>
                pc[h] \in Authorizing \/ file["execution"] = "whole"
           /\ pc'[h] = "exec" => pc[h] = "exec"
  PROVE  RefusalOK' /\ ClaimWhole'
<1>1. \A f \in {"execution", "authorized", "refusal"} : file'[f] = file[f]
  BY DEF Claims
<1>2. ASSUME place = "active", NEW h \in Helpers,
             pc[h] \in Claiming \cup {"refuse"}
      PROVE  /\ starts = 0 /\ file["execution"] # "absent"
             /\ file["refusal"] = "absent"
             /\ \A g \in Helpers : pc[g] \in Claiming \cup {"refuse"} => g = h
  BY <1>2 DEF EvidenceInv, HeldInv, RunInv, ClaimOK, RefusalOK
<1>3. RefusalOK'
  <2>1. place' \in {"none", "preparing"} => file'["refusal"] = "absent"
    BY <1>1 DEF EvidenceInv, RefusalOK
  <2>2. ASSUME place' = "active", NEW h \in Helpers, pc'[h] = "refuse"
        PROVE  /\ starts' = 0 /\ file'["execution"] # "absent"
               /\ \A g \in Helpers :
                    pc'[g] \in Claiming \cup {"refuse"} => g = h
    BY <1>1, <1>2, <2>2
  <2>3. ASSUME place' = "active", file'["refusal"] # "absent"
        PROVE  /\ starts' = 0 /\ file'["execution"] # "absent"
               /\ \A h \in Helpers : pc'[h] \notin Claiming \cup {"refuse"}
    BY <1>1, <1>2, <2>3 DEF EvidenceInv, RefusalOK
  <2> QED BY <2>1, <2>2, <2>3 DEF RefusalOK
<1>4. ClaimWhole'
  BY <1>1 DEF EvidenceInv, ClaimWhole
<1> QED BY <1>3, <1>4

LEMMA FilesFrame ==
  ASSUME EvidenceInv, Forward, observed' \in {observed, "absent"},
         \A r \in Records \cup {"receipt"} :
           \/ file'[r] # "whole"
           \/ file'[r] = file[r] /\ listed'[r] = listed[r]
  PROVE  FilesOK'
<1>1. committed => starts = 1
  BY DEF EvidenceInv, PhaseOK
<1>2. /\ observed' # "absent" => starts' = 1
      /\ observed' = "post" => committed'
  BY DEF EvidenceInv, FilesOK, Forward
<1>3. ASSUME NEW r \in Records \cup {"receipt"}, file'[r] = "whole"
      PROVE  committed' /\ listed'[r] = Targets(Kind(r))'
  <2>1. committed /\ listed'[r] = Targets(Kind(r))
    BY <1>3 DEF EvidenceInv, FilesOK
  <2>2. op' = op /\ committed'
    BY <1>1, <2>1 DEF Forward
  <2> QED BY <2>1, <2>2 DEF Targets, Kind
<1> QED BY <1>2, <1>3 DEF FilesOK

(* Nobody cleans next to a process that holds the shared lock. *)
LEMMA NobodyCleans ==
  ASSUME EvidenceInv, NEW h \in Helpers, lock[h] = "sh"
  PROVE  \A g \in Helpers : pc[g] \notin Retiring
BY DEF EvidenceInv, HeldInv, RunInv, LocksOK

LEMMA GoneFrame ==
  ASSUME EvidenceInv,
         \A g \in Helpers : pc'[g] \in {"clean_claims", "clean_lifetime"} =>
                              pc'[g] = pc[g],
         \/ UNCHANGED <<file, observed>>
         \/ \A g \in Helpers : pc[g] \notin Retiring
  PROVE  GoneOK'
BY DEF EvidenceInv, GoneOK, Retiring, Cleaning

(* The pc of the other processes. *)
LEMMA OthersStay ==
  ASSUME Domains, NEW h \in Helpers, HelperStep(h) \/ HelperFault(h)
  PROVE  \A g \in Helpers : g # h =>
            pc'[g] = pc[g] \/ pc'[g] \in Ended \cup {"open"}
<1>1. CASE \E p : Goto(h, p)
  BY <1>1 DEF Domains, Goto
<1>2. CASE \E rc : Finish(h, rc)
  BY <1>2, FinishShape DEF Same, Freed, Ended
<1>3. ASSUME NEW k \in Helpers \ {h}, ForkExecute(h, k)
      PROVE  \A g \in Helpers : g # h => pc'[g] = pc[g] \/ pc'[g] = "open"
  BY <1>3 DEF Domains, ForkExecute
<1>4. ASSUME NEW k \in Helpers \ {h}, WaitExecute(h, k) \/ LosesChild(h, k)
      PROVE  \A g \in Helpers : g # h => pc'[g] = pc[g] \/ pc'[g] = "idle"
  <2>1. PICK p, bys, replies : Settle([pc EXCEPT ![h] = p], bys, replies)
    BY <1>4 DEF WaitExecute, LosesChild
  <2> DEFINE pcs == [pc EXCEPT ![h] = p]
  <2>2. /\ Settle(pcs, bys, replies)
        /\ \A g \in Helpers : g # h => pcs[g] = pc[g]
    BY <2>1 DEF Domains
  <2> HIDE DEF pcs
  <2>3. \A g \in Helpers : pc'[g] = pcs[g] \/ pc'[g] = "idle"
    BY <2>2, SettleShape
  <2> QED BY <2>2, <2>3
<1> QED
  BY <1>1, <1>2, <1>3, <1>4
  DEF Ended, HelperStep, MakeStaging, WriteStage, PublishStage, ReproveStage,
      Open, AcquireLease, CheckUnclaimed, CreateClaim, WriteClaim, Reprove,
      Exec, WriteAuthorized, PublishRefusal, ReadStatus, Answer, CheckHook,
      CreateMark, WriteMark, RecordBaseline, WritePartial, PublishReceipt,
      ClaimRecord, JoinRecord, PublishRecord, RecordAnchor, Done,
      ReadForRetirement, Retire, CleanStage, CleanClaims, CleanLifetime,
      HelperFault, PrepareThrows, PublishedThrows, ExecuteThrows,
      ConsumeExactThrows, Stops, LegacyAbortThrows

FilesKept == FilesOK' /\ RefusalOK' /\ ClaimWhole' /\ GoneOK'

(* A step that leaves the files alone. *)
LEMMA StillKeeps ==
  ASSUME EvidenceInv, Forward, UNCHANGED store, starts' = starts,
         \A h \in Helpers :
           /\ pc'[h] \in Claiming => pc[h] \in Claiming
           /\ pc'[h] = "refuse" => pc[h] \in Claiming \cup {"refuse"}
           /\ pc'[h] \in Authorizing =>
                pc[h] \in Authorizing \/ file["execution"] = "whole"
           /\ pc'[h] = "exec" => pc[h] = "exec"
           /\ pc'[h] \in {"clean_claims", "clean_lifetime"} => pc'[h] = pc[h]
  PROVE  FilesKept
<1>1. UNCHANGED <<place, file, observed, listed>>
  BY DEF store
<1>2. RefusalOK' /\ ClaimWhole'
  BY <1>1, ClaimFrame
<1>3. GoneOK'
  BY <1>1, GoneFrame
<1>4. FilesOK'
  BY <1>1, FilesFrame
<1> QED BY <1>2, <1>3, <1>4 DEF FilesKept

(* The steps that write nothing. *)
LEMMA StillSteps ==
  ASSUME EvidenceInv, NEW h \in Helpers,
         \/ ReproveStage(h) \/ Open(h) \/ AcquireLease(h)
         \/ CheckUnclaimed(h) \/ Reprove(h) \/ ReadStatus(h) \/ Answer(h)
         \/ CheckHook(h) \/ JoinRecord(h) \/ Done(h) \/ ReadForRetirement(h)
         \/ PublishedThrows(h) \/ ExecuteThrows(h) \/ ConsumeExactThrows(h)
         \/ Stops(h) \/ LegacyAbortThrows(h)
         \/ \E g \in Helpers \ {h} :
              ForkExecute(h, g) \/ WaitExecute(h, g) \/ LosesChild(h, g)
  PROVE  FilesKept
<1>d. Domains
  BY HaveDomains
<1>1. HelperStep(h) \/ HelperFault(h)
  BY DEF HelperStep, HelperFault
<1>2. /\ UNCHANGED store /\ starts' = starts
  BY DEF ReproveStage, Open, AcquireLease, CheckUnclaimed, Reprove, ReadStatus,
     Answer, CheckHook, JoinRecord, Done, ReadForRetirement, PublishedThrows,
     ExecuteThrows, ConsumeExactThrows, Stops, LegacyAbortThrows, ForkExecute,
     WaitExecute, LosesChild, pacmanVars
<1>3. \/ pc'[h] = "authorize" /\ pc[h] = "reprove"
         /\ file["execution"] = "whole"
      \/ pc'[h] = "refuse" /\ pc[h] \in Claiming
      \/ pc'[h] \notin Claiming \cup Cleaning \cup {"refuse"}
  <2> USE DEF Claiming, Authorizing, Cleaning, Ended
  <2>1. CASE Reprove(h) \/ ExecuteThrows(h)
    BY <1>d, <2>1 DEF Reprove, FinalReproof, ExecuteThrows, Goto, Domains
  <2>2. CASE \/ Answer(h) \/ Done(h) \/ Stops(h) \/ LegacyAbortThrows(h)
    <3>1. Finish(h, "ok") \/ Finish(h, "failed")
      BY <2>2 DEF Answer, Done, Stops, LegacyAbortThrows, AbortCode
    <3>2. pc'[h] \in Ended
      BY <1>d, <3>1, FinishShape DEF Ends, Freed
    <3> QED BY <3>2
  <2>3. CASE \/ ReproveStage(h) \/ Open(h) \/ AcquireLease(h)
             \/ CheckUnclaimed(h) \/ ReadStatus(h) \/ CheckHook(h)
             \/ JoinRecord(h) \/ ReadForRetirement(h) \/ PublishedThrows(h)
             \/ ConsumeExactThrows(h)
    BY <1>d, <2>3
    DEF ReproveStage, Open, AcquireLease, CheckUnclaimed, ReadStatus,
        CheckHook, JoinRecord, ReadForRetirement, PublishedThrows,
        ConsumeExactThrows, Goto, Domains
  <2>4. ASSUME NEW g \in Helpers \ {h},
               ForkExecute(h, g) \/ WaitExecute(h, g) \/ LosesChild(h, g)
        PROVE  pc'[h] \in Ended \cup {"open", "wait"}
    BY <1>d, <2>4 DEF ForkExecute, WaitExecute, LosesChild, Settle, Domains
  <2> QED BY <2>1, <2>2, <2>3, <2>4
<1>4. \A g \in Helpers : g # h =>
         pc'[g] = pc[g] \/ pc'[g] \in Ended \cup {"open"}
  BY <1>d, <1>1, OthersStay
<1> QED
  BY <1>1, <1>2, <1>3, <1>4, HelperForward, StillKeeps
  DEF Claiming, Authorizing, Cleaning, Ended

(* The steps of the hooks. *)
LEMMA HookSteps ==
  ASSUME EvidenceInv, NEW h \in Helpers,
         \/ CreateMark(h) \/ WriteMark(h) \/ RecordBaseline(h)
         \/ WritePartial(h) \/ PublishReceipt(h) \/ ClaimRecord(h)
         \/ PublishRecord(h) \/ RecordAnchor(h)
  PROVE  FilesKept
<1>d. Domains
  BY HaveDomains
<1>1. HelperStep(h)
  BY DEF HelperStep
<1>2. Forward
  BY <1>1, HelperForward
<1>3. pc[h] \in Writing /\ UNCHANGED <<place, starts, committed, op>>
  BY DEF CreateMark, WriteMark, RecordBaseline, WritePartial, PublishReceipt,
     ClaimRecord, PublishRecord, RecordAnchor, pacmanVars, Writing, Recording
<1>4. Role(h) /\ HookOK(h)
  BY DEF EvidenceInv, ProcOK, Proc
<1>5. pc'[h] \notin Claiming \cup Cleaning \cup {"refuse"}
  BY <1>d
  DEF CreateMark, WriteMark, AfterMark, RecordBaseline, WritePartial,
      PublishReceipt, ClaimRecord, PublishRecord, RecordAnchor, Goto, Domains,
      Claiming, Authorizing, Cleaning
<1>6. \A g \in Helpers : g # h =>
         pc'[g] = pc[g] \/ pc'[g] \in Ended \cup {"open"}
  BY <1>d, <1>1, OthersStay
<1>7. \A f \in Claims : file'[f] = file[f]
  <2>0. Claims \subseteq DOMAIN file
    BY <1>d DEF Domains, Leaves
  <2>1. CASE CreateMark(h) \/ WriteMark(h)
    BY <2>1 DEF CreateMark, WriteMark
  <2>2. CASE RecordBaseline(h) \/ WritePartial(h) \/ PublishReceipt(h)
    BY <2>0, <2>2
    DEF RecordBaseline, WritePartial, PublishReceipt, Claims
  <2>3. CASE ClaimRecord(h) \/ PublishRecord(h)
    <3>1. PICK st : file' = [file EXCEPT ![Leaf(h)] = st]
      BY <2>3 DEF ClaimRecord, PublishRecord
    <3>2. Leaf(h) \notin Claims
      BY DEF Leaf, Claims
    <3> QED BY <2>0, <3>1, <3>2
  <2>4. CASE RecordAnchor(h)
    BY <2>0, <2>4 DEF RecordAnchor, AnchorOf, Claims
  <2> QED BY <2>1, <2>2, <2>3, <2>4
<1>8. RefusalOK' /\ ClaimWhole'
  BY <1>3, <1>5, <1>6, <1>7, ClaimFrame DEF Claiming, Authorizing, Ended
<1>9. GoneOK'
  <2>1. \A g \in Helpers : pc[g] \notin Retiring
    BY <1>3, <1>4, NobodyCleans DEF HookOK
  <2> QED BY <1>5, <1>6, <2>1, GoneFrame DEF Cleaning, Ended
<1>10. FilesOK'
  <2>0. Records \cup {"receipt"} \subseteq Leaves
    BY DEF Records, Leaves, Staged
  <2>2. CASE CreateMark(h)
    <3>1. starts = 1
      BY <1>4, <2>2 DEF CreateMark, Role, HookOK
    <3> QED
      BY <1>3, <2>2, <3>1
      DEF CreateMark, EvidenceInv, FilesOK, Targets
  <2>3. CASE WriteMark(h)
    <3>1. starts = 1 /\ (observed' = "post" => committed)
      BY <1>4, <2>3
      DEF WriteMark, Role, HookOK, Recorders, HookCommands
    <3> QED
      BY <1>3, <2>3, <3>1
      DEF WriteMark, EvidenceInv, FilesOK, Targets
  <2>4. CASE RecordBaseline(h) \/ WritePartial(h) \/ RecordAnchor(h)
    <3>1. /\ \E f \in {"baseline", "partial", "install_anchor", "upgrade_anchor"} :
               \E st : file' = [file EXCEPT ![f] = st]
          /\ UNCHANGED <<observed, listed>>
      BY <2>4 DEF RecordBaseline, WritePartial, RecordAnchor, AnchorOf
    <3>2. \A r \in Records \cup {"receipt"} : file'[r] = file[r]
      BY <1>d, <2>0, <3>1 DEF Domains, Records
    <3> QED BY <1>2, <3>1, <3>2, FilesFrame
  <2>5. CASE ClaimRecord(h)
    <3>1. /\ file' = [file EXCEPT ![Leaf(h)] = "torn"]
          /\ UNCHANGED <<observed, listed>>
      BY <2>5 DEF ClaimRecord
    <3>2. \A r \in Records \cup {"receipt"} :
            file'[r] = IF r = Leaf(h) THEN "torn" ELSE file[r]
      BY <1>d, <2>0, <3>1 DEF Domains
    <3> QED BY <1>2, <3>1, <3>2, FilesFrame
  <2>6. CASE PublishReceipt(h)
    <3>1. cmd[h] = "record" /\ committed
      BY <1>4, <2>6
      DEF PublishReceipt, Role, HookOK, Recorders, HookCommands
    <3>2. /\ observed' = observed /\ listed'["receipt"] = Targets("install")
          /\ \A r \in Records : file'[r] = file[r] /\ listed'[r] = listed[r]
      <4>1. /\ observed' = observed
            /\ file' = [file EXCEPT !["partial"] = "absent",
                                    !["receipt"] = "whole"]
            /\ listed' = [listed EXCEPT !["receipt"] = Targets("install")]
        BY <2>6, <3>1 DEF PublishReceipt, Given
      <4> QED BY <1>d, <2>0, <4>1 DEF Domains, Records
    <3> QED
      BY <1>3, <3>1, <3>2 DEF EvidenceInv, FilesOK, Targets, Kind
  <2>7. CASE PublishRecord(h)
    <3>1. cmd[h] \in {"record_install", "record_upgrade"} /\ committed
      BY <1>4, <2>7
      DEF PublishRecord, Role, HookOK, Recorders, HookCommands, Recording
    <3>2. /\ observed' = observed
          /\ Leaf(h) \in Records /\ Given(h) = Targets(Kind(Leaf(h)))
          /\ \A r \in Records \cup {"receipt"} :
               IF r = Leaf(h) THEN listed'[r] = Given(h)
               ELSE file'[r] = file[r] /\ listed'[r] = listed[r]
      <4>1. /\ Leaf(h) \in Records /\ observed' = observed
            /\ file' = [file EXCEPT ![Leaf(h)] = "whole"]
            /\ listed' = [listed EXCEPT ![Leaf(h)] = Given(h)]
        BY <2>7 DEF PublishRecord, Leaf, Records
      <4>2. Given(h) = Targets(Kind(Leaf(h)))
        BY <3>1 DEF Given, Leaf, Kind
      <4> QED BY <1>d, <2>0, <4>1, <4>2 DEF Domains
    <3>3. \A r \in Records \cup {"receipt"} :
            Targets(Kind(r))' = Targets(Kind(r))
      BY <1>3 DEF Targets, Kind
    <3> QED
      BY <1>3, <3>1, <3>2, <3>3 DEF EvidenceInv, FilesOK
  <2> QED BY <2>2, <2>3, <2>4, <2>5, <2>6, <2>7
<1> QED BY <1>8, <1>9, <1>10 DEF FilesKept

(* The steps of execute. *)
LEMMA ClaimSteps ==
  ASSUME EvidenceInv, NEW h \in Helpers,
         \/ CreateClaim(h) \/ WriteClaim(h) \/ WriteAuthorized(h)
         \/ PublishRefusal(h)
  PROVE  FilesKept
<1> USE DEF Claiming, Authorizing
<1>d. Domains /\ Claims \subseteq Leaves
  BY HaveDomains DEF Leaves
<1>1. HelperStep(h)
  BY DEF HelperStep
<1>2. Forward
  BY <1>1, HelperForward
<1>3. /\ pc[h] \in Claiming \cup {"claim", "refuse"}
      /\ UNCHANGED <<place, starts, observed, listed>>
  BY DEF CreateClaim, Creates, WriteClaim, WriteAuthorized, PublishRefusal,
     pacmanVars
<1>4. PICK f \in Claims, st \in {"torn", "whole"} :
        file' = [file EXCEPT ![f] = st] \/ file' = file
  BY DEF CreateClaim, Creates, WriteClaim, WriteAuthorized, PublishRefusal,
     Claims
<1>5. \A g \in Helpers : g # h =>
         pc'[g] = pc[g] \/ pc'[g] \in Ended \cup {"open"}
  BY <1>d, <1>1, OthersStay
<1>6. FilesOK'
  <2>1. \A r \in Records \cup {"receipt"} : file'[r] = file[r]
    BY <1>d, <1>4 DEF Domains, Records, Claims, Leaves, Staged
  <2> QED BY <1>2, <1>3, <2>1, FilesFrame
<1>7. pc'[h] \in {"write_claim", "write_authorized", "reprove", "exec"}
                   \cup Ended
  <2>1. CASE PublishRefusal(h)
    BY <1>d, <2>1, FinishShape DEF PublishRefusal, Ends, Freed, Ended
  <2> QED
    BY <1>d, <2>1
    DEF CreateClaim, WriteClaim, WriteAuthorized, Goto, Domains
<1>8. GoneOK'
  <2>1. lock[h] = "sh"
    BY <1>3 DEF EvidenceInv, HeldInv, RunInv, LocksOK, ProcOK, Proc, HookOK,
       Writing
  <2>2. \A g \in Helpers : pc[g] \notin Retiring
    BY <2>1, NobodyCleans
  <2> QED BY <1>5, <1>7, <2>2, GoneFrame DEF Ended
<1>9. place \notin {"none", "preparing"}
  BY <1>3 DEF EvidenceInv, HeldInv, RunInv, UnpublishedOK, Early, Building,
     Ended
<1>10. CASE place # "active"
  BY <1>3, <1>6, <1>8, <1>9, <1>10 DEF FilesKept, RefusalOK, ClaimWhole
<1>11. CASE place = "active"
  <2>1. ASSUME pc[h] # "claim"
        PROVE  /\ starts = 0 /\ file["execution"] # "absent"
               /\ file["refusal"] = "absent"
               /\ \A g \in Helpers : pc[g] \in Claiming \cup {"refuse"} => g = h
    BY <1>3, <1>11, <2>1
    DEF EvidenceInv, HeldInv, RunInv, ClaimOK, RefusalOK
  <2>2. CASE CreateClaim(h) /\ pc[h] = "claim"
    <3>1. /\ file["execution"] = "absent"
          /\ file' = [file EXCEPT !["execution"] = "torn"]
          /\ pc'[h] = "write_claim"
      BY <1>d, <2>2 DEF CreateClaim, Creates, Goto, Domains
    <3>2. /\ starts \in {0, 1} /\ starts # 1 /\ file["refusal"] = "absent"
          /\ \A g \in Helpers : pc[g] \notin Claiming \cup {"refuse"}
      BY <1>11, <3>1
      DEF EvidenceInv, HeldInv, RunInv, ShapeOK, ClaimOK, RefusalOK
    <3>3. file'["execution"] = "torn" /\ file'["refusal"] = "absent"
      BY <1>d, <3>1, <3>2 DEF Domains, Claims
    <3>4. RefusalOK' /\ ClaimWhole'
      BY <1>3, <1>5, <1>11, <3>1, <3>2, <3>3 DEF RefusalOK, ClaimWhole, Ended
    <3> QED BY <1>6, <1>8, <3>4 DEF FilesKept
  <2>3. CASE CreateClaim(h) /\ pc[h] = "authorize"
    <3>1. /\ file' = [file EXCEPT !["authorized"] = "torn"]
          /\ pc'[h] = "write_authorized"
      BY <1>d, <2>3 DEF CreateClaim, Creates, Goto, Domains
    <3>2. file["execution"] = "whole"
      BY <1>11, <2>3 DEF EvidenceInv, ClaimWhole
    <3>3. file'["execution"] = "whole" /\ file'["refusal"] = "absent"
      BY <1>d, <2>1, <2>3, <3>1, <3>2 DEF Domains, Claims
    <3>4. RefusalOK' /\ ClaimWhole'
      BY <1>3, <1>5, <1>11, <2>1, <2>3, <3>1, <3>3
      DEF RefusalOK, ClaimWhole, Ended
    <3> QED BY <1>6, <1>8, <3>4 DEF FilesKept
  <2>4. CASE WriteClaim(h)
    <3>1. /\ file' = [file EXCEPT !["execution"] = "whole"]
          /\ pc[h] = "write_claim" /\ pc'[h] = "reprove"
      BY <1>d, <2>4 DEF WriteClaim, Goto, Domains
    <3>3. file'["execution"] = "whole" /\ file'["refusal"] = "absent"
      BY <1>d, <2>1, <3>1 DEF Domains, Claims
    <3>4. RefusalOK' /\ ClaimWhole'
      BY <1>3, <1>5, <1>11, <2>1, <3>1, <3>3
      DEF RefusalOK, ClaimWhole, Ended
    <3> QED BY <1>6, <1>8, <3>4 DEF FilesKept
  <2>5. CASE WriteAuthorized(h)
    <3>1. /\ file' = [file EXCEPT !["authorized"] = "whole"]
          /\ pc[h] = "write_authorized" /\ pc'[h] = "exec"
      BY <1>d, <2>5 DEF WriteAuthorized, Goto, Domains
    <3>2. file["execution"] = "whole"
      BY <1>11, <3>1 DEF EvidenceInv, ClaimWhole
    <3>3. /\ file'["execution"] = "whole" /\ file'["refusal"] = "absent"
          /\ file'["authorized"] = "whole"
      BY <1>d, <2>1, <3>1, <3>2 DEF Domains, Claims
    <3>4. RefusalOK' /\ ClaimWhole'
      BY <1>3, <1>5, <1>11, <2>1, <3>1, <3>3
      DEF RefusalOK, ClaimWhole, Ended
    <3> QED BY <1>6, <1>8, <3>4 DEF FilesKept
  <2>6. CASE PublishRefusal(h)
    <3>1. pc[h] = "refuse" /\ file'["execution"] = file["execution"]
      BY <1>d, <2>6 DEF PublishRefusal, Domains, Claims
    <3>2. pc'[h] \in Ended
      BY <1>d, <2>6, FinishShape DEF PublishRefusal, Ends, Freed, Ended
    <3>3. \A g \in Helpers : pc'[g] \notin Claiming \cup {"refuse"}
      BY <1>5, <2>1, <3>1, <3>2 DEF Ended
    <3>4. RefusalOK' /\ ClaimWhole'
      BY <1>3, <1>11, <2>1, <3>1, <3>3 DEF RefusalOK, ClaimWhole
    <3> QED BY <1>6, <1>8, <3>4 DEF FilesKept
  <2> QED
    BY <2>2, <2>3, <2>4, <2>5, <2>6 DEF CreateClaim, Creates
<1> QED BY <1>10, <1>11

(* The steps that create, publish, retire and remove. *)
LEMMA StageSteps ==
  ASSUME EvidenceInv, NEW h \in Helpers,
         \/ MakeStaging(h) \/ WriteStage(h) \/ PublishStage(h)
         \/ PrepareThrows(h) \/ Retire(h) \/ CleanStage(h)
         \/ CleanClaims(h) \/ CleanLifetime(h)
  PROVE  FilesKept
<1>d. /\ Domains
      /\ Records \cup {"receipt"} \subseteq Staged /\ Staged \subseteq Leaves
      /\ Claims \subseteq Leaves /\ "lifetime" \in Leaves
      /\ Staged \cap (Claims \cup {"lifetime"}) = {}
      /\ Claims \cap {"lifetime"} = {} /\ "stage" \in Staged
      /\ "stage" \notin Records \cup {"receipt"}
  BY HaveDomains DEF Leaves, Staged, Records, Claims, Anchors
<1>1. HelperStep(h) \/ HelperFault(h)
  BY DEF HelperStep, HelperFault
<1>2. Forward
  BY <1>1, HelperForward
<1>3. \A g \in Helpers : g # h =>
         pc'[g] = pc[g] \/ pc'[g] \in Ended \cup {"open"}
  BY <1>d, <1>1, OthersStay
<1>4. FilesOK'
  <2>1. CASE MakeStaging(h) \/ PublishStage(h) \/ Retire(h)
    BY <1>2, <2>1, FilesFrame DEF MakeStaging, PublishStage, Retire
  <2>2. CASE WriteStage(h)
    BY <1>d, <1>2, <2>2, FilesFrame DEF WriteStage, Domains
  <2>3. CASE PrepareThrows(h)
    BY <1>d, <1>2, <2>3, FilesFrame DEF PrepareThrows
  <2>4. CASE CleanStage(h)
    BY <1>d, <1>2, <2>4, FilesFrame DEF CleanStage
  <2>5. CASE CleanClaims(h)
    BY <1>d, <1>2, <2>5, FilesFrame DEF CleanClaims
  <2>6. CASE CleanLifetime(h)
    BY <1>d, <1>2, <2>6, FilesFrame DEF CleanLifetime, Domains
  <2> QED BY <2>1, <2>2, <2>3, <2>4, <2>5, <2>6
<1>5. CASE \/ MakeStaging(h) \/ WriteStage(h) \/ PublishStage(h)
           \/ PrepareThrows(h)
  <2>1. place \in {"none", "preparing"}
    BY <1>5
    DEF MakeStaging, WriteStage, PublishStage, PrepareThrows, Building,
        EvidenceInv, HeldInv, RunInv, UnpublishedOK
  <2>2. /\ \A g \in Helpers : pc[g] \in Early
        /\ starts = 0 /\ file["refusal"] = "absent"
    BY <2>1 DEF EvidenceInv, HeldInv, RunInv, UnpublishedOK, RefusalOK
  <2>3. pc'[h] \in {"stage", "publish", "reproof"} \cup Ended
    <3>1. CASE PrepareThrows(h)
      BY <1>d, <3>1, FinishShape DEF PrepareThrows, Ends, Freed, Ended
    <3> QED
      BY <1>5, <1>d, <3>1
      DEF MakeStaging, WriteStage, PublishStage, Goto, Domains
  <2>4. \A g \in Helpers :
          pc'[g] \notin Claiming \cup Cleaning \cup {"refuse"}
    BY <1>3, <2>2, <2>3
    DEF Early, Building, Ended, Claiming, Authorizing, Cleaning
  <2>5. starts' = 0 /\ file'["refusal"] = "absent"
    BY <1>5, <1>d, <2>2
    DEF MakeStaging, WriteStage, PublishStage, PrepareThrows, pacmanVars,
        Claims, Domains
  <2>6. RefusalOK' /\ ClaimWhole' /\ GoneOK'
    BY <2>4, <2>5
    DEF RefusalOK, ClaimWhole, GoneOK, Claiming, Authorizing, Cleaning
  <2> QED BY <1>4, <2>6 DEF FilesKept
<1>6. CASE \/ Retire(h) \/ CleanStage(h) \/ CleanClaims(h)
           \/ CleanLifetime(h)
  <2>1. pc[h] \in Retiring
    BY <1>6 DEF Retire, CleanStage, CleanClaims, CleanLifetime, Retiring,
       Cleaning
  <2>2. \A g \in Helpers : g # h => pc[g] \notin Retiring
    BY <2>1 DEF EvidenceInv, HeldInv, RunInv, LocksOK
  <2>3. \A g \in Helpers : g # h => pc'[g] \notin Cleaning
    BY <1>3, <2>2 DEF Retiring, Cleaning, Ended
  <2>4. place' = "used"
    BY <1>6
    DEF Retire, CleanStage, CleanClaims, CleanLifetime, EvidenceInv, HeldInv,
        RunInv, ClaimOK, Cleaning
  <2>5. GoneOK'
    <3>1. CASE Retire(h)
      BY <1>d, <2>3, <3>1 DEF Retire, Goto, Domains, GoneOK, Cleaning
    <3>2. CASE CleanStage(h)
      BY <1>d, <2>3, <3>2 DEF CleanStage, Goto, Domains, GoneOK, Cleaning
    <3>3. CASE CleanClaims(h)
      <4>1. \A f \in Staged : file[f] = "absent"
        BY <3>3 DEF CleanClaims, EvidenceInv, GoneOK
      <4> QED
        BY <1>d, <2>3, <3>3, <4>1
        DEF CleanClaims, Goto, Domains, GoneOK, Cleaning
    <3>4. CASE CleanLifetime(h)
      <4>1. pc'[h] \in Ended \cup {"answer"}
        <5>1. CASE cmd[h] \in Consumers
          BY <1>d, <3>4, <5>1 DEF CleanLifetime, Goto, Domains
        <5>2. CASE cmd[h] \notin Consumers
          <6>1. Finish(h, "ok") \/ Finish(h, "failed")
            BY <3>4, <5>2 DEF CleanLifetime, AbortCode
          <6> QED BY <1>d, <6>1, FinishShape DEF Ends, Freed, Ended
        <5> QED BY <5>1, <5>2
      <4> QED BY <2>3, <4>1 DEF GoneOK, Cleaning, Ended
    <3> QED BY <1>6, <3>1, <3>2, <3>3, <3>4
  <2> QED BY <1>4, <2>4, <2>5 DEF FilesKept, RefusalOK, ClaimWhole
<1> QED BY <1>5, <1>6

LEMMA ExecFiles ==
  ASSUME EvidenceInv, NEW h \in Helpers, Exec(h)
  PROVE  FilesKept
<1> USE DEF Claiming, Authorizing
<1>d. Domains
  BY HaveDomains
<1>1. /\ pc[h] = "exec" /\ starts' = starts + 1 /\ committed' = committed
      /\ UNCHANGED <<place, file, observed, listed>>
      /\ \A g \in Helpers : pc'[g] = IF g = h THEN "pacman" ELSE pc[g]
  BY <1>d DEF Exec, Goto, store, Domains
<1>2. place = "active"
  BY <1>1 DEF EvidenceInv, HeldInv, RunInv, ClaimOK
<1>3. /\ starts = 0
      /\ \A g \in Helpers : pc[g] \in Claiming \cup {"refuse"} => g = h
      /\ file["refusal"] = "absent" /\ file["execution"] # "absent"
      /\ file["execution"] = "whole" /\ file["authorized"] = "whole"
  BY <1>1, <1>2
  DEF EvidenceInv, HeldInv, RunInv, ClaimOK, RefusalOK, ClaimWhole
<1>4. RefusalOK' /\ ClaimWhole'
  BY <1>1, <1>2, <1>3 DEF RefusalOK, ClaimWhole
<1>5. GoneOK'
  BY <1>1, GoneFrame
<1>6. ~committed
  BY <1>3 DEF EvidenceInv, PhaseOK
<1>7. FilesOK'
  BY <1>1, <1>3, <1>6 DEF EvidenceInv, FilesOK
<1> QED BY <1>4, <1>5, <1>7 DEF FilesKept

LEMMA HelperFiles ==
  ASSUME EvidenceInv, NEW h \in Helpers, HelperStep(h) \/ HelperFault(h)
  PROVE  FilesKept
BY StillSteps, HookSteps, ClaimSteps, StageSteps, ExecFiles
DEF HelperStep, HelperFault

-----------------------------------------------------------------------------
(* The answers. *)

StatusReply(a, b, c) ==
  [NoReply EXCEPT !.authorized = a, !.refused = b, !.observed = c]

LEMMA StatusReplyFields ==
  ASSUME NEW a \in BOOLEAN, NEW b \in BOOLEAN, NEW c \in BOOLEAN
  PROVE  /\ StatusReply(a, b, c) \in Replies
         /\ StatusReply(a, b, c).refused = b
         /\ StatusReply(a, b, c).observed = c
         /\ StatusReply(a, b, c).receipt = "missing"
         /\ StatusReply(a, b, c).code = "failed"
BY DEF StatusReply, NoReply, Replies

ReceiptReply(k, p) == [NoReply EXCEPT !.receipt = k, !.pkgs = p]

LEMMA ReceiptReplyFields ==
  ASSUME NEW k \in {"missing", "invalid", "complete"},
         NEW p \in SUBSET (Packages \cup Extra)
  PROVE  /\ ReceiptReply(k, p) \in Replies
         /\ ReceiptReply(k, p).refused = FALSE
         /\ ReceiptReply(k, p).observed = FALSE
         /\ ReceiptReply(k, p).receipt = k
         /\ ReceiptReply(k, p).pkgs = p
         /\ ReceiptReply(k, p).code = "failed"
BY DEF ReceiptReply, NoReply, Replies

LEMMA InvalidReplyFields ==
  LET r == [NoReply EXCEPT !.receipt = "invalid"] IN
    /\ r \in Replies
    /\ r.refused = FALSE /\ r.observed = FALSE
    /\ r.receipt = "invalid" /\ r.code = "failed"
BY DEF NoReply, Replies

(* What execution-status reads. *)
LEMMA StatusTrue ==
  ASSUME EvidenceInv, NEW h \in Helpers, ReadStatus(h)
  PROVE  \E r \in Replies : reply' = [reply EXCEPT ![h] = r] /\ ReplyTrue(r)
<1> DEFINE a == file["authorized"] = "whole"
           b == file["refusal"] = "whole"
           r == StatusReply(a, b, Executed)
<1>1. reply' = [reply EXCEPT ![h] = r] /\ place = "active"
  BY DEF ReadStatus, StatusReply
<1>2. a \in BOOLEAN /\ b \in BOOLEAN /\ Executed \in BOOLEAN
  BY DEF Executed
<1>3. b => Refused
  BY <1>1 DEF EvidenceInv, RefusalOK, Refused
<1>4. Executed => starts = 1
  BY DEF EvidenceInv, FilesOK, Executed
<1> HIDE DEF a, b
<1>5. /\ r \in Replies /\ r.refused = b /\ r.observed = Executed
      /\ r.receipt = "missing" /\ r.code = "failed"
  BY <1>2, StatusReplyFields
<1> HIDE DEF r
<1>6. ReplyTrue(r)
  BY <1>3, <1>4, <1>5 DEF ReplyTrue
<1> QED BY <1>1, <1>5, <1>6

(* What consume reads. *)
LEMMA ReceiptTrue ==
  ASSUME EvidenceInv, purpose = "cleanup"
  PROVE  Receipt \in Replies /\ ReplyTrue(Receipt)
<1>1. CASE file["receipt"] # "whole"
  BY <1>1, NoReplyIsReply, NoReplyTrue DEF Receipt
<1>2. CASE file["receipt"] = "whole"
  <2>1. /\ committed /\ listed["receipt"] = Targets("install")
        /\ listed["receipt"] \in SUBSET (Packages \cup Extra)
    BY <1>2 DEF EvidenceInv, FilesOK, FormOK, Kind
  <2>2. Receipt = ReceiptReply("complete", listed["receipt"])
    BY <1>2 DEF Receipt, ReceiptReply
  <2> QED
    BY <2>1, <2>2, ReceiptReplyFields DEF ReplyTrue, Receivable
<1> QED BY <1>1, <1>2

(* What consume-exact reads: the records it joins name every package of    *)
(* the request, and there is one.                                          *)
LEMMA ExactReceiptTrue ==
  ASSUME EvidenceInv, purpose = "exact"
  PROVE  ExactReceipt \in Replies /\ ReplyTrue(ExactReceipt)
<1> DEFINE pkgs == UNION {listed[r] : r \in {s \in Records : file[s] = "whole"}}
<1>1. CASE \E r \in Records : file[r] = "torn"
  <2>1. ExactReceipt = [NoReply EXCEPT !.receipt = "invalid"]
    BY <1>1 DEF ExactReceipt
  <2> QED BY <2>1, InvalidReplyFields DEF ReplyTrue
<1>2. CASE (\A r \in Records : file[r] # "torn") /\ pkgs # Packages
  <2>1. ExactReceipt = NoReply
    BY <1>2 DEF ExactReceipt
  <2> QED BY <2>1, NoReplyIsReply, NoReplyTrue
<1>3. CASE (\A r \in Records : file[r] # "torn") /\ pkgs = Packages
  <2>1. ExactReceipt = ReceiptReply("complete", Packages)
    BY <1>3 DEF ExactReceipt, ReceiptReply
  <2>2. \A r \in Records : file[r] = "whole" =>
           committed /\ listed[r] = Targets(Kind(r))
    BY DEF EvidenceInv, FilesOK
  <2>3. PICK p \in Packages : TRUE
    BY StoreAssumption
  <2>4. committed
    BY <1>3, <2>2, <2>3
  <2>5. \A q \in Packages : q \in Touched
    BY <1>3, <2>2 DEF Touched, Records, Kind
  <2>6. Packages = Receivable
    BY <2>5 DEF Receivable
  <2> QED
    BY <2>1, <2>4, <2>6, ReceiptReplyFields DEF ReplyTrue
<1> QED BY <1>1, <1>2, <1>3

(* What a command about to retire the transaction has read. *)
LEMMA RetirementTrue ==
  ASSUME EvidenceInv, NEW h \in Helpers, ReadForRetirement(h)
  PROVE  \E r \in Replies : reply' = [reply EXCEPT ![h] = r] /\ ReplyTrue(r)
<1>1. CASE cmd[h] = "consume"
  BY <1>1, ReceiptTrue DEF ReadForRetirement, Consumable
<1>2. CASE cmd[h] = "consume_exact"
  BY <1>2, ExactReceiptTrue DEF ReadForRetirement, Consumable
<1>3. CASE cmd[h] \notin {"consume", "consume_exact"}
  <2>1. reply' = [reply EXCEPT ![h] = reply[h]]
    BY <1>3 DEF ReadForRetirement
  <2>2. reply[h] \in Replies /\ ReplyTrue(reply[h])
    BY DEF EvidenceInv, FormOK, ProcOK, Proc
  <2> QED BY <2>1, <2>2
<1> QED BY <1>1, <1>2, <1>3

-----------------------------------------------------------------------------
(* The processes. *)

ProcsKept ==
  ProcOK' /\ reply' \in [Helpers -> Replies] /\ DOMAIN by' = Helpers

(* One process goes on, with the reply it has or a new one. *)
LEMMA MoveProc ==
  ASSUME EvidenceInv, Forward, NEW h \in Helpers, NEW p, Goto(h, p),
         UNCHANGED <<cmd, by>>, Changes(lock, lock', h),
         NEW r \in Replies, ReplyTrue(r), reply' = [reply EXCEPT ![h] = r],
         p \notin {"ok", "idle"}, Role(h)', p \in Writing => lock'[h] = "sh",
         p = "answer" /\ cmd[h] = "consume_exact" /\ r.cleanup = "done" =>
           Vanished'
  PROVE  ProcsKept
<1>d. Domains
  BY HaveDomains
<1>1. Changes(reply, reply', h)
  BY DEF Changes
<1>2. /\ DOMAIN reply' = Helpers
      /\ pc'[h] = p /\ cmd'[h] = cmd[h] /\ by'[h] = by[h]
      /\ \A g \in Helpers : g # h => Same(g)
  BY <1>d, <1>1, MoveShape
<1>3. reply'[h] = r
  BY <1>d DEF Domains
<1>4. HookOK(h)'
  BY <1>2 DEF EvidenceInv, ProcOK, Proc, HookOK, Forward
<1>5. ReplyTrue(reply[h])'
  <2>1. ReplyTrue(r)'
    BY ReplyFrame
  <2> QED BY <1>3, <2>1 DEF ReplyTrue
<1>6. EndTrue(h)'
  BY <1>2, <1>3 DEF EndTrue
<1>7. ProcOK'
  BY <1>2, <1>4, <1>5, <1>6, ProcFrame DEF ProcOK, Proc
<1>8. reply' \in [Helpers -> Replies]
  BY DEF EvidenceInv, FormOK
<1> QED BY <1>d, <1>7, <1>8 DEF ProcsKept, Domains

(* The moves that leave the reply alone. *)
Walks(h) ==
  \/ MakeStaging(h) \/ WriteStage(h) \/ PublishStage(h) \/ ReproveStage(h)
  \/ Open(h) \/ AcquireLease(h)
  \/ CheckUnclaimed(h) \/ CreateClaim(h) \/ WriteClaim(h) \/ Reprove(h)
  \/ WriteAuthorized(h) \/ Exec(h)
  \/ CheckHook(h) \/ CreateMark(h) \/ WriteMark(h) \/ RecordBaseline(h)
  \/ WritePartial(h) \/ PublishReceipt(h)
  \/ ClaimRecord(h) \/ JoinRecord(h) \/ PublishRecord(h) \/ RecordAnchor(h)
  \/ Retire(h) \/ CleanStage(h) \/ CleanClaims(h)
  \/ PublishedThrows(h) \/ ExecuteThrows(h)

LEMMA WalkRole ==
  ASSUME EvidenceInv, NEW h \in Helpers, Walks(h)
  PROVE  /\ Role(h)'
         /\ pc'[h] \in Writing => lock'[h] = "sh"
         /\ pc'[h] \notin {"ok", "idle"}
         /\ pc'[h] = "answer" => cmd[h] = "prepare"
<1> USE DEF Claiming, Authorizing, Cleaning, Retiring, Building, Recording,
            Writing, Goto, Domains, pacmanVars, store
<1>d. Domains
  BY HaveDomains
<1>0. /\ Role(h) /\ HookOK(h)
      /\ pc[h] \in Claiming => lock[h] = "sh"
      /\ pc[h] = "read" => lock[h] = IF Exclusive(h) THEN "ex" ELSE "sh"
  BY DEF EvidenceInv, ProcOK, Proc, HeldInv, RunInv, LocksOK
<1>h. HelperStep(h) \/ HelperFault(h)
  BY DEF Walks, HelperStep, HelperFault
<1>p. purpose' = purpose
  BY <1>h, PurposeKept
<1>1. CASE \/ MakeStaging(h) \/ WriteStage(h) \/ PublishStage(h)
           \/ ReproveStage(h) \/ Open(h) \/ AcquireLease(h)
           \/ PublishedThrows(h)
  BY <1>d, <1>0, <1>p, <1>1
  DEF MakeStaging, WriteStage, PublishStage, ReproveStage, Open, AcquireLease,
      PublishedThrows, Role, Preparers
<1>2. CASE \/ CheckUnclaimed(h) \/ CreateClaim(h) \/ WriteClaim(h)
           \/ Reprove(h) \/ WriteAuthorized(h) \/ Exec(h)
           \/ ExecuteThrows(h)
  BY <1>d, <1>0, <1>p, <1>2
  DEF CheckUnclaimed, CreateClaim, Creates, WriteClaim, Reprove,
      WriteAuthorized, Exec, ExecuteThrows, Role
<1>3. CASE CheckHook(h)
  <2>1. /\ cmd[h] \in HookCommands /\ lock' = lock /\ lock[h] = "sh"
        /\ UNCHANGED <<cmd, by>>
        /\ \/ pc'[h] = "mark"
           \/ pc'[h] = "partial" /\ cmd[h] = "record"
           \/ pc'[h] = "claim_record"
              /\ cmd[h] \in {"record_install", "record_upgrade"}
    BY <1>d, <1>0, <1>3
    DEF CheckHook, HookCommands, Exclusive, Preparers, Consumers
  <2> QED BY <1>0, <1>p, <2>1 DEF Role
<1>4. CASE CreateMark(h) \/ WriteMark(h) \/ RecordBaseline(h)
  BY <1>d, <1>0, <1>p, <1>4
  DEF CreateMark, WriteMark, AfterMark, RecordBaseline, Role, HookOK,
      HookCommands
<1>5. CASE \/ WritePartial(h) \/ PublishReceipt(h) \/ ClaimRecord(h)
           \/ JoinRecord(h) \/ PublishRecord(h) \/ RecordAnchor(h)
  BY <1>d, <1>0, <1>p, <1>5
  DEF WritePartial, PublishReceipt, ClaimRecord, JoinRecord, PublishRecord,
      RecordAnchor, Role, HookOK, HookCommands
<1>6. CASE Retire(h) \/ CleanStage(h) \/ CleanClaims(h)
  BY <1>d, <1>0, <1>p, <1>6
  DEF Retire, CleanStage, CleanClaims, Role, Exclusive
<1> QED BY <1>1, <1>2, <1>3, <1>4, <1>5, <1>6 DEF Walks

LEMMA WalkProc ==
  ASSUME EvidenceInv, NEW h \in Helpers, Walks(h)
  PROVE  ProcsKept
<1>d. Domains
  BY HaveDomains
<1>h. HelperStep(h) \/ HelperFault(h)
  BY DEF Walks, HelperStep, HelperFault
<1>1. Forward
  BY <1>h, HelperForward
<1>2. /\ \E p : Goto(h, p)
      /\ UNCHANGED <<cmd, by, reply>> /\ Changes(lock, lock', h)
  BY DEF Walks, MakeStaging, WriteStage, PublishStage, ReproveStage, Open,
     AcquireLease, CheckUnclaimed, CreateClaim, WriteClaim, Reprove,
     WriteAuthorized, Exec, CheckHook, CreateMark, WriteMark, RecordBaseline,
     WritePartial, PublishReceipt, ClaimRecord, JoinRecord, PublishRecord,
     RecordAnchor, Retire, CleanStage, CleanClaims, PublishedThrows,
     ExecuteThrows, Changes
<1>3. PICK p : Goto(h, p)
  BY <1>2
<1>4. pc'[h] = p
  BY <1>d, <1>3 DEF Goto, Domains
<1>5. PICK r \in Replies : r = reply[h] /\ ReplyTrue(r)
  BY DEF EvidenceInv, FormOK, ProcOK, Proc
<1>6. reply' = [reply EXCEPT ![h] = r]
  BY <1>2, <1>5 DEF EvidenceInv, FormOK
<1> QED
  BY <1>1, <1>2, <1>3, <1>4, <1>5, <1>6, WalkRole, MoveProc

(* The moves that set it. *)
LEMMA ReadProc ==
  ASSUME EvidenceInv, NEW h \in Helpers, ReadStatus(h) \/ ReadForRetirement(h)
  PROVE  ProcsKept
<1>d. Domains
  BY HaveDomains
<1>1. Forward
  BY HelperForward DEF HelperStep
<1>2. PICK r \in Replies : reply' = [reply EXCEPT ![h] = r] /\ ReplyTrue(r)
  BY StatusTrue, RetirementTrue
<1>3. PICK p : /\ Goto(h, p)
               /\ \/ p = "answer" /\ cmd[h] = "status"
                  \/ p = "retire" /\ Exclusive(h)
  BY DEF ReadStatus, ReadForRetirement
<1>4. UNCHANGED <<purpose, cmd, by>> /\ Changes(lock, lock', h)
  BY DEF ReadStatus, ReadForRetirement, Changes
<1>5. pc'[h] = p
  BY <1>d, <1>3 DEF Goto, Domains
<1>6. Role(h)
  BY DEF EvidenceInv, ProcOK, Proc
<1>7. Role(h)'
  BY <1>3, <1>4, <1>5, <1>6
  DEF Role, Building, Claiming, Authorizing, Recording, Retiring, Cleaning,
      Exclusive
<1> QED
  BY <1>1, <1>2, <1>3, <1>4, <1>7, MoveProc DEF Writing, Recording

LEMMA ConsumeThrowsProc ==
  ASSUME EvidenceInv, NEW h \in Helpers, ConsumeExactThrows(h)
  PROVE  ProcsKept
<1>d. Domains
  BY HaveDomains
<1>1. Forward
  BY HelperForward DEF HelperFault
<1>2. PICK q \in Replies : q = reply[h] /\ ReplyTrue(q)
  BY DEF EvidenceInv, FormOK, ProcOK, Proc
<1>3. PICK c \in {"retirement", "stage"} :
        reply' = [reply EXCEPT ![h] = [q EXCEPT !.cleanup = c]]
  BY <1>2 DEF ConsumeExactThrows
<1>4. PICK r : /\ r = [q EXCEPT !.cleanup = c]
               /\ reply' = [reply EXCEPT ![h] = r]
  BY <1>3, Zenon
<1>5. /\ r \in Replies /\ r.cleanup = c /\ r.refused = q.refused
      /\ r.observed = q.observed /\ r.receipt = q.receipt
      /\ r.pkgs = q.pkgs /\ r.code = q.code
  BY <1>4 DEF Replies
<1>6. ReplyTrue(r)
  BY <1>2, <1>5 DEF ReplyTrue
<1>e. reply' = [reply EXCEPT ![h] = r] /\ r \in Replies /\ r.cleanup # "done"
  BY <1>4, <1>5
<1>7. /\ Goto(h, "answer") /\ UNCHANGED <<purpose, cmd, by>>
      /\ Changes(lock, lock', h) /\ cmd[h] = "consume_exact"
  BY DEF ConsumeExactThrows, Changes
<1>11. PICK p : p = "answer" /\ Goto(h, p)
  BY <1>7
<1>8. pc'[h] = "answer"
  BY <1>d, <1>7 DEF Goto, Domains
<1>9. Role(h)
  BY DEF EvidenceInv, ProcOK, Proc
<1>10. Role(h)'
  BY <1>7, <1>8, <1>9
  DEF Role, Building, Claiming, Authorizing, Recording, Retiring, Cleaning,
      Consumers
<1>12. /\ p \notin {"ok", "idle"} /\ p \notin Writing
       /\ ~(p = "answer" /\ cmd[h] = "consume_exact" /\ r.cleanup = "done")
  BY <1>e, <1>11 DEF Writing, Recording
<1>13. Goto(h, p) /\ UNCHANGED <<cmd, by>> /\ Changes(lock, lock', h)
  BY <1>7, <1>11
<1> QED
  BY <1>1, <1>e, <1>6, <1>10, <1>12, <1>13, MoveProc

(* A process nobody waits for any more. *)
Orphaned(g) ==
  /\ pc'[g] = pc[g] /\ cmd'[g] = cmd[g] /\ lock'[g] = lock[g]
  /\ by'[g] = "nobody" /\ reply'[g] = reply[g]

LEMMA OrphanFrame ==
  ASSUME EvidenceInv, Forward, NEW g \in Helpers, Orphaned(g)
  PROVE  Proc(g)'
<1>0. Proc(g)
  BY DEF EvidenceInv, ProcOK
<1> USE DEF Orphaned
<1>1. Role(g)'
  BY <1>0 DEF Proc, Role, Exclusive, Forward
<1>2. HookOK(g)' /\ EndTrue(g)'
  BY <1>0 DEF Proc, HookOK, EndTrue, Forward
<1>3. ReplyTrue(reply[g])'
  <2>1. PICK r : r = reply[g]
    OBVIOUS
  <2>2. ReplyTrue(r)'
    BY <1>0, <2>1, ReplyFrame DEF Proc
  <2> QED BY <2>1, <2>2 DEF ReplyTrue
<1> QED BY <1>1, <1>2, <1>3 DEF Proc

(* What must have happened for a process to end well. *)
EndsWell(h) ==
  /\ cmd[h] \in {"execute", "install_legacy"} => exit' = "ok"
  /\ cmd[h] = "abort" => Vanished'
  /\ cmd[h] = "consume_exact" /\ reply[h].cleanup = "done" => Vanished'

(* A process ends, and others may be left alone. *)
LEMMA EndProc ==
  ASSUME EvidenceInv, Forward, NEW h \in Helpers, NEW rc \in {"ok", "failed"},
         NEW bys, Settle([pc EXCEPT ![h] = rc], bys, reply),
         DOMAIN bys = Helpers, \A g \in Helpers : bys[g] \in {by[g], "nobody"},
         lock' = [lock EXCEPT ![h] = "none"] \/ lock' = lock,
         rc = "ok" => EndsWell(h)
  PROVE  ProcsKept
<1>d. Domains
  BY HaveDomains
<1> DEFINE pcs == [pc EXCEPT ![h] = rc]
<1>1. /\ Settle(pcs, bys, reply)
      /\ \A g \in Helpers : pcs[g] = IF g = h THEN rc ELSE pc[g]
      /\ \A g \in Helpers : lock'[g] = lock[g] \/ (g = h /\ lock'[g] = "none")
  BY <1>d DEF Domains
<1> HIDE DEF pcs
<1>2. /\ by' = bys
      /\ DOMAIN reply' = Helpers
      /\ \A g \in Helpers :
           \/ /\ pc'[g] = pcs[g] /\ cmd'[g] = cmd[g]
              /\ by'[g] = bys[g] /\ reply'[g] = reply[g]
           \/ /\ pc'[g] = "idle" /\ cmd'[g] = "abort"
              /\ by'[g] = "nobody" /\ reply'[g] = NoReply
  BY <1>1, SettleShape
<1>3. ASSUME NEW g \in Helpers, g # h
      PROVE  Proc(g)'
  <2>1. Same(g) \/ Freed(g) \/ Orphaned(g)
    BY <1>1, <1>2, <1>3 DEF Same, Freed, Orphaned
  <2> QED BY <2>1, ProcFrame, OrphanFrame
<1>4. Proc(h)'
  <2>1. CASE Freed(h)
    BY <2>1, ProcFrame
  <2>2. CASE ~Freed(h)
    <3>1. /\ pc'[h] = rc /\ cmd'[h] = cmd[h] /\ reply'[h] = reply[h]
          /\ by'[h] \in {by[h], "nobody"}
      BY <1>1, <1>2, <2>2 DEF Freed
    <3>2. Proc(h) /\ purpose' = purpose
      BY DEF EvidenceInv, ProcOK, Forward
    <3>3. Role(h)'
      BY <3>1, <3>2
      DEF Proc, Role, Building, Claiming, Authorizing, Recording, Retiring,
          Cleaning
    <3>4. HookOK(h)'
      BY <3>1, <3>2 DEF Proc, HookOK, Forward, Writing, Recording
    <3>5. EndTrue(h)'
      BY <3>1 DEF EndTrue, EndsWell
    <3>6. ReplyTrue(reply[h])'
      <4>1. PICK r : r = reply[h]
        OBVIOUS
      <4>2. ReplyTrue(r)'
        BY <3>2, <4>1, ReplyFrame DEF Proc
      <4> QED BY <3>1, <4>1, <4>2 DEF ReplyTrue
    <3> QED BY <3>3, <3>4, <3>5, <3>6 DEF Proc
  <2> QED BY <2>1, <2>2
<1>5. reply' \in [Helpers -> Replies]
  <2>1. reply' = [g \in Helpers |-> reply'[g]]
    BY DEF Settle
  <2>2. \A g \in Helpers : reply'[g] \in Replies
    BY <1>2, NoReplyIsReply DEF EvidenceInv, FormOK
  <2> QED BY <2>1, <2>2
<1> QED BY <1>2, <1>3, <1>4, <1>5 DEF ProcsKept, ProcOK

LEMMA FinishProc ==
  ASSUME EvidenceInv, Forward, NEW h \in Helpers, NEW rc \in {"ok", "failed"},
         Finish(h, rc), rc = "ok" => EndsWell(h)
  PROVE  ProcsKept
BY HaveDomains, EndProc DEF Finish, Domains

(* The last leaf goes, and with it the last holder of a lock. *)
LEMMA LastLeaf ==
  ASSUME EvidenceInv, NEW h \in Helpers, CleanLifetime(h)
  PROVE  Vanished'
<1>d. Domains
  BY HaveDomains
<1>1. /\ pc[h] = "clean_lifetime" /\ UNCHANGED <<place, observed>>
      /\ file' = [file EXCEPT !["lifetime"] = "absent"]
      /\ lock' = [lock EXCEPT ![h] = "none"]
  BY DEF CleanLifetime, Finish
<1>2. /\ place = "used" /\ observed = "absent"
      /\ \A f \in Staged \cup Claims : file[f] = "absent"
  BY <1>1
  DEF EvidenceInv, GoneOK, HeldInv, RunInv, ClaimOK, Cleaning
<1>3. \A g \in Helpers : g # h => lock[g] = "none"
  BY <1>1 DEF EvidenceInv, HeldInv, RunInv, LocksOK, Retiring, Cleaning
<1>4. \A f \in Leaves : file'[f] = "absent"
  BY <1>d, <1>1, <1>2 DEF Leaves, Domains
<1>5. \A g \in Helpers : lock'[g] = "none"
  BY <1>d, <1>1, <1>3 DEF Domains
<1> QED BY <1>1, <1>2, <1>4, <1>5 DEF Vanished

LEMMA CleanLifetimeProc ==
  ASSUME EvidenceInv, NEW h \in Helpers, CleanLifetime(h)
  PROVE  ProcsKept
<1>d. Domains
  BY HaveDomains
<1>1. Forward
  BY HelperForward DEF HelperStep
<1>2. Vanished'
  BY LastLeaf
<1>3. Proc(h) /\ Exclusive(h) /\ reply[h] \in Replies
  BY DEF CleanLifetime, EvidenceInv, ProcOK, Proc, Role, Retiring, Cleaning,
     FormOK
<1>4. CASE cmd[h] \in Consumers
  <2>1. PICK p : p = "answer" /\ Goto(h, p)
    BY <1>4 DEF CleanLifetime
  <2>2. UNCHANGED <<purpose, cmd, by, reply>> /\ Changes(lock, lock', h)
    BY <1>4 DEF CleanLifetime, Changes
  <2>3. PICK r \in Replies : r = reply[h] /\ ReplyTrue(r)
    BY <1>3 DEF Proc
  <2>4. reply' = [reply EXCEPT ![h] = r]
    BY <2>2, <2>3 DEF EvidenceInv, FormOK
  <2>5. pc'[h] = "answer"
    BY <1>d, <2>1 DEF Goto, Domains
  <2>6. Role(h)'
    BY <1>3, <1>4, <2>2, <2>5
    DEF Proc, Role, Building, Claiming, Authorizing, Recording, Retiring,
        Cleaning
  <2>7. p \notin {"ok", "idle"} /\ p \notin Writing
    BY <2>1 DEF Writing, Recording
  <2> QED
    BY <1>1, <1>2, <2>1, <2>2, <2>3, <2>4, <2>6, <2>7, MoveProc
<1>5. CASE cmd[h] \notin Consumers
  <2>1. PICK rc \in {"ok", "failed"} :
          Finish(h, rc) /\ rc = AbortCode(h, TRUE)
    BY <1>5 DEF CleanLifetime, AbortCode
  <2>2. rc = "ok" => EndsWell(h)
    <3>1. CASE cmd[h] = "install_legacy"
      BY <1>1, <1>3, <2>1, <3>1
      DEF AbortCode, EndsWell, Proc, ReplyTrue, Forward
    <3>2. CASE cmd[h] # "install_legacy"
      BY <1>2, <2>1, <3>2 DEF AbortCode, EndsWell
    <3> QED BY <3>1, <3>2
  <2> QED BY <1>1, <2>1, <2>2, FinishProc
<1> QED BY <1>4, <1>5

LEMMA StopProc ==
  ASSUME EvidenceInv, NEW h \in Helpers,
         \/ PublishRefusal(h) \/ Answer(h) \/ Done(h) \/ Stops(h)
         \/ LegacyAbortThrows(h) \/ PrepareThrows(h)
  PROVE  ProcsKept
<1>1. Forward
  BY HelperForward DEF HelperStep, HelperFault
<1>2. Proc(h)
  BY DEF EvidenceInv, ProcOK
<1>3. CASE PublishRefusal(h) \/ Stops(h) \/ PrepareThrows(h)
  BY <1>1, <1>3, FinishProc DEF PublishRefusal, Stops, PrepareThrows
<1>4. CASE Answer(h) \/ Done(h)
  <2>1. /\ Finish(h, "ok")
        /\ cmd[h] \notin {"execute", "install_legacy", "abort"}
        /\ cmd[h] = "consume_exact" => pc[h] = "answer"
    BY <1>2, <1>4
    DEF Answer, Done, Proc, Role, HookCommands, Consumers
  <2>2. EndsWell(h)
    BY <1>1, <1>2, <2>1 DEF EndsWell, Proc, EndTrue, Forward
  <2> QED BY <1>1, <2>1, <2>2, FinishProc
<1>5. CASE LegacyAbortThrows(h)
  <2>1. PICK rc \in {"ok", "failed"} :
          Finish(h, rc) /\ rc = AbortCode(h, FALSE)
    BY <1>5 DEF LegacyAbortThrows, AbortCode
  <2>2. rc = "ok" => EndsWell(h)
    BY <1>1, <1>2, <1>5, <2>1
    DEF LegacyAbortThrows, AbortCode, EndsWell, Proc, ReplyTrue, Forward
  <2> QED BY <1>1, <2>1, <2>2, FinishProc
<1> QED BY <1>3, <1>4, <1>5

(* install-legacy and its child. *)
LEMMA ChildProc ==
  ASSUME EvidenceInv, NEW h \in Helpers, NEW g \in Helpers \ {h},
         ForkExecute(h, g) \/ WaitExecute(h, g) \/ LosesChild(h, g)
  PROVE  ProcsKept
<1>d. Domains
  BY HaveDomains
<1>1. Forward
  BY HelperForward DEF HelperStep, HelperFault
<1>2. Proc(h) /\ Proc(g) /\ purpose' = purpose
  BY <1>1 DEF EvidenceInv, ProcOK, Forward
<1>3. CASE ForkExecute(h, g)
  <2>1. /\ \A k \in Helpers : k \notin {g, h} => Same(k)
        /\ pc[h] = "fork" /\ pc'[h] = "wait" /\ cmd'[h] = cmd[h]
        /\ by'[h] = by[h] /\ lock'[h] = lock[h] /\ reply'[h] = reply[h]
        /\ pc'[g] = "open" /\ cmd'[g] = "execute" /\ by'[g] = "parent"
        /\ reply'[g] = NoReply
        /\ DOMAIN by' = Helpers /\ DOMAIN reply' = Helpers
        /\ reply' = [reply EXCEPT ![g] = NoReply]
    BY <1>d, <1>3 DEF ForkExecute, Domains, Same
  <2>2. reply' \in [Helpers -> Replies]
    BY <2>1, NoReplyIsReply DEF EvidenceInv, FormOK
  <2>3. Proc(g)'
    <3>1. Role(g)'
      BY <2>1
      DEF Role, Building, Claiming, Authorizing, Recording, Retiring, Cleaning
    <3>2. HookOK(g)' /\ EndTrue(g)'
      BY <2>1
      DEF HookOK, EndTrue, HookCommands, Recorders, Writing, Recording
    <3>3. ReplyTrue(reply[g])'
      <4>1. ReplyTrue(NoReply)'
        BY <1>1, NoReplyTrue, ReplyFrame
      <4> QED BY <2>1, <4>1 DEF ReplyTrue, NoReply
    <3> QED BY <3>1, <3>2, <3>3 DEF Proc
  <2>4. Proc(h)'
    <3>1. Role(h)'
      BY <1>2, <2>1
      DEF Proc, Role, Building, Claiming, Authorizing, Recording, Retiring,
          Cleaning
    <3>2. HookOK(h)' /\ EndTrue(h)'
      BY <1>1, <1>2, <2>1
      DEF Proc, HookOK, EndTrue, Forward, Writing, Recording
    <3>3. ReplyTrue(reply[h])'
      <4>1. PICK r : r = reply[h]
        OBVIOUS
      <4>2. ReplyTrue(r)'
        BY <1>1, <1>2, <4>1, ReplyFrame DEF Proc
      <4> QED BY <2>1, <4>1, <4>2 DEF ReplyTrue
    <3> QED BY <3>1, <3>2, <3>3 DEF Proc
  <2>5. ProcOK'
    BY <1>1, <2>1, <2>3, <2>4, ProcFrame DEF ProcOK
  <2> QED BY <2>1, <2>2, <2>5 DEF ProcsKept
<1>4. CASE LosesChild(h, g)
  <2>1. PICK bys : /\ bys = [by EXCEPT ![g] = "nobody"]
                   /\ Settle([pc EXCEPT ![h] = "failed"], bys, reply)
                   /\ lock' = lock
    BY <1>4 DEF LosesChild
  <2>2. /\ DOMAIN bys = Helpers
        /\ \A k \in Helpers : bys[k] \in {by[k], "nobody"}
    BY <1>d, <2>1 DEF Domains
  <2> QED BY <1>1, <2>1, <2>2, EndProc
<1>5. CASE WaitExecute(h, g)
  <2>1. PICK q \in Replies : q = reply[h] /\ ReplyTrue(q)
    BY <1>2 DEF EvidenceInv, FormOK, Proc
  <2>2. PICK c \in {"ok", "failed"} : c = pc[g]
    BY <1>5 DEF WaitExecute
  <2>3. PICK r : r = [q EXCEPT !.code = c]
    OBVIOUS
  <2>4. PICK pcs, bys, replies :
          /\ pcs = [pc EXCEPT ![h] = "open"]
          /\ bys = [by EXCEPT ![g] = "nobody"]
          /\ replies = [reply EXCEPT ![h] = r]
          /\ Settle(pcs, bys, replies)
    BY <1>5, <2>1, <2>2, <2>3, Zenon DEF WaitExecute
  <2>5. /\ r \in Replies /\ r.code = c /\ r.refused = q.refused
        /\ r.observed = q.observed /\ r.receipt = q.receipt
        /\ r.pkgs = q.pkgs
    BY <2>3 DEF Replies
  <2>6. c = "ok" => exit = "ok"
    BY <1>2, <1>5, <2>2 DEF WaitExecute, Proc, Role, EndTrue
  <2>7. ReplyTrue(r)
    BY <2>1, <2>5, <2>6 DEF ReplyTrue
  <2>r. r \in Replies
    BY <2>5
  <2>s. Settle(pcs, bys, replies)
    BY <2>4
  <2>8. /\ pc[h] = "wait" /\ lock' = lock
        /\ \A k \in Helpers :
             /\ pcs[k] = IF k = h THEN "open" ELSE pc[k]
             /\ bys[k] = IF k = g THEN "nobody" ELSE by[k]
             /\ replies[k] = IF k = h THEN r ELSE reply[k]
        /\ DOMAIN bys = Helpers
    BY <1>d, <1>5, <2>4 DEF WaitExecute, Domains
  <2>9. /\ by' = bys
        /\ DOMAIN reply' = Helpers
        /\ \A k \in Helpers :
             \/ /\ pc'[k] = pcs[k] /\ cmd'[k] = cmd[k]
                /\ by'[k] = bys[k] /\ reply'[k] = replies[k]
             \/ /\ pc'[k] = "idle" /\ cmd'[k] = "abort"
                /\ by'[k] = "nobody" /\ reply'[k] = NoReply
                /\ bys[k] = "nobody" /\ pcs[k] \in Ended
    BY <2>s, SettleShape
  <2>10. ASSUME NEW k \in Helpers, k # h
         PROVE  Proc(k)'
    <3>1. Same(k) \/ Freed(k) \/ Orphaned(k)
      BY <2>8, <2>9, <2>10 DEF Same, Freed, Orphaned
    <3> QED BY <1>1, <3>1, ProcFrame, OrphanFrame
  <2>11. Proc(h)'
    <3>1. /\ pc'[h] = "open" /\ cmd'[h] = cmd[h] /\ by'[h] = by[h]
          /\ reply'[h] = r /\ lock'[h] = lock[h]
      BY <2>8, <2>9 DEF Ended
    <3>2. Role(h)'
      BY <1>2, <3>1
      DEF Proc, Role, Building, Claiming, Authorizing, Recording, Retiring,
          Cleaning
    <3>3. HookOK(h)' /\ EndTrue(h)'
      BY <1>1, <1>2, <3>1
      DEF Proc, HookOK, EndTrue, Forward, Writing, Recording
    <3>4. ReplyTrue(r)'
      BY <1>1, <2>7, ReplyFrame
    <3>5. ReplyTrue(reply[h])'
      BY <3>1, <3>4 DEF ReplyTrue
    <3> QED BY <3>2, <3>3, <3>5 DEF Proc
  <2>12. reply' \in [Helpers -> Replies]
    <3>1. reply' = [k \in Helpers |-> reply'[k]]
      BY <2>4 DEF Settle
    <3>2. \A k \in Helpers : reply'[k] \in Replies
      BY <2>r, <2>8, <2>9, NoReplyIsReply DEF EvidenceInv, FormOK
    <3> QED BY <3>1, <3>2
  <2> QED BY <2>8, <2>9, <2>10, <2>11, <2>12 DEF ProcsKept, ProcOK
<1> QED BY <1>3, <1>4, <1>5

LEMMA HelperProc ==
  ASSUME EvidenceInv, NEW h \in Helpers, HelperStep(h) \/ HelperFault(h)
  PROVE  ProcsKept
BY WalkProc, ReadProc, ConsumeThrowsProc, CleanLifetimeProc, StopProc,
   ChildProc
DEF HelperStep, HelperFault, Walks

(* Nobody takes pacman's hook from it. *)
LEMMA HookStays ==
  ASSUME EvidenceInv, NEW h \in Helpers, HelperStep(h) \/ HelperFault(h),
         hook # NoHelper
  PROVE  by'[hook] = "pacman"
<1>d. Domains
  BY HaveDomains
<1>1. hook \in Helpers /\ by[hook] = "pacman" /\ pc[hook] # "idle"
  BY DEF EvidenceInv, PhaseOK, ProcOK, Proc, Role
<1>2. ASSUME NEW g \in Helpers \ {h},
             ForkExecute(h, g) \/ WaitExecute(h, g) \/ LosesChild(h, g)
      PROVE  by'[hook] = "pacman"
  <2>1. /\ pc[g] = "idle" \/ by[g] = "parent"
        /\ \E v : by' = [by EXCEPT ![g] = v]
    BY <1>2 DEF ForkExecute, WaitExecute, LosesChild, Settle
  <2> QED BY <1>d, <1>1, <2>1 DEF Domains
<1>3. CASE by' = by
  BY <1>1, <1>3
<1> QED
  BY <1>2, <1>3
  DEF HelperStep, MakeStaging, WriteStage, PublishStage, ReproveStage,
      Open, AcquireLease, CheckUnclaimed, CreateClaim, WriteClaim, Reprove,
      Exec, WriteAuthorized, PublishRefusal, ReadStatus, Answer, CheckHook,
      CreateMark, WriteMark, RecordBaseline, WritePartial, PublishReceipt,
      ClaimRecord, JoinRecord, PublishRecord, RecordAnchor, Done,
      ReadForRetirement, Retire, CleanStage, CleanClaims, CleanLifetime,
      HelperFault, PrepareThrows, PublishedThrows, ExecuteThrows,
      ConsumeExactThrows, Stops, LegacyAbortThrows, Finish, Settle

LEMMA HelperListed ==
  ASSUME EvidenceInv, NEW h \in Helpers, HelperStep(h) \/ HelperFault(h)
  PROVE  listed' \in [Records \cup {"receipt"} -> SUBSET (Packages \cup Extra)]
<1>1. /\ listed \in [Records \cup {"receipt"} -> SUBSET (Packages \cup Extra)]
      /\ Given(h) \in SUBSET (Packages \cup Extra)
  BY DEF EvidenceInv, FormOK, Given, Targets
<1>2. CASE CleanStage(h)
  BY <1>1, <1>2 DEF CleanStage
<1>3. CASE PublishReceipt(h) \/ PublishRecord(h)
  BY <1>1, <1>3 DEF PublishReceipt, PublishRecord
<1>4. CASE listed' = listed
  BY <1>1, <1>4
<1> QED
  BY <1>2, <1>3, <1>4
  DEF HelperStep, MakeStaging, WriteStage, PublishStage, ReproveStage,
      Open, AcquireLease, CheckUnclaimed, CreateClaim, WriteClaim, Reprove,
      Exec, WriteAuthorized, PublishRefusal, ReadStatus, Answer, CheckHook,
      CreateMark, WriteMark, RecordBaseline, WritePartial, ClaimRecord,
      JoinRecord, RecordAnchor, Done, ReadForRetirement, Retire, CleanClaims,
      CleanLifetime, ForkExecute, WaitExecute, HelperFault, PrepareThrows,
      PublishedThrows, ExecuteThrows, ConsumeExactThrows, Stops,
      LegacyAbortThrows, LosesChild, store

LEMMA HelperEvidence ==
  ASSUME EvidenceInv, NEW h \in Helpers, HelperStep(h) \/ HelperFault(h)
  PROVE  EvidenceInv'
<1>1. HeldInv'
  BY StoreNextHeld DEF EvidenceInv, StoreNext
<1>2. FilesKept /\ ProcsKept
  BY HelperFiles, HelperProc
<1>3. hook # NoHelper => by'[hook] = "pacman"
  BY HookStays
<1>4. CASE Exec(h)
  <2>1. /\ starts' = starts + 1 /\ phase' = "start" /\ slot' = h
        /\ UNCHANGED <<hook, committed, exit>> /\ pc[h] = "exec"
    BY <1>4 DEF Exec
  <2>2. starts = 0
    BY <2>1
    DEF EvidenceInv, HeldInv, RunInv, ClaimOK, Claiming, Authorizing
  <2>3. phase = "none" /\ ~committed
    BY <2>2 DEF EvidenceInv, HeldInv, PacmanOK, PhaseOK
  <2>4. PhaseOK'
    BY <1>3, <2>1, <2>2, <2>3 DEF EvidenceInv, PhaseOK
  <2>5. FormOK'
    BY <1>2, <2>1, HelperListed DEF EvidenceInv, FormOK, ProcsKept
  <2> QED BY <1>1, <1>2, <2>4, <2>5 DEF EvidenceInv, FilesKept, ProcsKept
<1>5. CASE ~Exec(h)
  <2>1. UNCHANGED <<phase, slot, hook, starts, committed, exit>>
    BY <1>5, HelpersLeavePacman DEF pacmanVars
  <2>2. PhaseOK'
    BY <1>3, <2>1 DEF EvidenceInv, PhaseOK
  <2>3. FormOK'
    BY <1>2, <2>1, HelperListed DEF EvidenceInv, FormOK, ProcsKept
  <2> QED BY <1>1, <1>2, <2>2, <2>3 DEF EvidenceInv, FilesKept, ProcsKept
<1> QED BY <1>4, <1>5

-----------------------------------------------------------------------------
(* pacman, and whoever starts and awaits processes. *)

LEMMA QuietForward ==
  ASSUME EvidenceInv, UNCHANGED <<purpose, store, starts>>,
         starts = 1 => op' = op, committed => committed',
         exit = "ok" => exit' = "ok",
         \A h \in Helpers : lock'[h] \in {lock[h], "none"}
  PROVE  Forward
BY DEF Forward, Refused, Vanished, store

(* A new process. *)
LEMMA LaunchProc ==
  ASSUME EvidenceInv, Forward, NEW h \in Helpers, NEW c, NEW who,
         Launch(h, c, who),
         c \in HookCommands => starts = 1, c \in Recorders => committed,
         c = "install_legacy" => purpose = "legacy",
         who = "parent" => c = "execute"
  PROVE  ProcsKept
<1>d. Domains
  BY HaveDomains
<1>1. /\ \A g \in Helpers : g # h => Same(g)
      /\ pc'[h] = IF c \in Preparers THEN "mkdir" ELSE "open"
      /\ cmd'[h] = c /\ by'[h] = who /\ reply'[h] = NoReply
      /\ DOMAIN by' = Helpers /\ reply' = [reply EXCEPT ![h] = NoReply]
  BY <1>d DEF Launch, Goto, Same, Domains
<1>2. Role(h)'
  BY <1>1
  DEF Forward, Role, Building, Claiming, Authorizing, Recording, Retiring,
      Cleaning
<1>3. HookOK(h)' /\ EndTrue(h)'
  BY <1>1 DEF HookOK, EndTrue, Forward, Writing, Recording
<1>4. ReplyTrue(reply[h])'
  <2>1. ReplyTrue(NoReply)'
    BY NoReplyTrue, ReplyFrame
  <2> QED BY <1>1, <2>1 DEF ReplyTrue, NoReply
<1>5. ProcOK'
  BY <1>1, <1>2, <1>3, <1>4, ProcFrame DEF ProcOK, Proc
<1>6. reply' \in [Helpers -> Replies]
  BY <1>1, NoReplyIsReply DEF EvidenceInv, FormOK
<1> QED BY <1>1, <1>5, <1>6 DEF ProcsKept

(* Processes that nobody waits for any more. *)
LEMMA FreeProc ==
  ASSUME EvidenceInv, Forward, NEW bys, Settle(pc, bys, reply),
         DOMAIN bys = Helpers, \A g \in Helpers : bys[g] \in {by[g], "nobody"},
         lock' = lock
  PROVE  ProcsKept
<1>1. /\ by' = bys
      /\ DOMAIN reply' = Helpers
      /\ \A g \in Helpers :
           \/ /\ pc'[g] = pc[g] /\ cmd'[g] = cmd[g]
              /\ by'[g] = bys[g] /\ reply'[g] = reply[g]
           \/ /\ pc'[g] = "idle" /\ cmd'[g] = "abort"
              /\ by'[g] = "nobody" /\ reply'[g] = NoReply
  BY SettleShape
<1>2. ASSUME NEW g \in Helpers
      PROVE  Proc(g)'
  <2>1. Same(g) \/ Freed(g) \/ Orphaned(g)
    BY <1>1 DEF Same, Freed, Orphaned
  <2> QED BY <2>1, ProcFrame, OrphanFrame
<1>3. reply' \in [Helpers -> Replies]
  <2>1. reply' = [g \in Helpers |-> reply'[g]]
    BY DEF Settle
  <2>2. \A g \in Helpers : reply'[g] \in Replies
    BY <1>1, NoReplyIsReply DEF EvidenceInv, FormOK
  <2> QED BY <2>1, <2>2
<1> QED BY <1>1, <1>2, <1>3 DEF ProcsKept, ProcOK

(* Such steps leave the files alone. *)
LEMMA LaunchFiles ==
  ASSUME EvidenceInv, Forward, UNCHANGED store, starts' = starts,
         \A g \in Helpers :
           pc'[g] = pc[g] \/ pc'[g] \in Ended \cup {"open", "mkdir"}
  PROVE  FilesKept
BY StillKeeps DEF Claiming, Authorizing, Ended

LEMMA RunHookEvidence ==
  ASSUME EvidenceInv, NEW h \in Helpers, RunHook(h)
  PROVE  EvidenceInv' /\ Forward
<1>d. Domains
  BY HaveDomains
<1>1. HeldInv'
  BY StoreNextHeld DEF EvidenceInv, StoreNext, PacmanStep
<1>2. /\ phase \in HookPhases /\ hook' = h
      /\ UNCHANGED <<purpose, store, phase, op, slot, starts, committed, exit>>
  BY DEF RunHook
<1>3. PICK c \in HookOf(phase) : Launch(h, c, "pacman")
  BY DEF RunHook
<1>4. /\ c \in HookCommands
      /\ c \in Recorders => phase \in {"post_install", "post_upgrade"}
  BY <1>2, <1>3 DEF HookOf, HookCommands, HookPhases, Recorders
<1>5. starts = 1 /\ (c \in Recorders => committed)
  BY <1>2, <1>4
  DEF EvidenceInv, HeldInv, RunInv, ShapeOK, PacmanOK, PhaseOK, HookPhases
<1>6. lock' = lock /\ by'[h] = "pacman"
      /\ \A g \in Helpers : pc'[g] = pc[g] \/ pc'[g] \in {"open", "mkdir"}
  BY <1>d, <1>3 DEF Launch, Goto, Domains
<1>7. Forward
  BY <1>2, <1>6, QuietForward
<1>8. FilesKept
  BY <1>2, <1>6, <1>7, LaunchFiles
<1>9. ProcsKept
  BY <1>3, <1>4, <1>5, <1>7, LaunchProc DEF HookCommands
<1>10. PhaseOK'
  BY <1>2, <1>6 DEF EvidenceInv, PhaseOK
<1>11. FormOK'
  BY <1>2, <1>9 DEF EvidenceInv, FormOK, ProcsKept, store
<1> QED
  BY <1>1, <1>7, <1>8, <1>9, <1>10, <1>11
  DEF EvidenceInv, FilesKept, ProcsKept

LEMMA HookEndsEvidence ==
  ASSUME EvidenceInv, HookEnds
  PROVE  EvidenceInv' /\ Forward
<1>d. Domains
  BY HaveDomains
<1>1. HeldInv'
  BY StoreNextHeld DEF EvidenceInv, StoreNext, PacmanStep
<1>2. /\ hook # NoHelper /\ hook' = NoHelper /\ phase' = After(phase)
      /\ UNCHANGED <<purpose, store, lock, op, slot, starts, committed, exit>>
  BY DEF HookEnds
<1>3. PICK bys : bys = [by EXCEPT ![hook] = "nobody"] /\ Settle(pc, bys, reply)
  BY DEF HookEnds
<1>4. /\ DOMAIN bys = Helpers
      /\ \A g \in Helpers : bys[g] \in {by[g], "nobody"}
  BY <1>d, <1>3 DEF Domains
<1>5. \A g \in Helpers : pc'[g] = pc[g] \/ pc'[g] = "idle"
  BY <1>3 DEF Settle
<1>6. Forward
  BY <1>2, QuietForward
<1>7. FilesKept
  BY <1>2, <1>5, <1>6, LaunchFiles DEF Ended
<1>8. ProcsKept
  BY <1>2, <1>3, <1>4, <1>6, FreeProc
<1>9. PhaseOK'
  <2>1. phase \in HookPhases
    BY <1>2 DEF EvidenceInv, HeldInv, PacmanOK
  <2>2. /\ phase' \in {"post_install", "post_upgrade", "end"} => committed
        /\ exit = "none"
    BY <1>2, <2>1 DEF EvidenceInv, PhaseOK, HookPhases, After
  <2> QED BY <1>2, <2>2 DEF EvidenceInv, PhaseOK
<1>10. FormOK'
  BY <1>2, <1>8 DEF EvidenceInv, FormOK, ProcsKept, store
<1> QED
  BY <1>1, <1>6, <1>7, <1>8, <1>9, <1>10
  DEF EvidenceInv, FilesKept, ProcsKept

LEMMA AdvancesEvidence ==
  ASSUME EvidenceInv, Advances
  PROVE  EvidenceInv' /\ Forward
<1>1. HeldInv'
  BY StoreNextHeld DEF EvidenceInv, StoreNext, PacmanStep
<1>2. /\ phase \in HookPhases \cup {"start", "commit"} /\ hook = NoHelper
      /\ phase' = After(phase) /\ committed' = (committed \/ phase = "commit")
      /\ UNCHANGED <<purpose, store, pc, cmd, lock, by, reply, op, slot, hook,
                     starts, exit>>
  BY DEF Advances, procs
<1>3. committed \in BOOLEAN
  BY DEF EvidenceInv, FormOK
<1>4. Forward
  BY <1>2, <1>3, QuietForward
<1>5. FilesKept
  BY <1>2, <1>4, LaunchFiles
<1>6. ProcOK'
  BY <1>2, <1>4, ProcFrame DEF ProcOK, Same
<1>7. PhaseOK'
  <2>1. starts = 1 /\ exit = "none"
    BY <1>2
    DEF EvidenceInv, HeldInv, RunInv, ShapeOK, PacmanOK, PhaseOK, HookPhases
  <2>2. phase' \in {"post_install", "post_upgrade", "end"} => committed'
    <3>1. CASE phase \in {"start", "pre"}
      BY <1>2, <3>1 DEF After
    <3>2. CASE phase = "commit"
      BY <1>2, <1>3, <3>2
    <3>3. CASE phase \in {"post_install", "post_upgrade"}
      BY <1>2, <1>3, <3>3 DEF EvidenceInv, PhaseOK
    <3> QED BY <1>2, <3>1, <3>2, <3>3 DEF HookPhases
  <2>3. /\ phase' \in {"post_install", "post_upgrade", "end"} => committed'
        /\ committed' => starts' = 1
        /\ exit' # "none" => phase' = "ended"
    BY <1>2, <2>1, <2>2
  <2>4. hook' # NoHelper => hook' \in Helpers /\ by'[hook'] = "pacman"
    BY <1>2
  <2> QED BY <2>3, <2>4 DEF PhaseOK
<1>8. FormOK'
  BY <1>2, <1>3 DEF EvidenceInv, FormOK, store
<1> QED
  BY <1>1, <1>4, <1>5, <1>6, <1>7, <1>8 DEF EvidenceInv, FilesKept

LEMMA PacmanEndsEvidence ==
  ASSUME EvidenceInv, PacmanSucceeds \/ PacmanFails
  PROVE  EvidenceInv' /\ Forward
<1>d. Domains
  BY HaveDomains
<1>1. HeldInv'
  BY StoreNextHeld DEF EvidenceInv, StoreNext, PacmanStep
<1>2. PICK rc \in {"ok", "failed"} : PacmanEnds(rc)
  BY DEF PacmanSucceeds, PacmanFails
<1>3. phase \in Running
  BY DEF PacmanSucceeds, PacmanFails, Running
<1>4. /\ slot \in Helpers /\ pc[slot] = "pacman" /\ exit = "none"
      /\ cmd[slot] = "execute"
  BY <1>3
  DEF EvidenceInv, HeldInv, HeldOK, PhaseOK, ProcOK, Proc, Role, Running,
      HookPhases
<1>5. /\ phase' = "ended" /\ exit' = rc /\ hook' = NoHelper
      /\ slot' = NoHelper /\ lock' = [lock EXCEPT ![slot] = "none"]
      /\ UNCHANGED <<purpose, store, op, starts, committed>>
  BY <1>2 DEF PacmanEnds
<1>6. PICK bys : /\ bys = [h \in Helpers |->
                             IF h = hook THEN "nobody" ELSE by[h]]
                 /\ Settle([pc EXCEPT ![slot] = rc], bys, reply)
  BY <1>2 DEF PacmanEnds
<1>7. /\ DOMAIN bys = Helpers
      /\ \A g \in Helpers : bys[g] \in {by[g], "nobody"}
  BY <1>6
<1>8. \A g \in Helpers : pc'[g] = pc[g] \/ pc'[g] \in Ended
  BY <1>d, <1>6 DEF Settle, Domains, Ended
<1>9. Forward
  <2>1. \A g \in Helpers : lock'[g] \in {lock[g], "none"}
    BY <1>d, <1>5 DEF Domains
  <2> QED BY <1>4, <1>5, <2>1, QuietForward
<1>10. FilesKept
  BY <1>5, <1>8, <1>9, LaunchFiles
<1>11. ProcsKept
  <2>1. rc = "ok" => EndsWell(slot)
    BY <1>4, <1>5 DEF EndsWell
  <2>2. PICK x \in Helpers : x = slot
    BY <1>4
  <2>3. /\ Settle([pc EXCEPT ![x] = rc], bys, reply)
        /\ lock' = [lock EXCEPT ![x] = "none"]
        /\ rc = "ok" => EndsWell(x)
    BY <1>5, <1>6, <2>1, <2>2
  <2> QED BY <1>7, <1>9, <2>3, EndProc
<1>12. PhaseOK'
  BY <1>5 DEF EvidenceInv, PhaseOK
<1>13. FormOK'
  BY <1>5, <1>11 DEF EvidenceInv, FormOK, ProcsKept, store
<1> QED
  BY <1>1, <1>9, <1>10, <1>11, <1>12, <1>13
  DEF EvidenceInv, FilesKept, ProcsKept

(* Nothing that the invariant speaks of changes. *)
LEMMA StutterEvidence ==
  ASSUME EvidenceInv, HeldInv',
         UNCHANGED <<purpose, store, procs, phase, op, slot, hook, starts,
                     committed, exit>>
  PROVE  EvidenceInv' /\ Forward
<1>1. UNCHANGED <<pc, cmd, lock, by, reply, listed>>
  BY DEF procs, store
<1>2. Forward
  BY <1>1, QuietForward
<1>3. FilesKept
  BY <1>1, <1>2, LaunchFiles
<1>4. ProcOK'
  BY <1>1, <1>2, ProcFrame DEF ProcOK, Same
<1>5. PhaseOK' /\ FormOK'
  BY <1>1 DEF EvidenceInv, PhaseOK, FormOK
<1> QED BY <1>2, <1>3, <1>4, <1>5 DEF EvidenceInv, FilesKept

LEMMA StoreNextEvidence ==
  ASSUME EvidenceInv, StoreNext
  PROVE  EvidenceInv' /\ Forward
<1>1. ASSUME NEW h \in Helpers, HelperStep(h) \/ HelperFault(h)
      PROVE  EvidenceInv' /\ Forward
  BY <1>1, HelperEvidence, HelperForward
<1>2. CASE PacmanStep
  BY <1>2, RunHookEvidence, HookEndsEvidence, AdvancesEvidence,
     PacmanEndsEvidence DEF PacmanStep
<1>3. CASE StragglerEnds
  <2>1. HeldInv'
    BY StoreNextHeld DEF EvidenceInv
  <2> QED BY <1>3, <2>1, StutterEvidence DEF StragglerEnds
<1> QED BY <1>1, <1>2, <1>3 DEF StoreNext

(* A process starts, by whose hand ever. *)
LEMMA LaunchHeld ==
  ASSUME HeldInv, NEW h \in Helpers, NEW c \in Commands, NEW who,
         Launch(h, c, who), UNCHANGED <<store, pacmanVars>>
  PROVE  HeldInv'
<1>1. /\ lock' = lock /\ pc[h] = "idle"
      /\ \E p \in {"mkdir", "open"} : pc' = [pc EXCEPT ![h] = p]
  BY DEF Launch, Goto
<1>2. RunInv'
  BY LaunchKeeps DEF HeldInv, store, pacmanVars
<1>3. HeldOK'
  BY <1>1, HeldFrame
  DEF HeldInv, RunInv, ShapeOK, store, pacmanVars, PacmanKept, StageIntact,
      Authorizing
<1> QED BY <1>2, <1>3, PacmanOKKept DEF HeldInv

LEMMA LaunchEvidence ==
  ASSUME EvidenceInv, NEW h \in Helpers, NEW c \in Commands \ HookCommands,
         NEW who \in {"client", "nobody"}, Launch(h, c, who),
         c = "install_legacy" => purpose = "legacy",
         UNCHANGED <<purpose, store, pacmanVars>>
  PROVE  EvidenceInv' /\ Forward
<1>d. Domains
  BY HaveDomains
<1>1. HeldInv'
  BY LaunchHeld DEF EvidenceInv
<1>2. UNCHANGED <<phase, op, slot, hook, starts, committed, exit>>
  BY DEF pacmanVars
<1>3. /\ lock' = lock /\ pc[h] = "idle"
      /\ \A g \in Helpers : pc'[g] = pc[g] \/ pc'[g] \in {"open", "mkdir"}
      /\ \A g \in Helpers : g # h => by'[g] = by[g]
  BY <1>d DEF Launch, Goto, Domains
<1>4. Forward
  BY <1>2, <1>3, QuietForward
<1>5. FilesKept
  BY <1>2, <1>3, <1>4, LaunchFiles
<1>6. ProcsKept
  BY <1>4, LaunchProc DEF Recorders
<1>7. PhaseOK'
  <2>1. hook # NoHelper => hook \in Helpers /\ hook # h /\ by[hook] = "pacman"
    BY <1>3 DEF EvidenceInv, PhaseOK, ProcOK, Proc, Role
  <2> QED BY <1>2, <1>3, <2>1 DEF EvidenceInv, PhaseOK
<1>8. FormOK'
  BY <1>2, <1>6 DEF EvidenceInv, FormOK, ProcsKept, store
<1> QED
  BY <1>1, <1>4, <1>5, <1>6, <1>7, <1>8
  DEF EvidenceInv, FilesKept, ProcsKept

LEMMA StoreStutters ==
  ASSUME EvidenceInv, UNCHANGED storeVars
  PROVE  EvidenceInv' /\ Forward
<1>1. UNCHANGED <<place, file, pc, lock, cmd, pacmanVars>>
  BY DEF storeVars, store, procs
<1>2. RunInv'
  BY <1>1, StutterKeeps DEF EvidenceInv, HeldInv, pacmanVars
<1>3. HeldOK'
  BY <1>1, HeldFrame
  DEF EvidenceInv, HeldInv, pacmanVars, PacmanKept, StageIntact
<1>4. HeldInv'
  BY <1>1, <1>2, <1>3, PacmanOKKept DEF EvidenceInv, HeldInv
<1> QED BY <1>4, StutterEvidence DEF storeVars, pacmanVars

LEMMA InitEvidence == Init => EvidenceInv
<1> SUFFICES ASSUME Init PROVE EvidenceInv
  OBVIOUS
<1>1. HeldInv
  <2>1. HeldOK /\ PacmanOK
    BY DEF Init, HeldOK, PacmanOK, InUse, Running, HookPhases, Authorizing
  <2> QED BY <2>1, InitRuns DEF HeldInv
<1>2. FormOK
  BY StoreAssumption, NoReplyIsReply DEF Init, FormOK
<1>3. ProcOK
  <2> SUFFICES ASSUME NEW h \in Helpers PROVE Proc(h)
    BY DEF ProcOK
  <2>1. /\ pc[h] = "idle" /\ cmd[h] = "abort" /\ by[h] = "nobody"
        /\ reply[h] = NoReply
    BY DEF Init
  <2>2. Role(h)
    BY <2>1 DEF Role, Building, Claiming, Authorizing, Recording, Retiring,
       Cleaning
  <2>3. HookOK(h) /\ EndTrue(h)
    BY <2>1 DEF HookOK, EndTrue, HookCommands, Recorders, Writing, Recording
  <2>4. ReplyTrue(reply[h])
    BY <2>1, NoReplyTrue
  <2> QED BY <2>2, <2>3, <2>4 DEF Proc
<1>4. PhaseOK
  BY DEF Init, PhaseOK
<1>5. FilesOK /\ RefusalOK /\ ClaimWhole
  BY DEF Init, FilesOK, RefusalOK, ClaimWhole, Leaves, Staged, Records, Claims
<1>6. GoneOK
  BY DEF Init, GoneOK
<1> QED BY <1>1, <1>2, <1>3, <1>4, <1>5, <1>6 DEF EvidenceInv

(* Whatever commands run beside each other, fail or are killed, and        *)
(* whenever: the refusal, the execution marker and the receipts found in   *)
(* an active transaction state what pacman did.                            *)
THEOREM EvidenceIsTrue == Spec => []EvidenceTruthful
<1>1. EvidenceInv /\ [Next]_storeVars => EvidenceInv'
  <2> SUFFICES ASSUME EvidenceInv, [Next]_storeVars PROVE EvidenceInv'
    OBVIOUS
  <2>1. CASE StoreNext
    BY <2>1, StoreNextEvidence
  <2>2. ASSUME NEW h \in Helpers, NEW c \in Commands \ HookCommands,
               Invoke(h, c)
        PROVE  EvidenceInv'
    <3>1. /\ Launch(h, c, "nobody") /\ UNCHANGED <<purpose, store, pacmanVars>>
          /\ c = "install_legacy" => purpose = "legacy"
      BY <2>2 DEF Invoke, Preparers
    <3> QED BY <3>1, LaunchEvidence
  <2>3. CASE UNCHANGED storeVars
    BY <2>3, StoreStutters
  <2> QED BY <2>1, <2>2, <2>3 DEF Next
<1>2. EvidenceInv => EvidenceTruthful
  <2> SUFFICES ASSUME EvidenceInv, place = "active" PROVE EvidenceTruthful
    BY DEF EvidenceTruthful
  <2>1. DOMAIN listed = Records \cup {"receipt"}
    BY DEF EvidenceInv, FormOK
  <2> QED
    BY <2>1
    DEF EvidenceInv, FilesOK, RefusalOK, Kind, EvidenceTruthful
<1> QED BY <1>1, <1>2, InitEvidence, PTL DEF Spec

(***************************************************************************)
(* What the client of one installation reports is so, whatever it failed   *)
(* to hear: OutcomeTruthful and CleanupTruthful of                         *)
(* TrustedInstallTransport.                                                *)
(***************************************************************************)

(* pacman never ran and there is no execute that could become it. *)
NoExecute ==
  starts = 0 /\ purpose # "legacy" /\ \A h \in Helpers : cmd[h] # "execute"

NeverRan == Refused \/ NoExecute

(* The transaction is there in full, and no process is left that would     *)
(* retire it.                                                              *)
Quiet ==
  /\ place = "active" /\ StageIntact
  /\ \A h \in Helpers : Exclusive(h) => pc[h] \in Ended

CallOK ==
  /\ step \in {"prepare", "execute", "status", "consume", "abort", "end"}
  /\ caller # NoHelper =>
       /\ caller \in Helpers /\ by[caller] = "client"
       /\ cmd[caller] = Command /\ heard = "none" /\ step # "end"
  /\ step \notin {"prepare", "end"} => purpose # "legacy"

(* Until prepare has answered there is nobody else. *)
PrepareOK ==
  step = "prepare" /\ purpose # "legacy" =>
    /\ NoExecute
    /\ \A h \in Helpers :
         /\ h # caller => pc[h] = "idle"
         /\ pc[h] \in {"reproof", "answer", "ok"} => place = "active"
         /\ pc[h] \in {"answer", "ok"} => StageIntact
    /\ heard = "ok" => place = "active" /\ StageIntact

RunOK ==
  /\ /\ step = "execute" /\ caller = NoHelper
     /\ heard \in {"none", "not_started"}
     => NoExecute
  /\ step \in {"execute", "status"} => Quiet

(* What was heard and what was kept of it. *)
HeardOK ==
  /\ answer \in Replies /\ ReplyTrue(answer)
  /\ heard = "ok" /\ step = "execute" => exit = "ok"
  /\ heard = "ok" /\ step = "prepare" /\ purpose = "legacy" => exit = "ok"
  /\ heard = "ok" /\ step = "abort" => Vanished
  /\ /\ heard = "ok" /\ step = "consume" /\ purpose = "exact"
     /\ answer.cleanup = "done"
     => Vanished
  /\ code = "ok" \/ step = "consume" => exit = "ok"

(* What an outcome means, for good. *)
OutcomeTrue(outcome) ==
  /\ outcome = "NotAttempted" => NeverRan
  /\ outcome = "Succeeded" => exit = "ok"
  /\ outcome = "Failed" => starts = 1
  /\ outcome = "Unknown" => purpose = "legacy" \/ Quiet

PendingOK ==
  step = "abort" =>
    /\ OutcomeTrue(pending.outcome) /\ pending.outcome # "Unknown"
    /\ pending.done # "Complete" /\ pending.failed # "Complete"

ResultOK ==
  IF step # "end" THEN result = NoResult
  ELSE
    /\ OutcomeTrue(result.outcome)
    /\ result.status = "Complete" /\ purpose # "legacy" =>
         committed /\ result.pkgs = Receivable
    /\ result.cleanup = "Complete" /\ purpose = "exact" => Vanished
    /\ result.cleanup = "Retained" =>
         result.outcome = "Unknown" /\ purpose # "legacy"

ClientInv ==
  /\ EvidenceInv
  /\ CallOK /\ PrepareOK /\ RunOK /\ HeardOK /\ PendingOK /\ ResultOK

-----------------------------------------------------------------------------
(* What a step of the store does to a process: it may go on, its slot may  *)
(* be freed if no client waits for it, or one is started in a free slot.   *)
StepShape(g) ==
  \/ /\ cmd'[g] = cmd[g]
     /\ pc'[g] = pc[g] \/ pc[g] \notin Ended
     /\ by'[g] = by[g] \/ by[g] \in {"parent", "pacman"}
  \/ cmd'[g] = "abort" /\ pc'[g] = "idle" /\ by[g] # "client"
  \/ pc[g] = "idle" /\ cmd'[g] \in HookCommands /\ starts = 1
  \/ pc[g] = "idle" /\ cmd'[g] = "execute" /\ purpose = "legacy"

LEMMA HelperLive ==
  ASSUME NEW h \in Helpers, HelperStep(h) \/ HelperFault(h)
  PROVE  pc[h] \notin Ended
BY DEF Ended, HelperStep, MakeStaging, WriteStage, PublishStage, ReproveStage,
   Open, AcquireLease, CheckUnclaimed, CreateClaim, Creates, WriteClaim,
   Reprove, Exec, WriteAuthorized, PublishRefusal, ReadStatus, Answer,
   CheckHook, CreateMark, WriteMark, RecordBaseline, WritePartial,
   PublishReceipt, ClaimRecord, JoinRecord, PublishRecord, RecordAnchor, Done,
   ReadForRetirement, Retire, CleanStage, CleanClaims, CleanLifetime,
   ForkExecute, WaitExecute, HelperFault, PrepareThrows, PublishedThrows,
   ExecuteThrows, ConsumeExactThrows, Stops, LegacyAbortThrows, LosesChild

(* A process moves, ends, or deals with its child. *)
LEMMA HelperKinds ==
  ASSUME NEW h \in Helpers, HelperStep(h) \/ HelperFault(h)
  PROVE  \/ UNCHANGED <<cmd, by>> /\ \E p : Goto(h, p)
         \/ \E e : Finish(h, e)
         \/ \E g \in Helpers \ {h} :
              ForkExecute(h, g) \/ WaitExecute(h, g) \/ LosesChild(h, g)
BY DEF HelperStep, MakeStaging, WriteStage, PublishStage, ReproveStage,
   Open, AcquireLease, CheckUnclaimed, CreateClaim, WriteClaim,
   Reprove, Exec, WriteAuthorized, PublishRefusal, ReadStatus, Answer,
   CheckHook, CreateMark, WriteMark, RecordBaseline, WritePartial,
   PublishReceipt, ClaimRecord, JoinRecord, PublishRecord, RecordAnchor, Done,
   ReadForRetirement, Retire, CleanStage, CleanClaims, CleanLifetime,
   HelperFault, PrepareThrows, PublishedThrows,
   ExecuteThrows, ConsumeExactThrows, Stops, LegacyAbortThrows

(* A slot is freed or keeps its process. *)
LEMMA SettledShape ==
  ASSUME NEW pcs, NEW bys, NEW replies, Settle(pcs, bys, replies),
         NEW g \in Helpers, pcs[g] = pc[g] \/ pc[g] \notin Ended,
         bys[g] = by[g] \/ (bys[g] = "nobody" /\ by[g] \in {"parent", "pacman"})
  PROVE  StepShape(g)
BY SettleShape DEF StepShape

LEMMA HelperShape ==
  ASSUME EvidenceInv, NEW h \in Helpers, HelperStep(h) \/ HelperFault(h),
         NEW g \in Helpers
  PROVE  StepShape(g)
<1>d. Domains
  BY HaveDomains
<1>1. pc[h] \notin Ended
  BY HelperLive
<1>2. CASE UNCHANGED <<cmd, by>> /\ \E p : Goto(h, p)
  BY <1>d, <1>1, <1>2 DEF StepShape, Goto, Domains
<1>3. ASSUME NEW e, Finish(h, e) PROVE StepShape(g)
  <2>1. /\ by' = by
        /\ Same(g) \/ Freed(g) \/ (g = h /\ Ends(h, e))
    BY <1>d, <1>3, FinishShape
  <2> QED BY <1>1, <2>1 DEF StepShape, Same, Freed, Ends
<1>4. ASSUME NEW k \in Helpers \ {h}, ForkExecute(h, k) PROVE StepShape(g)
  <2>1. purpose = "legacy"
    BY <1>4 DEF ForkExecute, EvidenceInv, ProcOK, Proc, Role
  <2>2. /\ pc[k] = "idle" /\ cmd' = [cmd EXCEPT ![k] = "execute"]
        /\ pc' = [pc EXCEPT ![h] = "wait", ![k] = "open"]
        /\ by' = [by EXCEPT ![k] = "parent"]
    BY <1>4 DEF ForkExecute
  <2> QED BY <1>d, <1>1, <2>1, <2>2 DEF StepShape, Domains
<1>5. ASSUME NEW k \in Helpers \ {h}, WaitExecute(h, k) \/ LosesChild(h, k)
      PROVE  StepShape(g)
  <2>1. PICK pcs, bys, replies, p :
          /\ pcs = [pc EXCEPT ![h] = p] /\ bys = [by EXCEPT ![k] = "nobody"]
          /\ Settle(pcs, bys, replies) /\ by[k] = "parent"
    BY <1>5 DEF WaitExecute, LosesChild
  <2>2. /\ pcs[g] = pc[g] \/ pc[g] \notin Ended
        /\ \/ bys[g] = by[g]
           \/ bys[g] = "nobody" /\ by[g] \in {"parent", "pacman"}
    BY <1>d, <1>1, <2>1 DEF Domains
  <2>3. Settle(pcs, bys, replies)
    BY <2>1
  <2> QED BY <2>2, <2>3, SettledShape
<1> QED BY <1>2, <1>3, <1>4, <1>5, HelperKinds

LEMMA StoreShape ==
  ASSUME EvidenceInv, StoreNext, NEW g \in Helpers
  PROVE  StepShape(g)
<1>d. Domains
  BY HaveDomains
<1>1. ASSUME NEW h \in Helpers, HelperStep(h) \/ HelperFault(h)
      PROVE  StepShape(g)
  BY <1>1, HelperShape
<1>2. ASSUME NEW h \in Helpers, RunHook(h) PROVE StepShape(g)
  <2>1. starts = 1
    BY <1>2
    DEF RunHook, EvidenceInv, HeldInv, RunInv, ShapeOK, PacmanOK, HookPhases
  <2>2. PICK c \in HookCommands : Launch(h, c, "pacman")
    BY <1>2 DEF RunHook, HookOf, HookPhases, HookCommands
  <2> QED BY <1>d, <2>1, <2>2 DEF Launch, Goto, StepShape, Domains
<1>3. CASE HookEnds
  <2>1. by[hook] = "pacman"
    BY <1>3 DEF HookEnds, EvidenceInv, PhaseOK
  <2>2. PICK bys : /\ bys = [by EXCEPT ![hook] = "nobody"]
                   /\ Settle(pc, bys, reply)
    BY <1>3 DEF HookEnds
  <2>3. bys[g] = by[g] \/ (bys[g] = "nobody" /\ by[g] \in {"parent", "pacman"})
    BY <1>d, <2>1, <2>2 DEF Domains
  <2> QED BY <2>2, <2>3, SettledShape
<1>4. CASE Advances \/ StragglerEnds
  BY <1>4 DEF Advances, StragglerEnds, procs, StepShape
<1>5. CASE PacmanSucceeds \/ PacmanFails
  <2>1. slot \in Helpers /\ pc[slot] = "pacman"
    BY <1>5
    DEF PacmanSucceeds, PacmanFails, Running, EvidenceInv, HeldInv, HeldOK
  <2>2. PICK e, pcs, bys :
          /\ pcs = [pc EXCEPT ![slot] = e]
          /\ bys = [h \in Helpers |-> IF h = hook THEN "nobody" ELSE by[h]]
          /\ Settle(pcs, bys, reply)
    BY <1>5 DEF PacmanSucceeds, PacmanFails, PacmanEnds
  <2>3. g = hook => by[g] = "pacman"
    BY DEF EvidenceInv, PhaseOK, FormOK
  <2>4. /\ pcs[g] = pc[g] \/ pc[g] \notin Ended
        /\ \/ bys[g] = by[g]
           \/ bys[g] = "nobody" /\ by[g] \in {"parent", "pacman"}
    BY <1>d, <2>1, <2>2, <2>3 DEF Domains, Ended
  <2>5. Settle(pcs, bys, reply)
    BY <2>2
  <2> QED BY <2>4, <2>5, SettledShape
<1> QED BY <1>1, <1>2, <1>3, <1>4, <1>5 DEF StoreNext, PacmanStep

(* The client's process stays its process. *)
LEMMA ClientStays ==
  ASSUME EvidenceInv, StoreNext, NEW g \in Helpers, by[g] = "client"
  PROVE  by'[g] = "client" /\ cmd'[g] = cmd[g]
<1>1. pc[g] # "idle"
  BY DEF EvidenceInv, ProcOK, Proc, Role
<1> QED BY <1>1, StoreShape DEF StepShape

LEMMA NoExecuteStays ==
  ASSUME EvidenceInv, StoreNext, NoExecute
  PROVE  NoExecute'
<1>1. \A g \in Helpers : cmd'[g] # "execute"
  BY StoreShape DEF StepShape, NoExecute, HookCommands
<1>2. starts' = 0
  <2>1. ASSUME NEW h \in Helpers, HelperStep(h) \/ HelperFault(h)
        PROVE  starts' = 0
    <3>1. ~Exec(h)
      BY DEF Exec, NoExecute, EvidenceInv, ProcOK, Proc, Role, Claiming,
         Authorizing
    <3> QED BY <2>1, <3>1, HelpersLeavePacman DEF pacmanVars, NoExecute
  <2> QED
    BY <2>1
    DEF StoreNext, PacmanStep, RunHook, HookEnds, Advances, PacmanSucceeds,
        PacmanFails, PacmanEnds, StragglerEnds, NoExecute
<1>3. purpose' = purpose
  BY StoreNextEvidence DEF Forward
<1> QED BY <1>1, <1>2, <1>3 DEF NoExecute

LEMMA NeverRanStays ==
  ASSUME EvidenceInv, StoreNext, NeverRan
  PROVE  NeverRan'
BY NoExecuteStays, StoreNextEvidence DEF NeverRan, Forward

LEMMA QuietStays ==
  ASSUME EvidenceInv, StoreNext, Quiet
  PROVE  Quiet'
<1>d. Domains
  BY HaveDomains
<1>1. \A g \in Helpers : Exclusive(g)' => pc'[g] \in Ended
  BY StoreShape
  DEF StepShape, Quiet, Exclusive, Preparers, Consumers, HookCommands, Ended
<1>2. ASSUME NEW h \in Helpers, HelperStep(h) \/ HelperFault(h)
      PROVE  /\ place' = place /\ file'["stage"] = file["stage"]
             /\ file'["lifetime"] = file["lifetime"]
  <2>1. ~Exclusive(h)
    BY <1>2, HelperLive DEF Quiet
  <2>2. pc[h] \notin Building \cup Retiring \cup {"mkdir"}
    BY <2>1 DEF EvidenceInv, ProcOK, Proc, Role, Exclusive
  <2>3. ~(\/ MakeStaging(h) \/ WriteStage(h) \/ PublishStage(h)
          \/ PrepareThrows(h) \/ Retire(h) \/ CleanStage(h)
          \/ CleanClaims(h) \/ CleanLifetime(h))
    BY <2>2
    DEF MakeStaging, WriteStage, PublishStage, PrepareThrows, Retire,
        CleanStage, CleanClaims, CleanLifetime, Building, Retiring, Cleaning
  <2>4. CASE \/ CreateClaim(h) \/ WriteClaim(h) \/ WriteAuthorized(h)
             \/ PublishRefusal(h)
    BY <1>d, <2>4
    DEF CreateClaim, Creates, WriteClaim, WriteAuthorized, PublishRefusal,
        Domains, Leaves, Staged
  <2>5. CASE \/ RecordBaseline(h) \/ WritePartial(h) \/ PublishReceipt(h)
             \/ ClaimRecord(h) \/ PublishRecord(h) \/ RecordAnchor(h)
    BY <1>d, <2>5
    DEF RecordBaseline, WritePartial, PublishReceipt, ClaimRecord,
        PublishRecord, RecordAnchor, Leaf, AnchorOf, Domains, Leaves, Staged
  <2>6. CASE UNCHANGED <<place, file>>
    BY <2>6
  <2> QED
    BY <1>2, <2>3, <2>4, <2>5, <2>6
    DEF HelperStep, ReproveStage, Open, AcquireLease, CheckUnclaimed, Reprove,
        Exec, ReadStatus, Answer, CheckHook, CreateMark, WriteMark, JoinRecord,
        Done, ReadForRetirement, ForkExecute, WaitExecute, HelperFault,
        PublishedThrows, ExecuteThrows, ConsumeExactThrows, Stops,
        LegacyAbortThrows, LosesChild, store
<1>3. /\ place' = place /\ file'["stage"] = file["stage"]
      /\ file'["lifetime"] = file["lifetime"]
  <2>1. CASE PacmanStep \/ StragglerEnds
    BY <2>1
    DEF PacmanStep, RunHook, HookEnds, Advances, PacmanSucceeds,
        PacmanFails, PacmanEnds, StragglerEnds, store
  <2> QED BY <1>2, <2>1 DEF StoreNext
<1> QED BY <1>1, <1>3 DEF Quiet, StageIntact

(* prepare is alone, and what it has published it leaves unless it fails. *)
LEMMA PrepareStep ==
  ASSUME EvidenceInv, NEW h \in Helpers, HelperStep(h) \/ HelperFault(h),
         cmd[h] = "prepare",
         pc[h] \in {"reproof", "answer", "ok"} => place = "active",
         pc[h] \in {"answer", "ok"} => StageIntact
  PROVE  /\ pc'[h] \in {"reproof", "answer", "ok"} => place' = "active"
         /\ pc'[h] \in {"answer", "ok"} => StageIntact'
<1>d. Domains
  BY HaveDomains
<1>r. Role(h)
  BY DEF EvidenceInv, ProcOK, Proc
<1>1. CASE PublishStage(h)
  BY <1>d, <1>1 DEF PublishStage, Goto, Domains
<1>2. CASE ReproveStage(h)
  BY <1>d, <1>2 DEF ReproveStage, Goto, Domains, StageIntact, store
<1>3. CASE Answer(h)
  <2>1. place = "active" /\ StageIntact /\ UNCHANGED <<place, file>>
    BY <1>3 DEF Answer, store
  <2> QED BY <2>1 DEF StageIntact
<1>4. CASE Finish(h, "failed")
  <2>1. pc'[h] \in {"failed", "idle"}
    BY <1>d, <1>4, FinishShape DEF Ends, Freed
  <2> QED BY <2>1
<1>5. CASE \E p : p \notin {"reproof", "answer", "ok"} /\ Goto(h, p)
  BY <1>d, <1>5 DEF Goto, Domains
<1>6. CASE HelperStep(h)
  <2>1. CASE \/ MakeStaging(h) \/ WriteStage(h) \/ Open(h) \/ AcquireLease(h)
             \/ CheckUnclaimed(h) \/ CreateClaim(h) \/ WriteClaim(h)
             \/ Reprove(h) \/ WriteAuthorized(h) \/ Exec(h)
             \/ ReadForRetirement(h) \/ Retire(h) \/ CleanStage(h)
             \/ CleanClaims(h)
    BY <1>5, <2>1
    DEF MakeStaging, WriteStage, Open, AcquireLease, CheckUnclaimed,
        CreateClaim, WriteClaim, Reprove, WriteAuthorized, Exec,
        ReadForRetirement, Retire, CleanStage, CleanClaims
  <2>2. CASE CleanLifetime(h) \/ PublishRefusal(h)
    BY <1>4, <2>2 DEF CleanLifetime, PublishRefusal, AbortCode, Consumers
  <2>3. ~(\/ ReadStatus(h) \/ CheckHook(h) \/ CreateMark(h) \/ WriteMark(h)
          \/ RecordBaseline(h) \/ WritePartial(h) \/ PublishReceipt(h)
          \/ ClaimRecord(h) \/ JoinRecord(h) \/ PublishRecord(h)
          \/ RecordAnchor(h) \/ Done(h)
          \/ \E g \in Helpers \ {h} : ForkExecute(h, g) \/ WaitExecute(h, g))
    BY <1>r
    DEF Role, HookCommands, Recording, ReadStatus, CheckHook, CreateMark,
        WriteMark, RecordBaseline, WritePartial, PublishReceipt, ClaimRecord,
        JoinRecord, PublishRecord, RecordAnchor, Done, ForkExecute, WaitExecute
  <2> QED BY <1>1, <1>2, <1>3, <1>6, <2>1, <2>2, <2>3 DEF HelperStep
<1>7. CASE HelperFault(h)
  <2>1. CASE PublishedThrows(h) \/ ExecuteThrows(h)
    BY <1>5, <2>1 DEF PublishedThrows, ExecuteThrows
  <2>2. CASE PrepareThrows(h) \/ Stops(h)
    BY <1>4, <2>2 DEF PrepareThrows, Stops
  <2>3. ~(\/ ConsumeExactThrows(h) \/ LegacyAbortThrows(h)
          \/ \E g \in Helpers \ {h} : LosesChild(h, g))
    BY <1>r DEF Role, ConsumeExactThrows, LegacyAbortThrows, LosesChild
  <2> QED BY <1>7, <2>1, <2>2, <2>3 DEF HelperFault
<1> QED BY <1>6, <1>7

LEMMA PrepareStays ==
  ASSUME EvidenceInv, CallOK, PrepareOK, StoreNext, UNCHANGED client
  PROVE  PrepareOK'
<1>1. purpose' = purpose /\ UNCHANGED <<step, caller, heard>>
  BY StoreNextEvidence DEF Forward, client
<1> SUFFICES ASSUME step = "prepare", purpose # "legacy" PROVE PrepareOK'
  BY <1>1 DEF PrepareOK
<1>2. /\ NoExecute
      /\ \A h \in Helpers : h # caller => pc[h] = "idle"
  BY DEF PrepareOK
<1>3. NoExecute'
  BY <1>2, NoExecuteStays
<1>4. \A h \in Helpers : h # caller => pc'[h] = "idle"
  BY <1>2, StoreShape DEF StepShape, NoExecute, Ended
<1>5. ~PacmanStep
  <2>1. phase = "none" /\ hook = NoHelper
    BY <1>2 DEF NoExecute, EvidenceInv, HeldInv, PacmanOK, HookPhases
  <2> QED
    BY <2>1
    DEF PacmanStep, RunHook, HookEnds, Advances, PacmanSucceeds, PacmanFails,
        HookPhases, Running
<1>6. CASE StragglerEnds
  <2>1. UNCHANGED <<place, file, pc>>
    BY <1>6 DEF StragglerEnds, store, procs
  <2> QED BY <1>1, <1>3, <2>1 DEF PrepareOK, StageIntact
<1>7. ASSUME NEW h \in Helpers, HelperStep(h) \/ HelperFault(h)
      PROVE  PrepareOK'
  <2>1. h = caller /\ caller # NoHelper
    BY <1>2, <1>7, HelperLive DEF Ended, EvidenceInv, FormOK
  <2>2. cmd[h] = "prepare" /\ heard = "none"
    BY <2>1 DEF CallOK, Command
  <2>3. /\ pc[h] \in {"reproof", "answer", "ok"} => place = "active"
        /\ pc[h] \in {"answer", "ok"} => StageIntact
    BY DEF PrepareOK
  <2>4. /\ pc'[h] \in {"reproof", "answer", "ok"} => place' = "active"
        /\ pc'[h] \in {"answer", "ok"} => StageIntact'
    BY <1>7, <2>2, <2>3, PrepareStep
  <2>5. ASSUME NEW g \in Helpers
        PROVE  /\ g # caller' => pc'[g] = "idle"
               /\ pc'[g] \in {"reproof", "answer", "ok"} => place' = "active"
               /\ pc'[g] \in {"answer", "ok"} => StageIntact'
    BY <1>1, <1>4, <2>1, <2>4
  <2> QED BY <1>1, <1>3, <2>2, <2>5 DEF PrepareOK
<1> QED BY <1>5, <1>6, <1>7 DEF StoreNext

-----------------------------------------------------------------------------
(* What has been heard and reported stays true. *)

LEMMA OutcomeStays ==
  ASSUME Forward, NEW o, OutcomeTrue(o), NoExecute => NoExecute',
         o # "Unknown" \/ (Quiet => Quiet')
  PROVE  OutcomeTrue(o)'
BY DEF OutcomeTrue, NeverRan, Forward

LEMMA HeardStays ==
  ASSUME ClientInv, Forward, UNCHANGED <<step, heard, answer, code>>
  PROVE  HeardOK'
<1>1. PICK a \in Replies : a = answer /\ ReplyTrue(a)
  BY DEF ClientInv, HeardOK
<1>2. ReplyTrue(a)'
  BY <1>1, ReplyFrame DEF ClientInv
<1>3. answer' \in Replies /\ ReplyTrue(answer)'
  BY <1>1, <1>2 DEF ReplyTrue
<1> QED BY <1>3 DEF ClientInv, HeardOK, Forward

LEMMA PendingStays ==
  ASSUME ClientInv, Forward, UNCHANGED <<step, pending>>,
         step = "abort" /\ NoExecute => NoExecute'
  PROVE  PendingOK'
<1>1. PICK o : o = pending.outcome
  OBVIOUS
<1>2. step = "abort" => OutcomeTrue(o)'
  BY <1>1, OutcomeStays DEF ClientInv, PendingOK
<1>3. step = "abort" => OutcomeTrue(pending.outcome)'
  BY <1>1, <1>2 DEF OutcomeTrue
<1> QED BY <1>3 DEF ClientInv, PendingOK

LEMMA ResultStays ==
  ASSUME ClientInv, Forward, UNCHANGED <<step, result>>,
         step = "end" /\ NoExecute => NoExecute',
         step = "end" /\ Quiet => Quiet'
  PROVE  ResultOK'
<1>1. CASE step # "end"
  BY <1>1 DEF ClientInv, ResultOK
<1>2. CASE step = "end"
  <2>1. PICK o : o = result.outcome
    OBVIOUS
  <2>2. OutcomeTrue(o)'
    BY <1>2, <2>1, OutcomeStays DEF ClientInv, ResultOK
  <2>3. OutcomeTrue(result.outcome)'
    BY <2>1, <2>2 DEF OutcomeTrue
  <2>4. committed => committed' /\ Receivable' = Receivable
    BY DEF Forward, ClientInv, EvidenceInv, PhaseOK, Receivable, Touched,
       Targets
  <2> QED BY <1>2, <2>3, <2>4 DEF ClientInv, ResultOK, Forward
<1> QED BY <1>1, <1>2

LEMMA StoreStepClient ==
  ASSUME ClientInv, StoreNext, UNCHANGED client
  PROVE  ClientInv'
<1>1. EvidenceInv' /\ Forward
  BY StoreNextEvidence DEF ClientInv
<1>2. RunOK' /\ HeardOK' /\ PendingOK' /\ ResultOK'
  <2>1. (NoExecute => NoExecute') /\ (Quiet => Quiet')
    BY NoExecuteStays, QuietStays DEF ClientInv
  <2>2. UNCHANGED <<step, caller, heard, answer, code, pending, result>>
    BY DEF client
  <2>3. RunOK'
    BY <2>1, <2>2 DEF ClientInv, RunOK
  <2> QED BY <1>1, <2>1, <2>2, <2>3, HeardStays, PendingStays, ResultStays
<1>3. PrepareOK'
  BY PrepareStays DEF ClientInv
<1>4. CallOK'
  <2>1. /\ UNCHANGED <<step, caller, heard>> /\ Command' = Command
        /\ purpose' = purpose
    BY <1>1 DEF client, Forward, Command
  <2>2. caller # NoHelper =>
          by'[caller] = "client" /\ cmd'[caller] = cmd[caller]
    BY ClientStays DEF ClientInv, CallOK
  <2> QED BY <2>1, <2>2 DEF ClientInv, CallOK
<1> QED BY <1>1, <1>2, <1>3, <1>4 DEF ClientInv

(* The client starts a command. *)
LEMMA CallClient ==
  ASSUME ClientInv, NEW h \in Helpers, Call(h)
  PROVE  ClientInv'
<1>d. Domains
  BY HaveDomains DEF ClientInv
<1>1. /\ step # "end" /\ caller = NoHelper /\ heard = "none" /\ caller' = h
      /\ UNCHANGED <<purpose, step, heard, answer, code, pending, result>>
      /\ UNCHANGED <<purpose, store, pacmanVars>>
  BY DEF Call, Idle
<1>2. PICK c : c = Command
  OBVIOUS
<1>3. /\ c \in Commands \ HookCommands
      /\ c = "install_legacy" => purpose = "legacy"
      /\ step \in {"execute", "status", "abort"} => c = step
      /\ step = "prepare" /\ purpose # "legacy" => c = "prepare"
      /\ c = "execute" => step = "execute"
      /\ Command' = c
  BY <1>1, <1>2
  DEF ClientInv, CallOK, Command, Commands, Preparers, Consumers, HookCommands
<1>4. Launch(h, c, "client")
  BY <1>2 DEF Call
<1>5. EvidenceInv' /\ Forward
  BY <1>1, <1>3, <1>4, LaunchEvidence DEF ClientInv
<1>6. /\ cmd'[h] = c /\ by'[h] = "client" /\ pc'[h] \in {"open", "mkdir"}
      /\ \A g \in Helpers : g # h => cmd'[g] = cmd[g] /\ pc'[g] = pc[g]
      /\ UNCHANGED <<place, file, starts>> /\ h # NoHelper
  BY <1>d, <1>1, <1>4
  DEF Launch, Goto, Domains, store, pacmanVars, ClientInv, EvidenceInv, FormOK
<1>7. step # "execute" /\ NoExecute => NoExecute'
  BY <1>1, <1>3, <1>6 DEF NoExecute
<1>8. step \in {"execute", "status"} /\ Quiet => Quiet'
  BY <1>3, <1>6 DEF Quiet, StageIntact, Exclusive, Preparers, Consumers
<1>9. CallOK'
  BY <1>1, <1>3, <1>6 DEF ClientInv, CallOK
<1>10. PrepareOK'
  <2> SUFFICES ASSUME step = "prepare", purpose # "legacy" PROVE PrepareOK'
    BY <1>1 DEF PrepareOK
  <2>1. NoExecute /\ \A g \in Helpers : pc[g] = "idle"
    BY <1>1 DEF ClientInv, EvidenceInv, FormOK, PrepareOK
  <2>2. \A g \in Helpers :
          /\ g # h => pc'[g] = "idle"
          /\ pc'[g] \notin {"reproof", "answer", "ok"}
    BY <1>6, <2>1
  <2> QED BY <1>1, <1>7, <2>1, <2>2 DEF PrepareOK
<1>11. RunOK'
  BY <1>1, <1>6, <1>8 DEF ClientInv, RunOK
<1> QED
  BY <1>1, <1>5, <1>7, <1>9, <1>10, <1>11, HeardStays, PendingStays,
     ResultStays DEF ClientInv

(* The client no longer waits for its process. *)
LEMMA FreeCaller ==
  ASSUME EvidenceInv, NEW c \in Helpers, by[c] = "client",
         Settle(pc, [by EXCEPT ![c] = "nobody"], reply),
         UNCHANGED <<purpose, store, lock, pacmanVars>>
  PROVE  /\ EvidenceInv' /\ Forward
         /\ NoExecute => NoExecute'
         /\ Quiet => Quiet'
         /\ pc[c] \in Ended => pc'[c] = "idle"
         /\ \A g \in Helpers : pc'[g] \in {pc[g], "idle"}
<1>d. Domains
  BY HaveDomains
<1>1. PICK bys : bys = [by EXCEPT ![c] = "nobody"] /\ Settle(pc, bys, reply)
  OBVIOUS
<1>2. /\ DOMAIN bys = Helpers
      /\ \A g \in Helpers : bys[g] = IF g = c THEN "nobody" ELSE by[g]
  BY <1>d, <1>1 DEF Domains
<1>3. UNCHANGED <<place, file, observed, listed, phase, op, slot, hook,
                  straggler, starts, committed, exit>>
  BY DEF store, pacmanVars
<1>4. by' = bys /\ \A g \in Helpers :
        \/ pc'[g] = pc[g] /\ cmd'[g] = cmd[g]
        \/ pc'[g] = "idle" /\ cmd'[g] = "abort" /\ pc[g] \in Ended
  <2>1. Settle(pc, bys, reply)
    BY <1>1
  <2> QED BY <2>1, SettleShape
<1>5. Forward
  BY <1>3, QuietForward
<1>6. HeldInv'
  <2>1. RunInv'
    BY <1>1, <1>3, FreeKeeps DEF EvidenceInv, HeldInv
  <2>2. HeldOK'
    BY <1>3, <1>4, HeldFrame
    DEF EvidenceInv, HeldInv, PacmanKept, StageIntact, Authorizing, Ended
  <2> QED BY <2>1, <2>2, PacmanOKKept DEF EvidenceInv, HeldInv
<1>7. FilesKept
  BY <1>3, <1>4, <1>5, LaunchFiles DEF Ended
<1>8. ProcsKept
  BY <1>1, <1>2, <1>5, FreeProc
<1>9. PhaseOK'
  BY <1>2, <1>3, <1>4 DEF EvidenceInv, PhaseOK
<1>10. FormOK'
  BY <1>3, <1>8 DEF EvidenceInv, FormOK, ProcsKept
<1>11. pc[c] \in Ended => pc'[c] = "idle"
  BY <1>1, <1>2 DEF Settle
<1>12. (NoExecute => NoExecute') /\ (Quiet => Quiet')
  BY <1>3, <1>4 DEF NoExecute, Quiet, StageIntact, Exclusive, Ended
<1> QED
  BY <1>4, <1>5, <1>6, <1>7, <1>8, <1>9, <1>10, <1>11, <1>12
  DEF EvidenceInv, FilesKept, ProcsKept

LEMMA HearClient ==
  ASSUME ClientInv, Hear \/ Lose
  PROVE  ClientInv'
<1>1. /\ caller # NoHelper /\ caller' = NoHelper
      /\ UNCHANGED <<purpose, step, code, pending, result>>
      /\ UNCHANGED <<purpose, store, lock, pacmanVars>>
      /\ Settle(pc, [by EXCEPT ![caller] = "nobody"], reply)
  BY DEF Hear, Lose
<1>2. PICK c \in Helpers : c = caller
  BY <1>1 DEF ClientInv, CallOK
<1>3. by[c] = "client" /\ cmd[c] = Command /\ step # "end"
  BY <1>1, <1>2 DEF ClientInv, CallOK
<1>4. /\ EvidenceInv' /\ Forward
      /\ NoExecute => NoExecute'
      /\ Quiet => Quiet'
      /\ pc[c] \in Ended => pc'[c] = "idle"
      /\ \A g \in Helpers : pc'[g] \in {pc[g], "idle"}
  BY <1>1, <1>2, <1>3, FreeCaller DEF ClientInv
<1>5. /\ heard' \in {"ok", "failed", "garbled", "threw", "unknown"}
      /\ heard' = "ok" => pc[c] = "ok" /\ answer' = reply[c]
      /\ heard' # "ok" => answer' = NoReply
  BY <1>2 DEF Hear, Lose, Hearable
<1>6. CallOK'
  BY <1>1 DEF ClientInv, CallOK
<1>7. PrepareOK'
  <2> SUFFICES ASSUME step = "prepare", purpose # "legacy" PROVE PrepareOK'
    BY <1>1 DEF PrepareOK
  <2>1. pc[c] \in {"ok", "failed"}
    BY <1>2 DEF Hear, Lose, Captured
  <2>2. /\ NoExecute /\ \A g \in Helpers : g # c => pc[g] = "idle"
        /\ pc[c] = "ok" => place = "active" /\ StageIntact
    BY <1>2 DEF ClientInv, PrepareOK
  <2>3. \A g \in Helpers : pc'[g] = "idle"
    BY <1>4, <2>1, <2>2 DEF Ended
  <2>4. UNCHANGED <<place, file>>
    BY <1>1 DEF store
  <2> QED BY <1>4, <1>5, <2>2, <2>3, <2>4 DEF PrepareOK, StageIntact
<1>8. RunOK'
  BY <1>1, <1>4, <1>5 DEF ClientInv, RunOK
<1>9. HeardOK'
  <2>1. Proc(c) /\ reply[c] \in Replies
    BY DEF ClientInv, EvidenceInv, ProcOK, FormOK
  <2>2. PICK a \in Replies : a = answer' /\ ReplyTrue(a)
    BY <1>5, <2>1, NoReplyIsReply, NoReplyTrue DEF Proc
  <2>3. ReplyTrue(a)'
    BY <1>4, <2>2, ReplyFrame DEF ClientInv
  <2>4. answer' \in Replies /\ ReplyTrue(answer)'
    BY <2>2, <2>3 DEF ReplyTrue
  <2>5. ASSUME heard' = "ok"
        PROVE  /\ step = "execute" => exit = "ok"
               /\ step = "prepare" /\ purpose = "legacy" => exit = "ok"
               /\ step = "abort" => Vanished
               /\ /\ step = "consume" /\ purpose = "exact"
                  /\ answer'.cleanup = "done"
                  => Vanished
    BY <1>3, <1>5, <2>1, <2>5 DEF Proc, EndTrue, Command
  <2> QED BY <1>1, <1>4, <2>4, <2>5 DEF HeardOK, ClientInv, Forward
<1> QED
  BY <1>1, <1>4, <1>6, <1>7, <1>8, <1>9, PendingStays, ResultStays
  DEF ClientInv

-----------------------------------------------------------------------------
(* The client goes on from what it heard. *)

LEMMA StoreSame ==
  ASSUME EvidenceInv, UNCHANGED storeVars
  PROVE  /\ EvidenceInv' /\ Forward
         /\ NoExecute => NoExecute'
         /\ Quiet => Quiet'
<1>1. UNCHANGED <<purpose, place, file, cmd, pc, starts>>
  BY DEF storeVars, store, procs, pacmanVars
<1> QED
  BY <1>1, StoreStutters DEF NoExecute, Quiet, StageIntact, Exclusive

LEMMA NotStartedClient ==
  ASSUME ClientInv, NotStarted
  PROVE  ClientInv'
<1>1. /\ step # "end" /\ caller = NoHelper /\ heard = "none"
      /\ heard' \in {"not_started", "failed", "threw"}
      /\ heard' = "not_started" => step = "execute"
      /\ answer' = NoReply
      /\ UNCHANGED <<step, caller, code, pending, result>>
      /\ UNCHANGED storeVars
  BY DEF NotStarted, Idle
<1>2. /\ EvidenceInv' /\ Forward
      /\ NoExecute => NoExecute'
      /\ Quiet => Quiet'
  BY <1>1, StoreSame DEF ClientInv
<1>3. UNCHANGED <<purpose, place, file, pc>>
  BY <1>1 DEF storeVars, store, procs
<1>4. CallOK' /\ RunOK'
  BY <1>1, <1>2, <1>3 DEF ClientInv, CallOK, RunOK
<1>5. PrepareOK'
  BY <1>1, <1>2, <1>3 DEF ClientInv, PrepareOK, StageIntact
<1>6. HeardOK'
  <2>1. ReplyTrue(NoReply)'
    BY <1>2, NoReplyTrue, ReplyFrame DEF ClientInv
  <2>2. answer' \in Replies /\ ReplyTrue(answer)'
    BY <1>1, <2>1, NoReplyIsReply DEF ReplyTrue
  <2> QED BY <1>1, <1>2, <2>2 DEF HeardOK, ClientInv, Forward
<1> QED
  BY <1>1, <1>2, <1>4, <1>5, <1>6, PendingStays, ResultStays DEF ClientInv

(* It goes to another command, or to its report: what holds in any case. *)
LEMMA ProceedClient ==
  ASSUME ClientInv, heard # "none", step # "end",
         NEW next \in {"execute", "status", "consume", "abort", "end"},
         Proceed(next), next # "end" => purpose # "legacy",
         next \in {"execute", "status"} => Quiet,
         next = "execute" => NoExecute,
         code' = "ok" \/ next = "consume" => exit = "ok"
  PROVE  /\ EvidenceInv' /\ Forward /\ CallOK' /\ PrepareOK' /\ RunOK'
         /\ HeardOK'
         /\ NoExecute => NoExecute'
         /\ Quiet => Quiet'
<1>1. /\ step' = next /\ heard' = "none" /\ answer' = NoReply
      /\ caller' = caller /\ UNCHANGED storeVars
  BY DEF Proceed
<1>2. caller = NoHelper
  BY DEF ClientInv, CallOK
<1>3. /\ EvidenceInv' /\ Forward
      /\ NoExecute => NoExecute'
      /\ Quiet => Quiet'
  BY <1>1, StoreSame DEF ClientInv
<1>4. CallOK' /\ PrepareOK' /\ RunOK'
  BY <1>1, <1>2, <1>3 DEF CallOK, PrepareOK, RunOK, Forward
<1>5. HeardOK'
  <2>1. ReplyTrue(NoReply)'
    BY <1>3, NoReplyTrue, ReplyFrame DEF ClientInv
  <2>2. answer' \in Replies /\ ReplyTrue(answer)'
    BY <1>1, <2>1, NoReplyIsReply DEF ReplyTrue
  <2> QED BY <1>1, <1>3, <2>2 DEF HeardOK, Forward
<1> QED BY <1>3, <1>4, <1>5

(* A report: what it says must be so. *)
LEMMA EndClient ==
  ASSUME ClientInv, heard # "none", step # "end", NEW report, End(report),
         OutcomeTrue(report.outcome),
         report.status = "Complete" /\ purpose # "legacy" =>
           committed /\ report.pkgs = Receivable,
         report.cleanup = "Complete" /\ purpose = "exact" => Vanished,
         report.cleanup = "Retained" =>
           report.outcome = "Unknown" /\ purpose # "legacy"
  PROVE  ClientInv'
<1>1. Proceed("end") /\ result' = report /\ UNCHANGED <<code, pending>>
  BY DEF End
<1>2. code' = "ok" => exit = "ok"
  BY <1>1 DEF ClientInv, HeardOK
<1>3. /\ EvidenceInv' /\ Forward /\ CallOK' /\ PrepareOK' /\ RunOK'
      /\ HeardOK'
      /\ NoExecute => NoExecute'
      /\ Quiet => Quiet'
  BY <1>1, <1>2, ProceedClient
<1>4. step' = "end"
  BY <1>1 DEF Proceed
<1>5. ResultOK'
  <2>1. PICK o : o = report.outcome
    OBVIOUS
  <2>2. OutcomeTrue(o)'
    BY <1>3, <2>1, OutcomeStays
  <2>3. OutcomeTrue(result.outcome)'
    BY <1>1, <2>1, <2>2 DEF OutcomeTrue
  <2>4. committed => committed' /\ Receivable' = Receivable
    BY <1>3 DEF Forward, ClientInv, EvidenceInv, PhaseOK, Receivable, Touched,
       Targets
  <2> QED BY <1>1, <1>3, <1>4, <2>3, <2>4 DEF ResultOK, Forward
<1>6. PendingOK'
  BY <1>4 DEF PendingOK
<1> QED BY <1>3, <1>5, <1>6 DEF ClientInv

LEMMA AbortClient ==
  ASSUME ClientInv, heard # "none", step # "end", purpose # "legacy",
         NEW status, NEW ifAbortFails, NEW outcome,
         AbortThen(status, ifAbortFails, outcome),
         OutcomeTrue(outcome), outcome # "Unknown",
         status # "Complete", ifAbortFails # "Complete"
  PROVE  ClientInv'
<1>1. /\ Proceed("abort") /\ UNCHANGED <<code, result>>
      /\ pending' = [done |-> status, failed |-> ifAbortFails,
                     outcome |-> outcome]
  BY DEF AbortThen
<1>2. code' = "ok" => exit = "ok"
  BY <1>1 DEF ClientInv, HeardOK
<1>3. /\ EvidenceInv' /\ Forward /\ CallOK' /\ PrepareOK' /\ RunOK'
      /\ HeardOK'
      /\ NoExecute => NoExecute'
      /\ Quiet => Quiet'
  BY <1>1, <1>2, ProceedClient
<1>4. step' = "abort"
  BY <1>1 DEF Proceed
<1>5. ResultOK'
  BY <1>1, <1>4 DEF ClientInv, ResultOK
<1>6. PendingOK'
  <2>1. OutcomeTrue(outcome)'
    BY <1>3, OutcomeStays
  <2>2. pending'.done = status /\ pending'.failed = ifAbortFails
        /\ pending'.outcome = outcome
    BY <1>1
  <2>3. OutcomeTrue(pending.outcome)'
    BY <2>1, <2>2 DEF OutcomeTrue
  <2> QED BY <2>2, <2>3 DEF PendingOK
<1> QED BY <1>3, <1>5, <1>6 DEF ClientInv

LEMMA ReportFields ==
  ASSUME NEW s, NEW o, NEW c
  PROVE  /\ Report(s, o, c).status = s /\ Report(s, o, c).outcome = o
         /\ Report(s, o, c).cleanup = c
         /\ \A p : LET r == [Report(s, o, c) EXCEPT !.pkgs = p]
                   IN r.status = s /\ r.outcome = o /\ r.cleanup = c
                        /\ r.pkgs = p
BY DEF Report, NoResult

(* A report without a complete receipt. *)
LEMMA ReportClient ==
  ASSUME ClientInv, heard # "none", step # "end",
         NEW s, NEW o, NEW c, End(Report(s, o, c)), OutcomeTrue(o),
         s # "Complete" \/ purpose = "legacy",
         c = "Complete" /\ purpose = "exact" => Vanished,
         c = "Retained" => o = "Unknown" /\ purpose # "legacy"
  PROVE  ClientInv'
<1>1. PICK r : r = Report(s, o, c)
  OBVIOUS
<1>2. r.status = s /\ r.outcome = o /\ r.cleanup = c
  BY <1>1, ReportFields
<1>3. End(r)
  BY <1>1
<1> QED BY <1>2, <1>3, EndClient

(* A report with what the receipt lists. *)
LEMMA ReceiptClient ==
  ASSUME ClientInv, heard # "none", step # "end",
         NEW s, NEW c, NEW p, exit = "ok",
         End([Report(s, "Succeeded", c) EXCEPT !.pkgs = p]),
         s = "Complete" => committed /\ p = Receivable,
         c = "Complete" /\ purpose = "exact" => Vanished, c # "Retained"
  PROVE  ClientInv'
<1>1. PICK r : r = [Report(s, "Succeeded", c) EXCEPT !.pkgs = p]
  OBVIOUS
<1>2. /\ r.status = s /\ r.outcome = "Succeeded" /\ r.cleanup = c
      /\ r.pkgs = p
  BY <1>1, ReportFields
<1>3. End(r)
  BY <1>1
<1>4. OutcomeTrue(r.outcome)
  BY <1>2 DEF OutcomeTrue
<1> QED BY <1>2, <1>3, <1>4, EndClient

LEMMA PrepareReturnsClient ==
  ASSUME ClientInv, PrepareReturns
  PROVE  ClientInv'
<1>1. step = "prepare" /\ purpose # "legacy"
  BY DEF PrepareReturns
<1>2. NoExecute
  BY <1>1 DEF ClientInv, PrepareOK
<1>3. OutcomeTrue("NotAttempted")
  BY <1>2 DEF OutcomeTrue, NeverRan
<1>4. CASE /\ heard = "ok" /\ Proceed("execute")
           /\ UNCHANGED <<code, pending, result>>
  <2>1. Quiet
    <3>1. caller = NoHelper /\ place = "active" /\ StageIntact
      BY <1>1, <1>4 DEF ClientInv, CallOK, PrepareOK
    <3>2. \A h \in Helpers : pc[h] = "idle"
      BY <1>1, <3>1 DEF ClientInv, EvidenceInv, FormOK, PrepareOK
    <3> QED BY <3>1, <3>2 DEF Quiet, Ended
  <2>2. code' = "ok" => exit = "ok"
    BY <1>4 DEF ClientInv, HeardOK
  <2>3. /\ EvidenceInv' /\ Forward /\ CallOK' /\ PrepareOK' /\ RunOK'
        /\ HeardOK'
    BY <1>1, <1>2, <1>4, <2>1, <2>2, ProceedClient
  <2>4. step' = "execute"
    BY <1>4 DEF Proceed
  <2>5. PendingOK' /\ ResultOK'
    BY <1>1, <1>4, <2>4 DEF ClientInv, PendingOK, ResultOK
  <2> QED BY <2>3, <2>5 DEF ClientInv
<1>5. CASE heard = "threw"
           /\ AbortThen("PrepareFailed", "AbortFailed", "NotAttempted")
  BY <1>1, <1>3, <1>5, AbortClient
<1>6. CASE heard = "garbled"
           /\ AbortThen("ArtifactSealingFailed", "ArtifactSealingFailed",
                        "NotAttempted")
  BY <1>1, <1>3, <1>6, AbortClient
<1>7. CASE heard = "failed"
           /\ End(Report("ArtifactSealingFailed", "NotAttempted",
                         "OutcomeUnknown"))
  BY <1>1, <1>3, <1>7, ReportClient
<1> QED BY <1>4, <1>5, <1>6, <1>7 DEF PrepareReturns

LEMMA ExecuteReturnsClient ==
  ASSUME ClientInv, ExecuteReturns
  PROVE  ClientInv'
<1>1. step = "execute" /\ purpose # "legacy" /\ Quiet
  BY DEF ExecuteReturns, ClientInv, CallOK, RunOK
<1>2. OutcomeTrue("Unknown")
  BY <1>1 DEF OutcomeTrue
<1>3. CASE heard = "unknown"
           /\ End(Report("OutcomeUnknown", "Unknown", "Retained"))
  BY <1>1, <1>2, <1>3, ReportClient
<1>4. CASE heard = "not_started"
           /\ AbortThen("PrepareFailed", "AbortFailed", "NotAttempted")
  <2>1. OutcomeTrue("NotAttempted")
    BY <1>1, <1>4 DEF ClientInv, CallOK, RunOK, OutcomeTrue, NeverRan
  <2> QED BY <1>1, <1>4, <2>1, AbortClient
<1>5. CASE /\ heard \in {"ok", "failed"} /\ Proceed("status")
           /\ code' = heard /\ UNCHANGED <<pending, result>>
  <2>1. code' = "ok" => exit = "ok"
    BY <1>1, <1>5 DEF ClientInv, HeardOK
  <2>2. /\ EvidenceInv' /\ Forward /\ CallOK' /\ PrepareOK' /\ RunOK'
        /\ HeardOK'
    BY <1>1, <1>5, <2>1, ProceedClient
  <2>3. step' = "status"
    BY <1>5 DEF Proceed
  <2>4. PendingOK' /\ ResultOK'
    BY <1>1, <1>5, <2>3 DEF ClientInv, PendingOK, ResultOK
  <2> QED BY <2>2, <2>4 DEF ClientInv
<1> QED BY <1>3, <1>4, <1>5 DEF ExecuteReturns

LEMMA StatusReturnsClient ==
  ASSUME ClientInv, StatusReturns
  PROVE  ClientInv'
<1>1. /\ step = "status" /\ heard # "none" /\ purpose # "legacy" /\ Quiet
      /\ ReplyTrue(answer) /\ answer \in Replies
  BY DEF StatusReturns, ClientInv, CallOK, RunOK, HeardOK
<1>2. OutcomeTrue("Unknown")
  BY <1>1 DEF OutcomeTrue
<1>3. CASE /\ answer.refused
           /\ AbortThen("ArtifactSealingFailed", "ArtifactSealingFailed",
                        "NotAttempted")
  <2>1. OutcomeTrue("NotAttempted")
    BY <1>1, <1>3 DEF ReplyTrue, OutcomeTrue, NeverRan
  <2> QED BY <1>1, <1>3, <2>1, AbortClient
<1>4. CASE End(Report("OutcomeUnknown", "Unknown", "Retained"))
  BY <1>1, <1>2, <1>4, ReportClient
<1>5. CASE Proved /\ AbortThen("PacmanFailed", "AbortFailed", "Failed")
  <2>1. OutcomeTrue("Failed")
    BY <1>1, <1>5 DEF Proved, ReplyTrue, OutcomeTrue
  <2> QED BY <1>1, <1>5, <2>1, AbortClient
<1>6. CASE /\ code = "ok" /\ Proceed("consume")
           /\ UNCHANGED <<code, pending, result>>
  <2>1. exit = "ok"
    BY <1>6 DEF ClientInv, HeardOK
  <2>2. /\ EvidenceInv' /\ Forward /\ CallOK' /\ PrepareOK' /\ RunOK'
        /\ HeardOK'
    BY <1>1, <1>6, <2>1, ProceedClient
  <2>3. step' = "consume"
    BY <1>6 DEF Proceed
  <2>4. PendingOK' /\ ResultOK'
    BY <1>1, <1>6, <2>3 DEF ClientInv, PendingOK, ResultOK
  <2> QED BY <2>2, <2>4 DEF ClientInv
<1> QED BY <1>3, <1>4, <1>5, <1>6 DEF StatusReturns

LEMMA ConsumeReturnsClient ==
  ASSUME ClientInv, ConsumeReturns \/ ConsumeExactReturns
  PROVE  ClientInv'
<1>1. /\ step = "consume" /\ exit = "ok" /\ purpose # "legacy"
      /\ ReplyTrue(answer) /\ answer \in Replies
      /\ OutcomeTrue("Succeeded")
  BY DEF ConsumeReturns, ConsumeExactReturns, ClientInv, CallOK, HeardOK,
     OutcomeTrue
<1>2. CASE ConsumeReturns
  <2>1. purpose = "cleanup"
    BY <1>2 DEF ConsumeReturns
  <2>2. CASE heard \in {"threw", "failed"}
             /\ AbortThen("ConsumeFailed", "AbortFailed", "Succeeded")
    BY <1>1, <2>2, AbortClient
  <2>3. CASE heard = "failed"
             /\ AbortThen("ArtifactSealingFailed", "ArtifactSealingFailed",
                          "Succeeded")
    BY <1>1, <2>3, AbortClient
  <2>4. CASE heard = "garbled"
             /\ End(Report("MalformedReceipt", "Succeeded", "OutcomeUnknown"))
    BY <1>1, <2>4, ReportClient
  <2>5. ASSUME heard = "ok",
               NEW s \in IF answer.receipt = "missing" THEN {"Missing"}
                         ELSE {"Complete", "OutcomeUnknown"},
               End([Report(s, "Succeeded", "Complete")
                      EXCEPT !.pkgs = answer.pkgs])
        PROVE  ClientInv'
    <3>1. s = "Complete" => committed /\ answer.pkgs = Receivable
      BY <1>1, <2>1, <2>5 DEF ReplyTrue, Replies
    <3> QED BY <1>1, <2>1, <2>5, <3>1, ReceiptClient
  <2> QED BY <1>2, <2>2, <2>3, <2>4, <2>5 DEF ConsumeReturns
<1>3. CASE ConsumeExactReturns
  <2>1. purpose = "exact"
    BY <1>3 DEF ConsumeExactReturns
  <2>2. CASE heard = "failed"
             /\ End(Report("ConsumeFailed", "Succeeded", "Failed"))
    BY <1>1, <2>2, ReportClient
  <2>3. CASE heard = "threw"
             /\ End(Report("ConsumeFailed", "Succeeded", "OutcomeUnknown"))
    BY <1>1, <2>3, ReportClient
  <2>4. ASSUME heard = "garbled",
               NEW s \in {"ConsumeFailed", "MalformedReceipt"},
               End(Report(s, "Succeeded", "OutcomeUnknown"))
        PROVE  ClientInv'
    BY <1>1, <2>4, ReportClient
  <2>5. ASSUME heard = "ok",
               NEW c, c = IF answer.cleanup = "done" THEN "Complete"
                          ELSE "Failed",
               End([Report(ExactStatus, "Succeeded", c)
                      EXCEPT !.pkgs = answer.pkgs])
        PROVE  ClientInv'
    <3>1. PICK s : s = ExactStatus
      OBVIOUS
    <3>2. s = "Complete" => committed /\ answer.pkgs = Receivable
      BY <1>1, <3>1 DEF ExactStatus, ReplyTrue, Replies
    <3>3. c = "Complete" => Vanished
      BY <1>1, <2>1, <2>5 DEF ClientInv, HeardOK
    <3>4. End([Report(s, "Succeeded", c) EXCEPT !.pkgs = answer.pkgs])
      BY <2>5, <3>1
    <3> QED BY <1>1, <2>5, <3>2, <3>3, <3>4, ReceiptClient
  <2> QED BY <1>3, <2>2, <2>3, <2>4, <2>5 DEF ConsumeExactReturns
<1> QED BY <1>2, <1>3

LEMMA LastReturnsClient ==
  ASSUME ClientInv, AbortReturns \/ LegacyReturns
  PROVE  ClientInv'
<1>1. CASE AbortReturns
  <2>1. /\ step = "abort" /\ heard # "none" /\ OutcomeTrue(pending.outcome)
        /\ pending.done # "Complete" /\ pending.failed # "Complete"
    BY <1>1 DEF AbortReturns, ClientInv, PendingOK
  <2>2. CASE heard = "ok"
    <3>1. Vanished
      BY <2>1, <2>2 DEF ClientInv, HeardOK
    <3>2. End(Report(pending.done, pending.outcome, "Complete"))
      BY <1>1, <2>2 DEF AbortReturns
    <3> QED BY <2>1, <3>1, <3>2, ReportClient
  <2>3. CASE heard # "ok"
    <3>1. End(Report(pending.failed, pending.outcome, "Failed"))
      BY <1>1, <2>3 DEF AbortReturns
    <3> QED BY <2>1, <3>1, ReportClient
  <2> QED BY <2>2, <2>3
<1>2. CASE LegacyReturns
  <2>1. step = "prepare" /\ purpose = "legacy" /\ heard # "none"
    BY <1>2 DEF LegacyReturns
  <2>2. CASE heard = "ok"
    <3>1. OutcomeTrue("Succeeded")
      BY <2>1, <2>2 DEF ClientInv, HeardOK, OutcomeTrue
    <3>2. End(Report("Complete", "Succeeded", "OutcomeUnknown"))
      BY <1>2, <2>2 DEF LegacyReturns
    <3> QED BY <2>1, <3>1, <3>2, ReportClient
  <2>3. CASE heard # "ok"
    <3>1. OutcomeTrue("Unknown")
      BY <2>1 DEF OutcomeTrue
    <3>2. End(Report("TransactionError", "Unknown", "OutcomeUnknown"))
      BY <1>2, <2>3 DEF LegacyReturns
    <3> QED BY <2>1, <3>1, <3>2, ReportClient
  <2> QED BY <2>2, <2>3
<1> QED BY <1>1, <1>2

-----------------------------------------------------------------------------
LEMMA InitClient == TransportInit => ClientInv
<1> SUFFICES ASSUME TransportInit PROVE ClientInv
  OBVIOUS
<1>1. /\ EvidenceInv /\ step = "prepare" /\ caller = NoHelper
      /\ heard = "none" /\ answer = NoReply /\ code = "none"
      /\ result = NoResult
  BY InitEvidence DEF TransportInit
<1>2. /\ starts = 0
      /\ \A h \in Helpers : cmd[h] = "abort" /\ pc[h] = "idle"
  BY DEF TransportInit, Init
<1>3. CallOK /\ RunOK /\ PendingOK /\ ResultOK
  BY <1>1 DEF CallOK, RunOK, PendingOK, ResultOK
<1>4. PrepareOK
  BY <1>1, <1>2 DEF PrepareOK, NoExecute
<1>5. HeardOK
  BY <1>1, NoReplyIsReply, NoReplyTrue DEF HeardOK
<1> QED BY <1>1, <1>3, <1>4, <1>5 DEF ClientInv

LEMMA NextClient ==
  ASSUME ClientInv, [TransportNext]_transportVars
  PROVE  ClientInv'
<1>1. CASE StoreNext /\ UNCHANGED client
  BY <1>1, StoreStepClient
<1>2. CASE ClientStep
  BY <1>2, CallClient, HearClient, PrepareReturnsClient,
     ExecuteReturnsClient, StatusReturnsClient, ConsumeReturnsClient,
     LastReturnsClient DEF ClientStep
<1>3. CASE NotStarted \/ Lose
  BY <1>3, NotStartedClient, HearClient
<1>4. CASE UNCHANGED transportVars
  <2>1. UNCHANGED storeVars
        /\ UNCHANGED <<step, caller, heard, answer, code, pending, result>>
    BY <1>4 DEF transportVars, client
  <2>2. /\ EvidenceInv' /\ Forward
        /\ NoExecute => NoExecute'
        /\ Quiet => Quiet'
    BY <2>1, StoreSame DEF ClientInv
  <2>3. UNCHANGED <<purpose, place, file, pc, by, cmd>>
    BY <2>1 DEF storeVars, store, procs
  <2>4. CallOK' /\ RunOK'
    BY <2>1, <2>2, <2>3 DEF ClientInv, CallOK, RunOK, Command
  <2>5. PrepareOK'
    BY <2>1, <2>2, <2>3 DEF ClientInv, PrepareOK, StageIntact
  <2> QED
    BY <2>1, <2>2, <2>4, <2>5, HeardStays, PendingStays, ResultStays
    DEF ClientInv
<1> QED BY <1>1, <1>2, <1>3, <1>4 DEF TransportNext

LEMMA ClientInvariant == TransportSpec => []ClientInv
<1>1. ClientInv /\ [TransportNext]_transportVars => ClientInv'
  BY NextClient
<1> QED BY <1>1, InitClient, PTL DEF TransportSpec

(* Whatever commands fail, are killed, are lost sight of or answer into    *)
(* the void, the client never says of pacman what is not so, and what it   *)
(* said stays so whatever the processes it left behind still do.           *)
THEOREM ReportIsTrue == TransportSpec => []OutcomeTruthful
<1>1. ClientInv => OutcomeTruthful
  <2> SUFFICES ASSUME ClientInv PROVE OutcomeTruthful
    OBVIOUS
  <2>1. CASE step # "end"
    BY <2>1 DEF ClientInv, ResultOK, NoResult, OutcomeTruthful
  <2>2. CASE step = "end"
    BY <2>2
    DEF ClientInv, ResultOK, OutcomeTrue, NeverRan, Refused, NoExecute,
        Receivable, OutcomeTruthful
  <2> QED BY <2>1, <2>2
<1> QED BY <1>1, ClientInvariant, PTL

(* An outcome the client does not know leaves the transaction in place     *)
(* with all it holds, and the exact route reports the cleanup that was     *)
(* done.                                                                   *)
THEOREM CleanupIsTrue == TransportSpec => []CleanupTruthful
<1>1. ClientInv => CleanupTruthful
  <2> SUFFICES ASSUME ClientInv PROVE CleanupTruthful
    OBVIOUS
  <2>1. CASE step # "end"
    BY <2>1 DEF ClientInv, ResultOK, NoResult, CleanupTruthful
  <2>2. CASE step = "end"
    <3>1. result.outcome = "Unknown" /\ purpose # "legacy" =>
            /\ place = "active" /\ StageIntact
            /\ starts = 1 =>
                 file["execution"] = "whole" /\ file["authorized"] = "whole"
      BY <2>2
      DEF ClientInv, EvidenceInv, ClaimWhole, ResultOK, OutcomeTrue, Quiet
    <3>2. result.cleanup = "Complete" /\ purpose = "exact" => Vanished
      BY <2>2 DEF ClientInv, ResultOK
    <3>3. result.cleanup = "Retained" =>
            result.outcome = "Unknown" /\ purpose # "legacy"
      BY <2>2 DEF ClientInv, ResultOK
    <3> QED BY <3>1, <3>2, <3>3 DEF CleanupTruthful, Vanished
  <2> QED BY <2>1, <2>2
<1> QED BY <1>1, ClientInvariant, PTL
=============================================================================
