------------------------ MODULE TrustedInstallStore -------------------------
(***************************************************************************)
(* The privileged helper that installs built packages for one transaction  *)
(* token: source_artifact_install_trusted_helper_{state,main}.cpp.         *)
(*                                                                         *)
(* Every command is a process of its own.  It opens the transaction's      *)
(* directory below active/, takes a lock without waiting on the lifetime   *)
(* file, proves again that the staged files are the ones prepared, and     *)
(* only then acts.  execute becomes pacman and keeps its lock over exec;   *)
(* pacman runs the hooks, which are commands of the same helper.  A        *)
(* process may be killed, and may meet an error, before any of its steps.  *)
(*                                                                         *)
(* A file is torn between its creation and the end of its writing.  Staged *)
(* files and hooks are one leaf: they are written before the directory is  *)
(* published and removed after it is retired.  Trusted root is outside the *)
(* model, as in docs/contracts/trusted-source-artifact-transport.md.       *)
(***************************************************************************)
EXTENDS Integers, FiniteSets, TLC

CONSTANTS
  Helpers,         \* process slots
  NoHelper,
  Packages,        \* the packages of the request
  Extra,           \* packages pacman may pull in besides
  Purposes,        \* of LegacyArtifactInstall, CleanupInstallOnly, ...
  MaxInvocations   \* bound: commands somebody invokes by hand

ASSUME StoreAssumption ==
  /\ NoHelper \notin Helpers
  /\ Packages # {} /\ Packages \cap Extra = {}
  /\ Purposes \subseteq {"legacy", "cleanup", "exact"}
  /\ MaxInvocations \in Nat

VARIABLES
  purpose,      \* what the transaction was prepared for
  place,        \* none, preparing, active or used
  file,         \* each leaf: absent, torn or whole
  observed,     \* the execution-observed marker, or absent or torn
  listed        \* the packages written to receipt, install and upgrade

VARIABLES
  cmd, pc,
  lock,         \* of each process on the lifetime file: none, sh, ex
  by,           \* who waits for it: client, parent, pacman or nobody
  reply         \* what it will print

VARIABLES
  phase,        \* of pacman: none, start, prehook, ..., ended
  op,           \* what pacman does to each package
  slot, hook,   \* the processes that are pacman and its running hook
  straggler,    \* a descendant of pacman still holds the inherited lock
  starts,       \* how often pacman was executed
  committed,    \* pacman changed the installed packages
  exit,         \* how pacman ended
  invocations

store    == <<place, file, observed, listed>>
procs    == <<cmd, pc, lock, by, reply>>
pacmanVars == <<phase, op, slot, hook, straggler, starts, committed, exit>>
storeVars == <<purpose, store, procs, pacmanVars, invocations>>

(* For TLC: slots are alike, and so are the packages of the request. *)
Symmetry == Permutations(Helpers) \cup Permutations(Packages)

Records == {"install", "upgrade"}
Anchors == {"install_anchor", "upgrade_anchor"}
Claims  == {"execution", "authorized", "refusal"}
Staged  == {"stage", "receipt", "partial", "baseline"} \cup Records \cup Anchors
Leaves  == Staged \cup Claims \cup {"lifetime"}

Preparers == {"prepare", "install_legacy"}
Consumers == {"consume", "consume_exact"}
HookCommands == {"observe", "record", "record_install", "record_upgrade"}
Commands == Preparers \cup Consumers \cup HookCommands
              \cup {"execute", "status", "abort"}

NoReply == [authorized |-> FALSE, refused |-> FALSE, observed |-> FALSE,
            receipt |-> "missing", pkgs |-> {}, cleanup |-> "done",
            code |-> "failed"]

Goto(h, p) == pc' = [pc EXCEPT ![h] = p]

Ended == {"idle", "ok", "failed"}

(* A process that has ended and that nobody waits for frees its slot. *)
Settle(pcs, bys, replies) ==
  LET gone == {h \in Helpers : bys[h] = "nobody" /\ pcs[h] \in Ended}
  IN /\ pc' = [h \in Helpers |-> IF h \in gone THEN "idle" ELSE pcs[h]]
     /\ cmd' = [h \in Helpers |-> IF h \in gone THEN "abort" ELSE cmd[h]]
     /\ by' = bys
     /\ reply' = [h \in Helpers |-> IF h \in gone THEN NoReply ELSE replies[h]]

(* The process ends, and its lock goes with its descriptors. *)
Finish(h, code) ==
  /\ Settle([pc EXCEPT ![h] = code], by, reply)
  /\ lock' = [lock EXCEPT ![h] = "none"]

Launch(h, c, who) ==
  /\ pc[h] = "idle"
  /\ cmd' = [cmd EXCEPT ![h] = c]
  /\ Goto(h, IF c \in Preparers THEN "mkdir" ELSE "open")
  /\ by' = [by EXCEPT ![h] = who]
  /\ reply' = [reply EXCEPT ![h] = NoReply]
  /\ UNCHANGED lock

-----------------------------------------------------------------------------
(* What a step finds in the directory. *)

(* validate_prepared_state: the stage and its lease are the prepared ones. *)
StageIntact == file["stage"] = "whole" /\ file["lifetime"] = "whole"

(* read_execution_authority does not throw. *)
AuthorityReadable ==
  IF file["execution"] = "absent"
  THEN /\ \A f \in {"authorized", "refusal", "receipt", "partial"} :
             file[f] = "absent"
       /\ observed = "absent"
  ELSE /\ \A f \in Claims : file[f] # "torn"
       /\ observed # "absent" =>
             file["authorized"] = "whole" /\ file["refusal"] = "absent"

HandedOff ==
  /\ AuthorityReadable
  /\ file["authorized"] = "whole" /\ file["refusal"] = "absent"

Executed == observed \in {"pre", "post"}

(* The command has no claim, no authorization, no refusal, no evidence. *)
Unclaimed ==
  /\ \A f \in Claims \cup {"receipt", "partial"} : file[f] = "absent"
  /\ observed = "absent"

(* flock(LOCK_NB) on the lifetime file, proved afterwards to be still the  *)
(* one in the directory.                                                   *)
Exclusive(h) == cmd[h] \in Preparers \cup Consumers \cup {"abort"}

(* A mutant: the lock is not inherited by what pacman starts. *)
Mutant_LeaseGrantable(h) ==
  /\ file["lifetime"] = "whole"
  /\ \A g \in Helpers \ {h} :
        IF Exclusive(h) THEN lock[g] = "none" ELSE lock[g] # "ex"

LeaseGrantable(h) ==
  /\ file["lifetime"] = "whole"
  /\ \A g \in Helpers \ {h} :
        IF Exclusive(h) THEN lock[g] = "none" ELSE lock[g] # "ex"
  /\ Exclusive(h) => ~straggler

Targets(kind) == {p \in Packages \cup Extra : op[p] = kind}

(* The packages a record command is given on its standard input. *)
Given(h) ==
  IF cmd[h] = "record_upgrade" THEN Targets("upgrade") ELSE Targets("install")

Leaf(h)  == IF cmd[h] = "record_upgrade" THEN "upgrade" ELSE "install"
Other(h) == IF cmd[h] = "record_upgrade" THEN "install" ELSE "upgrade"
AnchorOf(h) ==
  IF cmd[h] = "record_upgrade" THEN "upgrade_anchor" ELSE "install_anchor"

-----------------------------------------------------------------------------
(* prepare, up to the answer. *)

MakeStaging(h) ==
  /\ pc[h] = "mkdir"
  /\ place = "none"
  /\ place' = "preparing"
  /\ Goto(h, "stage")
  /\ UNCHANGED <<purpose, file, observed, listed, cmd, lock, by, reply,
                 pacmanVars, invocations>>

WriteStage(h) ==
  /\ pc[h] = "stage"
  /\ file' = [file EXCEPT !["stage"] = "whole", !["lifetime"] = "whole"]
  /\ lock' = [lock EXCEPT ![h] = "ex"]
  /\ Goto(h, "publish")
  /\ UNCHANGED <<purpose, place, observed, listed, cmd, by, reply, pacmanVars,
                 invocations>>

PublishStage(h) ==
  /\ pc[h] = "publish"
  /\ place' = "active"
  /\ Goto(h, "reproof")
  /\ UNCHANGED <<purpose, file, observed, listed, cmd, lock, by, reply,
                 pacmanVars, invocations>>

ReproveStage(h) ==
  /\ pc[h] = "reproof"
  /\ StageIntact
  /\ lock' = [lock EXCEPT ![h] = "none"]
  /\ Goto(h, IF cmd[h] = "prepare" THEN "answer" ELSE "fork")
  /\ UNCHANGED <<purpose, store, cmd, by, reply, pacmanVars, invocations>>

(* An error before publication: cleanup_preparing_directory, which may     *)
(* itself fail and leave the directory.                                    *)
PrepareThrows(h) ==
  /\ pc[h] \in {"stage", "publish"}
  /\ \/ /\ place' = "none"
        /\ file' = [f \in Leaves |-> "absent"]
     \/ UNCHANGED <<place, file>>
  /\ Finish(h, "failed")
  /\ UNCHANGED <<purpose, observed, listed, pacmanVars, invocations>>

(* An error after it, or an answer that cannot be printed: the exclusive   *)
(* lock is dropped and the transaction aborted like any other.             *)
PublishedThrows(h) ==
  /\ \/ pc[h] = "reproof"
     \/ pc[h] = "answer" /\ cmd[h] = "prepare"
     \/ pc[h] = "fork"
  /\ lock' = [lock EXCEPT ![h] = "none"]
  /\ Goto(h, "open")
  /\ UNCHANGED <<purpose, store, cmd, by, reply, pacmanVars, invocations>>

-----------------------------------------------------------------------------
(* The steps every later command begins with. *)

Open(h) ==
  /\ pc[h] = "open"
  /\ place = "active"
  /\ Goto(h, "lock")
  /\ UNCHANGED <<purpose, store, cmd, lock, by, reply, pacmanVars, invocations>>

AcquireLease(h) ==
  /\ pc[h] = "lock"
  /\ LeaseGrantable(h)
  /\ lock' = [lock EXCEPT ![h] = IF Exclusive(h) THEN "ex" ELSE "sh"]
  /\ Goto(h, "read")
  /\ UNCHANGED <<purpose, store, cmd, by, reply, pacmanVars, invocations>>

-----------------------------------------------------------------------------
(* execute: the claim is made before, and outside, the handler that        *)
(* publishes a refusal.                                                    *)

CheckUnclaimed(h) ==
  /\ pc[h] = "read" /\ cmd[h] = "execute"
  /\ Unclaimed
  /\ Goto(h, "claim")
  /\ UNCHANGED <<purpose, store, cmd, lock, by, reply, pacmanVars, invocations>>

(* The leaf each publication step of a command creates, and where the      *)
(* command goes once it is written.                                        *)
Creates == [claim |-> "execution", authorize |-> "authorized"]

(* A mutant: a file is opened whether it exists or not, without O_EXCL. *)
Mutant_CreateClaim(h) ==
  /\ pc[h] \in DOMAIN Creates
  /\ file' = [file EXCEPT ![Creates[pc[h]]] = "torn"]
  /\ Goto(h, IF pc[h] = "claim" THEN "write_claim" ELSE "write_authorized")
  /\ UNCHANGED <<purpose, place, observed, listed, cmd, lock, by, reply,
                 pacmanVars, invocations>>

CreateClaim(h) ==
  /\ pc[h] \in DOMAIN Creates
  /\ file[Creates[pc[h]]] = "absent"
  /\ file' = [file EXCEPT ![Creates[pc[h]]] = "torn"]
  /\ Goto(h, IF pc[h] = "claim" THEN "write_claim" ELSE "write_authorized")
  /\ UNCHANGED <<purpose, place, observed, listed, cmd, lock, by, reply,
                 pacmanVars, invocations>>

WriteClaim(h) ==
  /\ pc[h] = "write_claim"
  /\ file' = [file EXCEPT !["execution"] = "whole"]
  /\ Goto(h, "reprove")
  /\ UNCHANGED <<purpose, place, observed, listed, cmd, lock, by, reply,
                 pacmanVars, invocations>>

(* The final reproof: the staged generation, the name below active/, and   *)
(* exactly the files of a claimed transaction.                             *)
FinalReproof ==
  /\ StageIntact
  /\ place = "active"
  /\ file["execution"] = "whole"
  /\ \A f \in Leaves \ {"stage", "lifetime", "execution"} : file[f] = "absent"
  /\ observed = "absent"

Reprove(h) ==
  /\ pc[h] = "reprove"
  /\ FinalReproof
  /\ Goto(h, "authorize")
  /\ UNCHANGED <<purpose, store, cmd, lock, by, reply, pacmanVars, invocations>>

WriteAuthorized(h) ==
  /\ pc[h] = "write_authorized"
  /\ file' = [file EXCEPT !["authorized"] = "whole"]
  /\ Goto(h, "exec")
  /\ UNCHANGED <<purpose, place, observed, listed, cmd, lock, by, reply,
                 pacmanVars, invocations>>

(* What pacman may decide to do: --needed and its own replies skip. *)
Plans == [Packages \cup Extra -> {"install", "upgrade", "skip"}]

(* exec: the process becomes pacman, its shared lock inherited. *)
Exec(h) ==
  /\ pc[h] = "exec"
  /\ op' \in Plans
  /\ phase' = "start"
  /\ slot' = h
  /\ starts' = starts + 1
  /\ Goto(h, "pacman")
  /\ UNCHANGED <<purpose, store, cmd, lock, by, reply, hook, straggler,
                 committed, exit, invocations>>

(* A mutant: the claim is made inside the handler that refuses. *)
Mutant_ExecuteThrows(h) ==
  /\ pc[h] \in {"claim", "reprove", "authorize", "write_authorized", "exec"}
  /\ Goto(h, "refuse")
  /\ UNCHANGED <<purpose, store, cmd, lock, by, reply, pacmanVars, invocations>>

ExecuteThrows(h) ==
  /\ pc[h] \in {"reprove", "authorize", "write_authorized", "exec"}
  /\ Goto(h, "refuse")
  /\ UNCHANGED <<purpose, store, cmd, lock, by, reply, pacmanVars, invocations>>

PublishRefusal(h) ==
  /\ pc[h] = "refuse"
  /\ \/ /\ file["refusal"] = "absent"
        /\ \E st \in {"torn", "whole"} :
              file' = [file EXCEPT !["refusal"] = st]
     \/ UNCHANGED file
  /\ Finish(h, "failed")
  /\ UNCHANGED <<purpose, place, observed, listed, pacmanVars, invocations>>

-----------------------------------------------------------------------------
(* execution-status. *)

ReadStatus(h) ==
  /\ pc[h] = "read" /\ cmd[h] = "status"
  /\ AuthorityReadable
  /\ observed # "absent" => StageIntact /\ Executed
  /\ place = "active"
  /\ reply' = [reply EXCEPT ![h] =
                 [NoReply EXCEPT !.authorized = file["authorized"] = "whole",
                                 !.refused = file["refusal"] = "whole",
                                 !.observed = Executed]]
  /\ lock' = [lock EXCEPT ![h] = "none"]
  /\ Goto(h, "answer")
  /\ UNCHANGED <<purpose, store, cmd, by, pacmanVars, invocations>>

Answer(h) ==
  /\ pc[h] = "answer"
  /\ Finish(h, "ok")
  /\ UNCHANGED <<purpose, store, pacmanVars, invocations>>

-----------------------------------------------------------------------------
(* The hooks.  observe-execution and the record commands all need the      *)
(* handoff that execute authorized and nobody refused.                     *)

CheckHook(h) ==
  /\ pc[h] = "read" /\ cmd[h] \in HookCommands
  /\ StageIntact
  /\ HandedOff
  /\ CASE cmd[h] = "observe" ->
            /\ purpose # "legacy" /\ place = "active"
            /\ observed = "absent"
            /\ file["receipt"] = "absent" /\ file["partial"] = "absent"
       [] cmd[h] = "record" ->
            /\ purpose = "cleanup" /\ place = "active"
            /\ observed \in {"absent", "pre"}
            /\ file["receipt"] = "absent" /\ file["partial"] = "absent"
       [] OTHER -> purpose = "exact"
  /\ Goto(h, CASE cmd[h] = "observe" -> "mark"
               [] cmd[h] = "record" ->
                    IF observed = "absent" THEN "mark" ELSE "partial"
               [] OTHER -> "claim_record")
  /\ UNCHANGED <<purpose, store, cmd, lock, by, reply, pacmanVars, invocations>>

AfterMark(h) ==
  CASE cmd[h] = "observe" -> IF purpose = "exact" THEN "baseline" ELSE "done"
    [] cmd[h] = "record" -> "partial"
    [] OTHER -> "publish_record"

CreateMark(h) ==
  /\ pc[h] = "mark"
  /\ observed = "absent"
  /\ observed' = "torn"
  /\ Goto(h, "write_mark")
  /\ UNCHANGED <<purpose, place, file, listed, cmd, lock, by, reply, pacmanVars,
                 invocations>>

WriteMark(h) ==
  /\ pc[h] = "write_mark"
  /\ observed' = IF cmd[h] = "observe" THEN "pre" ELSE "post"
  /\ Goto(h, AfterMark(h))
  /\ UNCHANGED <<purpose, place, file, listed, cmd, lock, by, reply, pacmanVars,
                 invocations>>

(* The baseline is evidence beside the transaction: whatever goes wrong    *)
(* with it is swallowed.                                                   *)
RecordBaseline(h) ==
  /\ pc[h] = "baseline"
  /\ \E st \in {"absent", "torn", "whole"} :
        file' = [file EXCEPT !["baseline"] = st]
  /\ Goto(h, "done")
  /\ UNCHANGED <<purpose, place, observed, listed, cmd, lock, by, reply,
                 pacmanVars, invocations>>

WritePartial(h) ==
  /\ pc[h] = "partial"
  /\ file["partial"] = "absent"
  /\ file' = [file EXCEPT !["partial"] = "torn"]
  /\ Goto(h, "rename")
  /\ UNCHANGED <<purpose, place, observed, listed, cmd, lock, by, reply,
                 pacmanVars, invocations>>

PublishReceipt(h) ==
  /\ pc[h] = "rename"
  /\ place = "active"
  /\ file["receipt"] = "absent"
  /\ file' = [file EXCEPT !["partial"] = "absent", !["receipt"] = "whole"]
  /\ listed' = [listed EXCEPT !["receipt"] = Given(h)]
  /\ Goto(h, "done")
  /\ UNCHANGED <<purpose, place, observed, cmd, lock, by, reply, pacmanVars,
                 invocations>>

(* The partial comes first: a second run of one hook, which pacman does    *)
(* not make, would spoil the record.                                       *)
ClaimRecord(h) ==
  /\ pc[h] = "claim_record"
  /\ file[Leaf(h)] = "absent"
  /\ file' = [file EXCEPT ![Leaf(h)] = "torn"]
  /\ Goto(h, "join")
  /\ UNCHANGED <<purpose, place, observed, listed, cmd, lock, by, reply,
                 pacmanVars, invocations>>

(* The targets are of the request and do not contradict the other record. *)
Joinable(h) ==
  /\ Given(h) \subseteq Packages
  /\ file[Other(h)] # "torn"
  /\ Given(h) \cap listed[Other(h)] = {}
  /\ observed # "torn"
  /\ place = "active"

JoinRecord(h) ==
  /\ pc[h] = "join"
  /\ Joinable(h)
  /\ Goto(h, IF observed = "absent" THEN "mark" ELSE "publish_record")
  /\ UNCHANGED <<purpose, store, cmd, lock, by, reply, pacmanVars, invocations>>

PublishRecord(h) ==
  /\ pc[h] = "publish_record"
  /\ file' = [file EXCEPT ![Leaf(h)] = "whole"]
  /\ listed' = [listed EXCEPT ![Leaf(h)] = Given(h)]
  /\ Goto(h, "anchor")
  /\ UNCHANGED <<purpose, place, observed, cmd, lock, by, reply, pacmanVars,
                 invocations>>

(* The anchor's failures are swallowed: the record stands. *)
RecordAnchor(h) ==
  /\ pc[h] = "anchor"
  /\ \E st \in {"absent", "torn", "whole"} :
        file' = [file EXCEPT ![AnchorOf(h)] = st]
  /\ Goto(h, "done")
  /\ UNCHANGED <<purpose, place, observed, listed, cmd, lock, by, reply,
                 pacmanVars, invocations>>

Done(h) ==
  /\ pc[h] = "done"
  /\ Finish(h, "ok")
  /\ UNCHANGED <<purpose, store, pacmanVars, invocations>>

-----------------------------------------------------------------------------
(* consume, consume-exact and abort: read, retire below used/, remove. *)

Receipt ==
  IF file["receipt"] = "whole"
  THEN [NoReply EXCEPT !.receipt = "complete", !.pkgs = listed["receipt"]]
  ELSE NoReply

(* join_exact_artifact_operation_fragments over what can be read. *)
ExactReceipt ==
  LET pkgs == UNION {listed[r] : r \in {s \in Records : file[s] = "whole"}}
  IN IF \E r \in Records : file[r] = "torn"
     THEN [NoReply EXCEPT !.receipt = "invalid"]
     ELSE IF pkgs # Packages THEN NoReply
     ELSE [NoReply EXCEPT !.receipt = "complete", !.pkgs = pkgs]

Consumable(h) ==
  CASE cmd[h] = "consume" ->
         /\ purpose = "cleanup"
         /\ file["partial"] = "absent"
         /\ file["receipt"] = "whole" => HandedOff /\ Executed
    [] cmd[h] = "consume_exact" ->
         purpose = "exact" /\ HandedOff /\ Executed
    [] OTHER -> ~(file["receipt"] = "whole" /\ file["partial"] # "absent")

ReadForRetirement(h) ==
  /\ pc[h] = "read" /\ Exclusive(h)
  /\ StageIntact
  /\ Consumable(h)
  /\ place = "active"
  /\ reply' = [reply EXCEPT ![h] =
                 CASE cmd[h] = "consume" -> Receipt
                   [] cmd[h] = "consume_exact" -> ExactReceipt
                   [] OTHER -> @]
  /\ Goto(h, "retire")
  /\ UNCHANGED <<purpose, store, cmd, lock, by, pacmanVars, invocations>>

Retire(h) ==
  /\ pc[h] = "retire"
  /\ place' = "used"
  /\ Goto(h, "clean_stage")
  /\ UNCHANGED <<purpose, file, observed, listed, cmd, lock, by, reply,
                 pacmanVars, invocations>>

CleanStage(h) ==
  /\ pc[h] = "clean_stage"
  /\ file' = [f \in Leaves |-> IF f \in Staged THEN "absent" ELSE file[f]]
  /\ listed' = [f \in DOMAIN listed |-> {}]
  /\ Goto(h, "clean_claims")
  /\ UNCHANGED <<purpose, place, observed, cmd, lock, by, reply, pacmanVars,
                 invocations>>

CleanClaims(h) ==
  /\ pc[h] = "clean_claims"
  /\ file' = [f \in Leaves |-> IF f \in Claims THEN "absent" ELSE file[f]]
  /\ observed' = "absent"
  /\ Goto(h, "clean_lifetime")
  /\ UNCHANGED <<purpose, place, listed, cmd, lock, by, reply, pacmanVars,
                 invocations>>

(* What a command that aborted exits with: the abort's own success, or the *)
(* result install-legacy had before it, or the failure prepare met.        *)
AbortCode(h, aborted) ==
  CASE cmd[h] = "abort" -> IF aborted THEN "ok" ELSE "failed"
    [] cmd[h] = "install_legacy" ->
         IF reply[h].code = "ok" THEN "ok" ELSE "failed"
    [] OTHER -> "failed"

CleanLifetime(h) ==
  /\ pc[h] = "clean_lifetime"
  /\ file' = [file EXCEPT !["lifetime"] = "absent"]
  /\ IF cmd[h] \in Consumers
     THEN /\ lock' = [lock EXCEPT ![h] = "none"]
          /\ Goto(h, "answer")
          /\ UNCHANGED <<cmd, by, reply>>
     ELSE Finish(h, AbortCode(h, TRUE))
  /\ UNCHANGED <<purpose, place, observed, listed, pacmanVars, invocations>>

(* A mutant: the answer is not corrected when the cleanup throws. *)
Mutant_ConsumeExactThrows(h) ==
  /\ cmd[h] = "consume_exact"
  /\ pc[h] \in {"retire", "clean_stage", "clean_claims", "clean_lifetime"}
  /\ lock' = [lock EXCEPT ![h] = "none"]
  /\ Goto(h, "answer")
  /\ UNCHANGED <<purpose, store, cmd, by, reply, pacmanVars, invocations>>

(* consume-exact answers all the same, and says how far the cleanup came;  *)
(* a throw right after the rename still counts as a failed retirement.     *)
ConsumeExactThrows(h) ==
  /\ cmd[h] = "consume_exact"
  /\ pc[h] \in {"retire", "clean_stage", "clean_claims", "clean_lifetime"}
  /\ \E c \in {"retirement", "stage"} :
       /\ pc[h] = "retire" => c = "retirement"
       /\ pc[h] \in {"clean_claims", "clean_lifetime"} => c = "stage"
       /\ reply' = [reply EXCEPT ![h].cleanup = c]
  /\ lock' = [lock EXCEPT ![h] = "none"]
  /\ Goto(h, "answer")
  /\ UNCHANGED <<purpose, store, cmd, by, pacmanVars, invocations>>

-----------------------------------------------------------------------------
(* install-legacy runs execute in a child and waits for it. *)

ForkExecute(h, g) ==
  /\ pc[h] = "fork"
  /\ pc[g] = "idle"
  /\ cmd' = [cmd EXCEPT ![g] = "execute"]
  /\ pc' = [pc EXCEPT ![h] = "wait", ![g] = "open"]
  /\ by' = [by EXCEPT ![g] = "parent"]
  /\ reply' = [reply EXCEPT ![g] = NoReply]
  /\ UNCHANGED <<purpose, store, lock, pacmanVars, invocations>>

WaitExecute(h, g) ==
  /\ pc[h] = "wait"
  /\ by[g] = "parent" /\ pc[g] \in {"ok", "failed"}
  /\ Settle([pc EXCEPT ![h] = "open"], [by EXCEPT ![g] = "nobody"],
            [reply EXCEPT ![h].code = pc[g]])
  /\ UNCHANGED <<purpose, store, lock, pacmanVars, invocations>>

-----------------------------------------------------------------------------
(* A process is killed, or meets an error nothing handles: a check above   *)
(* that fails, a name already taken, a lock that is busy.                  *)

(* A mutant: flock waits. *)
Mutant_Stops(h) ==
  /\ pc[h] \notin Ended \cup {"pacman", "wait", "lock"}
  /\ Finish(h, "failed")
  /\ UNCHANGED <<purpose, store, pacmanVars, invocations>>

Stops(h) ==
  /\ pc[h] \notin Ended \cup {"pacman", "wait"}
  /\ Finish(h, "failed")
  /\ UNCHANGED <<purpose, store, pacmanVars, invocations>>

(* A failed cleanup does not change what install-legacy returns. *)
LegacyAbortThrows(h) ==
  /\ cmd[h] = "install_legacy"
  /\ pc[h] \in {"open", "lock", "read", "retire", "clean_stage",
                "clean_claims", "clean_lifetime"}
  /\ Finish(h, AbortCode(h, FALSE))
  /\ UNCHANGED <<purpose, store, pacmanVars, invocations>>

(* install-legacy is killed, or cannot wait: its child lives on. *)
LosesChild(h, g) ==
  /\ pc[h] = "wait" /\ by[g] = "parent"
  /\ Settle([pc EXCEPT ![h] = "failed"], [by EXCEPT ![g] = "nobody"], reply)
  /\ UNCHANGED <<purpose, store, lock, pacmanVars, invocations>>

-----------------------------------------------------------------------------
(* pacman, external: it runs the hooks of --hookdir whose trigger matches, *)
(* and a hook that fails does not stop it.                                 *)

HookPhases == {"pre", "post_install", "post_upgrade"}
Running == HookPhases \cup {"start", "commit", "end"}

After(p) == [start |-> "pre", pre |-> "commit", commit |-> "post_install",
             post_install |-> "post_upgrade", post_upgrade |-> "end"][p]

Touched == Targets("install") \cup Targets("upgrade")

(* expected_hook_entries: the triggers of the hooks prepare wrote. *)
Triggered(c) ==
  CASE purpose = "legacy" -> FALSE
    [] c = "observe" -> Touched # {}
    [] c = "record" -> purpose = "cleanup" /\ Targets("install") # {}
    [] c = "record_install" -> purpose = "exact" /\ Targets("install") # {}
    [] c = "record_upgrade" -> purpose = "exact" /\ Targets("upgrade") # {}

HookOf(p) ==
  CASE p = "pre" -> {"observe"}
    [] p = "post_install" -> {"record", "record_install"}
    [] p = "post_upgrade" -> {"record_upgrade"}

RunHook(h) ==
  /\ phase \in HookPhases /\ hook = NoHelper
  /\ \E c \in HookOf(phase) : Triggered(c) /\ Launch(h, c, "pacman")
  /\ hook' = h
  /\ UNCHANGED <<purpose, store, phase, op, slot, straggler, starts, committed,
                 exit, invocations>>

HookEnds ==
  /\ hook # NoHelper /\ pc[hook] \in {"ok", "failed"}
  /\ Settle(pc, [by EXCEPT ![hook] = "nobody"], reply)
  /\ hook' = NoHelper
  /\ phase' = After(phase)
  /\ UNCHANGED <<purpose, store, lock, op, slot, straggler, starts, committed,
                 exit, invocations>>

(* A phase without a hook to run, or whose hook cannot be started. *)
Advances ==
  /\ phase \in HookPhases \cup {"start", "commit"} /\ hook = NoHelper
  /\ phase = "start" => Touched # {}
  /\ phase' = After(phase)
  /\ committed' = (committed \/ phase = "commit")
  /\ UNCHANGED <<purpose, store, procs, op, slot, hook, straggler, starts, exit,
                 invocations>>

(* It ends, its own lock with it; a hook that still runs lives on. *)
PacmanEnds(code) ==
  /\ phase' = "ended"
  /\ exit' = code
  /\ straggler' \in BOOLEAN
  /\ lock' = [lock EXCEPT ![slot] = "none"]
  /\ Settle([pc EXCEPT ![slot] = code],
            [h \in Helpers |-> IF h = hook THEN "nobody" ELSE by[h]], reply)
  /\ slot' = NoHelper /\ hook' = NoHelper
  /\ UNCHANGED <<purpose, store, op, starts, committed, invocations>>

(* Nothing to do, or everything done. *)
PacmanSucceeds ==
  /\ phase = "end" \/ (phase = "start" /\ Touched = {})
  /\ PacmanEnds("ok")

(* It fails, or is killed, at any point. *)
PacmanFails ==
  /\ phase \in Running
  /\ PacmanEnds("failed")

StragglerEnds ==
  /\ straggler
  /\ straggler' = FALSE
  /\ UNCHANGED <<purpose, store, procs, phase, op, slot, hook, starts,
                 committed, exit, invocations>>

-----------------------------------------------------------------------------
Init ==
  /\ purpose \in Purposes
  /\ place = "none"
  /\ file = [f \in Leaves |-> "absent"]
  /\ observed = "absent"
  /\ listed = [f \in Records \cup {"receipt"} |-> {}]
  /\ cmd = [h \in Helpers |-> "abort"]
  /\ pc = [h \in Helpers |-> "idle"]
  /\ lock = [h \in Helpers |-> "none"]
  /\ by = [h \in Helpers |-> "nobody"]
  /\ reply = [h \in Helpers |-> NoReply]
  /\ phase = "none"
  /\ op = [p \in Packages \cup Extra |-> "skip"]
  /\ slot = NoHelper /\ hook = NoHelper
  /\ straggler = FALSE
  /\ starts = 0
  /\ committed = FALSE
  /\ exit = "none"
  /\ invocations = 0

HelperStep(h) ==
  \/ MakeStaging(h) \/ WriteStage(h) \/ PublishStage(h) \/ ReproveStage(h)
  \/ Open(h) \/ AcquireLease(h)
  \/ CheckUnclaimed(h) \/ CreateClaim(h) \/ WriteClaim(h) \/ Reprove(h)
  \/ WriteAuthorized(h) \/ Exec(h) \/ PublishRefusal(h)
  \/ ReadStatus(h) \/ Answer(h)
  \/ CheckHook(h) \/ CreateMark(h) \/ WriteMark(h) \/ RecordBaseline(h)
  \/ WritePartial(h) \/ PublishReceipt(h)
  \/ ClaimRecord(h) \/ JoinRecord(h) \/ PublishRecord(h) \/ RecordAnchor(h)
  \/ Done(h)
  \/ ReadForRetirement(h) \/ Retire(h) \/ CleanStage(h) \/ CleanClaims(h)
  \/ CleanLifetime(h)
  \/ \E g \in Helpers \ {h} : ForkExecute(h, g) \/ WaitExecute(h, g)

HelperFault(h) ==
  \/ PrepareThrows(h) \/ PublishedThrows(h) \/ ExecuteThrows(h)
  \/ ConsumeExactThrows(h) \/ Stops(h) \/ LegacyAbortThrows(h)
  \/ \E g \in Helpers \ {h} : LosesChild(h, g)

PacmanStep ==
  \/ \E h \in Helpers : RunHook(h)
  \/ HookEnds \/ Advances \/ PacmanSucceeds \/ PacmanFails

StoreNext ==
  \/ \E h \in Helpers : HelperStep(h) \/ HelperFault(h)
  \/ PacmanStep
  \/ StragglerEnds

(* Any command at any time: the helper trusts no caller's order. *)
Invoke(h, c) ==
  /\ invocations < MaxInvocations
  /\ c \in Preparers => (c = "install_legacy" <=> purpose = "legacy")
  /\ Launch(h, c, "nobody")
  /\ invocations' = invocations + 1
  /\ UNCHANGED <<purpose, store, pacmanVars>>

Next ==
  \/ StoreNext
  \/ \E h \in Helpers, c \in Commands \ HookCommands : Invoke(h, c)

Spec == Init /\ [][Next]_storeVars

-----------------------------------------------------------------------------
Pcs == {"mkdir", "stage", "publish", "reproof", "answer", "fork", "wait",
        "open", "lock", "read", "claim", "write_claim", "reprove", "authorize",
        "write_authorized", "exec", "pacman", "refuse", "mark", "write_mark",
        "baseline", "partial", "rename", "claim_record", "join",
        "publish_record", "anchor", "done", "retire", "clean_stage",
        "clean_claims", "clean_lifetime"} \cup Ended

(* The shape of the state. *)
TypeOK ==
  /\ purpose \in Purposes
  /\ place \in {"none", "preparing", "active", "used"}
  /\ file \in [Leaves -> {"absent", "torn", "whole"}]
  /\ observed \in {"absent", "torn", "pre", "post"}
  /\ listed \in [Records \cup {"receipt"} -> SUBSET (Packages \cup Extra)]
  /\ cmd \in [Helpers -> Commands]
  /\ pc \in [Helpers -> Pcs]
  /\ lock \in [Helpers -> {"none", "sh", "ex"}]
  /\ by \in [Helpers -> {"client", "parent", "pacman", "nobody"}]
  /\ phase \in Running \cup {"none", "ended"}
  /\ op \in [Packages \cup Extra -> {"install", "upgrade", "skip"}]
  /\ slot \in Helpers \cup {NoHelper} /\ hook \in Helpers \cup {NoHelper}
  /\ straggler \in BOOLEAN /\ committed \in BOOLEAN
  /\ starts \in Nat /\ invocations \in 0..MaxInvocations
  /\ exit \in {"none", "ok", "failed"}

(* One transaction token runs pacman at most once, however often and from  *)
(* however many processes execute is invoked: the claim file is created    *)
(* with O_EXCL and outlives the lock, and what is left of a cleanup that   *)
(* was killed half way does not pass the final reproof.                    *)
RunsPacmanOnce == starts <= 1

(* While pacman runs, or a descendant of it still holds the inherited      *)
(* lock, the staged packages and hooks stay where its arguments name them: *)
(* no abort or consume retires or removes them.                            *)
StageHeldWhileUsed ==
  phase \in Running \/ straggler => place = "active" /\ StageIntact

(* What the files of an active transaction say is what happened.  A        *)
(* refusal stands only where pacman never ran; an execution marker only    *)
(* where it did, of the phase it reached; a published receipt lists        *)
(* exactly the packages pacman installed or upgraded.  (A retired          *)
(* directory is never read again, and a late execute may well refuse in    *)
(* one.)                                                                   *)
EvidenceTruthful == place = "active" =>
  /\ file["refusal"] # "absent" => starts = 0
  /\ observed # "absent" => starts = 1
  /\ observed = "post" => committed
  /\ \A r \in DOMAIN listed : file[r] = "whole" =>
        /\ committed
        /\ listed[r] = Targets(IF r = "upgrade" THEN "upgrade" ELSE "install")
=============================================================================
