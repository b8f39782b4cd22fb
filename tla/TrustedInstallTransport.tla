---------------------- MODULE TrustedInstallTransport -----------------------
(***************************************************************************)
(* The unprivileged side of one installation:                              *)
(* source_artifact_install_trusted_transport.cpp, with the legacy route of *)
(* package_base_artifact_install_executor.cpp.                             *)
(*                                                                         *)
(* The client runs the helper's commands one after the other through sudo: *)
(* prepare, execute, execution-status, then consume or abort.  What it     *)
(* hears is not always what happened.  A command may fail to start, its    *)
(* output may be cut, storing it may throw, waiting may fail, and sudo may *)
(* be killed in front of a command that lives on.  The client must still   *)
(* say of pacman nothing but the truth.                                    *)
(***************************************************************************)
EXTENDS TrustedInstallStore

VARIABLES
  step,      \* the command the client is at, or end
  caller,    \* the process it waits for
  heard,     \* what it heard of it: none, ok, failed, garbled, threw, ...
  answer,    \* the reply it parsed
  code,      \* the exit status of execute
  pending,   \* what it will report once the abort is over
  result     \* what it reported

client == <<step, caller, heard, answer, code, pending, result>>
transportVars == <<storeVars, client>>

Statuses == {"PrepareFailed", "PacmanFailed", "AbortFailed", "ConsumeFailed",
             "MalformedReceipt", "Missing", "Complete", "OutcomeUnknown",
             "ArtifactSealingFailed", "TransactionError"}

(* InvocationDependencyTransactionCommandOutcome, and for the exact route  *)
(* DevelSourceArtifactInstallOperation.                                    *)
Outcomes == {"NotAttempted", "Succeeded", "Failed", "Unknown"}
Cleanups == {"Complete", "Failed", "Retained", "OutcomeUnknown"}

NoResult == [status |-> "none", outcome |-> "NotAttempted",
             cleanup |-> "OutcomeUnknown", pkgs |-> {}]

Report(status, outcome, cleanup) ==
  [NoResult EXCEPT !.status = status, !.outcome = outcome, !.cleanup = cleanup]

-----------------------------------------------------------------------------
(* Running one command: capture_explicit, run_explicit_process_with_outcome *)
(* and run_explicit of process.cpp.                                        *)

Command ==
  CASE step = "prepare" ->
         IF purpose = "legacy" THEN "install_legacy" ELSE "prepare"
    [] step = "consume" ->
         IF purpose = "exact" THEN "consume_exact" ELSE "consume"
    [] OTHER -> step

(* The commands whose output the client reads to its end: it does not come *)
(* back before the helper closed it.                                       *)
Captured ==
  \/ step \in {"status", "consume"}
  \/ step = "prepare" /\ purpose # "legacy"

Idle == step # "end" /\ caller = NoHelper /\ heard = "none"

Call(h) ==
  /\ Idle
  /\ Launch(h, Command, "client")
  /\ caller' = h
  /\ UNCHANGED <<purpose, store, pacmanVars, invocations, step, heard, answer,
                 code, pending, result>>

(* fork fails, or building the command throws before it. *)
NotStarted ==
  /\ Idle
  /\ heard' \in IF step = "execute" THEN {"not_started"}
                ELSE IF step = "abort" THEN {"failed"}
                ELSE {"failed", "threw"}
  /\ answer' = NoReply
  /\ UNCHANGED <<storeVars, step, caller, code, pending, result>>

(* What can be heard of a command that ended. *)
Hearable(ending) ==
  IF ~Captured THEN {ending}
  ELSE IF ending = "ok" THEN {"ok", "garbled", "failed", "threw"}
  ELSE {"failed", "threw"}

Hear ==
  /\ caller # NoHelper /\ pc[caller] \in {"ok", "failed"}
  /\ heard' \in Hearable(pc[caller])
  /\ answer' = IF heard' = "ok" THEN reply[caller] ELSE NoReply
  /\ Settle(pc, [by EXCEPT ![caller] = "nobody"], reply)
  /\ caller' = NoHelper
  /\ UNCHANGED <<purpose, store, lock, pacmanVars, invocations, step, code,
                 pending, result>>

(* sudo is killed, or cannot be waited for: the command lives on. *)
Lose ==
  /\ caller # NoHelper /\ ~Captured
  /\ heard' \in IF step = "execute" THEN {"failed", "unknown"} ELSE {"failed"}
  /\ answer' = NoReply
  /\ Settle(pc, [by EXCEPT ![caller] = "nobody"], reply)
  /\ caller' = NoHelper
  /\ UNCHANGED <<purpose, store, lock, pacmanVars, invocations, step, code,
                 pending, result>>

-----------------------------------------------------------------------------
(* execute_snapshot, from one answer to the next command. *)

Proceed(next) ==
  /\ step' = next
  /\ heard' = "none"
  /\ answer' = NoReply
  /\ UNCHANGED <<storeVars, caller>>

End(report) ==
  /\ Proceed("end")
  /\ result' = report
  /\ UNCHANGED <<code, pending>>

(* What is reported after an abort that succeeds, and after one that does  *)
(* not: the failure of the abort replaces status, never the outcome.       *)
AbortThen(status, ifAbortFails, outcome) ==
  /\ Proceed("abort")
  /\ pending' = [done |-> status, failed |-> ifAbortFails, outcome |-> outcome]
  /\ UNCHANGED <<code, result>>

PrepareReturns ==
  /\ step = "prepare" /\ purpose # "legacy"
  /\ \/ /\ heard = "ok"
        /\ Proceed("execute")
        /\ UNCHANGED <<code, pending, result>>
     \/ /\ heard = "threw"
        /\ AbortThen("PrepareFailed", "AbortFailed", "NotAttempted")
     \/ /\ heard = "garbled"
        /\ AbortThen("ArtifactSealingFailed", "ArtifactSealingFailed",
                     "NotAttempted")
     \/ /\ heard = "failed"
        /\ End(Report("ArtifactSealingFailed", "NotAttempted",
                      "OutcomeUnknown"))

ExecuteReturns ==
  /\ step = "execute"
  /\ \/ /\ heard = "unknown"
        /\ End(Report("OutcomeUnknown", "Unknown", "Retained"))
     \/ /\ heard = "not_started"
        /\ AbortThen("PrepareFailed", "AbortFailed", "NotAttempted")
     \/ /\ heard \in {"ok", "failed"}
        /\ Proceed("status")
        /\ code' = heard
        /\ UNCHANGED <<pending, result>>

(* A mutant: the authorization passes for an execution. *)
Mutant_Proved == heard = "ok" /\ answer.authorized

Proved == heard = "ok" /\ answer.authorized /\ answer.observed

StatusReturns ==
  /\ step = "status" /\ heard # "none"
  /\ \/ /\ answer.refused
        /\ AbortThen("ArtifactSealingFailed", "ArtifactSealingFailed",
                     "NotAttempted")
     \/ /\ ~answer.refused /\ ~Proved
        /\ End(Report("OutcomeUnknown", "Unknown", "Retained"))
     \/ /\ ~answer.refused /\ Proved /\ code # "ok"
        /\ AbortThen("PacmanFailed", "AbortFailed", "Failed")
     \/ /\ ~answer.refused /\ Proved /\ code = "ok"
        /\ Proceed("consume")
        /\ UNCHANGED <<code, pending, result>>

(* A refusal printed by consume itself outranks the failure of the abort. *)
ConsumeReturns ==
  /\ step = "consume" /\ purpose = "cleanup"
  /\ \/ /\ heard \in {"threw", "failed"}
        /\ AbortThen("ConsumeFailed", "AbortFailed", "Succeeded")
     \/ /\ heard = "failed"
        /\ AbortThen("ArtifactSealingFailed", "ArtifactSealingFailed",
                     "Succeeded")
     \/ /\ heard = "garbled"
        /\ End(Report("MalformedReceipt", "Succeeded", "OutcomeUnknown"))
     \/ /\ heard = "ok"
        /\ \E status \in IF answer.receipt = "missing" THEN {"Missing"}
                         ELSE {"Complete", "OutcomeUnknown"} :
              End([Report(status, "Succeeded", "Complete")
                     EXCEPT !.pkgs = answer.pkgs])

ExactStatus ==
  [missing |-> "Missing", invalid |-> "MalformedReceipt",
   complete |-> "Complete"][answer.receipt]

ConsumeExactReturns ==
  /\ step = "consume" /\ purpose = "exact"
  /\ \/ /\ heard = "failed"
        /\ End(Report("ConsumeFailed", "Succeeded", "Failed"))
     \/ /\ heard = "threw"
        /\ End(Report("ConsumeFailed", "Succeeded", "OutcomeUnknown"))
     \/ /\ heard = "garbled"
        /\ \E status \in {"ConsumeFailed", "MalformedReceipt"} :
              End(Report(status, "Succeeded", "OutcomeUnknown"))
     \/ /\ heard = "ok"
        /\ End([Report(ExactStatus, "Succeeded",
                       IF answer.cleanup = "done" THEN "Complete" ELSE "Failed")
                  EXCEPT !.pkgs = answer.pkgs])

AbortReturns ==
  /\ step = "abort" /\ heard # "none"
  /\ IF heard = "ok"
     THEN End(Report(pending.done, pending.outcome, "Complete"))
     ELSE End(Report(pending.failed, pending.outcome, "Failed"))

(* The legacy route knows the exit code of install-legacy and no more. *)
LegacyReturns ==
  /\ step = "prepare" /\ purpose = "legacy" /\ heard # "none"
  /\ IF heard = "ok"
     THEN End(Report("Complete", "Succeeded", "OutcomeUnknown"))
     ELSE End(Report("TransactionError", "Unknown", "OutcomeUnknown"))

-----------------------------------------------------------------------------
TransportInit ==
  /\ Init
  /\ step = "prepare"
  /\ caller = NoHelper
  /\ heard = "none"
  /\ answer = NoReply
  /\ code = "none"
  /\ pending = [done |-> "none", failed |-> "none", outcome |-> "none"]
  /\ result = NoResult

ClientStep ==
  \/ \E h \in Helpers : Call(h)
  \/ Hear
  \/ PrepareReturns \/ ExecuteReturns \/ StatusReturns \/ ConsumeReturns
  \/ ConsumeExactReturns \/ AbortReturns \/ LegacyReturns

TransportNext ==
  \/ StoreNext /\ UNCHANGED client
  \/ ClientStep \/ NotStarted \/ Lose

(* Every process gets on with its work or stops, pacman ends, and the      *)
(* client goes on as soon as it can.  Nothing is said of a descendant of   *)
(* pacman: it may run for ever.                                            *)
TransportSpec ==
  /\ TransportInit
  /\ [][TransportNext]_transportVars
  /\ WF_transportVars(ClientStep)
  /\ WF_transportVars(PacmanStep /\ UNCHANGED client)
  /\ \A h \in Helpers :
       WF_transportVars((HelperStep(h) \/ HelperFault(h)) /\ UNCHANGED client)

-----------------------------------------------------------------------------
(* The shape of the state. *)
TransportTypeOK ==
  /\ TypeOK
  /\ step \in {"prepare", "execute", "status", "consume", "abort", "end"}
  /\ caller \in Helpers \cup {NoHelper}
  /\ heard \in {"none", "ok", "failed", "garbled", "threw", "not_started",
                "unknown"}
  /\ code \in {"none", "ok", "failed"}
  /\ result.status \in Statuses \cup {"none"}
  /\ result.outcome \in Outcomes
  /\ result.cleanup \in Cleanups

(* What the client reports of pacman is so, and stays so, whatever the     *)
(* processes it lost sight of do afterwards: NotAttempted means pacman     *)
(* never ran, Succeeded that it ended with status zero, Failed that it ran *)
(* (a killed sudo may hide how it ended), and a Complete receipt names     *)
(* exactly the packages it committed: all it installed, or, on the exact   *)
(* route, all that were asked for, each installed or upgraded.             *)
OutcomeTruthful ==
  /\ step = "end" /\ result.outcome = "NotAttempted" => starts = 0
  /\ result.outcome = "Succeeded" => exit = "ok"
  /\ result.outcome = "Failed" => starts = 1
  /\ result.status = "Complete" /\ purpose # "legacy" =>
       /\ committed
       /\ result.pkgs = IF purpose = "exact" THEN Touched \cap Packages
                        ELSE Targets("install")

(* What is left of a transaction is what the client reports.  When the     *)
(* outcome is unknown it stays where it is, with its stage and with every  *)
(* claim and marker made: no abort, no consume.  What the exact route says *)
(* of its cleanup is so: Complete means that the transaction is retired    *)
(* and nothing of it is left, Retained that it is still there in full.     *)
CleanupTruthful ==
  /\ result.outcome = "Unknown" /\ purpose # "legacy" =>
       /\ place = "active" /\ StageIntact
       /\ starts = 1 => file["execution"] = "whole" /\ file["authorized"] = "whole"
  /\ step = "end" /\ purpose = "exact" =>
       /\ result.cleanup = "Complete" =>
            /\ place = "used"
            /\ \A f \in Leaves : file[f] = "absent"
            /\ observed = "absent"
       /\ result.cleanup = "Retained" => place = "active" /\ StageIntact

(* The client always ends, even if a descendant of pacman keeps the lock   *)
(* for ever.                                                               *)
ClientEnds == <>(step = "end")
=============================================================================
