----------------------------- MODULE AlpmReceipt -----------------------------
(***************************************************************************)
(* A pacman transaction with a receipt (trusted_alpm_receipt_transport,    *)
(* _protocol, _helper_state and _helper_main).  A helper that runs as root *)
(* prepares a directory with a hook for one random token; pacman runs with *)
(* that hook, which calls the helper again to record what was installed;   *)
(* the receipt is consumed, or the directory aborted.  Both move it from   *)
(* active/ to used/, empty it and leave it there, so that a token serves   *)
(* once.  The store has no lock: a pacman that the client has lost sight   *)
(* of, or its orphaned hook, may record while the client aborts.           *)
(***************************************************************************)
EXTENDS Naturals, Sequences, FiniteSets

CONSTANTS Requests,     \* requests: sequences of package names
          Dependency,   \* a package each request brings along
          Beforehand,   \* packages that are installed before
          MaxReceipt,   \* packages a receipt can hold
          MaxFaults     \* bound on failures

VARIABLES client,    \* [pc, request, then, result]: then is what an abort is followed by
          tdir,      \* the directory of the token: [place, files, names]
          helper,    \* consume or abort: [cmd, pc, seen, out]
          recorder,  \* the hook
          pacman,    \* [state, new, code]
          faults
receiptVars == <<client, tdir, helper, recorder, pacman, faults>>

Prepared == {"prepared", "hook"}
NoResult == [status |-> "none"]
Idle == [cmd |-> "none", pc |-> "idle", seen |-> {}, out |-> <<>>]

ReceiptInit ==
    /\ client \in {[pc |-> "request", request |-> r, then |-> NoResult, result |-> NoResult] :
                      r \in Requests}
    /\ tdir = [place |-> "none", files |-> {}, names |-> {}]
    /\ helper = Idle /\ recorder = "off"
    /\ pacman = [state |-> "idle", new |-> {}, code |-> 0] /\ faults = 0

Fault == faults < MaxFaults /\ faults' = faults + 1

(***************************************************************************)
(* The protocol                                                            *)
(***************************************************************************)
Names(request) == {request[i] : i \in DOMAIN request}

RequestIsValid(request) == request # <<>> /\ Cardinality(Names(request)) = Len(request)

\* The targets of the hook: at least one, and no more than a receipt holds.
NeedsTargets(names) == names # {} /\ Cardinality(names) <= MaxReceipt

\* A receipt is Complete with at least one package or Missing with none.
MachineReceipt(files, names) ==
    IF "receipt" \in files THEN [state |-> "Complete", names |-> names]
    ELSE [state |-> "Missing", names |-> {}]

ReceiptParses(receipt) ==
    IF receipt.state = "Complete" THEN NeedsTargets(receipt.names) ELSE receipt.names = {}

(***************************************************************************)
(* The store                                                               *)
(***************************************************************************)
\* Open and validate: the directory is active and has its two files.
Opens == tdir.place = "active" /\ Prepared \subseteq tdir.files

\* How prepare ends: published; not published and taken back, or not even
\* that; published, and then retired or left because a synchronization or
\* the answer failed.
PrepareEndings ==
    {[code |-> 0, place |-> "active", files |-> Prepared]} \cup
    {[code |-> 1, place |-> d.place, files |-> d.files] :
        d \in {[place |-> "none", files |-> {}], [place |-> "preparing", files |-> {"prepared"}],
               [place |-> "used", files |-> {}], [place |-> "used", files |-> Prepared],
               [place |-> "active", files |-> Prepared]}}

\* consume wants no partial receipt, abort not both.
Refused(cmd) ==
    \/ ~Opens
    \/ cmd = "consume" /\ "partial" \in tdir.files
    \/ cmd = "abort" /\ {"partial", "receipt"} \subseteq tdir.files

\* A helper that fails says so with its exit status, wherever it was.
HelperExits(out) == helper' = [helper EXCEPT !.pc = "ended", !.out = out]

HelperOpens ==
    /\ helper.pc = "open"
    /\ IF Refused(helper.cmd) THEN HelperExits(<<>>)
       ELSE helper' = [helper EXCEPT !.pc = "retire", !.seen = tdir.files,
                                     !.out = <<MachineReceipt(tdir.files, tdir.names)>>]
    /\ UNCHANGED <<client, tdir, recorder, pacman, faults>>

RetireTransaction ==
    /\ helper.pc = "retire" /\ tdir.place = "active"
    /\ tdir' = [tdir EXCEPT !.place = "used"] /\ helper' = [helper EXCEPT !.pc = "check"]
    /\ UNCHANGED <<client, recorder, pacman, faults>>

\* Nothing but what was seen may be there, before and after the removal.
CleanupRetiredChecks ==
    /\ helper.pc = "check"
    /\ IF tdir.files = helper.seen THEN helper' = [helper EXCEPT !.pc = "remove"] ELSE HelperExits(<<>>)
    /\ UNCHANGED <<client, tdir, recorder, pacman, faults>>

CleanupRetiredRemoves ==
    /\ helper.pc = "remove"
    /\ tdir' = [tdir EXCEPT !.files = @ \ helper.seen]
    /\ HelperExits(IF tdir.files = helper.seen THEN helper.out ELSE <<>>)
    /\ UNCHANGED <<client, recorder, pacman, faults>>

HelperFails ==
    /\ Fault /\ helper.pc \in {"open", "retire", "check", "remove"}
    /\ HelperExits(<<>>)
    /\ tdir' \in {tdir} \cup IF helper.pc = "remove"
                             THEN {[tdir EXCEPT !.files = @ \ s] : s \in {{"hook"}, Prepared, helper.seen}}
                             ELSE {}
    /\ UNCHANGED <<client, recorder, pacman>>

\* record, called by the hook of a transaction that has installed something.
RecordOpens ==
    /\ recorder = "off" /\ pacman.state = "hooks"
    /\ recorder' = IF Opens /\ tdir.files = Prepared /\ NeedsTargets(pacman.new)
                   THEN "opened" ELSE "ended"
    /\ UNCHANGED <<client, tdir, helper, pacman, faults>>

\* The directory is held by descriptor, whatever its name is by now.
RecordCreatesPartial ==
    /\ recorder = "opened" /\ recorder' = "created"
    /\ tdir' = [tdir EXCEPT !.files = @ \cup {"partial"}, !.names = pacman.new]
    /\ UNCHANGED <<client, helper, pacman, faults>>

RecordChecksName ==
    /\ recorder = "created"
    /\ recorder' = IF tdir.place = "active" THEN "checked" ELSE "ended"
    /\ UNCHANGED <<client, tdir, helper, pacman, faults>>

RecordPublishes ==
    /\ recorder = "checked" /\ recorder' = "ended"
    /\ tdir' = IF "partial" \in tdir.files /\ "receipt" \notin tdir.files
               THEN [tdir EXCEPT !.files = (@ \ {"partial"}) \cup {"receipt"}] ELSE tdir
    /\ UNCHANGED <<client, helper, pacman, faults>>

RecordFails ==
    /\ Fault /\ recorder \in {"opened", "created", "checked"} /\ recorder' = "ended"
    /\ UNCHANGED <<client, tdir, helper, pacman>>

(***************************************************************************)
(* pacman -S --needed --hookdir                                            *)
(***************************************************************************)
ToInstall(request) ==
    IF Names(request) \subseteq Beforehand THEN {}
    ELSE (Names(request) \cup {Dependency}) \ Beforehand

PacmanCommits ==
    /\ pacman.state = "running"
    /\ pacman' = IF ToInstall(client.request) = {} THEN [pacman EXCEPT !.state = "ended"]
                 ELSE [pacman EXCEPT !.state = "hooks", !.new = ToInstall(client.request)]
    /\ UNCHANGED <<client, tdir, helper, recorder, faults>>

\* The exit status is 0 whatever the hook did.
PacmanEnds ==
    /\ pacman.state = "hooks" /\ recorder = "ended"
    /\ pacman' = [pacman EXCEPT !.state = "ended"]
    /\ UNCHANGED <<client, tdir, helper, recorder, faults>>

\* Refused, failed in the middle, or killed when its hook already runs.
PacmanFails ==
    /\ Fault /\ pacman.state \in {"running", "hooks"}
    /\ \E new \in IF pacman.state = "hooks" THEN {pacman.new} ELSE SUBSET ToInstall(client.request) :
          pacman' = [state |-> "ended", new |-> new, code |-> 1]
    /\ UNCHANGED <<client, tdir, helper, recorder>>

(***************************************************************************)
(* The client                                                              *)
(***************************************************************************)
Ends(status, outcome, observation) ==
    client' = [client EXCEPT !.pc = "done",
       !.result = [status |-> status, outcome |-> outcome, observation |-> observation]]

\* The result stands if the abort succeeds.
AbortThen(status, outcome, observation) ==
    /\ client' = [client EXCEPT !.pc = "abort",
          !.then = [status |-> status, outcome |-> outcome, observation |-> observation]]
    /\ helper' = [Idle EXCEPT !.cmd = "abort", !.pc = "open"]

ExecuteBegins ==
    /\ client.pc = "request"
    /\ \/ /\ RequestIsValid(client.request) /\ client' = [client EXCEPT !.pc = "prepare"]
          /\ UNCHANGED faults
       \/ /\ ~RequestIsValid(client.request) /\ Ends("InvalidRequest", "none", "none")
          /\ UNCHANGED faults
       \/ /\ Fault /\ RequestIsValid(client.request)
          /\ \E s \in {"TrustedExecutableUnavailable", "TokenGenerationFailed"} : Ends(s, "none", "none")
    /\ UNCHANGED <<tdir, helper, recorder, pacman>>

\* An exit status other than 0 is taken to mean that nothing is left; an
\* answer that cannot be read or a call that throws is followed by an abort.
Prepare ==
    /\ client.pc = "prepare"
    /\ \E e \in PrepareEndings :
          /\ tdir' = [tdir EXCEPT !.place = e.place, !.files = e.files]
          /\ \/ /\ e.code = 0 /\ client' = [client EXCEPT !.pc = "start"] /\ UNCHANGED <<helper, faults>>
             \/ /\ e.code = 1 /\ Ends("PrepareFailed", "NotAttempted", "Missing")
                /\ Fault /\ UNCHANGED helper
             \/ Fault /\ AbortThen("PrepareFailed", "NotAttempted", "Missing")
    /\ UNCHANGED <<recorder, pacman>>

StartPacman ==
    /\ client.pc = "start"
    /\ \/ /\ client' = [client EXCEPT !.pc = "pacman"] /\ pacman' = [pacman EXCEPT !.state = "running"]
          /\ UNCHANGED <<helper, faults>>
       \/ /\ Fault /\ AbortThen("PrepareFailed", "NotAttempted", "Missing")
          /\ UNCHANGED pacman
    /\ UNCHANGED <<tdir, recorder>>

\* Sight of pacman is lost while it runs.
LosePacman ==
    /\ client.pc = "pacman" /\ Fault
    /\ AbortThen("OutcomeUnknown", "Unknown", "Incomplete")
    /\ UNCHANGED <<tdir, recorder, pacman>>

\* Mutant: a failed transaction is consumed too.
Mutant_PacmanReports ==
    /\ client.pc = "pacman" /\ pacman.state = "ended"
    /\ client' = [client EXCEPT !.pc = "consume"]
    /\ helper' = [Idle EXCEPT !.cmd = "consume", !.pc = "open"]
    /\ UNCHANGED <<tdir, recorder, pacman, faults>>

PacmanReports ==
    /\ client.pc = "pacman" /\ pacman.state = "ended"
    /\ \/ /\ pacman.code # 0 /\ AbortThen("PacmanFailed", "Failed", "Missing")
       \/ /\ pacman.code = 0 /\ client' = [client EXCEPT !.pc = "consume"]
          /\ helper' = [Idle EXCEPT !.cmd = "consume", !.pc = "open"]
    /\ UNCHANGED <<tdir, recorder, pacman, faults>>

\* The call may throw before it starts the helper or after its end.
ConsumeReturns ==
    /\ client.pc = "consume"
    /\ \/ /\ helper.pc = "ended" /\ helper.out # <<>> /\ ReceiptParses(helper.out[1])
          /\ Ends(helper.out[1].state, "Succeeded", helper.out[1].state) /\ UNCHANGED <<helper, faults>>
       \/ /\ helper.pc = "ended" /\ helper.out # <<>> /\ Fault
          /\ Ends("MalformedReceipt", "Succeeded", "Incomplete") /\ UNCHANGED helper
       \/ /\ helper.pc = "ended" /\ helper.out = <<>> /\ UNCHANGED faults
          /\ AbortThen("ConsumeFailed", "Succeeded", "Incomplete")
       \/ /\ helper.pc \in {"open", "ended"} /\ Fault
          /\ AbortThen("ConsumeFailed", "Succeeded", "Incomplete")
    /\ UNCHANGED <<tdir, recorder, pacman>>

\* A call that throws is made a second time.
AbortReturns ==
    /\ client.pc = "abort"
    /\ \/ /\ helper.pc = "ended" /\ UNCHANGED <<helper, faults>>
          /\ Ends(IF helper.out # <<>> THEN client.then.status ELSE "AbortFailed",
                  client.then.outcome, client.then.observation)
       \/ /\ helper.pc = "ended" /\ Fault
          /\ helper' = [Idle EXCEPT !.cmd = "abort", !.pc = "open"] /\ UNCHANGED client
    /\ UNCHANGED <<tdir, recorder, pacman>>

ReceiptDone ==
    /\ client.pc = "done" /\ pacman.state \in {"idle", "ended"} /\ recorder \in {"off", "ended"}
    /\ UNCHANGED receiptVars

ReceiptNext ==
    \/ ExecuteBegins \/ Prepare \/ StartPacman \/ LosePacman \/ PacmanReports
    \/ ConsumeReturns \/ AbortReturns
    \/ HelperOpens \/ RetireTransaction \/ CleanupRetiredChecks \/ CleanupRetiredRemoves \/ HelperFails
    \/ RecordOpens \/ RecordCreatesPartial \/ RecordChecksName \/ RecordPublishes \/ RecordFails
    \/ PacmanCommits \/ PacmanEnds \/ PacmanFails \/ ReceiptDone

ReceiptSpec == ReceiptInit /\ [][ReceiptNext]_receiptVars

(***************************************************************************)
(* Properties                                                              *)
(***************************************************************************)
\* A Complete receipt is from this transaction, which has succeeded, and
\* names exactly what it installed.  That the command was not attempted, has
\* failed or has succeeded is so.  When the client ends without saying that
\* an abort failed, and neither pacman nor its hook outlives it, nothing of
\* the token is left to be recorded in or consumed, except after a prepare
\* that failed by itself; the name of a token that was published stays taken.
ReceiptTruthful ==
    client.pc = "done" =>
       LET r == client.result
           quiet == pacman.state \in {"idle", "ended"} /\ recorder \in {"off", "ended"}
       IN /\ r.status = "Complete" => /\ pacman.state = "ended" /\ pacman.code = 0
                                      /\ helper.out[1].names = pacman.new /\ pacman.new # {}
          /\ r.outcome = "NotAttempted" => pacman.state = "idle"
          /\ r.outcome = "Succeeded" => pacman.state = "ended" /\ pacman.code = 0
          /\ r.outcome = "Failed" => pacman.state = "ended" /\ pacman.code # 0
          /\ r.outcome \in {"Succeeded", "Failed", "Unknown"} => tdir.place # "none"
          /\ r.status \notin {"AbortFailed", "PrepareFailed", "OutcomeUnknown"} /\ quiet
                => tdir.place # "active" /\ "receipt" \notin tdir.files
=============================================================================
