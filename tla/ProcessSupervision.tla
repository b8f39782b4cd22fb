------------------------ MODULE ProcessSupervision ------------------------
(***************************************************************************)
(* process.cpp.  A bounded call runs a child in a process group of its     *)
(* own, captures its output up to a limit, and ends the whole group at a   *)
(* deadline, at the limit, on a signal to the caller and when the root     *)
(* leaves processes behind.  A plain command is only waited for, with      *)
(* SIGINT and SIGQUIT ignored meanwhile.                                   *)
(*                                                                         *)
(* A process that is told to terminate may do so or not: it may end at any *)
(* time anyway, so SIGTERM has no effect of its own.  SIGKILL ends what it *)
(* reaches.  How many processes are started, writes made and system calls   *)
(* fail is bounded by the scenario.                                        *)
(***************************************************************************)
EXTENDS Naturals, Sequences, FiniteSets

CONSTANTS Root, Kids,     \* the child and the processes that it may start
          OutputLimit,    \* stdout_capture_limit, in writes
          Scenarios       \* how much happens: [kids |-> 1, writes |-> 2, faults |-> 0], ...

ASSUME BoundsAssumption ==
    /\ OutputLimit \in Nat /\ Scenarios \subseteq [kids : Nat, writes : Nat, faults : Nat]
    /\ Root \notin Kids /\ {"caller", "init"} \cap ({Root} \cup Kids) = {}

VARIABLES
    call,     \* the locals of the call
    task,    \* the child and its descendants
    out,      \* the output: written so far, of that unread, a failure record of the child, whether it got to the exec
    clock,    \* whether the hard deadline and the end of the grace have come
    host,   \* the caller's own state: signals, subreaper
    left      \* what of the scenario is still to come

processVars == <<call, task, out, clock, host, left>>

Tasks == {Root} \cup Kids
Alive(p) == task[p].life \in {"setup", "failing", "live"}
Member(p) == task[p].ours /\ task[p].life \notin {"none", "gone"}
GroupExists == \E p \in Tasks : Member(p)
Writers == {p \in Tasks : Alive(p) /\ task[p].out}

NoProcess == [life |-> "none", ours |-> FALSE, parent |-> "caller", out |-> FALSE, status |-> "none"]

NewCall(op) ==
    [op |-> op, st |-> "setup", result |-> "none", output |-> 0, forced |-> <<>>, exception |-> FALSE,
     cancelled |-> FALSE, outOpen |-> TRUE, statusOpen |-> TRUE, execOk |-> FALSE, reaped |-> FALSE,
     status |-> "none", term |-> FALSE, killed |-> FALSE,
     changed |-> {}]   \* what of the caller's state the call has to put back

Untouched == [sigint |-> "own", sigquit |-> "own", mask |-> "own", subreaper |-> FALSE, pending |-> FALSE]

ProcessInit ==
    /\ \E op \in {"bounded", "command"} : call = NewCall(op)
    /\ task = [p \in Tasks |-> NoProcess]
    /\ out = [written |-> 0, unread |-> 0, record |-> FALSE, ran |-> FALSE]
    /\ clock = [hard |-> FALSE, grace |-> FALSE]
    /\ host = Untouched
    /\ left \in Scenarios

NoCall ==
    /\ call = [NewCall("none") EXCEPT !.st = "returned"]
    /\ task = [p \in Tasks |-> NoProcess]
    /\ out = [written |-> 0, unread |-> 0, record |-> FALSE, ran |-> FALSE]
    /\ clock = [hard |-> FALSE, grace |-> FALSE] /\ host = Untouched /\ left = [kids |-> 0, writes |-> 0, faults |-> 0]

(***************************************************************************)
(* The processes                                                           *)
(***************************************************************************)
OnlyProcesses == UNCHANGED <<call, clock, host, left>>

\* exec_bounded_explicit_process_child up to the exec: a group of its own...
ChildGroup ==
    /\ task[Root].life = "setup" /\ ~ task[Root].ours /\ call.op = "bounded"
    /\ task' = [task EXCEPT ![Root].ours = TRUE]
    /\ UNCHANGED out /\ OnlyProcesses

\* ...and whatever fails is written to the status pipe before the child ends.
report_bounded_child_failure ==
    /\ task[Root].life = "setup" /\ call.op = "bounded" /\ left.faults > 0
    /\ task' = [task EXCEPT ![Root].life = "failing"]
    /\ out' = [out EXCEPT !.record = TRUE]
    /\ left' = [left EXCEPT !.faults = @ - 1]
    /\ UNCHANGED <<call, clock, host>>

\* The child's own half of setpgid has come first; every descriptor but the
\* standard ones is closed, the status pipe by the exec itself.
ExecProgram ==
    /\ task[Root].life = "setup" /\ (call.op = "bounded" => task[Root].ours)
    /\ task' = [task EXCEPT ![Root].life = "live"]
    /\ out' = [out EXCEPT !.ran = TRUE] /\ OnlyProcesses

\* exec_explicit_process_child has nothing but its exit status to say that
\* it did not get to the exec.
exec_explicit_process_child ==
    /\ task[Root].life = "setup" /\ call.op = "command" /\ left.faults > 0
    /\ task' = [task EXCEPT ![Root] = [@ EXCEPT !.life = "zombie", !.status = "exited", !.out = FALSE]]
    /\ left' = [left EXCEPT !.faults = @ - 1]
    /\ UNCHANGED <<call, out, clock, host>>

Write(p) ==
    /\ task[p].life = "live" /\ task[p].out /\ call.outOpen /\ left.writes > 0
    /\ left' = [left EXCEPT !.writes = @ - 1]
    /\ out' = [out EXCEPT !.written = @ + 1, !.unread = @ + 1]
    /\ UNCHANGED <<call, task, clock, host>>

\* The root may close its output early; what it starts then has none.
CloseOutput ==
    /\ call.op = "bounded" /\ task[Root].life = "live" /\ task[Root].out
    /\ task' = [task EXCEPT ![Root].out = FALSE]
    /\ UNCHANGED out /\ OnlyProcesses

\* A fork: which of the Kids it is makes no difference.
StartKid(p) ==
    LET unused == {k \in Kids : task[k].life = "none"} IN
    /\ task[p].life = "live" /\ left.kids > 0 /\ unused # {} /\ left' = [left EXCEPT !.kids = @ - 1]
    /\ task' = [task EXCEPT ![CHOOSE k \in unused : TRUE] = [task[p] EXCEPT !.parent = p]]
    /\ UNCHANGED <<call, out, clock, host>>

LeaveGroup(k) ==
    /\ task[k].life = "live" /\ task[k].ours
    /\ task' = [task EXCEPT ![k].ours = FALSE]
    /\ UNCHANGED out /\ OnlyProcesses

Gone(p) == [NoProcess EXCEPT !.life = "gone", !.status = task[p].status]

\* The children of what ends belong to the caller, the nearest subreaper,
\* or to init, which waits for them.
AfterDeath(dead, how) ==
    [q \in Tasks |->
        LET heir == IF task[q].parent \in dead THEN IF host.subreaper THEN "caller" ELSE "init"
                    ELSE task[q].parent
            dies == q \in dead \/ task[q].life = "zombie" IN
        IF dies /\ heir = "init" THEN Gone(q)
        ELSE [task[q] EXCEPT !.parent = heir, !.out = @ /\ ~ dies,
                              !.life = IF dies THEN "zombie" ELSE @,
                              !.status = IF q = Root /\ q \in dead THEN how ELSE @]]

\* A process ends by itself or by a signal, also before the exec.
End(p, how) ==
    /\ Alive(p) /\ (task[p].life = "failing" \/ p # Root => how = "exited") /\ (task[p].life = "setup" => how = "signaled")
    /\ task' = AfterDeath({p}, how)
    /\ UNCHANGED out /\ OnlyProcesses

\* A process waits for its own child.
WaitsFor(p, k) ==
    /\ task[p].life = "live" /\ task[k].life = "zombie" /\ task[k].parent = p
    /\ task' = [task EXCEPT ![k] = Gone(k)]
    /\ UNCHANGED out /\ OnlyProcesses

HardDeadline ==
    /\ call.op = "bounded" /\ task[Root].life # "none" /\ ~ clock.hard
    /\ clock' = [clock EXCEPT !.hard = TRUE]
    /\ UNCHANGED <<call, task, out, host, left>>

GraceOver ==
    /\ call.term /\ ~ clock.grace
    /\ clock' = [clock EXCEPT !.grace = TRUE]
    /\ UNCHANGED <<call, task, out, host, left>>

\* SIGINT, SIGQUIT, SIGHUP or SIGTERM for the caller, while it is blocked.
Interrupt ==
    /\ host.mask = "blocked" /\ ~ host.pending /\ ~ call.cancelled
    /\ host' = [host EXCEPT !.pending = TRUE]
    /\ UNCHANGED <<call, task, out, clock, left>>

Processes ==
    \/ ChildGroup \/ report_bounded_child_failure \/ ExecProgram \/ exec_explicit_process_child
    \/ \E p \in Tasks, how \in {"exited", "signaled"} : End(p, how)
    \/ \E p \in Tasks : call.op = "bounded" /\ (Write(p) \/ StartKid(p))
    \/ CloseOutput \/ \E k \in Kids : LeaveGroup(k)
    \/ \E p \in Tasks, k \in Kids : WaitsFor(p, k)
    \/ HardDeadline \/ GraceOver \/ Interrupt

(***************************************************************************)
(* The bounded call: setup                                                 *)
(***************************************************************************)
\* A system call of the caller fails.
Fault == left.faults > 0 /\ left' = [left EXCEPT !.faults = @ - 1]
Works == UNCHANGED left

\* force_io_failure replaces what was forced before.
Forced(c, outcome) == [c EXCEPT !.forced = <<outcome>>]

\* begin_termination; signal_tree that reaches nobody it may signal.
begin_termination(c) == [c EXCEPT !.term = TRUE]
CloseAndTerminate(c) == begin_termination([c EXCEPT !.outOpen = FALSE])

Return(result) == call' = [call EXCEPT !.st = "returned", !.result = result]

\* The caller's state is put back, each part by itself.
PutBack(parts) ==
    [sigint |-> IF "sigint" \in parts THEN "own" ELSE host.sigint,
     sigquit |-> IF "sigquit" \in parts THEN "own" ELSE host.sigquit,
     mask |-> IF "mask" \in parts THEN "own" ELSE host.mask,
     subreaper |-> IF "subreaper" \in parts THEN FALSE ELSE host.subreaper,
     pending |-> host.pending /\ "mask" \notin parts]

\* After a failure what was changed is put back, which may fail as well.
Undo(result, worse) ==
    \/ Fault /\ host' = PutBack(call.changed) /\ Return(result)
    \/ /\ left.faults > 1 /\ left' = [left EXCEPT !.faults = @ - 2]
       /\ \E kept \in call.changed : host' = PutBack(call.changed \ {kept})
       /\ Return(worse)

\* An invalid invocation, a pipe that cannot be made, a mask that cannot be
\* read or set: nothing has been changed.
SetupFails ==
    /\ call.op = "bounded" /\ call.st = "setup" /\ Fault
    /\ Return("launch") /\ UNCHANGED <<task, out, clock, host>>

BlockSignals ==
    /\ call.op = "bounded" /\ call.st = "setup" /\ Works
    /\ host' = [host EXCEPT !.mask = "blocked"]
    /\ call' = [call EXCEPT !.st = "subreaper", !.changed = {"mask"}]
    /\ UNCHANGED <<task, out, clock>>

\* The signal descriptor or the subreaper attribute fails: the mask goes back.
BecomeSubreaper ==
    /\ call.op = "bounded" /\ call.st = "subreaper"
    /\ \/ Undo("launch", "io")
       \/ /\ Works /\ host' = [host EXCEPT !.subreaper = TRUE]
          /\ call' = [call EXCEPT !.st = "fork",
                                  !.changed = @ \cup {"subreaper"}]
    /\ UNCHANGED <<task, out, clock>>

Forked == [task EXCEPT ![Root] = [NoProcess EXCEPT !.life = "setup", !.out = TRUE]]

Fork ==
    /\ call.op = "bounded" /\ call.st = "fork"
    /\ \/ Undo("launch", "io") /\ UNCHANGED task
       \/ /\ Works /\ task' = Forked /\ call' = [call EXCEPT !.st = "group"] /\ UNCHANGED host
    /\ UNCHANGED <<out, clock>>

\* The parent's half of setpgid.  It fails for a child that has called exec;
\* the child is then in its group already.
ParentGroup ==
    /\ call.st = "group"
    /\ \/ /\ Works /\ task' = [task EXCEPT ![Root].ours = TRUE]
          /\ call' = [call EXCEPT !.st = "deadline"] /\ UNCHANGED host
       \/ /\ Undo("launch", "io") /\ ~ task[Root].ours
          /\ task' = [task EXCEPT ![Root] = Gone(Root)]
    /\ UNCHANGED <<out, clock>>

(***************************************************************************)
(* The bounded call: the loop                                              *)
(***************************************************************************)
\* Mutant: at the deadline the outcome is set and nobody is told to end.
Mutant_Deadline ==
    /\ call.st = "deadline" /\ Works
    /\ LET c == [call EXCEPT !.st = "output"] IN
       call' = IF clock.hard /\ call.forced = <<>> THEN Forced([c EXCEPT !.outOpen = FALSE], "timed out") ELSE c
    /\ UNCHANGED <<task, out, clock, host>>

Deadline ==
    /\ call.st = "deadline" /\ Works
    /\ LET c == [call EXCEPT !.st = "output"] IN
       call' = IF clock.hard /\ call.forced = <<>> THEN CloseAndTerminate(Forced(c, "timed out")) ELSE c
    /\ UNCHANGED <<task, out, clock, host>>

\* One read: all that is there, of which what still fits is kept.
ReadOutput ==
    LET fits == IF OutputLimit - call.output < out.unread THEN OutputLimit - call.output ELSE out.unread
        next == [call EXCEPT !.st = "status"] IN
    /\ call.st = "output"
    /\ \/ /\ ~ call.outOpen /\ Works /\ call' = next /\ UNCHANGED out
       \/ /\ call.outOpen /\ out.unread > 0 /\ Works /\ out' = [out EXCEPT !.unread = 0]
          /\ LET c == [call EXCEPT !.output = @ + fits] IN
             call' = IF fits = out.unread THEN c
                     ELSE CloseAndTerminate(IF c.forced = <<>> THEN Forced([c EXCEPT !.st = "status"], "limit")
                                            ELSE [c EXCEPT !.st = "status"])
       \/ /\ call.outOpen /\ out.unread > 0 /\ fits > 0 /\ Fault /\ out' = [out EXCEPT !.unread = 0]
          /\ call' = CloseAndTerminate(Forced([next EXCEPT !.exception = TRUE], "io"))
       \/ /\ call.outOpen /\ out.unread = 0 /\ Works /\ UNCHANGED out
          /\ call' = [next EXCEPT !.outOpen = Writers # {}]
       \/ /\ call.outOpen /\ Fault /\ call' = CloseAndTerminate(Forced(next, "io")) /\ UNCHANGED out
    /\ UNCHANGED <<task, clock, host>>

\* The record is smaller than PIPE_BUF: it comes whole.  No record and nobody
\* left to write one: the child has called exec, or was killed before.
ReadStatus ==
    LET next == [call EXCEPT !.st = "signals"]
        closed == [next EXCEPT !.statusOpen = FALSE] IN
    /\ call.st = "status"
    /\ \/ /\ Works
          /\ call' = CASE ~ call.statusOpen -> next
                       [] call.statusOpen /\ out.record -> CloseAndTerminate(Forced(closed, "launch"))
                       [] call.statusOpen /\ ~ out.record ->
                             IF task[Root].life \in {"setup", "failing"} THEN next ELSE [closed EXCEPT !.execOk = TRUE]
       \/ call.statusOpen /\ Fault /\ call' = CloseAndTerminate(Forced(closed, "io"))
    /\ UNCHANGED <<task, out, clock, host>>

\* Signals to the caller go on to the group, without an outcome of their own.
ReadSignals ==
    LET next == [call EXCEPT !.st = "root"] IN
    /\ call.st = "signals"
    /\ \/ Works /\ call' = IF host.pending THEN begin_termination([next EXCEPT !.cancelled = TRUE]) ELSE next
       \/ Fault /\ call' = begin_termination(Forced(next, "io"))
    /\ host' = [host EXCEPT !.pending = FALSE]
    /\ UNCHANGED <<task, out, clock>>

\* ECHILD: somebody else has reaped the child.
ReapRoot ==
    LET next == [call EXCEPT !.st = "descendants"] IN
    /\ call.st = "root"
    /\ \/ /\ Works /\ ~ call.reaped /\ task[Root].life = "zombie"
          /\ task' = [task EXCEPT ![Root] = Gone(Root)]
          /\ call' = [next EXCEPT !.reaped = TRUE, !.status = task[Root].status]
       \/ /\ Works /\ (call.reaped \/ task[Root].life # "zombie") /\ call' = next /\ UNCHANGED task
       \/ /\ Fault /\ ~ call.reaped /\ call' = begin_termination(Forced(next, "io")) /\ UNCHANGED task
       \/ /\ Fault /\ ~ call.reaped /\ task[Root].life = "zombie"
          /\ task' = [task EXCEPT ![Root] = Gone(Root)]
          /\ call' = begin_termination(Forced([next EXCEPT !.reaped = TRUE], "io"))
    /\ UNCHANGED <<out, clock, host>>

\* waitpid(-child) reaps what is in the group and is a child of the caller.
Orphans == {k \in Kids : task[k].life = "zombie" /\ task[k].ours /\ task[k].parent = "caller"}
Reaped == [k \in Tasks |-> IF k \in Orphans THEN Gone(k) ELSE task[k]]

ReapDescendants ==
    /\ call.st = "descendants"
    /\ \/ /\ Works /\ task' = IF call.reaped THEN Reaped ELSE task
          /\ call' = [call EXCEPT !.st = "kill"]
       \/ /\ Fault /\ call.reaped /\ call' = begin_termination(Forced([call EXCEPT !.st = "kill"], "io"))
          /\ UNCHANGED task
    /\ UNCHANGED <<out, clock, host>>

\* The root is gone and its group is not; the grace is over: SIGKILL, once.
\* It fails when no member may be signalled.  kill with signal 0 can only say
\* ESRCH (no group) or EPERM (a group), so the observation does not fail.
KillGroup ==
    LET seen == [call EXCEPT !.st = "finish", !.term = @ \/ (call.reaped /\ GroupExists)] IN
    /\ call.st = "kill"
    /\ IF seen.term /\ GroupExists /\ ~ call.killed /\ clock.grace
       THEN \/ /\ Works /\ task' = AfterDeath({p \in Tasks : Member(p) /\ Alive(p)}, "signaled")
               /\ call' = [seen EXCEPT !.killed = TRUE]
            \/ Fault /\ call' = Forced([seen EXCEPT !.killed = TRUE], "io") /\ UNCHANGED task
       ELSE Works /\ call' = seen /\ UNCHANGED task
    /\ UNCHANGED <<out, clock, host>>

\* Mutants: the end of the root ends the call; the output is not waited for.
Mutant_FinishedWithRoot ==
    /\ call.reaped
    /\ call.forced # <<>> \/ (~ call.outOpen /\ ~ call.statusOpen /\ call.execOk)
Mutant_FinishedEarly ==
    /\ call.reaped /\ ~ GroupExists
    /\ call.forced # <<>> \/ (~ call.statusOpen /\ call.execOk)

Finished ==
    /\ call.reaped /\ ~ GroupExists
    /\ call.forced # <<>> \/ (~ call.outOpen /\ ~ call.statusOpen /\ call.execOk)

\* poll returns because of a descriptor or after 20 ms at the latest.
Finish ==
    /\ call.st = "finish"
    /\ \/ Works /\ call' = [call EXCEPT !.st = IF Finished THEN "restore" ELSE "deadline"]
       \/ /\ Fault /\ ~ Finished
          /\ call' = CloseAndTerminate(Forced([call EXCEPT !.st = "deadline"], "io"))
    /\ UNCHANGED <<task, out, clock, host>>

Outcome(c) ==
    CASE c.exception -> "exception"
      [] ~ c.exception /\ c.forced # <<>> -> c.forced[1]
      [] OTHER -> c.status

Restore ==
    /\ call.op = "bounded" /\ call.st = "restore"
    /\ \/ /\ Works /\ host' = PutBack(call.changed) /\ Return(Outcome(call))
       \/ /\ Fault /\ \E kept \in call.changed : host' = PutBack(call.changed \ {kept})
          /\ Return(Outcome(Forced(call, "io")))
    /\ task' = Reaped
    /\ UNCHANGED <<out, clock>>

(***************************************************************************)
(* A plain command                                                         *)
(***************************************************************************)
\* setup_command_signal_state: SIGINT, SIGQUIT, then the mask; what has been
\* done is undone when the next one fails.
SetupOrder == <<"sigint", "sigquit", "mask">>

setup_command_signal_state ==
    LET done == Cardinality(call.changed)
        part == SetupOrder[done + 1] IN
    /\ call.op = "command" /\ call.st = "setup"
    /\ \/ Undo("127", "127")
       \/ /\ Works
          /\ host' = CASE part = "sigint" -> [host EXCEPT !.sigint = "ignored"]
                         [] part = "sigquit" -> [host EXCEPT !.sigquit = "ignored"]
                         [] part = "mask" -> [host EXCEPT !.mask = "no SIGCHLD"]
          /\ call' = [call EXCEPT !.changed = @ \cup {part}, !.st = IF done = 2 THEN "start" ELSE "setup"]
    /\ UNCHANGED <<task, out, clock>>

StartCommand ==
    /\ call.op = "command" /\ call.st = "start"
    /\ \/ Undo("127", "127") /\ UNCHANGED task
       \/ Works /\ task' = Forked /\ call' = [call EXCEPT !.st = "wait"] /\ UNCHANGED host
    /\ UNCHANGED <<out, clock>>

WaitCommand ==
    /\ call.st = "wait" /\ task[Root].life = "zombie"
    /\ Works /\ task' = [task EXCEPT ![Root] = Gone(Root)]
    /\ call' = [call EXCEPT !.st = "restore", !.status = task[Root].status]
    /\ UNCHANGED <<out, clock, host>>

\* restore_parent_signal_state tries all three parts.
restore_parent_signal_state ==
    /\ call.op = "command" /\ call.st = "restore"
    /\ \/ Works /\ host' = PutBack(call.changed) /\ Return(call.status)
       \/ /\ Fault /\ \E kept \in call.changed : host' = PutBack(call.changed \ {kept})
          /\ Return("127")
    /\ UNCHANGED <<task, out, clock>>

Loop ==
    \/ Deadline \/ ReadOutput \/ ReadStatus \/ ReadSignals \/ ReapRoot \/ ReapDescendants
    \/ KillGroup \/ Finish

Calling ==
    \/ SetupFails \/ BlockSignals \/ BecomeSubreaper \/ Fork \/ ParentGroup \/ Loop \/ Restore
    \/ setup_command_signal_state \/ StartCommand \/ WaitCommand \/ restore_parent_signal_state

ProcessNext == call.st # "returned" /\ (Processes \/ Calling)

ProcessSpec == ProcessInit /\ [][ProcessNext]_processVars

(***************************************************************************)
(* Properties                                                              *)
(***************************************************************************)
\* When a bounded call returns, nothing of the group it started is left, not
\* even a zombie, however the child and its descendants fork, linger, ignore
\* SIGTERM or race with setpgid; and the caller has its signals and its
\* subreaper attribute back, unless the result says that putting them back
\* failed.  The same for a plain command and its child.
NothingLeftBehind ==
    call.st = "returned" =>
       /\ call.op = "bounded" => ~ GroupExists
       /\ task[Root].life \in {"none", "gone"}
       /\ call.result \notin {"io", "127", "exception"} => host = Untouched

\* What a bounded call reports is what happened.  Exited and signaled: the
\* status of the child and all that it and its descendants wrote.  Launch
\* failure: the program did not run.  Timed out only after the deadline,
\* capture limit only when more than the limit was written.
BoundedOutcomeTruthful ==
    call.st = "returned" /\ call.op = "bounded" =>
       /\ call.output <= OutputLimit /\ call.output <= out.written
       /\ call.result \in {"exited", "signaled"} =>
             /\ call.output = out.written /\ task[Root].status = call.result
             /\ call.result = "exited" => out.ran
       /\ call.result = "timed out" => clock.hard
       /\ call.result = "limit" => call.output = OutputLimit /\ out.written > OutputLimit
       /\ call.result = "launch" => ~ out.ran
=============================================================================
