---------------------------- MODULE ProcessProofs ---------------------------
(***************************************************************************)
(* What a call of the process supervision leaves behind and what it        *)
(* reports, for any number of descendants, writes and failing calls:       *)
(* NothingLeftBehind and BoundedOutcomeTruthful of ProcessSupervision.     *)
(*                                                                         *)
(* The call ends when the root is reaped and its group is gone.  Between   *)
(* that observation and the return processes go on, but nobody can enter   *)
(* the group any more: only the root enters it from outside.  What was     *)
(* written and not read is never lost without an outcome that says so.     *)
(***************************************************************************)
EXTENDS ProcessSupervision, FiniteSetTheorems, TLAPS

Ready == {"setup", "subreaper", "fork", "start"}
Looping == {"deadline", "output", "status", "signals", "root", "descendants", "kill", "finish"}
Running == Looping \cup {"group", "wait"}
Parts == {"sigint", "sigquit", "mask", "subreaper"}
Forcible == {"timed out", "limit", "io", "launch"}
Statuses == {"none", "exited", "signaled"}

Stages == Ready \cup Running \cup {"restore", "returned"}
Calls ==
  [op : {"bounded", "command"}, st : Stages,
   result : Statuses \cup Forcible \cup {"127", "exception"}, output : Nat,
   forced : {<<>>} \cup {<<o>> : o \in Forcible}, exception : BOOLEAN,
   cancelled : BOOLEAN, outOpen : BOOLEAN, statusOpen : BOOLEAN, execOk : BOOLEAN,
   reaped : BOOLEAN, status : Statuses, term : BOOLEAN, killed : BOOLEAN,
   changed : SUBSET Parts]
Lives == {"none", "setup", "failing", "live", "zombie", "gone"}
Task ==
  [life : Lives, ours : BOOLEAN, parent : Tasks \cup {"caller", "init"},
   out : BOOLEAN, status : Statuses]
Outputs == [written : Nat, unread : Nat, record : BOOLEAN, ran : BOOLEAN]
Clocks == [hard : BOOLEAN, grace : BOOLEAN]
Hosts ==
  [sigint : {"own", "ignored"}, sigquit : {"own", "ignored"},
   mask : {"own", "blocked", "no SIGCHLD"}, subreaper : BOOLEAN, pending : BOOLEAN]

Lefts == [kids : Nat, writes : Nat, faults : Nat]

ProcessTypes ==
  /\ call \in Calls /\ task \in [Tasks -> Task] /\ out \in Outputs
  /\ clock \in Clocks /\ host \in Hosts
  /\ left \in Lefts

(* Which stage belongs to which operation. *)
StageOK ==
  /\ call.st \in Looping \cup {"subreaper", "fork", "group"} => call.op = "bounded"
  /\ call.st \in {"start", "wait"} => call.op = "command"
  /\ call.op = "command" =>
       /\ call.st \in {"setup", "start", "wait", "restore"} /\ ~call.reaped
       /\ call.st = "setup" => call.changed \in {{}, {"sigint"}, {"sigint", "sigquit"}}
  /\ call.op = "bounded" /\ call.st = "setup" => host = Untouched

(* The child, and who can be there besides. *)
RootOK ==
  /\ task[Root].parent = "caller"
  /\ call.st \in Ready <=> task[Root].life = "none"
  /\ call.st = "restore" => task[Root].life = "gone"
  /\ call.st \in Running => (task[Root].life = "gone" <=> call.reaped)
  /\ call.op = "bounded" /\ call.st = "restore" => call.reaped
  /\ task[Root].life \in {"none", "setup"} => ~out.ran /\ ~out.record
  /\ task[Root].life = "failing" => out.record
  /\ task[Root].life = "live" => out.ran
  /\ ~(out.ran /\ out.record)
  /\ out.ran /\ call.op = "bounded" /\ task[Root].life # "gone" => task[Root].ours
  /\ task[Root].life \in {"zombie", "gone"} =>
       /\ task[Root].status \in {"exited", "signaled"}
       /\ task[Root].status = "exited" /\ call.op = "bounded" => out.ran \/ out.record
  /\ \A k \in Kids : task[k].life # "none" => out.ran /\ call.op = "bounded"

(* What the call knows. *)
KnownOK ==
  /\ call.execOk => ~out.record /\ task[Root].life \notin {"none", "setup", "failing"}
  /\ call.exception => call.forced # <<>>
  /\ call.reaped /\ call.forced = <<>> => call.status = task[Root].status
  /\ call.forced = <<"timed out">> => clock.hard
  /\ call.forced = <<"launch">> => out.record
  /\ call.op = "command" /\ call.st = "restore" => call.status # "none"
  /\ call.op = "bounded" /\ call.st = "restore" =>
       /\ ~GroupExists
       /\ call.forced # <<>> \/ (~call.outOpen /\ call.execOk)
  /\ call.st \in Ready \cup {"group"} => call.output = 0 /\ ~call.reaped

(* Nothing that was written is lost without being said so. *)
OutputOK ==
  /\ call.output <= OutputLimit
  /\ call.output + out.unread <= out.written
  /\ call.forced = <<>> =>
       /\ call.output + out.unread = out.written
       /\ call.outOpen \/ out.unread = 0
  /\ call.forced = <<"limit">> =>
       ~call.outOpen /\ call.output = OutputLimit /\ out.written > OutputLimit

(* What the caller has to put back is on its list. *)
HostOK ==
  /\ host.sigint # "own" => "sigint" \in call.changed
  /\ host.sigquit # "own" => "sigquit" \in call.changed
  /\ host.mask # "own" \/ host.pending => "mask" \in call.changed
  /\ host.subreaper => "subreaper" \in call.changed

Inside == StageOK /\ RootOK /\ KnownOK /\ OutputOK /\ HostOK

(* The inductive invariant. *)
ProcessInv ==
  /\ ProcessTypes
  /\ call.st # "returned" => Inside
  /\ call.st = "returned" => NothingLeftBehind /\ BoundedOutcomeTruthful

-----------------------------------------------------------------------------
(* What the steps are made of. *)

LEMMA FaultTypes ==
  ASSUME left \in Lefts, Fault \/ Works
  PROVE  left' \in Lefts
BY DEF Lefts, Fault, Works

LEMMA OneOutcome ==
  ASSUME NEW x, NEW y
  PROVE  <<x>> # <<>> /\ (<<x>> = <<y>> => x = y)
OBVIOUS

(* The fields the invariant speaks of, apart from the stage. *)
SameData(c, d) ==
  /\ d.op = c.op /\ d.output = c.output /\ d.forced = c.forced
  /\ d.exception = c.exception /\ d.outOpen = c.outOpen /\ d.execOk = c.execOk
  /\ d.reaped = c.reaped /\ d.status = c.status
Same(c, d) == SameData(c, d) /\ d.changed = c.changed

LEMMA Staged ==
  ASSUME NEW c \in Calls, NEW s \in Stages
  PROVE  LET d == [c EXCEPT !.st = s] IN d \in Calls /\ d.st = s /\ Same(c, d)
BY DEF Calls, Same, SameData

LEMMA Terminated ==
  ASSUME NEW c \in Calls
  PROVE  LET d == begin_termination(c) IN d \in Calls /\ d.st = c.st /\ Same(c, d)
BY DEF Calls, Same, SameData, begin_termination

(* An outcome is forced, and the output closed. *)
Stopped(c, d, outcome) ==
  /\ d.op = c.op /\ d.output = c.output /\ d.forced = <<outcome>>
  /\ d.exception = c.exception /\ ~d.outOpen /\ d.execOk = c.execOk
  /\ d.reaped = c.reaped /\ d.status = c.status /\ d.changed = c.changed

LEMMA StoppedCall ==
  ASSUME NEW c \in Calls, NEW o \in Forcible
  PROVE  LET d == CloseAndTerminate(Forced(c, o)) IN
         d \in Calls /\ d.st = c.st /\ Stopped(c, d, o)
BY DEF Calls, Stopped, CloseAndTerminate, begin_termination, Forced

(* An outcome is forced, and the output left as it is. *)
Failed(c, d) ==
  /\ d.op = c.op /\ d.output = c.output /\ d.forced = <<"io">>
  /\ d.exception = c.exception /\ d.outOpen = c.outOpen /\ d.execOk = c.execOk
  /\ d.reaped = c.reaped /\ d.status = c.status /\ d.changed = c.changed

LEMMA FailedCall ==
  ASSUME NEW c \in Calls
  PROVE  /\ LET d == Forced(c, "io") IN d \in Calls /\ d.st = c.st /\ Failed(c, d)
         /\ LET d == begin_termination(Forced(c, "io")) IN
            d \in Calls /\ d.st = c.st /\ Failed(c, d)
BY DEF Calls, Failed, begin_termination, Forced, Forcible

LEMMA PutBackTypes ==
  ASSUME host \in Hosts, NEW parts
  PROVE  PutBack(parts) \in Hosts
BY DEF Hosts, PutBack

LEMMA AllPutBack ==
  ASSUME host \in Hosts, HostOK
  PROVE  PutBack(call.changed) = Untouched
BY DEF Hosts, HostOK, PutBack, Untouched

(* A failure before there is anything to lose. *)
LEMMA UndoEffect ==
  ASSUME ProcessTypes, HostOK, NEW r, NEW w, Undo(r, w),
         {r, w} \subseteq Statuses \cup Forcible \cup {"127", "exception"}
  PROVE  /\ call' \in Calls /\ call'.st = "returned" /\ Same(call, call')
         /\ host' \in Hosts /\ left' \in Lefts
         /\ (call'.result = r /\ host' = Untouched) \/ call'.result = w
<1>1. host' \in Hosts
  BY PutBackTypes DEF Undo, ProcessTypes
<1>2. left' \in Lefts
  BY FaultTypes DEF Undo, ProcessTypes, Lefts
<1>3. \/ Return(r) /\ host' = Untouched
      \/ Return(w)
  BY AllPutBack DEF Undo, ProcessTypes
<1>4. ASSUME NEW x \in {r, w}, Return(x)
      PROVE  call' \in Calls /\ call'.st = "returned" /\ Same(call, call') /\ call'.result = x
  BY <1>4 DEF Return, ProcessTypes, Calls, Stages, Same, SameData
<1> QED BY <1>1, <1>2, <1>3, <1>4

(* What a death changes: who is dead stays a member, as a zombie, until it *)
(* is waited for, and the root is waited for by the caller only.           *)
LEMMA Deaths ==
  ASSUME task \in [Tasks -> Task], task[Root].parent = "caller",
         NEW dead \in SUBSET Tasks, \A p \in dead : Alive(p),
         NEW how \in {"exited", "signaled"}, NEW new, new = AfterDeath(dead, how)
  PROVE  /\ new \in [Tasks -> Task]
         /\ new[Root].parent = "caller" /\ new[Root].ours = task[Root].ours
         /\ Root \in dead => new[Root].life = "zombie" /\ new[Root].status = how
         /\ Root \notin dead =>
              new[Root].life = task[Root].life /\ new[Root].status = task[Root].status
         /\ \A p \in Tasks : /\ new[p].life = "none" <=> task[p].life = "none"
                             /\ new[p].ours /\ new[p].life \notin {"none", "gone"} => Member(p)
<1> DEFINE heir(q) == IF task[q].parent \in dead
                      THEN IF host.subreaper THEN "caller" ELSE "init" ELSE task[q].parent
           dies(q) == q \in dead \/ task[q].life = "zombie"
           kept(q) == [task[q] EXCEPT !.parent = heir(q), !.out = @ /\ ~dies(q),
                                      !.life = IF dies(q) THEN "zombie" ELSE @,
                                      !.status = IF q = Root /\ q \in dead THEN how ELSE @]
<1>1. ASSUME NEW q \in Tasks
      PROVE  new[q] = IF dies(q) /\ heir(q) = "init" THEN Gone(q) ELSE kept(q)
  BY DEF AfterDeath
<1>2. ASSUME NEW q \in Tasks
      PROVE  /\ Gone(q) \in Task /\ Gone(q).life = "gone"
             /\ kept(q) \in Task /\ kept(q).parent = heir(q) /\ kept(q).ours = task[q].ours
             /\ kept(q).life = IF dies(q) THEN "zombie" ELSE task[q].life
             /\ kept(q).status = IF q = Root /\ q \in dead THEN how ELSE task[q].status
  <2>1. heir(q) \in Tasks \cup {"caller", "init"}
    BY DEF Task
  <2>2. Gone(q) \in Task /\ Gone(q).life = "gone"
    BY DEF Gone, NoProcess, Task, Lives
  <2> HIDE DEF heir, dies
  <2>3. /\ kept(q).parent = heir(q) /\ kept(q).ours = task[q].ours
        /\ kept(q).life = IF dies(q) THEN "zombie" ELSE task[q].life
        /\ kept(q).status = IF q = Root /\ q \in dead THEN how ELSE task[q].status
    BY DEF Task
  <2>4. kept(q) \in Task
    BY <2>1 DEF Task, Lives, Statuses
  <2> QED BY <2>2, <2>3, <2>4
<1>3. heir(Root) = "caller"
  BY BoundsAssumption DEF Tasks
<1>4. new \in [Tasks -> Task]
  <2>1. \A q \in Tasks : new[q] \in Task
    BY <1>1, <1>2
  <2>2. new = [q \in Tasks |-> new[q]]
    BY DEF AfterDeath
  <2> QED BY <2>1, <2>2
<1>5. /\ new[Root].parent = "caller" /\ new[Root].ours = task[Root].ours
      /\ Root \in dead => new[Root].life = "zombie" /\ new[Root].status = how
      /\ Root \notin dead =>
           new[Root].life = task[Root].life /\ new[Root].status = task[Root].status
  <2>1. Root \in Tasks
    BY DEF Tasks
  <2>2. new[Root] = kept(Root)
    BY <1>1, <1>3, <2>1
  <2> HIDE DEF kept, heir
  <2> QED BY <1>2, <1>3, <2>1, <2>2
<1>6. ASSUME NEW p \in Tasks
      PROVE  /\ new[p].life = "none" <=> task[p].life = "none"
             /\ new[p].ours /\ new[p].life \notin {"none", "gone"} => Member(p)
  <2>1. dies(p) => task[p].life \notin {"none", "gone"}
    BY DEF Alive
  <2>2. (new[p] = Gone(p) /\ dies(p)) \/ new[p] = kept(p)
    BY <1>1
  <2> HIDE DEF kept, heir, dies
  <2> QED BY <1>2, <2>1, <2>2 DEF Member
<1> QED BY <1>4, <1>5, <1>6

-----------------------------------------------------------------------------
(* The processes. *)

(* The root is as it was, and nobody has entered the group. *)
LEMMA KidsFrame ==
  ASSUME Inside, UNCHANGED <<call, out, clock, host>>,
         /\ task'[Root].life = task[Root].life /\ task'[Root].ours = task[Root].ours
         /\ task'[Root].parent = task[Root].parent
         /\ task'[Root].status = task[Root].status,
         \A k \in Kids : task'[k].life # "none" => out.ran /\ call.op = "bounded",
         GroupExists' => GroupExists
  PROVE  Inside'
<1>1. StageOK' /\ OutputOK' /\ HostOK'
  BY DEF Inside, StageOK, OutputOK, HostOK
<1>2. RootOK'
  BY DEF Inside, RootOK
<1>3. KnownOK'
  BY DEF Inside, KnownOK
<1> QED BY <1>1, <1>2, <1>3 DEF Inside

(* The root goes on, and is not reaped. *)
LEMMA RootFrame ==
  ASSUME ProcessTypes, Inside, call.st # "returned", UNCHANGED <<call, clock, host>>, RootOK',
         task[Root].life \in {"setup", "failing", "live", "zombie"},
         out'.written = out.written, out'.unread = out.unread, out.record => out'.record,
         call.execOk => /\ out'.record = out.record
                        /\ task'[Root].life \notin {"none", "setup", "failing"}
  PROVE  Inside'
<1>1. StageOK' /\ OutputOK' /\ HostOK'
  BY DEF Inside, StageOK, OutputOK, HostOK
<1>2. call.st # "restore"
  BY DEF Inside, RootOK
<1>3. ~call.reaped
  BY <1>2 DEF ProcessTypes, Calls, Stages, Inside, RootOK
<1>4. KnownOK'
  BY <1>2, <1>3 DEF Inside, KnownOK
<1> QED BY <1>1, <1>4 DEF Inside

LEMMA EndStep ==
  ASSUME ProcessInv, call.st # "returned", NEW p \in Tasks, NEW how \in {"exited", "signaled"},
         End(p, how)
  PROVE  ProcessInv'
<1> USE DEF ProcessInv
<1>1. /\ task \in [Tasks -> Task] /\ task[Root].parent = "caller" /\ Alive(p)
      /\ task' = AfterDeath({p}, how) /\ UNCHANGED <<call, out, clock, host, left>>
  BY DEF ProcessTypes, Inside, RootOK, End, OnlyProcesses
<1>2. /\ task' \in [Tasks -> Task]
      /\ task'[Root].parent = "caller" /\ task'[Root].ours = task[Root].ours
      /\ Root = p => task'[Root].life = "zombie" /\ task'[Root].status = how
      /\ Root # p => task'[Root].life = task[Root].life /\ task'[Root].status = task[Root].status
      /\ \A q \in Tasks : /\ task'[q].life = "none" <=> task[q].life = "none"
                          /\ task'[q].ours /\ task'[q].life \notin {"none", "gone"} => Member(q)
  <2>1. {p} \in SUBSET Tasks /\ \A q \in {p} : Alive(q)
    BY <1>1
  <2>2. \A q : q \in {p} <=> q = p
    OBVIOUS
  <2> HIDE DEF ProcessInv
  <2> QED BY <1>1, <2>1, <2>2, Deaths
<1>3. ProcessTypes'
  BY <1>1, <1>2 DEF ProcessTypes
<1>4. \A k \in Kids : task'[k].life # "none" => out.ran /\ call.op = "bounded"
  BY <1>2 DEF Inside, RootOK, Tasks
<1>5. CASE p # Root
  <2>1. GroupExists' => GroupExists
    BY <1>2 DEF GroupExists, Member
  <2> QED BY <1>1, <1>2, <1>3, <1>4, <1>5, <2>1, KidsFrame
<1>6. CASE p = Root
  <2>1. /\ task[Root].life \in {"setup", "failing", "live"}
        /\ task[Root].life = "failing" => how = "exited"
        /\ task[Root].life = "setup" => how = "signaled"
    BY <1>6 DEF End, Alive
  <2>2. RootOK'
    BY <1>1, <1>2, <1>4, <1>6, <2>1 DEF Inside, RootOK
  <2> QED BY <1>1, <1>2, <1>3, <1>6, <2>1, <2>2, RootFrame
<1> QED BY <1>5, <1>6

(* A step that gives the root another life. *)
LEMMA RootSteps ==
  ASSUME ProcessInv, call.st # "returned",
         \/ ChildGroup \/ report_bounded_child_failure \/ ExecProgram
         \/ exec_explicit_process_child \/ CloseOutput
  PROVE  ProcessInv'
<1> USE DEF ProcessInv
<1>1. /\ UNCHANGED <<call, clock, host>> /\ out'.written = out.written /\ out'.unread = out.unread
      /\ out' \in Outputs /\ left' \in Lefts
  <2>1. /\ UNCHANGED <<call, clock, host>>
        /\ out' = out \/ out' = [out EXCEPT !.record = TRUE] \/ out' = [out EXCEPT !.ran = TRUE]
        /\ left' = left \/ (left.faults > 0 /\ left' = [left EXCEPT !.faults = @ - 1])
    BY DEF ChildGroup, report_bounded_child_failure, ExecProgram, exec_explicit_process_child,
       CloseOutput, OnlyProcesses
  <2>2. out' \in Outputs /\ out'.written = out.written /\ out'.unread = out.unread
    BY <2>1 DEF ProcessTypes, Outputs
  <2>3. left' \in Lefts
    BY <2>1 DEF ProcessTypes, Lefts
  <2> QED BY <2>1, <2>2, <2>3
<1>2. /\ task' \in [Tasks -> Task] /\ \A k \in Kids : task'[k] = task[k]
      /\ task'[Root].parent = task[Root].parent
  <2>1. \/ task' = [task EXCEPT ![Root].ours = TRUE]
        \/ task' = [task EXCEPT ![Root].out = FALSE]
        \/ task' = [task EXCEPT ![Root].life = "failing"]
        \/ task' = [task EXCEPT ![Root].life = "live"]
        \/ task' = [task EXCEPT ![Root] = [@ EXCEPT !.life = "zombie",
                                                !.status = "exited", !.out = FALSE]]
    BY DEF ChildGroup, report_bounded_child_failure, ExecProgram,
       exec_explicit_process_child, CloseOutput
  <2>2. task' \in [Tasks -> Task] /\ task'[Root].parent = task[Root].parent
    <3>1. CASE task' = [task EXCEPT ![Root].ours = TRUE]
      BY <3>1 DEF ProcessTypes, Task, Tasks, Lives, Statuses
    <3>2. CASE task' = [task EXCEPT ![Root].out = FALSE]
      BY <3>2 DEF ProcessTypes, Task, Tasks, Lives, Statuses
    <3>3. CASE task' = [task EXCEPT ![Root].life = "failing"]
      BY <3>3 DEF ProcessTypes, Task, Tasks, Lives, Statuses
    <3>4. CASE task' = [task EXCEPT ![Root].life = "live"]
      BY <3>4 DEF ProcessTypes, Task, Tasks, Lives, Statuses
    <3>5. CASE task' = [task EXCEPT ![Root] = [@ EXCEPT !.life = "zombie",
                                                !.status = "exited", !.out = FALSE]]
      BY <3>5 DEF ProcessTypes, Task, Tasks, Lives, Statuses
    <3> QED BY <2>1, <3>1, <3>2, <3>3, <3>4, <3>5
  <2> QED BY <2>1, <2>2, BoundsAssumption DEF ProcessTypes, Tasks
<1>3. ProcessTypes'
  BY <1>1, <1>2 DEF ProcessTypes
<1>4. task[Root] \in Task
  BY DEF ProcessTypes, Tasks
<1>5. CASE ChildGroup \/ CloseOutput
  <2>1. /\ task[Root].life \in {"setup", "live"} /\ task'[Root].life = task[Root].life
        /\ task'[Root].status = task[Root].status /\ UNCHANGED out
        /\ task[Root].ours => task'[Root].ours
    BY <1>4, <1>5 DEF ChildGroup, CloseOutput, ProcessTypes, Task, Tasks
  <2>2. RootOK'
    BY <1>1, <1>2, <2>1 DEF Inside, RootOK
  <2> QED BY <1>1, <1>3, <2>1, <2>2, RootFrame DEF Inside, KnownOK
<1>6. CASE report_bounded_child_failure
  <2>1. /\ task[Root].life = "setup" /\ task'[Root].life = "failing" /\ out'.record
        /\ task'[Root].status = task[Root].status /\ task'[Root].ours = task[Root].ours
        /\ out'.ran = out.ran
    BY <1>4, <1>6 DEF report_bounded_child_failure, ProcessTypes, Task, Tasks, Outputs
  <2>2. RootOK'
    BY <1>1, <1>2, <2>1 DEF Inside, RootOK
  <2> QED BY <1>1, <1>3, <2>1, <2>2, RootFrame DEF Inside, KnownOK
<1>7. CASE ExecProgram
  <2>1. /\ task[Root].life = "setup" /\ task'[Root].life = "live" /\ out'.record = out.record
        /\ task'[Root].status = task[Root].status /\ task'[Root].ours = task[Root].ours
        /\ out'.ran /\ (call.op = "bounded" => task[Root].ours)
    BY <1>4, <1>7 DEF ExecProgram, ProcessTypes, Task, Tasks, Outputs
  <2>2. RootOK'
    BY <1>1, <1>2, <2>1 DEF Inside, RootOK
  <2> QED BY <1>1, <1>3, <2>1, <2>2, RootFrame DEF Inside, KnownOK
<1>8. CASE exec_explicit_process_child
  <2>1. /\ task[Root].life = "setup" /\ task'[Root].life = "zombie" /\ UNCHANGED out
        /\ task'[Root].status = "exited" /\ task'[Root].ours = task[Root].ours
        /\ call.op = "command"
    BY <1>4, <1>8 DEF exec_explicit_process_child, ProcessTypes, Task, Tasks
  <2>2. RootOK'
    BY <1>1, <1>2, <2>1 DEF Inside, RootOK
  <2> QED BY <1>1, <1>3, <2>1, <2>2, RootFrame DEF Inside, KnownOK
<1> QED BY <1>5, <1>6, <1>7, <1>8

LEMMA KidSteps ==
  ASSUME ProcessInv, call.st # "returned",
         \/ \E p \in Tasks : call.op = "bounded" /\ StartKid(p)
         \/ \E k \in Kids : LeaveGroup(k)
         \/ \E p \in Tasks, k \in Kids : WaitsFor(p, k)
  PROVE  ProcessInv'
<1> USE DEF ProcessInv
<1>1. UNCHANGED <<call, out, clock, host>> /\ left' \in Lefts
  <2>1. /\ UNCHANGED <<call, out, clock, host>>
        /\ left' = left \/ (left.kids > 0 /\ left' = [left EXCEPT !.kids = @ - 1])
    BY DEF StartKid, LeaveGroup, WaitsFor, OnlyProcesses
  <2>2. left' \in Lefts
    BY <2>1 DEF ProcessTypes, Lefts
  <2> QED BY <2>1, <2>2
<1>2. PICK k \in Kids, r \in Task :
        /\ task' = [task EXCEPT ![k] = r]
        /\ r.life # "none" => out.ran /\ call.op = "bounded"
        /\ r.ours /\ r.life \notin {"none", "gone"} => GroupExists
  <2>1. CASE \E p \in Tasks : call.op = "bounded" /\ StartKid(p)
    <3>1. PICK p \in Tasks : call.op = "bounded" /\ StartKid(p)
      BY <2>1
    <3> DEFINE unused == {k \in Kids : task[k].life = "none"}
               k == CHOOSE x \in unused : TRUE
               r == [task[p] EXCEPT !.parent = p]
    <3>2. k \in Kids /\ task' = [task EXCEPT ![k] = r] /\ task[p].life = "live"
      BY <3>1 DEF StartKid
    <3>3. r \in Task /\ r.life = "live" /\ r.ours = task[p].ours
      BY <3>2 DEF ProcessTypes, Task
    <3>4. out.ran
      BY <3>2 DEF Inside, RootOK, Tasks
    <3>5. task[p].ours => GroupExists
      BY <3>2 DEF GroupExists, Member
    <3> HIDE DEF k, r
    <3> QED BY <3>1, <3>2, <3>3, <3>4, <3>5
  <2>2. CASE \E k \in Kids : LeaveGroup(k)
    <3>1. PICK k \in Kids : LeaveGroup(k)
      BY <2>2
    <3> DEFINE r == [task[k] EXCEPT !.ours = FALSE]
    <3>2. r \in Task /\ r.life = task[k].life /\ ~r.ours /\ task' = [task EXCEPT ![k] = r]
      BY <3>1 DEF LeaveGroup, ProcessTypes, Task, Tasks
    <3> HIDE DEF r
    <3> QED BY <3>2 DEF Inside, RootOK
  <2>3. CASE \E p \in Tasks, k \in Kids : WaitsFor(p, k)
    <3>1. PICK p \in Tasks, k \in Kids : WaitsFor(p, k)
      BY <2>3
    <3>2. Gone(k) \in Task /\ Gone(k).life = "gone" /\ task' = [task EXCEPT ![k] = Gone(k)]
      BY <3>1 DEF WaitsFor, Gone, NoProcess, ProcessTypes, Task, Tasks, Lives
    <3>3. task[k].life # "none"
      BY <3>1 DEF WaitsFor
    <3> QED BY <3>2, <3>3 DEF Inside, RootOK
  <2> QED BY <2>1, <2>2, <2>3
<1>3. /\ task' \in [Tasks -> Task] /\ task'[k] = r
      /\ \A q \in Tasks \ {k} : task'[q] = task[q]
  BY <1>2 DEF ProcessTypes, Tasks
<1>4. k # Root
  BY BoundsAssumption
<1>5. GroupExists' => GroupExists
  BY <1>2, <1>3 DEF GroupExists, Member
<1>6. \A x \in Kids : task'[x].life # "none" => out.ran /\ call.op = "bounded"
  BY <1>2, <1>3 DEF Inside, RootOK, Tasks
<1>7. task'[Root] = task[Root]
  BY <1>3, <1>4 DEF Tasks
<1>8. Inside'
  BY <1>1, <1>5, <1>6, <1>7, KidsFrame
<1> QED BY <1>1, <1>3, <1>8 DEF ProcessTypes

LEMMA WriteStep ==
  ASSUME ProcessInv, call.st # "returned", NEW p \in Tasks, Write(p)
  PROVE  ProcessInv'
<1> USE DEF ProcessInv
<1>1. /\ UNCHANGED <<call, task, clock, host>> /\ call.outOpen
      /\ out' = [out EXCEPT !.written = @ + 1, !.unread = @ + 1]
      /\ left.writes > 0 /\ left' = [left EXCEPT !.writes = @ - 1]
  BY DEF Write
<1>2. /\ out' \in Outputs /\ out'.written = out.written + 1 /\ out'.unread = out.unread + 1
      /\ out'.record = out.record /\ out'.ran = out.ran
  <2>1. out \in Outputs
    BY DEF ProcessTypes
  <2>2. out'.written = out.written + 1 /\ out'.unread = out.unread + 1
    BY <1>1, <2>1 DEF Outputs
  <2>3. out'.record = out.record /\ out'.ran = out.ran
    BY <1>1, <2>1 DEF Outputs
  <2>4. out' \in Outputs
    <3> DEFINE w == out.written + 1
               u == out.unread + 1
    <3>1. w \in Nat /\ u \in Nat
      BY <2>1 DEF Outputs
    <3>2. out' = [out EXCEPT !.written = w, !.unread = u]
      BY <1>1, <2>1 DEF Outputs
    <3> HIDE DEF w, u
    <3> QED BY <2>1, <3>1, <3>2 DEF Outputs
  <2> QED BY <2>2, <2>3, <2>4
<1>3. left' \in Lefts
  BY <1>1 DEF ProcessTypes, Lefts
<1>4. ProcessTypes'
  BY <1>1, <1>2, <1>3 DEF ProcessTypes
<1>5. /\ StageOK' /\ HostOK'
      /\ RootOK'
      /\ KnownOK'
  <2>1. StageOK' /\ HostOK'
    BY <1>1 DEF Inside, StageOK, HostOK
  <2>2. RootOK'
    BY <1>1, <1>2 DEF Inside, RootOK
  <2>3. KnownOK'
    BY <1>1, <1>2 DEF Inside, KnownOK, GroupExists, Member
  <2> QED BY <2>1, <2>2, <2>3
<1>6. OutputOK'
  <2>1. call.output \in Nat /\ out.unread \in Nat /\ out.written \in Nat
    BY DEF ProcessTypes, Calls, Outputs
  <2> QED BY <1>1, <1>2, <2>1, BoundsAssumption DEF Inside, OutputOK
<1> QED BY <1>1, <1>4, <1>5, <1>6 DEF Inside

LEMMA OutsideSteps ==
  ASSUME ProcessInv, call.st # "returned", HardDeadline \/ GraceOver \/ Interrupt
  PROVE  ProcessInv'
<1> USE DEF ProcessInv
<1>1. /\ UNCHANGED <<call, task, out, left>> /\ clock' \in Clocks /\ host' \in Hosts
      /\ clock.hard => clock'.hard
  BY DEF HardDeadline, GraceOver, Interrupt, ProcessTypes, Clocks, Hosts
<1>2. ProcessTypes'
  BY <1>1 DEF ProcessTypes
<1>3. RootOK' /\ OutputOK'
  BY <1>1 DEF Inside, RootOK, OutputOK
<1>4. KnownOK'
  BY <1>1 DEF Inside, KnownOK, GroupExists, Member
<1>5. CASE HardDeadline \/ GraceOver
  <2>1. UNCHANGED host
    BY <1>5 DEF HardDeadline, GraceOver
  <2>2. StageOK' /\ HostOK'
    BY <1>1, <2>1 DEF Inside, StageOK, HostOK
  <2> QED BY <1>1, <1>2, <1>3, <1>4, <2>2 DEF Inside
<1>6. CASE Interrupt
  <2>1. host.mask = "blocked" /\ host' = [host EXCEPT !.pending = TRUE]
    BY <1>6 DEF Interrupt
  <2>2. HostOK'
    BY <1>1, <2>1 DEF Inside, HostOK, ProcessTypes, Hosts
  <2>3. host # Untouched
    BY <2>1 DEF Untouched
  <2>4. StageOK'
    BY <1>1, <2>3 DEF Inside, StageOK
  <2> QED BY <1>1, <1>2, <1>3, <1>4, <2>2, <2>4 DEF Inside
<1> QED BY <1>5, <1>6

LEMMA ProcessesStep ==
  ASSUME ProcessInv, call.st # "returned", Processes
  PROVE  ProcessInv'
BY EndStep, RootSteps, KidSteps, WriteStep, OutsideSteps DEF Processes

-----------------------------------------------------------------------------
(* Before there is a child. *)

LEMMA NobodyThere ==
  ASSUME Inside, ~out.ran, ~task[Root].ours \/ task[Root].life = "none"
  PROVE  ~GroupExists
BY DEF Inside, RootOK, GroupExists, Member, Tasks

(* A call that ends before it has a child. *)
LEMMA EndsBefore ==
  ASSUME ProcessInv, call.st \in Ready, UNCHANGED <<task, out, clock>>,
         call' \in Calls, call'.st = "returned", Same(call, call'),
         host' \in Hosts, left' \in Lefts,
         (call'.result = "launch" /\ host' = Untouched) \/ call'.result \in {"io", "127"}
  PROVE  ProcessInv'
<1>1. call.st # "returned"
  BY DEF Ready
<1>2. task[Root].life = "none" /\ ~out.ran
  BY <1>1 DEF ProcessInv, Inside, RootOK
<1>3. ~GroupExists'
  BY <1>1, <1>2, NobodyThere DEF ProcessInv, GroupExists, Member
<1>4. NothingLeftBehind'
  BY <1>2, <1>3 DEF NothingLeftBehind
<1>5. call'.output = 0 /\ out.written \in Nat
  BY <1>1 DEF ProcessInv, Inside, KnownOK, Same, SameData, ProcessTypes, Outputs
<1>6. BoundedOutcomeTruthful'
  <2>1. call'.result \notin {"exited", "signaled", "timed out", "limit"}
    OBVIOUS
  <2>2. call'.output <= OutputLimit /\ call'.output <= out'.written
    BY <1>5, BoundsAssumption
  <2> QED BY <1>2, <2>1, <2>2 DEF BoundedOutcomeTruthful
<1> QED BY <1>4, <1>6 DEF ProcessInv, ProcessTypes

(* A stage before the child leads to another one. *)
LEMMA GoesOn ==
  ASSUME ProcessInv, call.st \in Ready, UNCHANGED <<task, out, clock>>,
         call' \in Calls, call'.st \in Ready, SameData(call, call'),
         host' \in Hosts, left' \in Lefts, StageOK', HostOK'
  PROVE  ProcessInv'
<1>1. call.st # "returned" /\ call'.st # "returned"
  BY DEF Ready
<1>2. call.st \notin Running \cup {"restore", "group"} /\ call'.st \notin Running \cup {"restore", "group"}
  BY DEF Ready, Running, Looping
<1>3. RootOK'
  BY <1>1, <1>2 DEF ProcessInv, Inside, RootOK, SameData
<1>4. KnownOK'
  BY <1>1, <1>2 DEF ProcessInv, Inside, KnownOK, SameData
<1>5. OutputOK'
  BY <1>1 DEF ProcessInv, Inside, OutputOK, SameData
<1> QED BY <1>1, <1>3, <1>4, <1>5 DEF ProcessInv, ProcessTypes, Inside

LEMMA SetupSteps ==
  ASSUME ProcessInv, call.st # "returned", SetupFails \/ BlockSignals \/ BecomeSubreaper
  PROVE  ProcessInv'
<1> USE DEF ProcessInv
<1>1. call.op = "bounded" /\ call.st \in Ready /\ UNCHANGED <<task, out, clock>>
  BY DEF SetupFails, BlockSignals, BecomeSubreaper, Ready
<1>2. CASE SetupFails
  <2>1. /\ call' = [call EXCEPT !.st = "returned", !.result = "launch"]
        /\ UNCHANGED host /\ Fault /\ host = Untouched
    BY <1>2 DEF SetupFails, Return, Inside, StageOK
  <2>2. /\ call' \in Calls /\ call'.st = "returned" /\ Same(call, call')
        /\ call'.result = "launch"
    BY <2>1 DEF ProcessTypes, Calls, Stages, Forcible, Same, SameData
  <2>3. host' \in Hosts /\ left' \in Lefts
    BY <2>1, FaultTypes DEF ProcessTypes
  <2> QED BY <1>1, <2>1, <2>2, <2>3, EndsBefore
<1>3. CASE BlockSignals
  <2>1. /\ call' = [call EXCEPT !.st = "subreaper", !.changed = {"mask"}]
        /\ host' = [host EXCEPT !.mask = "blocked"] /\ Works /\ host = Untouched
    BY <1>3 DEF BlockSignals, Inside, StageOK
  <2>2. /\ call' \in Calls /\ call'.st = "subreaper" /\ SameData(call, call')
        /\ call'.changed = {"mask"}
    BY <2>1 DEF ProcessTypes, Calls, Stages, Ready, Parts, SameData
  <2>3. host' \in Hosts /\ left' \in Lefts
    BY <2>1, FaultTypes DEF ProcessTypes, Hosts
  <2>4. HostOK'
    BY <2>1, <2>2 DEF HostOK, Untouched
  <2>5. StageOK'
    BY <1>1, <2>2 DEF StageOK, SameData
  <2> QED BY <1>1, <2>2, <2>3, <2>4, <2>5, GoesOn DEF Ready
<1>4. CASE BecomeSubreaper
  <2>1. CASE Undo("launch", "io")
    BY <1>1, <2>1, UndoEffect, EndsBefore DEF Inside, Forcible
  <2>2. CASE /\ Works /\ host' = [host EXCEPT !.subreaper = TRUE]
             /\ call' = [call EXCEPT !.st = "fork", !.changed = @ \cup {"subreaper"}]
    <3>1. /\ call' \in Calls /\ call'.st = "fork" /\ SameData(call, call')
          /\ call'.changed = call.changed \cup {"subreaper"}
      BY <2>2 DEF ProcessTypes, Calls, Stages, Ready, Parts, SameData
    <3>2. host' \in Hosts /\ left' \in Lefts
      BY <2>2, FaultTypes DEF ProcessTypes, Hosts
    <3>3. HostOK'
      BY <2>2, <3>1 DEF Inside, HostOK, ProcessTypes, Hosts
    <3>4. StageOK'
      BY <1>1, <3>1 DEF StageOK, SameData
    <3> QED BY <1>1, <3>1, <3>2, <3>3, <3>4, GoesOn DEF Ready
  <2> QED BY <1>4, <2>1, <2>2 DEF BecomeSubreaper
<1> QED BY <1>2, <1>3, <1>4

(* The child is started. *)
LEMMA ForkEffect ==
  ASSUME ProcessInv, call.st \in Ready, task' = Forked, UNCHANGED <<out, clock, host>>, Works,
         NEW s \in {"group", "wait"}, call' = [call EXCEPT !.st = s],
         (call.op = "bounded" /\ s = "group") \/ (call.op = "command" /\ s = "wait")
  PROVE  ProcessInv'
<1> USE DEF ProcessInv
<1>1. call.st # "returned" /\ s \in Stages /\ s \in Running /\ s \notin Ready \cup {"restore"}
  BY DEF Ready, Stages, Running
<1>2. /\ call' \in Calls /\ call'.st = s /\ Same(call, call')
  BY <1>1, Staged DEF ProcessTypes
<1>3. /\ task' \in [Tasks -> Task] /\ \A k \in Kids : task'[k] = task[k]
      /\ task'[Root].life = "setup" /\ task'[Root].parent = "caller"
  BY BoundsAssumption DEF Forked, NoProcess, ProcessTypes, Task, Tasks, Lives, Statuses
<1>4. left' \in Lefts
  BY FaultTypes DEF ProcessTypes
<1>5. ProcessTypes'
  BY <1>2, <1>3, <1>4 DEF ProcessTypes
<1>6. StageOK' /\ OutputOK' /\ HostOK'
  BY <1>1, <1>2 DEF Inside, StageOK, OutputOK, HostOK, Same, SameData, Looping
<1>7. ~call.reaped
  BY <1>1 DEF Inside, KnownOK
<1>8. RootOK'
  BY <1>1, <1>2, <1>3, <1>7 DEF Inside, RootOK, Same, SameData
<1>9. KnownOK'
  BY <1>1, <1>2, <1>3, <1>7 DEF Inside, KnownOK, RootOK, Same, SameData
<1> QED BY <1>1, <1>2, <1>5, <1>6, <1>8, <1>9 DEF Inside

LEMMA ForkSteps ==
  ASSUME ProcessInv, call.st # "returned", Fork \/ StartCommand
  PROVE  ProcessInv'
<1>1. CASE Fork
  <2>1. CASE Undo("launch", "io") /\ UNCHANGED task
    BY <1>1, <2>1, UndoEffect, EndsBefore DEF Fork, ProcessInv, Inside, Ready, Forcible
  <2> QED BY <1>1, <2>1, ForkEffect DEF Fork, Ready
<1>2. CASE StartCommand
  <2>1. CASE Undo("127", "127") /\ UNCHANGED task
    BY <1>2, <2>1, UndoEffect, EndsBefore DEF StartCommand, ProcessInv, Inside, Ready
  <2> QED BY <1>2, <2>1, ForkEffect DEF StartCommand, Ready
<1> QED BY <1>1, <1>2

LEMMA CommandSetupStep ==
  ASSUME ProcessInv, call.st # "returned", setup_command_signal_state
  PROVE  ProcessInv'
<1> USE DEF ProcessInv
<1> DEFINE part == SetupOrder[Cardinality(call.changed) + 1]
<1>1. /\ call.op = "command" /\ call.st = "setup" /\ UNCHANGED <<task, out, clock>>
      /\ call.changed \in {{}, {"sigint"}, {"sigint", "sigquit"}}
  BY DEF setup_command_signal_state, Inside, StageOK
<1>2. CASE Undo("127", "127")
  BY <1>1, <1>2, UndoEffect, EndsBefore DEF Inside, Ready
<1>3. CASE /\ Works
           /\ host' = CASE part = "sigint" -> [host EXCEPT !.sigint = "ignored"]
                         [] part = "sigquit" -> [host EXCEPT !.sigquit = "ignored"]
                         [] part = "mask" -> [host EXCEPT !.mask = "no SIGCHLD"]
           /\ call' = [call EXCEPT !.changed = @ \cup {part},
                                   !.st = IF Cardinality(call.changed) = 2 THEN "start" ELSE "setup"]
  <2>1. \/ call.changed = {} /\ Cardinality(call.changed) = 0 /\ part = "sigint"
        \/ call.changed = {"sigint"} /\ Cardinality(call.changed) = 1 /\ part = "sigquit"
        \/ call.changed = {"sigint", "sigquit"} /\ Cardinality(call.changed) = 2 /\ part = "mask"
    <3>1. Cardinality({}) = 0
      BY FS_EmptySet
    <3>2. IsFiniteSet({"sigint"}) /\ Cardinality({"sigint"}) = 1
      BY FS_Singleton
    <3>3. {"sigint", "sigquit"} = {"sigint"} \cup {"sigquit"} /\ "sigquit" \notin {"sigint"}
      OBVIOUS
    <3>4. Cardinality({"sigint", "sigquit"}) = 2
      BY <3>2, <3>3, FS_AddElement
    <3> DEFINE order == <<"sigint", "sigquit", "mask">>
    <3>5. order[0 + 1] = "sigint" /\ order[1 + 1] = "sigquit" /\ order[2 + 1] = "mask"
      OBVIOUS
    <3>6. part = order[Cardinality(call.changed) + 1]
      BY DEF SetupOrder
    <3> HIDE DEF order, part
    <3>7. CASE call.changed = {}
      BY <3>1, <3>5, <3>6, <3>7
    <3>8. CASE call.changed = {"sigint"}
      BY <3>2, <3>5, <3>6, <3>8
    <3>9. CASE call.changed = {"sigint", "sigquit"}
      BY <3>4, <3>5, <3>6, <3>9
    <3> QED BY <1>1, <3>7, <3>8, <3>9
  <2>2. /\ part = "sigint" => host' = [host EXCEPT !.sigint = "ignored"]
        /\ part = "sigquit" => host' = [host EXCEPT !.sigquit = "ignored"]
        /\ part = "mask" => host' = [host EXCEPT !.mask = "no SIGCHLD"]
    BY <1>3
  <2> HIDE DEF part
  <2> DEFINE s == IF Cardinality(call.changed) = 2 THEN "start" ELSE "setup"
  <2>3. /\ call' \in Calls /\ call'.st = s /\ SameData(call, call')
        /\ call'.changed = call.changed \cup {part}
    BY <1>3, <2>1 DEF ProcessTypes, Calls, Stages, Ready, Parts, SameData
  <2>4. host' \in Hosts /\ left' \in Lefts
    BY <1>3, <2>1, <2>2, FaultTypes DEF ProcessTypes, Hosts
  <2>5. HostOK'
    BY <2>1, <2>2, <2>3 DEF Inside, HostOK, ProcessTypes, Hosts
  <2>6. StageOK'
    <3>1. call'.op = "command" /\ ~call'.reaped
      BY <1>1, <2>3 DEF Inside, StageOK, SameData
    <3>2. \/ call'.st = "setup" /\ call'.changed \in {{}, {"sigint"}, {"sigint", "sigquit"}}
          \/ call'.st = "start"
      <4>1. CASE call.changed = {}
        BY <2>1, <2>3, <4>1
      <4>2. CASE call.changed = {"sigint"}
        BY <2>1, <2>3, <4>2
      <4>3. CASE call.changed = {"sigint", "sigquit"}
        BY <2>1, <2>3, <4>3
      <4> QED BY <1>1, <4>1, <4>2, <4>3
    <3> QED BY <3>1, <3>2 DEF StageOK, Looping
  <2> QED BY <1>1, <2>3, <2>4, <2>5, <2>6, GoesOn DEF Ready
<1> QED BY <1>2, <1>3 DEF setup_command_signal_state

-----------------------------------------------------------------------------
(* The loop. *)

(* The child has its group, or it did not get there and is reaped. *)
LEMMA GroupStep ==
  ASSUME ProcessInv, call.st # "returned", ParentGroup
  PROVE  ProcessInv'
<1> USE DEF ProcessInv
<1>1. call.st = "group" /\ call.op = "bounded" /\ UNCHANGED <<out, clock>>
  BY DEF ParentGroup, Inside, StageOK
<1>2. /\ call.output = 0 /\ ~call.reaped
      /\ task[Root].life \in {"setup", "failing", "live", "zombie"}
  BY <1>1 DEF Inside, KnownOK, RootOK, Ready, Running, ProcessTypes, Task, Tasks, Lives
<1>3. CASE /\ Works /\ task' = [task EXCEPT ![Root].ours = TRUE]
           /\ call' = [call EXCEPT !.st = "deadline"] /\ UNCHANGED host
  <2>1. call' \in Calls /\ call'.st = "deadline" /\ Same(call, call')
    BY <1>3, Staged DEF ProcessTypes, Stages, Running, Looping
  <2>2. /\ task' \in [Tasks -> Task] /\ \A k \in Kids : task'[k] = task[k]
        /\ task'[Root].ours /\ task'[Root].life = task[Root].life
        /\ task'[Root].parent = task[Root].parent /\ task'[Root].status = task[Root].status
    BY <1>3, BoundsAssumption DEF ProcessTypes, Task, Tasks
  <2>3. left' \in Lefts
    BY <1>3, FaultTypes DEF ProcessTypes
  <2>4. ProcessTypes'
    BY <1>1, <1>3, <2>1, <2>2, <2>3 DEF ProcessTypes
  <2>5. StageOK' /\ HostOK'
    BY <1>1, <1>3, <2>1 DEF Inside, StageOK, HostOK, Same, SameData
  <2>6. OutputOK'
    BY <1>1, <2>1 DEF Inside, OutputOK, Same, SameData
  <2>7. RootOK'
    BY <1>1, <1>2, <2>1, <2>2 DEF Inside, RootOK, Same, SameData, Ready
  <2>8. KnownOK'
    BY <1>1, <1>2, <2>1, <2>2 DEF Inside, KnownOK, Same, SameData, Ready
  <2> QED BY <2>1, <2>4, <2>5, <2>6, <2>7, <2>8 DEF Inside
<1>4. CASE /\ Undo("launch", "io") /\ ~task[Root].ours
           /\ task' = [task EXCEPT ![Root] = Gone(Root)]
  <2>1. /\ call' \in Calls /\ call'.st = "returned" /\ Same(call, call')
        /\ host' \in Hosts /\ left' \in Lefts
        /\ (call'.result = "launch" /\ host' = Untouched) \/ call'.result = "io"
    BY <1>1, <1>4, UndoEffect DEF Inside, Forcible
  <2>2. ~out.ran
    BY <1>1, <1>2, <1>4 DEF Inside, RootOK
  <2>3. ~GroupExists
    BY <1>1, <1>4, <2>2, NobodyThere
  <2>4. /\ task' \in [Tasks -> Task] /\ \A k \in Kids : task'[k] = task[k]
        /\ task'[Root].life = "gone"
    BY <1>4, BoundsAssumption DEF Gone, NoProcess, ProcessTypes, Task, Tasks, Lives
  <2>5. ~GroupExists'
    BY <2>3, <2>4 DEF GroupExists, Member, Tasks
  <2>6. NothingLeftBehind'
    BY <2>1, <2>4, <2>5 DEF NothingLeftBehind
  <2>7. call'.output = 0 /\ out.written \in Nat
    BY <1>2, <2>1 DEF Same, SameData, ProcessTypes, Outputs
  <2>8. call'.output <= OutputLimit /\ call'.output <= out'.written
    BY <1>1, <2>7, BoundsAssumption
  <2>9. BoundedOutcomeTruthful'
    BY <1>1, <2>1, <2>2, <2>8 DEF BoundedOutcomeTruthful
  <2> QED BY <1>1, <2>1, <2>4, <2>6, <2>9 DEF ProcessTypes
<1> QED BY <1>3, <1>4 DEF ParentGroup

(* A step of the loop that reaps nobody. *)
LEMMA LoopStep ==
  ASSUME ProcessInv, call.st \in Looping, UNCHANGED <<task, clock>>,
         out' \in Outputs, out'.ran = out.ran, out'.record = out.record,
         call' \in Calls, call'.st \in Looping, call'.op = call.op, call'.reaped = call.reaped,
         call'.exception => call'.forced # <<>>,
         call'.forced = <<>> => call.forced = <<>> /\ call'.status = call.status,
         call'.forced \in {<<"timed out">>, <<"launch">>} =>
           \/ call'.forced = call.forced
           \/ call'.forced = <<"timed out">> /\ clock.hard
           \/ call'.forced = <<"launch">> /\ out.record,
         call'.execOk => \/ call.execOk
                         \/ ~out.record /\ task[Root].life \notin {"none", "setup", "failing"},
         OutputOK', host' \in Hosts, HostOK', left' \in Lefts
  PROVE  ProcessInv'
<1> USE DEF ProcessInv
<1>1. /\ call.st \notin Ready \cup {"restore", "returned", "group", "wait", "start", "setup"}
      /\ call'.st \notin Ready \cup {"restore", "returned", "group", "wait", "start", "setup"}
      /\ call.st \in Running /\ call'.st \in Running
  BY DEF Looping, Ready, Running
<1>2. Inside /\ call.op = "bounded"
  BY <1>1 DEF Inside, StageOK
<1>3. ProcessTypes'
  BY DEF ProcessTypes
<1>4. StageOK'
  BY <1>1, <1>2 DEF StageOK
<1>5. RootOK'
  BY <1>1, <1>2 DEF Inside, RootOK
<1>6. KnownOK'
  <2>1. call'.execOk => ~out'.record /\ task'[Root].life \notin {"none", "setup", "failing"}
    BY <1>2 DEF Inside, KnownOK
  <2>2. call'.reaped /\ call'.forced = <<>> => call'.status = task'[Root].status
    BY <1>2 DEF Inside, KnownOK
  <2>3. /\ call'.forced = <<"timed out">> => clock'.hard
        /\ call'.forced = <<"launch">> => out'.record
    <3>1. <<"timed out">> # <<"launch">>
      BY OneOutcome
    <3> QED BY <1>2, <3>1 DEF Inside, KnownOK
  <2> QED BY <1>1, <2>1, <2>2, <2>3 DEF KnownOK
<1> QED BY <1>1, <1>3, <1>4, <1>5, <1>6 DEF Inside

(* ...of which nothing comes. *)
LEMMA QuietStep ==
  ASSUME ProcessInv, call.st \in Looping, UNCHANGED <<task, out, clock>>,
         call' \in Calls, call'.st \in Looping, Same(call, call'),
         host' \in Hosts, HostOK', left' \in Lefts
  PROVE  ProcessInv'
<1>1. Inside
  BY DEF ProcessInv, Looping
<1>2. OutputOK' /\ (call'.exception => call'.forced # <<>>)
  BY <1>1 DEF Inside, OutputOK, KnownOK, Same, SameData
<1>3. out' \in Outputs /\ out'.ran = out.ran /\ out'.record = out.record
  BY DEF ProcessInv, ProcessTypes
<1> QED BY <1>2, <1>3, LoopStep DEF Same, SameData

(* ...and that ends the call by an outcome of its own. *)
LEMMA StopStep ==
  ASSUME ProcessInv, call.st \in Looping, UNCHANGED <<task, out, clock>>,
         call' \in Calls, call'.st \in Looping,
         NEW o \in {"timed out", "launch", "io"},
         \/ Stopped(call, call', o)
         \/ o = "io" /\ Failed(call, call'),
         o = "timed out" => clock.hard, o = "launch" => out.record,
         host' \in Hosts, HostOK', left' \in Lefts
  PROVE  ProcessInv'
<1>1. Inside
  BY DEF ProcessInv, Looping
<1>2. /\ call'.op = call.op /\ call'.reaped = call.reaped /\ call'.execOk = call.execOk
      /\ call'.output = call.output
  BY DEF Stopped, Failed
<1>3. call'.forced = <<o>> /\ call'.forced # <<>> /\ call'.forced # <<"limit">>
      /\ (o = "io" => call'.forced \notin {<<"timed out">>, <<"launch">>})
      /\ (o = "launch" => call'.forced # <<"timed out">>)
      /\ (o = "timed out" => call'.forced # <<"launch">>)
  <2>1. call'.forced = <<o>>
    BY DEF Stopped, Failed
  <2> QED BY <2>1, OneOutcome
<1>4. OutputOK'
  BY <1>1, <1>2, <1>3 DEF Inside, OutputOK
<1>5. out' \in Outputs /\ out'.ran = out.ran /\ out'.record = out.record
  BY DEF ProcessInv, ProcessTypes
<1> QED BY <1>2, <1>3, <1>4, <1>5, LoopStep

(* The caller's state and its list do not change. *)
LEMMA HostFrame ==
  ASSUME ProcessInv, call.st # "returned", UNCHANGED host, call'.changed = call.changed
  PROVE  host' \in Hosts /\ HostOK'
BY DEF ProcessInv, ProcessTypes, Inside, HostOK

LEMMA DeadlineStep ==
  ASSUME ProcessInv, call.st # "returned", Deadline
  PROVE  ProcessInv'
<1> DEFINE c == [call EXCEPT !.st = "output"]
<1>1. /\ call.st \in Looping /\ UNCHANGED <<task, out, clock, host>> /\ Works
      /\ call' = IF clock.hard /\ call.forced = <<>>
                 THEN CloseAndTerminate(Forced(c, "timed out")) ELSE c
  BY DEF Deadline, Looping
<1>2. c \in Calls /\ c.st \in Looping /\ Same(call, c)
  BY Staged DEF ProcessInv, ProcessTypes, Stages, Running, Looping
<1>3. left' \in Lefts
  BY <1>1, FaultTypes DEF ProcessInv, ProcessTypes
<1> HIDE DEF c
<1>4. CASE call' = c
  BY <1>1, <1>2, <1>3, <1>4, QuietStep, HostFrame DEF Same
<1>5. CASE clock.hard /\ call' = CloseAndTerminate(Forced(c, "timed out"))
  <2>1. call' \in Calls /\ call'.st \in Looping /\ Stopped(c, call', "timed out")
    BY <1>2, <1>5, StoppedCall DEF Forcible
  <2>2. Stopped(call, call', "timed out") /\ call'.changed = call.changed
    BY <1>2, <2>1 DEF Stopped, Same, SameData
  <2> QED BY <1>1, <1>3, <1>5, <2>1, <2>2, StopStep, HostFrame
<1> QED BY <1>1, <1>4, <1>5

(* One read keeps what fits; more than that is the capture limit. *)
LEMMA ReadStep ==
  ASSUME ProcessInv, call.st = "output", call.outOpen, out.unread > 0,
         out' = [out EXCEPT !.unread = 0], UNCHANGED <<task, clock, host>>,
         NEW fits, fits = IF OutputLimit - call.output < out.unread
                          THEN OutputLimit - call.output ELSE out.unread,
         Works,
         LET c == [call EXCEPT !.output = @ + fits] IN
         call' = IF fits = out.unread THEN c
                 ELSE CloseAndTerminate(IF c.forced = <<>>
                                        THEN Forced([c EXCEPT !.st = "status"], "limit")
                                        ELSE [c EXCEPT !.st = "status"])
  PROVE  ProcessInv'
<1> DEFINE c == [call EXCEPT !.output = @ + fits]
           d == [c EXCEPT !.st = "status"]
<1>1. Inside /\ ProcessTypes /\ call.st \in Looping
  BY DEF ProcessInv, Looping
<1>2. /\ out' \in Outputs /\ out'.ran = out.ran /\ out'.record = out.record
      /\ out'.unread = 0 /\ out'.written = out.written
  BY <1>1 DEF ProcessTypes, Outputs
<1>3. /\ call.output \in Nat /\ out.unread \in Nat /\ out.written \in Nat
      /\ OutputLimit \in Nat /\ call.output <= OutputLimit
      /\ call.output + out.unread <= out.written
  BY <1>1, BoundsAssumption DEF ProcessTypes, Calls, Outputs, Inside, OutputOK
<1>4. /\ fits \in Nat /\ fits <= out.unread /\ call.output + fits <= OutputLimit
      /\ fits # out.unread => call.output + fits = OutputLimit /\ OutputLimit < out.written
  BY <1>3
<1>5. /\ c \in Calls /\ c.op = call.op /\ c.output = call.output + fits /\ c.forced = call.forced
      /\ c.exception = call.exception /\ c.outOpen = call.outOpen /\ c.execOk = call.execOk
      /\ c.reaped = call.reaped /\ c.status = call.status /\ c.changed = call.changed
      /\ c.st = call.st
  <2> DEFINE n == call.output + fits
  <2>1. n \in Nat /\ c = [call EXCEPT !.output = n]
    BY <1>1, <1>3, <1>4 DEF ProcessTypes, Calls
  <2> HIDE DEF c
  <2> QED BY <1>1, <2>1 DEF ProcessTypes, Calls
<1>6. left' \in Lefts
  BY <1>1, FaultTypes DEF ProcessTypes
<1>7. d \in Calls /\ d.st = "status" /\ Same(c, d)
  BY <1>5, Staged DEF Stages, Running, Looping
<1>8. fits # out.unread => call' = CloseAndTerminate(IF c.forced = <<>> THEN Forced(d, "limit") ELSE d)
  OBVIOUS
<1>9. fits = out.unread => call' = c
  OBVIOUS
<1> HIDE DEF c, d
<1>10. CASE fits = out.unread
  <2>1. call' = c
    BY <1>9, <1>10
  <2>2. OutputOK'
    <3>1. call'.output <= OutputLimit /\ call'.output + 0 <= out.written
      BY <1>3, <1>4, <1>5, <1>10, <2>1
    <3>2. call'.forced = <<>> => call'.output + 0 = out.written
      BY <1>1, <1>3, <1>5, <1>10, <2>1 DEF Inside, OutputOK
    <3>3. call'.forced # <<"limit">>
      BY <1>1, <1>5, <2>1 DEF Inside, OutputOK
    <3> QED BY <1>2, <3>1, <3>2, <3>3 DEF OutputOK
  <2>3. host' \in Hosts /\ HostOK'
    BY <1>1, <1>5, <2>1, HostFrame
  <2>4. call'.exception => call'.forced # <<>>
    BY <1>1, <1>5, <2>1 DEF Inside, KnownOK
  <2> QED BY <1>1, <1>2, <1>5, <1>6, <2>1, <2>2, <2>3, <2>4, LoopStep
<1>11. CASE fits # out.unread
  <2>1. /\ call' \in Calls /\ call'.st = "status" /\ call'.op = call.op
        /\ call'.output = c.output /\ call'.exception = call.exception /\ ~call'.outOpen
        /\ call'.execOk = call.execOk /\ call'.reaped = call.reaped
        /\ call'.status = call.status /\ call'.changed = call.changed
        /\ call'.forced = IF call.forced = <<>> THEN <<"limit">> ELSE call.forced
    <3>1. CASE call.forced = <<>>
      <4>1. call' = CloseAndTerminate(Forced(d, "limit"))
        BY <1>5, <1>8, <1>11, <3>1
      <4>2. call' \in Calls /\ call'.st = d.st /\ Stopped(d, call', "limit")
        BY <1>7, <4>1, StoppedCall DEF Forcible
      <4> QED BY <1>5, <1>7, <3>1, <4>2 DEF Stopped, Same, SameData
    <3>2. CASE call.forced # <<>>
      <4>1. call' = CloseAndTerminate(d)
        BY <1>5, <1>8, <1>11, <3>2
      <4>2. /\ call' \in Calls /\ call'.st = d.st /\ call'.op = d.op /\ call'.output = d.output
            /\ call'.forced = d.forced /\ call'.exception = d.exception /\ ~call'.outOpen
            /\ call'.execOk = d.execOk /\ call'.reaped = d.reaped
            /\ call'.status = d.status /\ call'.changed = d.changed
        BY <1>7, <4>1 DEF CloseAndTerminate, begin_termination, Calls
      <4> QED BY <1>5, <1>7, <3>2, <4>2 DEF Same, SameData
    <3> QED BY <3>1, <3>2
  <2>2. <<"limit">> \notin {<<>>, <<"timed out">>, <<"launch">>}
    BY OneOutcome
  <2>3. OutputOK'
    <3>1. call'.output = OutputLimit /\ OutputLimit < out.written
      BY <1>4, <1>5, <1>11, <2>1
    <3>2. call'.output <= OutputLimit /\ call'.output + 0 <= out.written /\ out.written > OutputLimit
      BY <1>3, <3>1
    <3>3. call'.forced # <<>>
      BY <2>1, <2>2
    <3> QED BY <1>2, <2>1, <3>1, <3>2, <3>3 DEF OutputOK
  <2>4. host' \in Hosts /\ HostOK'
    BY <1>1, <2>1, HostFrame
  <2>5. call'.forced # <<>> /\ (call'.forced = call.forced \/ call'.forced = <<"limit">>)
    BY <2>1, <2>2
  <2> QED BY <1>1, <1>2, <1>6, <2>1, <2>2, <2>3, <2>4, <2>5, LoopStep DEF Looping
<1> QED BY <1>10, <1>11

LEMMA OutputStep ==
  ASSUME ProcessInv, call.st # "returned", ReadOutput
  PROVE  ProcessInv'
<1> DEFINE fits == IF OutputLimit - call.output < out.unread
                   THEN OutputLimit - call.output ELSE out.unread
           next == [call EXCEPT !.st = "status"]
<1>1. call.st = "output" /\ UNCHANGED <<task, clock, host>>
  BY DEF ReadOutput
<1>2. Inside /\ ProcessTypes /\ call.st \in Looping
  BY <1>1 DEF ProcessInv, Looping
<1>3. next \in Calls /\ next.st = "status" /\ Same(call, next)
  BY <1>2, Staged DEF ProcessTypes, Stages, Running, Looping
<1>4. left' \in Lefts
  BY <1>2, FaultTypes DEF ReadOutput, ProcessTypes
<1>5. CASE call' = next /\ UNCHANGED out
  BY <1>1, <1>2, <1>3, <1>4, <1>5, QuietStep, HostFrame DEF Same, Looping
<1>6. CASE /\ call.outOpen /\ out.unread > 0 /\ Works /\ out' = [out EXCEPT !.unread = 0]
           /\ LET c == [call EXCEPT !.output = @ + fits] IN
              call' = IF fits = out.unread THEN c
                      ELSE CloseAndTerminate(IF c.forced = <<>>
                                             THEN Forced([c EXCEPT !.st = "status"], "limit")
                                             ELSE [c EXCEPT !.st = "status"])
  BY <1>1, <1>6, ReadStep
<1>7. CASE /\ call.outOpen /\ out.unread > 0 /\ Fault /\ out' = [out EXCEPT !.unread = 0]
           /\ call' = CloseAndTerminate(Forced([next EXCEPT !.exception = TRUE], "io"))
  <2> DEFINE e == [next EXCEPT !.exception = TRUE]
  <2>1. e \in Calls /\ e.st = "status" /\ e.op = call.op /\ e.output = call.output
        /\ e.execOk = call.execOk /\ e.reaped = call.reaped /\ e.status = call.status
        /\ e.changed = call.changed
    <3>1. e \in Calls /\ e.st = next.st /\ e.op = next.op /\ e.output = next.output
        /\ e.execOk = next.execOk /\ e.reaped = next.reaped /\ e.status = next.status
        /\ e.changed = next.changed
      <4> HIDE DEF next
      <4> QED BY <1>3 DEF Calls
    <3> HIDE DEF next
    <3> QED BY <1>3, <3>1 DEF Same, SameData
  <2>2. call' = CloseAndTerminate(Forced(e, "io"))
    BY <1>7
  <2> HIDE DEF e
  <2>3. call' \in Calls /\ call'.st = "status" /\ Stopped(e, call', "io")
    BY <2>1, <2>2, StoppedCall DEF Forcible
  <2>4. /\ call'.op = call.op /\ call'.output = call.output /\ call'.forced = <<"io">>
        /\ call'.execOk = call.execOk /\ call'.reaped = call.reaped /\ call'.changed = call.changed
    BY <2>1, <2>3 DEF Stopped
  <2>5. <<"io">> \notin {<<>>, <<"timed out">>, <<"launch">>, <<"limit">>}
    BY OneOutcome
  <2>6. /\ out' \in Outputs /\ out'.ran = out.ran /\ out'.record = out.record
        /\ out'.unread = 0 /\ out'.written = out.written
    BY <1>2, <1>7 DEF ProcessTypes, Outputs
  <2>7. call.output + 0 <= out.written /\ call.output <= OutputLimit
    BY <1>2 DEF Inside, OutputOK, ProcessTypes, Calls, Outputs
  <2>8. OutputOK'
    BY <2>4, <2>5, <2>6, <2>7 DEF OutputOK
  <2>9. host' \in Hosts /\ HostOK'
    BY <1>1, <2>4, HostFrame
  <2> QED BY <1>1, <1>2, <1>4, <2>3, <2>4, <2>5, <2>6, <2>8, <2>9, LoopStep DEF Looping
<1>8. CASE /\ call.outOpen /\ out.unread = 0 /\ Works /\ UNCHANGED out
           /\ call' = [next EXCEPT !.outOpen = Writers # {}]
  <2>1. /\ call' \in Calls /\ call'.st = next.st /\ call'.op = next.op
        /\ call'.output = next.output /\ call'.forced = next.forced
        /\ call'.exception = next.exception /\ call'.execOk = next.execOk
        /\ call'.reaped = next.reaped /\ call'.status = next.status /\ call'.changed = next.changed
    <3> DEFINE b == Writers # {}
    <3>1. b \in BOOLEAN /\ call' = [next EXCEPT !.outOpen = b]
      BY <1>8
    <3> HIDE DEF b, next
    <3> QED BY <1>3, <3>1 DEF Calls
  <2>2. /\ call'.st = "status"
        /\ call'.op = call.op /\ call'.output = call.output /\ call'.forced = call.forced
        /\ call'.exception = call.exception /\ call'.execOk = call.execOk
        /\ call'.reaped = call.reaped /\ call'.status = call.status
        /\ call'.changed = call.changed
    <3> HIDE DEF next
    <3> QED BY <1>3, <2>1 DEF Same, SameData, Calls
  <2>3. OutputOK'
    BY <1>2, <1>8, <2>2 DEF Inside, OutputOK
  <2>4. host' \in Hosts /\ HostOK'
    BY <1>1, <2>2, HostFrame
  <2>5. out' \in Outputs /\ out'.ran = out.ran /\ out'.record = out.record
    BY <1>2, <1>8 DEF ProcessTypes
  <2>6. call'.exception => call'.forced # <<>>
    BY <1>2, <2>2 DEF Inside, KnownOK
  <2> QED BY <1>1, <1>2, <1>4, <2>1, <2>2, <2>3, <2>4, <2>5, <2>6, LoopStep DEF Looping
<1>9. CASE /\ Fault /\ call' = CloseAndTerminate(Forced(next, "io")) /\ UNCHANGED out
  <2>1. call' \in Calls /\ call'.st = "status" /\ Stopped(next, call', "io")
    <3> HIDE DEF next
    <3> QED BY <1>3, <1>9, StoppedCall DEF Forcible
  <2>2. Stopped(call, call', "io") /\ call'.changed = call.changed
    <3> HIDE DEF next
    <3> QED BY <1>3, <2>1 DEF Stopped, Same, SameData
  <2> QED BY <1>1, <1>2, <1>4, <1>9, <2>1, <2>2, StopStep, HostFrame DEF Looping
<1> QED BY <1>5, <1>6, <1>7, <1>8, <1>9 DEF ReadOutput

LEMMA StatusStep ==
  ASSUME ProcessInv, call.st # "returned", ReadStatus
  PROVE  ProcessInv'
<1> DEFINE next == [call EXCEPT !.st = "signals"]
           closed == [next EXCEPT !.statusOpen = FALSE]
<1>1. call.st = "status" /\ UNCHANGED <<task, out, clock, host>>
  BY DEF ReadStatus
<1>2. Inside /\ ProcessTypes /\ call.st \in Looping
  BY <1>1 DEF ProcessInv, Looping
<1>3. next \in Calls /\ next.st = "signals" /\ Same(call, next)
  BY <1>2, Staged DEF ProcessTypes, Stages, Running, Looping
<1>4. left' \in Lefts
  BY <1>2, FaultTypes DEF ReadStatus, ProcessTypes
<1>5. closed \in Calls /\ closed.st = "signals" /\ Same(call, closed)
  <2>1. closed \in Calls /\ closed.st = next.st /\ Same(next, closed)
    <3> HIDE DEF next
    <3> QED BY <1>3 DEF Calls, Same, SameData
  <2> HIDE DEF next, closed
  <2> QED BY <1>3, <2>1 DEF Same, SameData
<1>6. \/ call' = next
      \/ out.record /\ call' = CloseAndTerminate(Forced(closed, "launch"))
      \/ /\ ~out.record /\ task[Root].life \notin {"setup", "failing"}
         /\ call' = [closed EXCEPT !.execOk = TRUE]
      \/ call' = CloseAndTerminate(Forced(closed, "io"))
  <2> HIDE DEF next, closed
  <2>1. call.statusOpen \in BOOLEAN /\ out.record \in BOOLEAN
    BY <1>2 DEF ProcessTypes, Calls, Outputs
  <2> QED BY <2>1 DEF ReadStatus, next, closed
<1> HIDE DEF next, closed
<1>7. CASE call' = next
  BY <1>1, <1>2, <1>3, <1>4, <1>7, QuietStep, HostFrame DEF Same, Looping
<1>8. ASSUME NEW o \in {"launch", "io"}, o = "launch" => out.record,
             call' = CloseAndTerminate(Forced(closed, o))
      PROVE  ProcessInv'
  <2>1. call' \in Calls /\ call'.st = "signals" /\ Stopped(closed, call', o)
    BY <1>5, <1>8, StoppedCall DEF Forcible
  <2>2. Stopped(call, call', o) /\ call'.changed = call.changed
    BY <1>5, <2>1 DEF Stopped, Same, SameData
  <2> QED BY <1>1, <1>2, <1>4, <1>8, <2>1, <2>2, StopStep, HostFrame DEF Looping
<1>9. CASE /\ ~out.record /\ task[Root].life \notin {"setup", "failing"}
           /\ call' = [closed EXCEPT !.execOk = TRUE]
  <2>1. /\ call' \in Calls /\ call'.st = closed.st /\ call'.op = closed.op
        /\ call'.output = closed.output /\ call'.forced = closed.forced
        /\ call'.exception = closed.exception /\ call'.outOpen = closed.outOpen
        /\ call'.reaped = closed.reaped /\ call'.status = closed.status
        /\ call'.changed = closed.changed
    BY <1>5, <1>9 DEF Calls
  <2>2. /\ call'.st = "signals" /\ call'.op = call.op
        /\ call'.output = call.output /\ call'.forced = call.forced
        /\ call'.exception = call.exception /\ call'.outOpen = call.outOpen
        /\ call'.reaped = call.reaped /\ call'.status = call.status
        /\ call'.changed = call.changed
    BY <1>5, <2>1 DEF Same, SameData
  <2>3. task[Root].life # "none"
    BY <1>1, <1>2 DEF Inside, RootOK, Ready
  <2>4. OutputOK'
    BY <1>1, <1>2, <2>2 DEF Inside, OutputOK
  <2>5. host' \in Hosts /\ HostOK'
    BY <1>1, <2>2, HostFrame
  <2>6. out' \in Outputs /\ out'.ran = out.ran /\ out'.record = out.record
    BY <1>1, <1>2 DEF ProcessTypes
  <2>7. call'.exception => call'.forced # <<>>
    BY <1>2, <2>2 DEF Inside, KnownOK
  <2> QED BY <1>1, <1>2, <1>4, <1>9, <2>1, <2>2, <2>3, <2>4, <2>5, <2>6, <2>7, LoopStep DEF Looping
<1> QED BY <1>6, <1>7, <1>8, <1>9

LEMMA SignalsStep ==
  ASSUME ProcessInv, call.st # "returned", ReadSignals
  PROVE  ProcessInv'
<1> DEFINE next == [call EXCEPT !.st = "root"]
           told == [next EXCEPT !.cancelled = TRUE]
<1>1. /\ call.st = "signals" /\ UNCHANGED <<task, out, clock>>
      /\ host' = [host EXCEPT !.pending = FALSE]
      /\ call' \in {next, begin_termination(told), begin_termination(Forced(next, "io"))}
  BY DEF ReadSignals
<1>2. Inside /\ ProcessTypes /\ call.st \in Looping
  BY <1>1 DEF ProcessInv, Looping
<1>3. next \in Calls /\ next.st = "root" /\ Same(call, next)
  BY <1>2, Staged DEF ProcessTypes, Stages, Running, Looping
<1>4. left' \in Lefts
  BY <1>2, FaultTypes DEF ReadSignals, ProcessTypes
<1> HIDE DEF next
<1>5. told \in Calls /\ told.st = "root" /\ Same(next, told)
  BY <1>3 DEF Calls, Same, SameData
<1> HIDE DEF told
<1>6. host' \in Hosts /\ (call'.changed = call.changed => HostOK')
  BY <1>1, <1>2 DEF ProcessTypes, Hosts, Inside, HostOK
<1>7. CASE call' = next
  BY <1>1, <1>2, <1>3, <1>4, <1>6, <1>7, QuietStep DEF Same, Looping
<1>8. CASE call' = begin_termination(told)
  <2>1. call' \in Calls /\ call'.st = "root" /\ Same(told, call')
    BY <1>5, <1>8, Terminated
  <2>2. Same(call, call')
    BY <1>3, <1>5, <2>1 DEF Same, SameData
  <2> QED BY <1>1, <1>2, <1>4, <1>6, <2>1, <2>2, QuietStep DEF Same, Looping
<1>9. CASE call' = begin_termination(Forced(next, "io"))
  <2>1. call' \in Calls /\ call'.st = "root" /\ Failed(next, call')
    BY <1>3, <1>9, FailedCall
  <2>2. Failed(call, call') /\ call'.changed = call.changed
    BY <1>3, <2>1 DEF Failed, Same, SameData
  <2> QED BY <1>1, <1>2, <1>4, <1>6, <2>1, <2>2, StopStep DEF Looping
<1> QED BY <1>1, <1>7, <1>8, <1>9

LEMMA FinishStep ==
  ASSUME ProcessInv, call.st # "returned", Finish
  PROVE  ProcessInv'
<1>1. call.st = "finish" /\ UNCHANGED <<task, out, clock, host>>
  BY DEF Finish
<1>2. Inside /\ ProcessTypes /\ call.st \in Looping /\ call.op = "bounded"
  BY <1>1 DEF ProcessInv, Looping, Inside, StageOK
<1>3. left' \in Lefts
  BY <1>2, FaultTypes DEF Finish, ProcessTypes
<1> DEFINE again == [call EXCEPT !.st = "deadline"]
           done == [call EXCEPT !.st = "restore"]
<1>4. again \in Calls /\ again.st = "deadline" /\ Same(call, again)
  BY <1>2, Staged DEF ProcessTypes, Stages, Running, Looping
<1>5. done \in Calls /\ done.st = "restore" /\ Same(call, done)
  BY <1>2, Staged DEF ProcessTypes, Stages
<1>6. \/ call' = again
      \/ call' = CloseAndTerminate(Forced(again, "io"))
      \/ Finished /\ call' = done
  BY DEF Finish
<1> HIDE DEF again, done
<1>7. CASE call' = again
  BY <1>1, <1>2, <1>3, <1>4, <1>7, QuietStep, HostFrame DEF Same, Looping
<1>8. CASE call' = CloseAndTerminate(Forced(again, "io"))
  <2>1. call' \in Calls /\ call'.st = "deadline" /\ Stopped(again, call', "io")
    BY <1>4, <1>8, StoppedCall DEF Forcible
  <2>2. Stopped(call, call', "io") /\ call'.changed = call.changed
    BY <1>4, <2>1 DEF Stopped, Same, SameData
  <2> QED BY <1>1, <1>2, <1>3, <2>1, <2>2, StopStep, HostFrame DEF Looping
<1>9. CASE Finished /\ call' = done
  <2>1. call.reaped /\ ~GroupExists /\ (call.forced # <<>> \/ (~call.outOpen /\ call.execOk))
    BY <1>9 DEF Finished
  <2>2. task[Root].life = "gone"
    BY <1>1, <1>2, <2>1 DEF Inside, RootOK, Running, Looping
  <2>3. ProcessTypes'
    BY <1>1, <1>2, <1>3, <1>5, <1>9 DEF ProcessTypes
  <2>4. StageOK' /\ HostOK' /\ OutputOK'
    BY <1>1, <1>2, <1>5, <1>9 DEF Inside, StageOK, HostOK, OutputOK, Same, SameData, Looping
  <2>5. RootOK'
    BY <1>1, <1>2, <1>5, <1>9, <2>1, <2>2 DEF Inside, RootOK, Same, SameData, Ready, Running, Looping
  <2>6. ~GroupExists'
    BY <1>1, <2>1 DEF GroupExists, Member
  <2>7. KnownOK'
    BY <1>1, <1>2, <1>5, <1>9, <2>1, <2>6 DEF Inside, KnownOK, Same, SameData, Ready
  <2> QED BY <1>5, <1>9, <2>3, <2>4, <2>5, <2>7 DEF ProcessInv, Inside
<1> QED BY <1>6, <1>7, <1>8, <1>9

-----------------------------------------------------------------------------
(* Reaping and killing. *)

(* Who is waited for is gone for good; nobody enters the group. *)
Thinned ==
  /\ task' \in [Tasks -> Task]
  /\ task'[Root].parent = "caller"
  /\ task'[Root].ours = task[Root].ours \/ task'[Root].life = "gone"
  /\ \A k \in Kids : task'[k].life = "none" <=> task[k].life = "none"

(* A step of the loop that changes the processes: the root stays as it is, *)
(* is killed, or is reaped.                                                *)
LEMMA ReapingStep ==
  ASSUME ProcessInv, call.st \in Looping, UNCHANGED <<out, clock, host>>, left' \in Lefts,
         call' \in Calls, call'.st \in Looping, call'.op = call.op, call'.output = call.output,
         call'.outOpen = call.outOpen, call'.execOk = call.execOk, call'.changed = call.changed,
         call'.forced = <<"io">> \/ (call'.forced = call.forced /\ call'.exception = call.exception),
         Thinned,
         \/ /\ task'[Root].life = task[Root].life /\ task'[Root].status = task[Root].status
            /\ call'.reaped = call.reaped
            /\ call'.forced = call.forced => call'.status = call.status
         \/ /\ task[Root].life \in {"setup", "failing", "live"} /\ task'[Root].life = "zombie"
            /\ task'[Root].status = "signaled" /\ call'.reaped = call.reaped
         \/ /\ task[Root].life = "zombie" /\ task'[Root].life = "gone"
            /\ task'[Root].status = task[Root].status /\ call'.reaped
            /\ call'.forced = <<"io">> \/ call'.status = task[Root].status
  PROVE  ProcessInv'
<1>1. /\ call.st \notin Ready \cup {"restore", "returned", "group", "wait", "start", "setup"}
      /\ call'.st \notin Ready \cup {"restore", "returned", "group", "wait", "start", "setup"}
      /\ call.st \in Running /\ call'.st \in Running
  BY DEF Looping, Ready, Running
<1>2. Inside /\ ProcessTypes /\ call.op = "bounded"
  BY <1>1 DEF ProcessInv, Inside, StageOK
<1>3. ProcessTypes'
  BY <1>2 DEF ProcessTypes, Thinned
<1>4. StageOK' /\ HostOK'
  BY <1>1, <1>2 DEF StageOK, Inside, HostOK
<1>5. <<"io">> \notin {<<>>, <<"timed out">>, <<"launch">>, <<"limit">>}
  BY OneOutcome
<1>6. OutputOK'
  BY <1>2, <1>5 DEF Inside, OutputOK
<1>7. call.reaped <=> task[Root].life = "gone"
  BY <1>1, <1>2 DEF Inside, RootOK
<1>8. RootOK'
  <2>1. \A k \in Kids : task'[k].life # "none" => out.ran /\ call.op = "bounded"
    BY <1>2 DEF Thinned, Inside, RootOK
  <2>2. CASE task'[Root].life = task[Root].life /\ task'[Root].status = task[Root].status
             /\ call'.reaped = call.reaped
    BY <1>1, <1>2, <2>1, <2>2 DEF Thinned, Inside, RootOK
  <2>3. CASE task[Root].life \in {"setup", "failing", "live"} /\ task'[Root].life = "zombie"
             /\ task'[Root].status = "signaled" /\ call'.reaped = call.reaped
    BY <1>1, <1>2, <1>7, <2>1, <2>3 DEF Thinned, Inside, RootOK
  <2>4. CASE task[Root].life = "zombie" /\ task'[Root].life = "gone"
             /\ task'[Root].status = task[Root].status /\ call'.reaped
    BY <1>1, <1>2, <1>7, <2>1, <2>4 DEF Thinned, Inside, RootOK
  <2> QED BY <2>2, <2>3, <2>4
<1>9. KnownOK'
  <2>1. call'.execOk => ~out'.record /\ task'[Root].life \notin {"none", "setup", "failing"}
    BY <1>2 DEF Inside, KnownOK
  <2>2. call'.reaped /\ call'.forced = <<>> => call'.status = task'[Root].status
    BY <1>2, <1>5, <1>7 DEF Inside, KnownOK
  <2>3. /\ call'.exception => call'.forced # <<>>
        /\ call'.forced = <<"timed out">> => clock'.hard
        /\ call'.forced = <<"launch">> => out'.record
    BY <1>2, <1>5 DEF Inside, KnownOK
  <2> QED BY <1>1, <2>1, <2>2, <2>3 DEF KnownOK
<1> QED BY <1>1, <1>3, <1>4, <1>6, <1>8, <1>9 DEF ProcessInv, Inside

(* waitpid for the group takes descendants only. *)
LEMMA ReapedEffect ==
  ASSUME task \in [Tasks -> Task]
  PROVE  /\ Reaped \in [Tasks -> Task] /\ Reaped[Root] = task[Root]
         /\ \A k \in Tasks : /\ Reaped[k].life = "none" <=> task[k].life = "none"
                             /\ Reaped[k] = task[k] \/ Reaped[k].life = "gone"
<1>1. Root \in Tasks /\ Root \notin Orphans
  BY BoundsAssumption DEF Tasks, Orphans
<1>2. ASSUME NEW k \in Tasks
      PROVE  /\ Reaped[k] \in Task /\ (Reaped[k].life = "none" <=> task[k].life = "none")
             /\ Reaped[k] = task[k] \/ Reaped[k].life = "gone"
  <2>1. Gone(k) \in Task /\ Gone(k).life = "gone"
    BY DEF Gone, NoProcess, Task, Lives
  <2>2. Reaped[k] = IF k \in Orphans THEN Gone(k) ELSE task[k]
    BY DEF Reaped
  <2>3. k \in Orphans => task[k].life = "zombie"
    BY DEF Orphans
  <2> QED BY <2>1, <2>2, <2>3
<1>3. Reaped[Root] = task[Root]
  BY <1>1 DEF Reaped
<1>4. Reaped \in [Tasks -> Task]
  <2>1. Reaped = [k \in Tasks |-> Reaped[k]]
    BY DEF Reaped
  <2> QED BY <1>2, <2>1
<1> QED BY <1>2, <1>3, <1>4

LEMMA ReapRootStep ==
  ASSUME ProcessInv, call.st # "returned", ReapRoot
  PROVE  ProcessInv'
<1> DEFINE next == [call EXCEPT !.st = "descendants"]
           got == [next EXCEPT !.reaped = TRUE, !.status = task[Root].status]
           lost == [next EXCEPT !.reaped = TRUE]
           gone == [task EXCEPT ![Root] = Gone(Root)]
<1>1. /\ call.st = "root" /\ UNCHANGED <<out, clock, host>>
      /\ \/ task[Root].life = "zombie" /\ task' = gone /\ call' = got
         \/ call' = next /\ UNCHANGED task
         \/ call' = begin_termination(Forced(next, "io")) /\ UNCHANGED task
         \/ /\ task[Root].life = "zombie" /\ task' = gone
            /\ call' = begin_termination(Forced(lost, "io"))
  BY DEF ReapRoot
<1>2. Inside /\ ProcessTypes /\ call.st \in Looping
  BY <1>1 DEF ProcessInv, Looping
<1>3. next \in Calls /\ next.st = "descendants" /\ Same(call, next)
  BY <1>2, Staged DEF ProcessTypes, Stages, Running, Looping
<1>4. left' \in Lefts
  BY <1>2, FaultTypes DEF ReapRoot, ProcessTypes
<1>5. task[Root].parent = "caller"
  BY <1>2 DEF Inside, RootOK
<1>6. ASSUME task' = gone
      PROVE  Thinned /\ task'[Root].life = "gone" /\ task'[Root].status = task[Root].status
  <2>1. /\ Gone(Root) \in Task /\ Gone(Root).life = "gone" /\ Gone(Root).parent = "caller"
        /\ Gone(Root).status = task[Root].status
    BY <1>2 DEF Gone, NoProcess, ProcessTypes, Task, Tasks, Lives
  <2>2. task' \in [Tasks -> Task] /\ task'[Root] = Gone(Root) /\ \A k \in Kids : task'[k] = task[k]
    BY <1>2, <1>6, <2>1, BoundsAssumption DEF ProcessTypes, Tasks
  <2> QED BY <2>1, <2>2 DEF Thinned
<1> HIDE DEF next, gone
<1>7. CASE task[Root].life = "zombie" /\ task' = gone /\ call' = got
  <2>1. /\ got \in Calls /\ got.st = next.st /\ got.op = next.op /\ got.output = next.output
        /\ got.outOpen = next.outOpen /\ got.execOk = next.execOk /\ got.changed = next.changed
        /\ got.forced = next.forced /\ got.exception = next.exception
        /\ got.reaped /\ got.status = task[Root].status
    BY <1>2, <1>3 DEF Calls, ProcessTypes, Task, Tasks
  <2> HIDE DEF got
  <2> QED BY <1>1, <1>2, <1>3, <1>4, <1>6, <1>7, <2>1, ReapingStep DEF Same, SameData, Looping
<1>8. CASE call' = next /\ UNCHANGED task
  BY <1>1, <1>2, <1>3, <1>4, <1>8, QuietStep, HostFrame DEF Same, Looping
<1>9. CASE call' = begin_termination(Forced(next, "io")) /\ UNCHANGED task
  <2>1. call' \in Calls /\ call'.st = "descendants" /\ Failed(next, call')
    BY <1>3, <1>9, FailedCall
  <2>2. Failed(call, call') /\ call'.changed = call.changed
    BY <1>3, <2>1 DEF Failed, Same, SameData
  <2> QED BY <1>1, <1>2, <1>4, <1>9, <2>1, <2>2, StopStep, HostFrame DEF Looping
<1>10. CASE /\ task[Root].life = "zombie" /\ task' = gone
            /\ call' = begin_termination(Forced(lost, "io"))
  <2>1. /\ lost \in Calls /\ lost.st = next.st /\ lost.op = next.op /\ lost.output = next.output
        /\ lost.outOpen = next.outOpen /\ lost.execOk = next.execOk /\ lost.changed = next.changed
        /\ lost.reaped
    BY <1>3 DEF Calls
  <2> HIDE DEF lost
  <2>2. call' \in Calls /\ call'.st = lost.st /\ Failed(lost, call')
    BY <1>10, <2>1, FailedCall
  <2>3. /\ call'.st = "descendants" /\ call'.op = call.op /\ call'.output = call.output
        /\ call'.outOpen = call.outOpen /\ call'.execOk = call.execOk
        /\ call'.changed = call.changed /\ call'.reaped /\ call'.forced = <<"io">>
    BY <1>3, <2>1, <2>2 DEF Failed, Same, SameData
  <2> QED BY <1>1, <1>2, <1>4, <1>6, <1>10, <2>2, <2>3, ReapingStep DEF Looping
<1> QED BY <1>1, <1>7, <1>8, <1>9, <1>10

LEMMA ReapDescendantsStep ==
  ASSUME ProcessInv, call.st # "returned", ReapDescendants
  PROVE  ProcessInv'
<1> DEFINE next == [call EXCEPT !.st = "kill"]
<1>1. /\ call.st = "descendants" /\ UNCHANGED <<out, clock, host>>
      /\ \/ call' = next /\ (UNCHANGED task \/ task' = Reaped)
         \/ call' = begin_termination(Forced(next, "io")) /\ UNCHANGED task
  BY DEF ReapDescendants
<1>2. Inside /\ ProcessTypes /\ call.st \in Looping
  BY <1>1 DEF ProcessInv, Looping
<1>3. next \in Calls /\ next.st = "kill" /\ Same(call, next)
  BY <1>2, Staged DEF ProcessTypes, Stages, Running, Looping
<1>4. left' \in Lefts
  BY <1>2, FaultTypes DEF ReapDescendants, ProcessTypes
<1> HIDE DEF next
<1>5. CASE call' = next /\ UNCHANGED task
  BY <1>1, <1>2, <1>3, <1>4, <1>5, QuietStep, HostFrame DEF Same, Looping
<1>6. CASE call' = begin_termination(Forced(next, "io")) /\ UNCHANGED task
  <2>1. call' \in Calls /\ call'.st = "kill" /\ Failed(next, call')
    BY <1>3, <1>6, FailedCall
  <2>2. Failed(call, call') /\ call'.changed = call.changed
    BY <1>3, <2>1 DEF Failed, Same, SameData
  <2> QED BY <1>1, <1>2, <1>4, <1>6, <2>1, <2>2, StopStep, HostFrame DEF Looping
<1>7. CASE call' = next /\ task' = Reaped
  <2>1. Thinned /\ task'[Root] = task[Root]
    BY <1>2, <1>7, ReapedEffect DEF ProcessTypes, Inside, RootOK, Thinned, Tasks
  <2> QED BY <1>1, <1>2, <1>3, <1>4, <1>7, <2>1, ReapingStep DEF Same, SameData, Looping
<1> QED BY <1>1, <1>5, <1>6, <1>7

LEMMA KillStep ==
  ASSUME ProcessInv, call.st # "returned", KillGroup
  PROVE  ProcessInv'
<1> DEFINE seen == [call EXCEPT !.st = "finish", !.term = @ \/ (call.reaped /\ GroupExists)]
           sent == [seen EXCEPT !.killed = TRUE]
           hit == {p \in Tasks : Member(p) /\ Alive(p)}
<1>1. /\ call.st = "kill" /\ UNCHANGED <<out, clock, host>>
      /\ \/ task' = AfterDeath(hit, "signaled") /\ call' = sent
         \/ UNCHANGED task /\ call' = Forced(sent, "io")
         \/ UNCHANGED task /\ call' = seen
  BY DEF KillGroup
<1>2. Inside /\ ProcessTypes /\ call.st \in Looping
  BY <1>1 DEF ProcessInv, Looping
<1>3. seen \in Calls /\ seen.st = "finish" /\ Same(call, seen)
  <2> DEFINE b == call.term \/ (call.reaped /\ GroupExists)
  <2>1. b \in BOOLEAN /\ seen = [call EXCEPT !.st = "finish", !.term = b]
    BY <1>2 DEF ProcessTypes, Calls
  <2> HIDE DEF b, seen
  <2> QED BY <1>2, <2>1 DEF ProcessTypes, Calls, Stages, Running, Looping, Same, SameData
<1>4. left' \in Lefts
  BY <1>2, FaultTypes DEF KillGroup, ProcessTypes
<1> HIDE DEF seen
<1>5. sent \in Calls /\ sent.st = "finish" /\ Same(call, sent)
  <2>1. sent \in Calls /\ sent.st = seen.st /\ Same(seen, sent)
    BY <1>3 DEF Calls, Same, SameData
  <2> HIDE DEF sent
  <2> QED BY <1>3, <2>1 DEF Same, SameData
<1> HIDE DEF sent, hit
<1>6. CASE UNCHANGED task /\ call' = seen
  BY <1>1, <1>2, <1>3, <1>4, <1>6, QuietStep, HostFrame DEF Same, Looping
<1>7. CASE UNCHANGED task /\ call' = Forced(sent, "io")
  <2>1. call' \in Calls /\ call'.st = "finish" /\ Failed(sent, call')
    BY <1>5, <1>7, FailedCall
  <2>2. Failed(call, call') /\ call'.changed = call.changed
    BY <1>5, <2>1 DEF Failed, Same, SameData
  <2> QED BY <1>1, <1>2, <1>4, <1>7, <2>1, <2>2, StopStep, HostFrame DEF Looping
<1>8. CASE task' = AfterDeath(hit, "signaled") /\ call' = sent
  <2>1. hit \in SUBSET Tasks /\ \A p \in hit : Alive(p)
    BY DEF hit
  <2>2. task \in [Tasks -> Task] /\ task[Root].parent = "caller"
    BY <1>2 DEF ProcessTypes, Inside, RootOK
  <2>3. /\ task' \in [Tasks -> Task]
        /\ task'[Root].parent = "caller" /\ task'[Root].ours = task[Root].ours
        /\ Root \in hit => task'[Root].life = "zombie" /\ task'[Root].status = "signaled"
        /\ Root \notin hit =>
             task'[Root].life = task[Root].life /\ task'[Root].status = task[Root].status
        /\ \A p \in Tasks : task'[p].life = "none" <=> task[p].life = "none"
    BY <1>8, <2>1, <2>2, Deaths
  <2>4. Thinned
    BY <2>3 DEF Thinned, Tasks
  <2>5. Root \in hit => task[Root].life \in {"setup", "failing", "live"}
    BY <2>1 DEF Alive
  <2> QED BY <1>1, <1>2, <1>4, <1>5, <1>8, <2>3, <2>4, <2>5, ReapingStep DEF Same, SameData, Looping
<1> QED BY <1>1, <1>6, <1>7, <1>8

-----------------------------------------------------------------------------
(* The return. *)

LEMMA OutcomeOf ==
  ASSUME NEW c \in Calls
  PROVE  \/ c.exception /\ Outcome(c) = "exception"
         \/ ~c.exception /\ \E o \in Forcible : c.forced = <<o>> /\ Outcome(c) = o
         \/ ~c.exception /\ c.forced = <<>> /\ Outcome(c) = c.status
<1>1. c.exception \in BOOLEAN /\ (c.forced = <<>> \/ \E o \in Forcible : c.forced = <<o>>)
  BY DEF Calls
<1>2. CASE c.exception
  BY <1>2 DEF Outcome
<1>3. CASE ~c.exception /\ c.forced = <<>>
  BY <1>3 DEF Outcome
<1>4. CASE ~c.exception /\ \E o \in Forcible : c.forced = <<o>>
  <2>1. PICK o \in Forcible : c.forced = <<o>>
    BY <1>4
  <2>2. c.forced # <<>> /\ c.forced[1] = o
    BY <2>1, OneOutcome
  <2>3. Outcome(c) = c.forced[1]
    BY <1>4, <2>2 DEF Outcome
  <2> QED BY <1>4, <2>1, <2>2, <2>3
<1> QED BY <1>1, <1>2, <1>3, <1>4

(* The result of a call is set. *)
LEMMA Returned ==
  ASSUME call \in Calls, NEW r \in Statuses \cup Forcible \cup {"127", "exception"}, Return(r)
  PROVE  call' \in Calls /\ call'.st = "returned" /\ call'.result = r /\ Same(call, call')
BY DEF Return, Calls, Stages, Same, SameData

LEMMA RestoreStep ==
  ASSUME ProcessInv, call.st # "returned", Restore
  PROVE  ProcessInv'
<1>1. /\ call.op = "bounded" /\ call.st = "restore" /\ UNCHANGED <<out, clock>> /\ task' = Reaped
      /\ \/ host' = PutBack(call.changed) /\ Return(Outcome(call))
         \/ /\ \E kept \in call.changed : host' = PutBack(call.changed \ {kept})
            /\ Return(Outcome(Forced(call, "io")))
  BY DEF Restore
<1>2. Inside /\ ProcessTypes
  BY <1>1 DEF ProcessInv
<1>3. left' \in Lefts
  BY <1>2, FaultTypes DEF Restore, ProcessTypes
<1>4. host' \in Hosts
  BY <1>1, <1>2, PutBackTypes DEF ProcessTypes
<1>5. /\ ~GroupExists /\ call.reaped /\ task[Root].life = "gone"
      /\ call.forced # <<>> \/ (~call.outOpen /\ call.execOk)
  BY <1>1, <1>2 DEF Inside, KnownOK, RootOK
<1>6. /\ task' \in [Tasks -> Task] /\ task'[Root] = task[Root]
      /\ \A k \in Tasks : task'[k] = task[k] \/ task'[k].life = "gone"
  BY <1>1, <1>2, ReapedEffect DEF ProcessTypes
<1>7. ~GroupExists'
  BY <1>5, <1>6 DEF GroupExists, Member
<1> DEFINE f == Forced(call, "io")
<1>8. f \in Calls /\ Failed(call, f)
  BY <1>2, FailedCall DEF ProcessTypes
<1>9. Outcome(f) \in {"io", "exception"}
  <2>1. \A o \in Forcible : f.forced = <<o>> => o = "io"
    BY <1>8, OneOutcome DEF Failed
  <2>2. f.forced # <<>>
    BY <1>8, OneOutcome DEF Failed
  <2> HIDE DEF f
  <2> QED BY <1>8, <2>1, <2>2, OutcomeOf
<1> HIDE DEF f
<1>10. \/ Return(Outcome(call)) /\ host' = Untouched
       \/ \E r \in {"io", "exception"} : Return(r)
  BY <1>1, <1>2, <1>9, AllPutBack DEF ProcessTypes, Inside, f
<1>11. call \in Calls /\ Outcome(call) \in Statuses \cup Forcible \cup {"127", "exception"}
  BY <1>2, OutcomeOf DEF ProcessTypes, Calls
<1>12. /\ call' \in Calls /\ call'.st = "returned" /\ Same(call, call')
       /\ (call'.result = Outcome(call) /\ host' = Untouched) \/ call'.result \in {"io", "exception"}
  <2>1. CASE Return(Outcome(call)) /\ host' = Untouched
    BY <1>11, <2>1, Returned
  <2>2. CASE \E r \in {"io", "exception"} : Return(r)
    BY <1>11, <2>2, Returned DEF Forcible
  <2> QED BY <1>10, <2>1, <2>2
<1>13. ProcessTypes'
  BY <1>1, <1>2, <1>3, <1>4, <1>6, <1>12 DEF ProcessTypes
<1>14. NothingLeftBehind'
  BY <1>5, <1>6, <1>7, <1>12 DEF NothingLeftBehind
<1>15. /\ call'.output = call.output /\ call.output \in Nat /\ out.unread \in Nat /\ out.written \in Nat
       /\ call'.op = call.op
  BY <1>2, <1>12 DEF Same, SameData, ProcessTypes, Calls, Outputs
<1>16. call.output <= OutputLimit /\ call.output <= out.written
  <2>1. call.output <= OutputLimit /\ call.output + out.unread <= out.written
    BY <1>2 DEF Inside, OutputOK
  <2> QED BY <1>15, <2>1
<1>17. ASSUME call'.result \in {"exited", "signaled"}
       PROVE  /\ call.output = out.written /\ task[Root].status = call'.result
              /\ call'.result = "exited" => out.ran
  <2>1. call.forced = <<>> /\ call'.result = call.status
    BY <1>11, <1>12, <1>17, OutcomeOf DEF Forcible
  <2>2. ~call.outOpen /\ call.execOk /\ ~out.record /\ call.status = task[Root].status
    BY <1>2, <1>5, <2>1 DEF Inside, KnownOK
  <2>3. call.output + out.unread = out.written /\ out.unread = 0
    BY <1>2, <2>1, <2>2 DEF Inside, OutputOK
  <2>4. task[Root].status = "exited" => out.ran
    BY <1>1, <1>2, <1>5, <2>2 DEF Inside, RootOK
  <2> QED BY <1>15, <2>1, <2>2, <2>3, <2>4
<1>18. ASSUME NEW o \in {"timed out", "limit", "launch"}, call'.result = o
       PROVE  call.forced = <<o>>
  <2>1. Outcome(call) = o
    BY <1>12, <1>18
  <2>2. call.status \in Statuses
    BY <1>11 DEF Calls
  <2>3. o \notin Statuses \cup {"exception"}
    BY DEF Statuses
  <2> QED BY <1>11, <2>1, <2>2, <2>3, OutcomeOf
<1>19. /\ call'.result = "timed out" => clock.hard
       /\ call'.result = "limit" => call.output = OutputLimit /\ out.written > OutputLimit
       /\ call'.result = "launch" => ~out.ran
  <2>1. /\ call.forced = <<"timed out">> => clock.hard
        /\ call.forced = <<"launch">> => ~out.ran
    BY <1>2 DEF Inside, KnownOK, RootOK
  <2>2. call.forced = <<"limit">> => call.output = OutputLimit /\ out.written > OutputLimit
    BY <1>2 DEF Inside, OutputOK
  <2> QED BY <1>18, <2>1, <2>2
<1>20. BoundedOutcomeTruthful'
  BY <1>1, <1>6, <1>15, <1>16, <1>17, <1>19 DEF BoundedOutcomeTruthful
<1> QED BY <1>12, <1>13, <1>14, <1>20 DEF ProcessInv

LEMMA CommandSteps ==
  ASSUME ProcessInv, call.st # "returned", WaitCommand \/ restore_parent_signal_state
  PROVE  ProcessInv'
<1>1. Inside /\ ProcessTypes
  BY DEF ProcessInv
<1>2. left' \in Lefts
  BY <1>1, FaultTypes DEF WaitCommand, restore_parent_signal_state, ProcessTypes
<1>3. CASE WaitCommand
  <2> DEFINE d == [call EXCEPT !.st = "restore", !.status = task[Root].status]
  <2>1. /\ call.st = "wait" /\ task[Root].life = "zombie" /\ UNCHANGED <<out, clock, host>>
        /\ task' = [task EXCEPT ![Root] = Gone(Root)] /\ call' = d
    BY <1>3 DEF WaitCommand
  <2>2. /\ call.op = "command" /\ ~call.reaped /\ ~(out.ran /\ out.record)
        /\ task[Root].status \in {"exited", "signaled"}
    BY <1>1, <2>1 DEF Inside, StageOK, RootOK
  <2>3. /\ call' \in Calls /\ call'.st = "restore" /\ call'.op = call.op
        /\ call'.status = task[Root].status /\ call'.output = call.output
        /\ call'.forced = call.forced /\ call'.exception = call.exception
        /\ call'.outOpen = call.outOpen /\ call'.execOk = call.execOk
        /\ call'.reaped = call.reaped /\ call'.changed = call.changed
    BY <1>1, <2>1, <2>2 DEF ProcessTypes, Calls, Stages, Statuses
  <2>4. /\ Gone(Root) \in Task /\ Gone(Root).life = "gone" /\ Gone(Root).parent = "caller"
        /\ Gone(Root).status = task[Root].status
    BY <1>1 DEF Gone, NoProcess, ProcessTypes, Task, Tasks, Lives
  <2>5. task' \in [Tasks -> Task] /\ task'[Root] = Gone(Root) /\ \A k \in Kids : task'[k] = task[k]
    BY <1>1, <2>1, <2>4, BoundsAssumption DEF ProcessTypes, Tasks
  <2> HIDE DEF d
  <2>6. ProcessTypes'
    BY <1>1, <1>2, <2>1, <2>3, <2>5 DEF ProcessTypes
  <2>7. StageOK' /\ HostOK'
    BY <1>1, <2>1, <2>2, <2>3 DEF Inside, StageOK, HostOK, Looping
  <2>8. OutputOK'
    BY <1>1, <2>1, <2>3 DEF Inside, OutputOK
  <2>9. RootOK'
    BY <1>1, <2>1, <2>2, <2>3, <2>4, <2>5 DEF Inside, RootOK, Ready, Running, Looping
  <2>10. KnownOK'
    BY <1>1, <2>1, <2>2, <2>3, <2>4, <2>5 DEF Inside, KnownOK, Ready
  <2> QED BY <2>3, <2>6, <2>7, <2>8, <2>9, <2>10 DEF ProcessInv, Inside
<1>4. CASE restore_parent_signal_state
  <2>1. /\ call.op = "command" /\ call.st = "restore" /\ UNCHANGED <<task, out, clock>>
        /\ \/ host' = PutBack(call.changed) /\ Return(call.status)
           \/ /\ \E kept \in call.changed : host' = PutBack(call.changed \ {kept})
              /\ Return("127")
    BY <1>4 DEF restore_parent_signal_state
  <2>2. host' \in Hosts
    BY <1>1, <2>1, PutBackTypes DEF ProcessTypes
  <2>3. call \in Calls /\ call.status \in Statuses
    BY <1>1 DEF ProcessTypes, Calls
  <2>4. \/ host' = Untouched /\ Return(call.status)
        \/ Return("127")
    BY <1>1, <2>1, AllPutBack DEF ProcessTypes, Inside
  <2>5. /\ call' \in Calls /\ call'.st = "returned" /\ Same(call, call')
        /\ host' = Untouched \/ call'.result = "127"
    BY <2>3, <2>4, Returned
  <2>6. task[Root].life = "gone" /\ call'.op = "command"
    BY <1>1, <2>1, <2>5 DEF Inside, RootOK, Same, SameData
  <2>7. NothingLeftBehind' /\ BoundedOutcomeTruthful'
    BY <2>1, <2>5, <2>6 DEF NothingLeftBehind, BoundedOutcomeTruthful
  <2>8. ProcessTypes'
    BY <1>1, <1>2, <2>1, <2>2, <2>5 DEF ProcessTypes
  <2> QED BY <2>5, <2>7, <2>8 DEF ProcessInv
<1> QED BY <1>3, <1>4

-----------------------------------------------------------------------------
(* The whole call. *)

LEMMA ProcessInvInit ==
  ASSUME ProcessInit
  PROVE  ProcessInv
<1>1. PICK op \in {"bounded", "command"} : call = NewCall(op)
  BY DEF ProcessInit
<1>2. call \in Calls
  BY <1>1 DEF NewCall, Calls, Stages, Ready, Statuses
<1>3. /\ call.op = op /\ call.st = "setup" /\ call.output = 0 /\ call.forced = <<>>
      /\ ~call.exception /\ call.outOpen /\ ~call.execOk /\ ~call.reaped /\ call.changed = {}
  BY <1>1 DEF NewCall
<1>4. /\ task \in [Tasks -> Task] /\ \A p \in Tasks : task[p] = NoProcess
  BY DEF ProcessInit, NoProcess, Task, Lives, Statuses
<1>5. /\ out \in Outputs /\ out.written = 0 /\ out.unread = 0 /\ ~out.record /\ ~out.ran
  BY DEF ProcessInit, Outputs
<1>6. clock \in Clocks /\ host \in Hosts /\ host = Untouched
  BY DEF ProcessInit, Clocks, Hosts, Untouched
<1>7. left \in Lefts
  BY BoundsAssumption DEF ProcessInit, Lefts
<1>8. StageOK
  BY <1>3, <1>6 DEF StageOK, Looping
<1>9. RootOK
  <2>1. task[Root] = NoProcess /\ \A k \in Kids : task[k] = NoProcess
    BY <1>4 DEF Tasks
  <2> QED BY <1>3, <1>5, <2>1 DEF RootOK, NoProcess, Ready, Running, Looping
<1>10. KnownOK
  BY <1>3, OneOutcome DEF KnownOK
<1>11. OutputOK
  BY <1>3, <1>5, OneOutcome, BoundsAssumption DEF OutputOK
<1>12. HostOK
  BY <1>6 DEF HostOK, Untouched
<1> QED BY <1>2, <1>3, <1>4, <1>5, <1>6, <1>7, <1>8, <1>9, <1>10, <1>11, <1>12
        DEF ProcessInv, ProcessTypes, Inside

LEMMA ProcessInvStep ==
  ASSUME ProcessInv, [ProcessNext]_processVars
  PROVE  ProcessInv'
<1>1. CASE ProcessNext /\ Processes
  BY <1>1, ProcessesStep DEF ProcessNext
<1>2. CASE ProcessNext /\ Loop
  BY <1>2, DeadlineStep, OutputStep, StatusStep, SignalsStep, ReapRootStep,
     ReapDescendantsStep, KillStep, FinishStep DEF ProcessNext, Loop
<1>3. CASE ProcessNext /\ Calling
  BY <1>2, <1>3, SetupSteps, ForkSteps, GroupStep, RestoreStep, CommandSetupStep, CommandSteps
     DEF ProcessNext, Calling
<1>4. CASE UNCHANGED processVars
  <2>1. UNCHANGED <<call, task, out, clock, host, left>>
    BY <1>4 DEF processVars
  <2>2. GroupExists' <=> GroupExists
    BY <2>1 DEF GroupExists, Member
  <2>3. ProcessTypes'
    BY <2>1 DEF ProcessInv, ProcessTypes
  <2>4. StageOK => StageOK'
    BY <2>1 DEF StageOK
  <2>5. RootOK => RootOK'
    BY <2>1 DEF RootOK
  <2>6. KnownOK => KnownOK'
    BY <2>1, <2>2 DEF KnownOK
  <2>7. (OutputOK => OutputOK') /\ (HostOK => HostOK')
    BY <2>1 DEF OutputOK, HostOK
  <2>8. /\ NothingLeftBehind => NothingLeftBehind'
        /\ BoundedOutcomeTruthful => BoundedOutcomeTruthful'
    BY <2>1, <2>2 DEF NothingLeftBehind, BoundedOutcomeTruthful
  <2> QED BY <2>1, <2>3, <2>4, <2>5, <2>6, <2>7, <2>8 DEF ProcessInv, Inside
<1> QED BY <1>1, <1>2, <1>3, <1>4 DEF ProcessNext

LEMMA ProcessInvariant == ProcessSpec => []ProcessInv
BY ProcessInvInit, ProcessInvStep, PTL DEF ProcessSpec

(* When a call returns, nothing of what it started is left and the caller  *)
(* has its signals back, or the result says that it has not: for any       *)
(* number of descendants and failing system calls.                         *)
THEOREM NothingIsLeft == ProcessSpec => []NothingLeftBehind
<1>1. ProcessInv => NothingLeftBehind
  BY DEF ProcessInv, NothingLeftBehind
<1> QED BY <1>1, ProcessInvariant, PTL

(* What a bounded call reports is what happened, whatever the limit, the   *)
(* amount of output and the order in which the loop observes the child.    *)
THEOREM BoundedOutcomeIsTrue == ProcessSpec => []BoundedOutcomeTruthful
<1>1. ProcessInv => BoundedOutcomeTruthful
  BY DEF ProcessInv, BoundedOutcomeTruthful
<1> QED BY <1>1, ProcessInvariant, PTL
=============================================================================
