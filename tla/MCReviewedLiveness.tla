------------------------ MODULE MCReviewedLiveness ------------------------
(***************************************************************************)
(* What has to come to an end: two invocations of the reviewed build; and, *)
(* apart from them, one call of the process supervision that moguet runs   *)
(* commands with.                                                          *)
(***************************************************************************)
EXTENDS ReviewedSourceBuild, ProcessSupervision

Scenario(kids, writes, faults) == [kids |-> kids, writes |-> writes, faults |-> faults]

\* Two descendants; output beyond the limit; one failing system call with a
\* descendant or with output; two failures.
SmallScenarios ==
  {Scenario(2, 0, 0), Scenario(1, 2, 0), Scenario(1, 0, 1), Scenario(0, 2, 1), Scenario(0, 0, 2)}

\* The invocations run on as FairSpec says.  The caller of a bounded process
\* is scheduled and time passes, but none of its processes has to do anything.
LiveSpec ==
  /\ Init
  /\ NoCall \/ (history = {} /\ place = None /\ ProcessInit)
  /\ [][\/ call.op = "none" /\ Next /\ UNCHANGED processVars
        \/ ProcessNext /\ UNCHANGED vars]_<<vars, processVars>>
  /\ \A i \in Invocations : WF_vars(call.op = "none" /\ Step(i) /\ UNCHANGED processVars)
  /\ WF_processVars(Calling /\ UNCHANGED vars)
  /\ WF_processVars(HardDeadline /\ UNCHANGED vars)
  /\ WF_processVars(GraceOver /\ UNCHANGED vars)

\* A member of the group that the call can neither end nor wait for: the
\* zombie of a process that has left the group, or one that SIGKILL may not
\* be sent to.
OutOfReach(p) ==
    /\ Member(p)
    /\ \/ task[p].life = "zombie" /\ task[p].parent \in Kids
          /\ Alive(task[p].parent) /\ ~ task[task[p].parent].ours
       \/ Alive(p) /\ call.killed

\* A bounded call returns, whatever its processes do, unless a member of the
\* group is out of its reach for good: also when a descendant keeps the
\* output open, when the root lives on without output, and when the caller
\* is interrupted.
BoundedCallReturns ==
    call.op = "bounded" => (<>(call.st = "returned") \/ <>[](\E p \in Tasks : OutOfReach(p)))
=============================================================================
