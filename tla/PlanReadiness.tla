---------------------------- MODULE PlanReadiness ----------------------------
(***************************************************************************)
(* What a build plan is ready for (dependency_plan_model.cpp): the guard   *)
(* every command passes before it fetches, builds or installs.             *)
(*                                                                         *)
(* The plan is the one of BuildPlanTargets and AurUpdatePreflight, and     *)
(*   ambiguous, incomplete   names with several, or not all, providers;    *)
(*   userSelected            the providers the user chose;                 *)
(*   relations               kinds of the assessments of its conflicts and *)
(*                           replacements.                                 *)
(***************************************************************************)
EXTENDS BuildPlanTargets

Capabilities == {"Fetch", "Build", "Install"}
RelationKinds == {"ConfirmedNoMatch", "InstalledConflict", "PlannedConflict",
                  "PotentialReplacement", "DeclaredRelation", "Unknown", "Invalid"}

\* A reason holds against some capabilities; one that guards stops a command
\* that wants one of them; its effect is on the completeness of the plan.
Reason(what, state, guards, caps, effect) ==
    [what |-> what, state |-> state, guards |-> guards, caps |-> caps, effect |-> effect]

\* The same package from two sources, both chosen by the user.
SelectedProviderConflict(plan) ==
    \E p, q \in plan.userSelected : p.name = q.name /\ (p.base # q.base \/ p.origin # q.origin)

\* A candidate always comes with an evaluation of its version, and an
\* evaluation that is invalid or contradicts another makes the plan invalid.
ConstraintAuthorityIssue(plan) ==
    \E e \in plan.edges :
       \/ e.constraint \in {"Invalid", "Conflicting"}
       \/ /\ e.kind \in {"Repository", "Aur", "Provided", "ProvidedByRepository", "Installed"}
          /\ e.constraint = "none"

Split(plan) == {t \in plan.targets : t.name # t.base}

RelationReason(kind) ==
    LET against == {"Build", "Install"}
    IN CASE kind = "ConfirmedNoMatch" ->
                Reason("relation", "Ready", FALSE, against, "None")
         [] kind \in {"InstalledConflict", "PlannedConflict", "PotentialReplacement"} ->
                Reason("relation", "RequiresCheck", TRUE, against, "None")
         [] kind \in {"DeclaredRelation", "Unknown"} ->
                Reason("relation", "RequiresCheck", TRUE, against, "Unknown")
         [] kind = "Invalid" ->
                Reason("relation", "Blocked", TRUE, against, "Incomplete")

\* Failures and incomplete searches do not guard by themselves: the edge or
\* the unresolved name that comes with each of them does.
AssessPlanReasons(plan) ==
    UNION {
      {Reason("selected", "Blocked", TRUE, Capabilities, "Incomplete") :
         x \in {TRUE} \cap {SelectedProviderConflict(plan)}},
      {Reason("authority", "Blocked", TRUE, Capabilities, "Incomplete") :
         x \in {TRUE} \cap {ConstraintAuthorityIssue(plan)}},
      {Reason("constraint", "Unknown", TRUE, Capabilities, "Unknown") :
         e \in {f \in plan.edges : f.constraint = "Unknown"}},
      {Reason("constraint", "Blocked", TRUE, Capabilities, "Incomplete") :
         e \in {f \in plan.edges : f.constraint = "Unsatisfied"}},
      {Reason("failure", "Unknown", FALSE, Capabilities, "Unknown") : f \in plan.failures},
      {Reason("providers", "Unknown", FALSE, Capabilities, "Unknown") : n \in plan.incomplete},
      {Reason("unresolved", "Blocked", TRUE, Capabilities, "Incomplete") : n \in plan.unresolved},
      {Reason("ambiguous", "Blocked", TRUE, Capabilities, "Incomplete") : n \in plan.ambiguous},
      {Reason("cycle", "Blocked", TRUE, Capabilities, "Incomplete") : b \in plan.cycles},
      {RelationReason(k) : k \in plan.relations},
      {Reason("split", "Blocked", TRUE, {"Install"}, "None") : t \in Split(plan)}}

Against(plan, cap) == {r \in AssessPlanReasons(plan) : cap \in r.caps}

ExecutionReadiness(plan, cap) ==
    LET states == {r.state : r \in Against(plan, cap)}
    IN IF "Blocked" \in states THEN "Blocked"
       ELSE IF "Unknown" \in states THEN "Unknown"
       ELSE IF "RequiresCheck" \in states THEN "RequiresCheck"
       ELSE "Ready"

\* require_fetchable_, require_executable_ and require_executable_install_plan
RequireCapability(plan, cap) == \A r \in Against(plan, cap) : ~r.guards

Construction(plan) ==
    IF ConstraintAuthorityIssue(plan) \/ "Invalid" \in plan.relations
    THEN "Failed" ELSE "Constructed"

Completeness(plan) ==
    LET effects == {r.effect : r \in AssessPlanReasons(plan)}
    IN IF Construction(plan) = "Failed" \/ "Incomplete" \in effects THEN "Incomplete"
       ELSE IF "Unknown" \in effects THEN "Unknown"
       ELSE "Complete"

ProviderDecision(plan) ==
    IF plan.ambiguous # {} THEN "Ambiguous"
    ELSE IF plan.incomplete # {} THEN "Unavailable"
    ELSE IF plan.userSelected # {} THEN "Selected"
    ELSE "Unique"
=============================================================================
