--------------------------- MODULE UpgradeAllPlan ---------------------------
(***************************************************************************)
(* Which AUR packages an upgrade of everything updates, when some packages *)
(* are also registered as sources of their own (upgrade_all_plan.cpp).     *)
(*                                                                         *)
(* A plan input is a record of three sequences:                            *)
(*   sources: [key, base, names]      the registered sources,              *)
(*   targets: [name, base, status]    the installed AUR packages,          *)
(*   units:   [base, names, roots]    what the AUR build plan would build. *)
(* A key, base or name that is not Resolved is one of Unresolved; the code *)
(* keeps the three ways of being unresolved apart and so does the model.   *)
(***************************************************************************)
EXTENDS Naturals, Sequences, FiniteSets

Unresolved == {"absent", "failed", "empty"}
Resolved(x) == x \notin Unresolved
Given(names) == {n \in names : Resolved(n)}

TargetStatuses == {"Candidate", "Unsupported", "Incomplete"}

(***************************************************************************)
(* Sources with the same key are one identity; a source whose key is not   *)
(* resolved is an identity of its own.  An identity is the set of the      *)
(* indexes of its sources.                                                 *)
(***************************************************************************)
SameIdentity(in, i, j) ==
    i = j \/ (Resolved(in.sources[i].key) /\ in.sources[i].key = in.sources[j].key)

Identities(in) ==
    {{j \in DOMAIN in.sources : SameIdentity(in, i, j)} : i \in DOMAIN in.sources}

IdentityNames(in, id) == UNION {Given(in.sources[i].names) : i \in id}
IdentityBases(in, id) == {in.sources[i].base : i \in {j \in id : Resolved(in.sources[j].base)}}

DefinitionConflict(in, id) == \E i, j \in id : in.sources[i].base # in.sources[j].base
IdentityIncomplete(in, id) == \E i \in id : ~Resolved(in.sources[i].key)

\* The answer of a lookup: the identities found decide its status.
Match(in, ids) ==
    [status |-> IF ids = {} THEN "None"
                ELSE IF \/ Cardinality(ids) # 1
                        \/ \E id \in ids : \/ DefinitionConflict(in, id)
                                           \/ IdentityIncomplete(in, id)
                     THEN "Conflicting" ELSE "Unique",
     ids |-> ids]

ByName(in, names) ==
    Match(in, {id \in Identities(in) : IdentityNames(in, id) \cap Given(names) # {}})
ByBase(in, base) ==
    Match(in, {id \in Identities(in) : Resolved(base) /\ base \in IdentityBases(in, id)})

(***************************************************************************)
(* Issues.  An issue is <<kind, what it is about>>; any issue makes the    *)
(* whole plan unusable for execution.                                      *)
(***************************************************************************)
SourceIssues(in) ==
    {<<"ExplicitPackageNameMissing", "source", i>> : i \in
        {j \in DOMAIN in.sources : in.sources[j].names \cap Unresolved # {}}}
    \cup {<<"ExplicitPackageBase", "source", i>> : i \in
        {j \in DOMAIN in.sources : ~Resolved(in.sources[j].base)}}
    \cup {<<"ExplicitSourceIdentity", "source", i>> : i \in
        {j \in DOMAIN in.sources : ~Resolved(in.sources[j].key)}}

DefinitionIssues(in) ==
    {<<"ConflictingExplicitSourceIdentityDefinition", "identity", id>> : id \in
        {d \in Identities(in) : DefinitionConflict(in, d)}}

ClaimIssues(in) ==
    LET names == UNION {IdentityNames(in, id) : id \in Identities(in)}
        bases == UNION {IdentityBases(in, id) : id \in Identities(in)}
    IN {<<"ConflictingExplicitPackageName", "name", n>> : n \in
            {m \in names : ByName(in, {m}).status = "Conflicting"}}
       \cup {<<"ConflictingExplicitPackageBase", "base", b>> : b \in
            {c \in bases : ByBase(in, c).status = "Conflicting"}}

(***************************************************************************)
(* Targets                                                                 *)
(***************************************************************************)
TargetDisposition(in, t) ==
    LET target == in.targets[t]
        name == ByName(in, {target.name})
        base == ByBase(in, target.base)
    IN CASE name.status = "Conflicting" -> "ConflictingExplicitSourceIdentity"
         [] name.status = "Unique"      -> "ExcludedByExplicitPackageName"
         [] name.status = "None" /\ base.status = "Conflicting" ->
                "ConflictingExplicitSourceIdentity"
         [] name.status = "None" /\ base.status = "Unique" ->
                "ExcludedByExplicitPackageBase"
         [] OTHER ->
                IF target.status = "Unsupported" THEN "Unsupported"
                ELSE IF \/ target.status = "Incomplete"
                        \/ ~Resolved(target.name) \/ ~Resolved(target.base)
                     THEN "IdentityIncomplete"
                ELSE "Selected"

\* A target excluded by its name whose base is claimed by another identity
\* is excluded all the same, but the disagreement is an issue.
TargetIssues(in, t) ==
    LET target == in.targets[t]
        name == ByName(in, {target.name})
        base == ByBase(in, target.base)
    IN {<<kind, "target", t>> : kind \in
          {k \in {"AurTargetPackageNameMissing", "AurTargetPackageBase",
                  "UnsupportedAurTarget", "IncompleteAurTarget",
                  "ConflictingExplicitPackageBase"} :
             \/ k = "AurTargetPackageNameMissing" /\ ~Resolved(target.name)
             \/ k = "AurTargetPackageBase" /\ ~Resolved(target.base)
             \/ k = "UnsupportedAurTarget" /\ target.status = "Unsupported"
             \/ k = "IncompleteAurTarget" /\ target.status = "Incomplete"
             \/ /\ k = "ConflictingExplicitPackageBase"
                /\ name.status = "Unique"
                /\ base.status # "None" /\ base.ids # name.ids}}

SelectedTargets(in) ==
    {t \in DOMAIN in.targets : TargetDisposition(in, t) = "Selected"}

(***************************************************************************)
(* Build units.  roots are the indexes of the targets a unit is built for. *)
(***************************************************************************)
CorrelationIssue(in, u) ==
    LET roots == in.units[u].roots IN roots = {} \/ ~(roots \subseteq DOMAIN in.targets)

HasSelectedRoot(in, u) == in.units[u].roots \cap SelectedTargets(in) # {}

NamesAgree(name, base) ==
    name.status = "None" \/ (name.status = "Unique" /\ name.ids = base.ids)

UnitDisposition(in, u) ==
    LET unit == in.units[u]
        name == ByName(in, unit.names)
        base == ByBase(in, unit.base)
    IN CASE base.status = "Conflicting" -> "ConflictingExplicitSourceIdentity"
         [] base.status = "Unique" ->
                IF NamesAgree(name, base)
                THEN "ExternallySatisfiedByExplicitSourcePackageBase"
                ELSE "ConflictingExplicitSourceIdentity"
         [] base.status = "None" ->
                IF CorrelationIssue(in, u) THEN "IdentityIncomplete"
                ELSE IF HasSelectedRoot(in, u) /\ name.status # "None"
                     THEN "ConflictingExplicitSourceIdentity"
                ELSE IF ~Resolved(unit.base) THEN "IdentityIncomplete"
                ELSE IF ~HasSelectedRoot(in, u) THEN "NotRequiredBySelectedTarget"
                ELSE "SelectedForAurExecution"

UnitIssues(in, u) ==
    LET unit == in.units[u]
        name == ByName(in, unit.names)
        base == ByBase(in, unit.base)
        clash == /\ name.status # "None"
                 /\ \/ base.status = "Unique" /\ ~NamesAgree(name, base)
                    \/ /\ base.status = "None"
                       /\ ~CorrelationIssue(in, u) /\ HasSelectedRoot(in, u)
    IN {<<kind, "unit", u>> : kind \in
          {k \in {"BuildUnitRootAttribution", "BuildUnitPackageBase",
                  "ConflictingExplicitPackageName"} :
             \/ k = "BuildUnitRootAttribution" /\ CorrelationIssue(in, u)
             \/ k = "BuildUnitPackageBase" /\ ~Resolved(unit.base)
             \/ k = "ConflictingExplicitPackageName" /\ clash}}

\* What each unit is by itself.
UnitDispositions(in) == [u \in DOMAIN in.units |-> UnitDisposition(in, u)]

\* Two selected units of one base are both withdrawn, with an issue.
Duplicates(in, first) ==
    {u \in DOMAIN in.units :
        /\ first[u] = "SelectedForAurExecution"
        /\ \E v \in DOMAIN in.units \ {u} :
              first[v] = "SelectedForAurExecution" /\ in.units[v].base = in.units[u].base}

FinalUnitDispositions(in, first) ==
    [u \in DOMAIN in.units |->
        IF u \in Duplicates(in, first) THEN "ConflictingSelectedPackageBase" ELSE first[u]]

\* Selected units are numbered in the order of the build plan.
SelectedUnits(final) ==
    SelectSeq([u \in DOMAIN final |-> u], LAMBDA u : final[u] = "SelectedForAurExecution")

PlanWithUnits(in, final) ==
    [targets |-> [t \in DOMAIN in.targets |-> TargetDisposition(in, t)],
     units |-> final,
     selected |-> SelectedUnits(final),
     issues |-> SourceIssues(in) \cup DefinitionIssues(in) \cup ClaimIssues(in)
                \cup UNION {TargetIssues(in, t) : t \in DOMAIN in.targets}
                \cup UNION {UnitIssues(in, u) : u \in DOMAIN in.units}
                \cup {<<"DuplicateSelectedBuildUnitPackageBase", "base", in.units[u].base>> :
                        u \in {v \in DOMAIN final : final[v] = "ConflictingSelectedPackageBase"}}]

MakeUpgradeAllPlan(in) == PlanWithUnits(in, FinalUnitDispositions(in, UnitDispositions(in)))
=============================================================================
