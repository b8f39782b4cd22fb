--------------------------- MODULE DependencyPlan ---------------------------
(***************************************************************************)
(* How a build plan is found (dependency_plan.cpp): a depth-first walk     *)
(* over the dependencies of the requested packages, each of which is       *)
(* looked up in the repositories, then in the AUR, then among what other   *)
(* packages provide, then among what is installed.  Every lookup is a      *)
(* query of its own: it may fail, and the AUR may change between two of    *)
(* them.  A first walk only collects what the user has to choose between;  *)
(* the answers are used by a second one.                                   *)
(*                                                                         *)
(* world.aur[n] is [here, base, ver, deps, provides]: what the AUR says of *)
(* n now; deps is a sequence of [name, roles, min].  world.repo, .repoProv *)
(* (pairs <<provided, provider>>) and .installed are the other sources.    *)
(* RECURSIVE operators are used; this module is model-checked only.        *)
(***************************************************************************)
EXTENDS AurUpdatePreflight, SequencesExt

CONSTANTS
    Names,      \* package names, provided names included
    MaxDepth,   \* MAX_RECURSIVE_DEP_DEPTH
    MaxShifts   \* bound: failed queries and changes of the AUR in one resolution

VARIABLES
    world,      \* the package sources
    shifts,     \* how often a query failed or the AUR changed
    mode,       \* "legacy" commands stop at failures, "capture" records them
    pass,       \* which walk this is, or how it ended
    root,       \* index of the root being walked
    call,       \* the package to collect next, if any
    stack,      \* the packages being visited
    visited,
    plan,
    requests,   \* what the user may have to choose between
    chosen      \* the providers the user chose, for each name

planVars == <<world, shifts, mode, pass, root, call, stack, visited, plan,
              requests, chosen>>

NoChoice == [n \in {} |-> {}]

EmptyPlan(roots) ==
    [roots |-> roots, targets |-> {}, order |-> <<>>, edges |-> <<>>,
     cycles |-> {}, failures |-> {}, unresolved |-> {}, ambiguous |-> {},
     incomplete |-> {}, userSelected |-> {}]

Top == stack[Len(stack)]
Running == pass \in {"discover", "reuse"}
Stop == pass' = "stopped" /\ UNCHANGED <<root, call, stack, visited, plan, requests, chosen>>
env == <<world, shifts, mode>>
QueryFails == shifts < MaxShifts /\ shifts' = shifts + 1 /\ UNCHANGED <<world, mode>>

(***************************************************************************)
(* Additions to the plan                                                   *)
(***************************************************************************)
\* A package keeps the base it was first planned with.
AddTarget(p, name, base, roles, r) ==
    IF \E t \in p.targets : t.name = name
    THEN [p EXCEPT !.targets =
            {IF t.name = name
             THEN [t EXCEPT !.roles = @ \cup roles, !.roots = @ \cup {r}]
             ELSE t : t \in @}]
    ELSE [p EXCEPT !.targets = @ \cup
            {[name |-> name, base |-> base, roles |-> roles, roots |-> {r}]}]

AddEntry(p, name, base) ==
    IF \E k \in DOMAIN p.order : p.order[k].base = base
    THEN [p EXCEPT !.order = [k \in DOMAIN @ |->
            IF @[k].base = base /\ name \notin NamesOf(@[k])
            THEN [@[k] EXCEPT !.names = Append(@, name)] ELSE @[k]]]
    ELSE [p EXCEPT !.order = Append(@, [base |-> base, names |-> <<name>>])]

\* One edge for each role in which the parent declares the dependency.
AddEdges(p, parent, dep, kind, name, base, constraint) ==
    [p EXCEPT !.edges = @ \o
        [k \in 1..Cardinality(dep.roles) |->
            [parent |-> parent.name, parentBase |-> parent.base,
             role |-> SetToSeq(dep.roles)[k], spec |-> dep.name, kind |-> kind,
             name |-> name, base |-> base, constraint |-> constraint]]]

AddFailure(p, parent, parentBase, subject, r) ==
    LET same(f) == f.parent = parent /\ f.parentBase = parentBase /\ f.subject = subject
    IN IF \E f \in p.failures : same(f)
       THEN [p EXCEPT !.failures =
               {IF same(f) THEN [f EXCEPT !.roots = @ \cup {r}] ELSE f : f \in @}]
       ELSE [p EXCEPT !.failures = @ \cup
               {[parent |-> parent, parentBase |-> parentBase, subject |-> subject,
                 roots |-> {r}]}]

AddUnresolved(p, name) == [p EXCEPT !.unresolved = @ \cup {name}]
AddAmbiguous(p, name) == [p EXCEPT !.ambiguous = @ \cup {name}]
AddIncomplete(p, name) == [p EXCEPT !.incomplete = @ \cup {name}]

Evaluate(dep, ver) == IF ver >= dep.min THEN "Satisfied" ELSE "Unsatisfied"

(***************************************************************************)
(* Providers.  Those of the repositories win; the AUR is searched only     *)
(* when there are none.                                                    *)
(***************************************************************************)
AurProvider(n) == [name |-> n, base |-> world.aur[n].base, ver |-> world.aur[n].ver,
                   origin |-> "aur"]

AurProviders(name) ==
    {AurProvider(n) : n \in {m \in Names : world.aur[m].here /\ name \in world.aur[m].provides}}

Providers(name) ==
    LET repo == {[name |-> q[2], base |-> q[2], ver |-> 1, origin |-> "repository"] :
                    q \in {r \in world.repoProv : r[1] = name}}
    IN IF repo # {} THEN repo
       ELSE AurProviders(name)

\* An AUR package still is the provider that was chosen.
SameContract(provider, wanted) ==
    LET now == world.aur[provider.name]
    IN now.here /\ wanted \in now.provides /\ AurProvider(provider.name) = provider

(***************************************************************************)
(* Collecting a package                                                    *)
(***************************************************************************)
\* preloaded: the answer about the package, when its name was looked up to
\* resolve a dependency.  Only a root is queried when it is collected.
CollectRequest(name, roles, preloaded) ==
    <<[name |-> name, roles |-> roles, preloaded |-> preloaded]>>

Info(c) == IF c.preloaded # <<>> THEN c.preloaded[1] ELSE world.aur[c.name]

\* A command first makes sure that every root exists.
RootMissing ==
    mode = "legacy" /\ root = 0 /\ \E k \in DOMAIN plan.roots : ~world.aur[plan.roots[k]].here

StopAtMissingRoot ==
    /\ Running /\ call = <<>> /\ stack = <<>> /\ RootMissing
    /\ Stop /\ UNCHANGED env

StartRoot ==
    /\ Running /\ call = <<>> /\ stack = <<>> /\ root < Len(plan.roots) /\ ~RootMissing
    /\ root' = root + 1
    /\ call' = CollectRequest(plan.roots[root + 1], {"Root"}, <<>>)
    /\ UNCHANGED <<env, pass, stack, visited, plan, requests, chosen>>

Collected(p) ==
    /\ plan' = p
    /\ call' = <<>>
    /\ UNCHANGED <<pass, root, stack, visited, requests, chosen>>

\* Too deep; or a root that is gone, or whose metadata could not be read.
CollectFails ==
    /\ Running /\ call # <<>>
    /\ LET c == call[1]
       IN \/ /\ Len(stack) > MaxDepth
             /\ Collected(AddUnresolved(plan, None)) /\ UNCHANGED env
          \/ /\ c.preloaded = <<>> /\ ~world.aur[c.name].here
             /\ Collected(AddUnresolved(plan, c.name)) /\ UNCHANGED env
          \/ /\ c.preloaded = <<>> /\ QueryFails
             /\ IF mode = "legacy" THEN Stop
                ELSE Collected(AddUnresolved(AddFailure(plan, None, None, c.name, root), c.name))

Planned(c) ==
    AddEntry(AddTarget(plan, c.name, Info(c).base, c.roles, root), c.name, Info(c).base)

\* Every visit adds roles and roots; dependencies are followed once.  A
\* chosen provider is compared here once more, with the answer that its
\* refresh has just accepted: that comparison cannot fail.
CollectPackage ==
    /\ Running /\ call # <<>> /\ Len(stack) <= MaxDepth
    /\ LET c == call[1]
           info == Info(c)
       IN /\ info.here
          /\ IF c.name \in visited THEN Collected(Planned(c))
             ELSE IF \E k \in DOMAIN stack : stack[k].name = c.name
             THEN Collected([Planned(c) EXCEPT !.cycles = @ \cup {info.base}])
             ELSE /\ plan' = Planned(c)
                  /\ call' = <<>>
                  /\ stack' = Append(stack, [name |-> c.name, base |-> info.base,
                        todo |-> [k \in DOMAIN info.deps |->
                                    [dep |-> info.deps[k], via |-> <<>>]]])
                  /\ UNCHANGED <<pass, root, visited, requests, chosen>>
    /\ UNCHANGED env

FinishPackage ==
    /\ Running /\ call = <<>> /\ stack # <<>> /\ Top.todo = <<>>
    /\ visited' = visited \cup {Top.name}
    /\ stack' = Front(stack)
    /\ UNCHANGED <<env, pass, root, call, plan, requests, chosen>>

(***************************************************************************)
(* Resolving one dependency of the package on top of the stack             *)
(***************************************************************************)
AtDependency == Running /\ call = <<>> /\ stack # <<>> /\ Top.todo # <<>>
Item == Head(Top.todo)
Dep == Item.dep
Fresh == AtDependency /\ Item.via = <<>>
Rest(items) == [stack EXCEPT ![Len(stack)].todo = items \o Tail(@)]

\* The edge is recorded, and the package it leads to is collected next.
Resolved(p, next) ==
    /\ plan' = p
    /\ call' = next
    /\ stack' = Rest(<<>>)
    /\ UNCHANGED <<pass, root, visited, chosen>>

Unknown(p, constraint) ==
    AddUnresolved(AddEdges(p, Top, Dep, "Unknown", None, None, constraint), Dep.name)
DepFailure(subject) == AddFailure(plan, Top.name, Top.base, subject, root)

\* The repositories, then the AUR, are asked for the dependency.
LookupFails ==
    /\ Fresh /\ QueryFails
    /\ \/ mode = "legacy" /\ Stop
       \/ /\ mode = "capture"
          /\ Resolved(Unknown(DepFailure(Dep.name), "none"), <<>>) /\ UNCHANGED requests

RepositoryDependency ==
    /\ Fresh /\ Dep.name \in world.repo
    /\ Resolved(AddEdges(plan, Top, Dep, "Repository", Dep.name, None, Evaluate(Dep, 1)), <<>>)
    /\ UNCHANGED <<env, requests>>

AurDependency ==
    /\ Fresh /\ Dep.name \notin world.repo
    /\ LET info == world.aur[Dep.name] IN
       /\ info.here
       /\ Resolved(AddEdges(plan, Top, Dep, "Aur", Dep.name, info.base,
                            Evaluate(Dep, info.ver)),
                   CollectRequest(Dep.name, Dep.roles, <<info>>))
    /\ UNCHANGED <<env, requests>>

AtProviders == Fresh /\ Dep.name \notin world.repo /\ ~world.aur[Dep.name].here

\* A search that failed, in whole or for one candidate: nothing is chosen.
IncompleteProviders ==
    /\ AtProviders /\ QueryFails
    /\ Resolved(AddIncomplete(Unknown(DepFailure(Dep.name), "Unknown"), Dep.name), <<>>)
    /\ UNCHANGED requests

Selected ==
    IF pass = "reuse" /\ Dep.name \in DOMAIN chosen THEN chosen[Dep.name]
    ELSE IF Cardinality(Providers(Dep.name)) = 1 THEN Providers(Dep.name)
    ELSE {}

\* What was chosen must still be on offer, unchanged.
ChosenProviderGone ==
    /\ AtProviders
    /\ ~(Selected \subseteq Providers(Dep.name))
    /\ Stop /\ UNCHANGED env

NoteRequest ==
    requests' = IF pass = "discover" /\ Providers(Dep.name) # {}
                THEN requests \cup {[dep |-> Dep.name, candidates |-> Providers(Dep.name)]}
                ELSE requests

\* Each provider becomes an item of its own, resolved before what follows.
SelectProviders ==
    /\ AtProviders
    /\ Selected # {} /\ Selected \subseteq Providers(Dep.name)
    /\ NoteRequest
    /\ stack' = Rest([k \in 1..Cardinality(Selected) |->
                        [dep |-> Dep, via |-> <<SetToSeq(Selected)[k]>>]])
    /\ UNCHANGED <<env, pass, root, call, visited, plan, chosen>>

AmbiguousDependency ==
    /\ AtProviders
    /\ Selected = {} /\ Cardinality(Providers(Dep.name)) > 1
    /\ NoteRequest
    /\ Resolved(AddAmbiguous(AddEdges(plan, Top, Dep, "AmbiguousProvider", None, None,
                                      "none"), Dep.name), <<>>)
    /\ UNCHANGED env

InstalledDependency ==
    /\ AtProviders /\ Providers(Dep.name) = {}
    /\ \/ /\ Dep.name \in world.installed
          /\ Resolved(AddEdges(plan, Top, Dep, "Installed", Dep.name, None,
                               Evaluate(Dep, 1)), <<>>)
          /\ UNCHANGED env
       \/ /\ Dep.name \notin world.installed
          /\ Resolved(Unknown(plan, "none"), <<>>)
          /\ UNCHANGED env
       \/ /\ QueryFails
          /\ Resolved(Unknown(DepFailure(Dep.name), "Unknown"), <<>>)
    /\ UNCHANGED requests

Via == Item.via[1]
UserSelected == pass = "reuse" /\ Dep.name \in DOMAIN chosen

\* What provides the dependency is kept; a choice of the user stays one.
AddProvided(p) ==
    [p EXCEPT !.userSelected = IF UserSelected THEN @ \cup {Via} ELSE @]

ProvidedEdge(p, kind) ==
    AddProvided(AddEdges(p, Top, Dep, kind, Via.name, None, Evaluate(Dep, Via.ver)))

\* A provider in the AUR is read again: it may be unreadable by now, and if
\* it has changed the resolution stops.
RefreshFails ==
    /\ AtDependency /\ Item.via # <<>> /\ Via.origin = "aur"
    /\ \/ /\ QueryFails \/ (~world.aur[Via.name].here /\ UNCHANGED env)
          /\ Resolved(AddProvided(AddUnresolved(
                         AddEdges(DepFailure(Via.name), Top, Dep, "Unknown",
                                  IF UserSelected THEN Via.name ELSE None, None,
                                  "Unknown"), Dep.name)), <<>>)
          /\ UNCHANGED requests
       \/ /\ world.aur[Via.name].here /\ ~SameContract(Via, Dep.name)
          /\ Stop /\ UNCHANGED env

ProvidedDependency ==
    /\ AtDependency /\ Item.via # <<>>
    /\ IF Via.origin = "aur"
       THEN /\ SameContract(Via, Dep.name)
            /\ Resolved(ProvidedEdge(plan, "Provided"),
                        CollectRequest(Via.name, Dep.roles, <<world.aur[Via.name]>>))
       ELSE Resolved(ProvidedEdge(plan, "ProvidedByRepository"), <<>>)
    /\ UNCHANGED <<env, requests>>

(***************************************************************************)
(* The end of a walk: order, roots, and the checks on the whole plan       *)
(***************************************************************************)
TargetNamed(p, name) == {t \in p.targets : t.name = name}

DependencyBase(p, e) ==
    IF e.kind = "Aur" THEN {e.base}
    ELSE IF e.kind = "Provided" THEN {t.base : t \in TargetNamed(p, e.name)}
    ELSE {}

DependencyBases(p, base) ==
    SelectSeq(FlattenSeq([k \in DOMAIN p.edges |->
                 IF p.edges[k].parentBase = base
                 THEN SetToSeq(DependencyBase(p, p.edges[k])) ELSE <<>>]),
              LAMBDA b : b # base /\ \E k \in DOMAIN p.order : p.order[k].base = b)

RECURSIVE Postorder(_, _, _)
Postorder(p, base, walk) ==
    IF base \in Range(walk.done) THEN walk
    ELSE IF base \in walk.visiting THEN [walk EXCEPT !.cycles = @ \cup {base}]
    ELSE LET inner == FoldLeft(LAMBDA acc, b : Postorder(p, b, acc),
                               [walk EXCEPT !.visiting = @ \cup {base}],
                               DependencyBases(p, base))
         IN [inner EXCEPT !.visiting = @ \ {base}, !.done = Append(@, base)]

\* Mutant: the order in which the packages were collected is kept.
Mutant_OrderEntries(p) == p

OrderEntries(p) ==
    LET walk == FoldLeft(LAMBDA acc, e : Postorder(p, e.base, acc),
                         [done |-> <<>>, visiting |-> {}, cycles |-> p.cycles], p.order)
        entry(base) == p.order[CHOOSE k \in DOMAIN p.order : p.order[k].base = base]
    IN [p EXCEPT !.order = [k \in DOMAIN walk.done |-> entry(walk.done[k])],
                 !.cycles = walk.cycles]

\* Mutant: only the first visit below a root attributes.
Mutant_PropagateRoots(p) == p

\* Every package reached from a root is attributed to it.
PropagateRoots(p) ==
    LET leads == {[parent |-> e.parent, target |-> e.name] : e \in
                    {f \in Range(p.edges) : /\ f.kind \in {"Aur", "Provided"}
                                            /\ TargetNamed(p, f.name) # {}}}
        from(r) == IF TargetNamed(p, p.roots[r]) = {} THEN {}
                   ELSE Closure({p.roots[r]}, leads)
    IN [p EXCEPT !.targets = {[t EXCEPT !.roots = @ \cup
                                 {r \in DOMAIN p.roots : t.name \in from(r)}] : t \in @}]

PropagateFailureRoots(p) ==
    [p EXCEPT !.failures =
        {[f EXCEPT !.roots = @ \cup UNION {t.roots : t \in
            {u \in p.targets : u.name = f.parent /\ u.base = f.parentBase}}] : f \in @}]

Finished(p) == PropagateFailureRoots(PropagateRoots(OrderEntries(p)))

\* The plan as its readers see it.
Published(p) == [p EXCEPT !.edges = Range(@)]

WalkDone == Running /\ call = <<>> /\ stack = <<>> /\ root = Len(plan.roots)

\* Two chosen providers are one package from two sources.
IncompatibleSelection(providers) ==
    \E p, q \in providers : p.name = q.name /\ (p.base # q.base \/ p.origin # q.origin)

Finish ==
    /\ WalkDone
    /\ \/ pass = "reuse"
       \/ plan.incomplete # {}
       \/ \A q \in requests : Cardinality(q.candidates) < 2
    /\ IF IncompatibleSelection(plan.userSelected) THEN Stop
       ELSE /\ pass' = "done"
            /\ plan' = Published(Finished(plan))
            /\ UNCHANGED <<root, call, stack, visited, requests, chosen>>
    /\ UNCHANGED env

\* The user answers for some of the names, with one candidate or more.
Answers(offered) ==
    UNION {{answer \in [names -> SUBSET UNION Range(offered)] :
              \A d \in names : answer[d] # {} /\ answer[d] \subseteq offered[d]} :
           names \in SUBSET DOMAIN offered}

\* Each name is asked for once; one that was offered two different sets of
\* candidates during the walk ends the resolution.
AskUser ==
    /\ WalkDone /\ pass = "discover" /\ plan.incomplete = {}
    /\ LET deps == {q.dep : q \in {r \in requests : Cardinality(r.candidates) > 1}}
           offered == [d \in deps |-> UNION {q.candidates : q \in {r \in requests : r.dep = d}}]
       IN /\ deps # {}
          /\ IF \E q, r \in requests : q.dep = r.dep /\ q.candidates # r.candidates
             THEN Stop
             ELSE \E answer \in Answers(offered) :
                    IF IncompatibleSelection(UNION Range(answer)) THEN Stop
                    ELSE IF DOMAIN answer = {}
                    THEN /\ pass' = "done"
                         /\ plan' = Published(Finished(plan))
                         /\ UNCHANGED <<root, call, stack, visited, requests, chosen>>
                    ELSE /\ pass' = "reuse" /\ root' = 0 /\ visited' = {}
                         /\ plan' = EmptyPlan(plan.roots)
                         /\ chosen' = answer
                         /\ UNCHANGED <<call, stack, requests>>
    /\ UNCHANGED env

(***************************************************************************)
(* The AUR changes: a package moves to another base, is released, or goes. *)
(***************************************************************************)
AurChanges ==
    /\ Running /\ shifts < MaxShifts
    /\ shifts' = shifts + 1
    /\ \E n \in Names, b \in Names :
          /\ world.aur[n].here
          /\ \/ world' = [world EXCEPT !.aur[n].here = FALSE]
             \/ world' = [world EXCEPT !.aur[n].ver = 1 - @]
             \/ b # world.aur[n].base /\ world' = [world EXCEPT !.aur[n].base = b]
    /\ UNCHANGED <<mode, pass, root, call, stack, visited, plan, requests, chosen>>

PlanNext ==
    \/ StopAtMissingRoot \/ StartRoot \/ CollectFails \/ CollectPackage \/ FinishPackage
    \/ LookupFails \/ RepositoryDependency \/ AurDependency \/ IncompleteProviders
    \/ ChosenProviderGone \/ SelectProviders \/ AmbiguousDependency
    \/ InstalledDependency \/ RefreshFails \/ ProvidedDependency
    \/ Finish \/ AskUser \/ AurChanges
=============================================================================
