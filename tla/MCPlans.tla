------------------------------- MODULE MCPlans -------------------------------
(***************************************************************************)
(* The way of an AUR update from its targets to its work items, on a small *)
(* universe: some targets may be left to registered sources, the planner   *)
(* walks the rest, and its plan meets the preflight, the preparation and   *)
(* the readiness guard.  b may share the base of a, and c that of b; v is  *)
(* a name that only others provide; r is a package of a repository.        *)
(***************************************************************************)
EXTENDS DependencyPlan, UnifiedPlan

VARIABLES
    entries,    \* the update plan
    policy,     \* what is done with packages that need a check
    sources,    \* the registered sources
    verdict     \* what became of the plan, once it has been judged

vars == <<planVars, entries, policy, sources, verdict>>

(***************************************************************************)
(* The universe: plain dependencies and cycles, or a virtual package v.    *)
(***************************************************************************)
On(names) == [k \in DOMAIN names |->
                [name |-> names[k],
                 roles |-> IF names[k] = "b" THEN {"RuntimeDependency", "BuildDependency"}
                           ELSE {"RuntimeDependency"},
                 min |-> IF names[k] = "v" THEN 0 ELSE 1]]

Package(bases, deps, provides) ==
    [here : {TRUE}, base : bases, ver : {1}, deps : {On(d) : d \in deps},
     provides : provides]

Gone == [here |-> FALSE, base |-> None, ver |-> 0, deps |-> <<>>, provides |-> {}]

World(a, b, c, repoProv) ==
    [aur |-> [n \in Names |-> CASE n = "a" -> a [] n = "b" -> b [] n = "c" -> c
                                [] OTHER -> Gone],
     repo |-> IF c.here THEN {} ELSE {"c"}, repoProv |-> repoProv,
     installed |-> IF b.provides = {} THEN {"v"} ELSE {}]

Worlds ==
    {World(a, b, c, {}) :
        a \in Package({"a"}, {<<"b">>, <<"c">>}, {{}}),
        b \in Package({"b", "a"}, {<<>>, <<"a">>, <<"c">>}, {{}}),
        c \in Package({"c", "b"}, {<<>>, <<"a">>}, {{}}) \cup {Gone}}

ProviderWorlds ==
    {World(a, b, c, rp) :
        a \in Package({"a"}, {<<"b", "v">>}, {{}}),
        b \in Package({"b"}, {<<>>, <<"v">>}, {{}, {"v"}}),
        c \in Package({"c"}, {<<>>}, {{"v"}}),
        rp \in {{}, {<<"v", "r">>}}}

Entry(n, state) == [name |-> n, base |-> world.aur[n].base, state |-> state,
                    reason |-> IF n = "a" THEN "Explicit" ELSE "Dependency"]

Source(key, base, names) == [key |-> key, base |-> base, names |-> names]

Init ==
    /\ world \in Worlds \cup ProviderWorlds /\ shifts = 0
    /\ entries \in {<<Entry("b", "UpdateAvailable"), Entry("a", "UpdateAvailable")>>,
                    <<Entry("a", "UpdateAvailable"), Entry("b", "RequiresCheck")>>,
                    <<Entry("a", "UpdateAvailable"), Entry("b", "Bootstrap")>>}
    /\ sources \in {<<>>, <<Source("s", "c", {"c"})>>,
                    <<Source("s", "b", {"b"}), Source("t", "b", {"c"})>>}
    /\ policy \in Policies
    /\ world \in ProviderWorlds => sources = <<>>
    /\ mode \in IF sources = <<>> /\ policy = "BlockOperation" THEN {"capture", "legacy"} ELSE {"capture"}
    /\ pass = "discover" /\ verdict = <<>>
    /\ root = 0 /\ call = <<>> /\ stack = <<>> /\ visited = {}
    /\ plan = EmptyPlan(LET kept == FilteredEntries(entries, policy, sources)
                        IN [k \in DOMAIN Candidates(kept) |-> kept[Candidates(kept)[k]].name])
    /\ requests = {} /\ chosen = NoChoice

(***************************************************************************)
(* An update ("capture") goes through the filtered operation; a build      *)
(* command ("legacy") only through the guard, and then makes its work      *)
(* items of the units.                                                     *)
(***************************************************************************)
Judged == [f \in DOMAIN plan \cup {"relations"} |->
             IF f = "relations" THEN {} ELSE plan[f]]

Judge ==
    /\ pass = "done" /\ verdict = <<>>
    /\ verdict' = <<IF mode = "capture"
                    THEN PrepareFiltered(entries, policy, sources, plan, [n \in Names |-> "absent"])
                    ELSE [outcome |-> IF RequireCapability(Judged, "Build") /\ Workable(Judged)
                                      THEN "Guarded" ELSE "Blocked",
                          items |-> <<>>]>>
    /\ UNCHANGED <<planVars, entries, policy, sources>>

Next ==
    \/ PlanNext /\ UNCHANGED <<entries, policy, sources, verdict>>
    \/ Judge

Spec == Init /\ [][Next]_vars

(***************************************************************************)
(* Outcome                                                                 *)
(***************************************************************************)
Is(outcome) == verdict # <<>> /\ verdict[1].outcome = outcome
Items == verdict[1].items
Built ==
    IF mode = "legacy" THEN {t.name : t \in plan.targets}
    ELSE UNION {{c.name : c \in Items[k].children} : k \in DOMAIN Items}

(***************************************************************************)
(* The commands that could have made the plan, what each of them prepares  *)
(* and what its dry run shows.  The names of a command are the roots of    *)
(* the plan, with the bases they had before the walk, and maybe r.         *)
(***************************************************************************)
Asked == [r \in DOMAIN plan.roots |->
            LET e == entries[CHOOSE i \in DOMAIN entries : entries[i].name = plan.roots[r]]
            IN [kind |-> "aur", name |-> e.name, base |-> e.base]]

FromRepository == [kind |-> "repository", name |-> "r", base |-> "r"]
Target(name, repo, pref) == [name |-> name, repo |-> repo, pref |-> pref]
Route(name, prep, shown) == [name |-> name, prep |-> prep, shown |-> shown]

SyncRequests ==
    LET named == [r \in DOMAIN Asked |-> Target(Asked[r].name, "absent", "absent")]
        more == {Target("r", "present", "absent"), Target("r", "present", "present")}
    IN [selection : {"Auto"}, system : BOOLEAN, options : {"supported"},
        targets : {named} \cup {<<t>> \o named : t \in more} \cup {named \o <<t>> : t \in more}]

SyncRoute(request) ==
    LET prep == SyncPreparation(request, Judged)
    IN Route("sync", prep, ProjectSync(request, Judged, prep))

RootRoute(repository) ==
    LET request == [usable |-> TRUE, selection |-> "chosen", repository |-> repository,
                    aur |-> Asked, options |-> "none"]
        prep == RootPreparation(request, Judged)
    IN Route("root", prep, ProjectRootPackage(request, Judged, prep))

RemoteRoute ==
    LET prep == RemotePreparation(Asked[1], Judged)
    IN Route("remote", prep, ProjectRemote(Asked[1], Judged, prep))

SourceRoute(registered) ==
    LET prep == SystemSourcePreparation(registered, Judged, <<Judged>>)
    IN Route("source", prep, ProjectSystemSource(registered, Judged, prep))

\* upgrade-all with sources that cannot be prepared stops where upgrade does.
BlockedRoutes(registered) ==
    LET prep == SystemSourcePreparation(registered, Judged, <<Judged>>)
    IN IF prep.outcome # "Failure" THEN {}
       ELSE {Route("source", prep, BlockedUpgradeAll(registered, Judged))}

BuildRoutes ==
    {SyncRoute(request) : request \in SyncRequests}
    \cup {RootRoute(repository) : repository \in {{}, {"r"}}}
    \cup {Route("fetch", FetchPreparation(Judged), ProjectFetch(Judged))}
    \cup (IF Len(Asked) = 1
          THEN {RemoteRoute, SourceRoute(Asked), SourceRoute(<<FromRepository>> \o Asked)}
               \cup BlockedRoutes(Asked)
          ELSE {})

AurItems ==
    [k \in DOMAIN Items |->
        [kind |-> "aur", base |-> Items[k].base, names |-> {c.name : c \in Items[k].children},
         targets |-> {[name |-> c.name, reason |-> CHOOSE r \in c.reason : TRUE] :
                        c \in Items[k].children}]]

UpdateRoutes ==
    LET kept == verdict[1].kept
        status == verdict[1].status
        registered == [k \in DOMAIN sources |->
                         [FromRepository EXCEPT !.name = CHOOSE n \in sources[k].names : TRUE,
                                                !.base = sources[k].base]]
        prep == verdict[1].prep    \* the dry run prepares in the same way
        done(more) == [outcome |-> verdict[1].outcome, items |-> more \o AurItems, txn |-> {}]
    IN CASE policy = "SkipIndependentTarget" /\ sources = <<>> ->
              {Route("system", done(<<>>),
                     ProjectSystemAur(entries, status, Judged, prep, verdict[1].planning, {}, {})),
               Route("system", Failure(FALSE, FALSE),
                     ProjectSystemAur(entries, status, Judged, prep, {}, {}, {"Inventory"}))}
         [] policy = "BlockOperation" ->
              {Route("all", done(SourceUnits(registered)),
                     ProjectUpgradeAll(entries, kept, status, registered, Judged, prep, {})),
               Route("all", Failure(FALSE, FALSE),
                     UnassessedUpgradeAll(registered, "AurQuery", {"Query"}))}
              \cup IF sources # <<>> THEN {}
                   ELSE {Route("update", done(<<>>),
                               ProjectAurUpdate(entries, kept, status, Judged, prep, {}))}
         [] OTHER -> {}

(***************************************************************************)
(* Properties                                                              *)
(***************************************************************************)
BaseOf(n) == {t.base : t \in {u \in plan.targets : u.name = n}}
UnitOf(n) == CHOOSE k \in DOMAIN plan.order : plan.order[k].base \in BaseOf(n)
Available(n, e) ==
    \/ e.kind \in {"Repository", "Installed", "ProvidedByRepository"}
    \/ /\ e.kind \in {"Aur", "Provided"}
       /\ BaseOf(e.name) # {}
       /\ UnitOf(e.name) <= UnitOf(n)

\* What is let through to execution can be built in the planned order: every
\* dependency that a package to be built declares leads, in each of its
\* roles, to a satisfied candidate that is there already or is built no
\* later than its dependent.  The walk, its ordering, the preflight, the
\* preparation and the guard of the build commands all have to play along,
\* whatever query fails and however the AUR changes during the walk.  Each
\* dependent asks the AUR anew, so that one package may be found in two
\* bases; the guard does not notice it, but the projection to work items of
\* the build commands and the preflight of an update do.  And nothing is
\* prepared that the guard would refuse.  A dependency for which the user
\* chose a provider is resolved by a chosen one, from the base that was
\* shown, although the candidates are searched again in the walk after the
\* question and the chosen one is read once more before it is used.  -S
\* regroups the units by the first of its names that wants them, and still
\* builds dependencies first, as long as no base yields several packages.
PreparedIsBuildable ==
    /\ Is("Prepared") => RequireCapability(Judged, "Build")
    /\ Is("Prepared") \/ Is("Guarded") =>
       \A e \in plan.edges : e.spec \in DOMAIN chosen =>
          \E p \in chosen[e.spec] : /\ p.name = e.name
                                    /\ e.kind = "Provided" => BaseOf(e.name) = {p.base}
    /\ Is("Prepared") \/ Is("Guarded") =>
       \A n \in Built : \A k \in DOMAIN world.aur[n].deps :
          LET d == world.aur[n].deps[k] IN
          \A r \in d.roles :
             \E e \in plan.edges : /\ e.parent = n /\ e.spec = d.name /\ e.role = r
                                   /\ e.constraint = "Satisfied"
                                   /\ Available(n, e)
    /\ Is("Guarded") /\ Split(Judged) = {} =>
       \A request \in SyncRequests :
          LET items == SyncPreparation(request, Judged).items IN
          \A e \in plan.edges : \A m, n \in DOMAIN items :
             /\ e.kind \in {"Aur", "Provided"}
             /\ e.parent \in items[m].names /\ e.name \in items[n].names
             => n <= m

Claimed(n) == \E i \in DOMAIN sources : \/ n \in sources[i].names
                                       \/ sources[i].base \in BaseOf(n)

\* A package that a registered source owns, by name or by base, is not built
\* from the AUR as well, no base is built twice, and every package with an
\* update is built here or owned by a source: the filter before planning and
\* the selection after it leave out the same packages.  An installed package
\* that still has to be checked is never rebuilt as somebody's dependency; an
\* installed package keeps its install reason, and a new one is installed as
\* a dependency.
EachUpdatedOnce ==
    Is("Prepared") =>
       /\ \A n \in Built : ~Claimed(n)
       /\ \A i, j \in DOMAIN Items : i # j => Items[i].base # Items[j].base
       /\ \A i \in DOMAIN entries :
             HasIntent(entries[i]) =>
                \/ entries[i].name \in Built
                \/ \E k \in DOMAIN sources : \/ entries[i].name \in sources[k].names
                                             \/ entries[i].base = sources[k].base
       /\ \A k \in DOMAIN Items : \A c \in Items[k].children :
             /\ \A i \in DOMAIN entries : entries[i].name = c.name =>
                   HasIntent(entries[i]) /\ c.reason = {entries[i].reason}
             /\ (\A i \in DOMAIN entries : entries[i].name # c.name) => c.reason = {"Dependency"}

\* Stages that recompute what an earlier one found agree with it.  While no
\* query fails, the AUR stays as it is and the walk is not cut short at
\* MAX_RECURSIVE_DEP_DEPTH, the preflight finds every plan of the planner
\* consistent: both compute targets, roots, order and cycles on their own,
\* from the same edges.  Always, the preflight satisfies the snapshot checks
\* of the stages after it; what was prepared passes every comparison that is
\* made again before it is executed, and nothing else does, and what was left
\* to registered sources is found again when the result is put together; and
\* when nothing is executed the report does not call itself inconsistent:
\* every target is accounted for, a blocked operation names a target that is
\* to blame, and success is claimed only when there was no update to make.
PlannerAndPreflightAgree ==
    verdict # <<>> /\ mode = "capture" =>
       LET kept == verdict[1].kept
           status == verdict[1].status
           planning == verdict[1].planning
           prep == verdict[1].prep
           report == verdict[1].report
           results == MapSelectedResults(entries, policy, sources, report)
       IN /\ shifts = 0 /\ None \notin plan.unresolved =>
                \A i \in DOMAIN kept : "BuildPlanInconsistent" \notin Reasons(kept, policy, plan, i)
          /\ ValidPolicySnapshot(kept, policy, Judged, status,
                                 PreflightReasons(kept, policy, Judged),
                                 RequiredDevelTargets(kept, policy, Judged))
          /\ verdict[1].outcome = "Prepared" <=>
                WillExecute(kept, status, planning,
                            CorrelatePreflight(entries, policy, sources, Judged), Judged,
                            MakeSelection(CompletePlan(entries, policy, sources, Judged)), prep)
          /\ verdict[1].outcome = "NoOp" <=>
                FilteredNoOp(status, planning, prep)
          /\ verdict[1].outcome = "Prepared" =>
                /\ DuplicateExclusions(entries, policy, sources).consistent
                /\ ExternalSatisfaction(Judged,
                      CompletePlan(entries, policy, sources, Judged)).consistent
          /\ prep.outcome # "Prepared" =>
                /\ report.status # "InconsistentResult"
                /\ report.status = "BlockedBeforeExecution" =>
                      \E i \in DOMAIN kept : report.targets[i] \in {"Failed", "Unsupported", "Incomplete"}
                /\ \A n \in DOMAIN results : results[n] # {}
                /\ FilteredSuccess(planning, results, report, prep)
                      => \A i \in DOMAIN kept : ~HasIntent(kept[i])

Shown(route, status) == route.shown # <<>> /\ route.shown[1].status = status
Units(s) == {s[k] : k \in DOMAIN s}
HasSplit == Split(Judged) # {}

\* The dry run ends with an error where it could have shown what is wrong:
\* when the AUR changed under it; when the plan failed and one of the names
\* depends on another; when an update that is planned turns out not to be
\* executable; and when a registered source owns an installed AUR package.
EndsWithError(route) ==
    \/ shifts > 0
    \/ /\ route.name \in {"root", "source"} /\ route.prep.outcome = "Failure"
       /\ \E r \in DOMAIN plan.roots : Cardinality(RootTargets(Judged, r)) > 1
    \/ /\ route.name \in {"update", "all"}
       /\ \/ verdict[1].kept # entries
          \/ \E i \in RootedEntries(entries) : verdict[1].status[i] # "Executable"

\* A dry run tells what the command would do.  Both prepare the same plan,
\* but the command asks the readiness guard and makes work items, while the
\* dry run derives blockers and units from the plan on its own
\* (unified_plan_projection.cpp).  What is shown as ready is prepared: the
\* same units, artifacts and install reasons, in the same order except where
\* -S regroups them, after a repository transaction that is shown; of
\* upgrade-all it may show a unit that a registered source will satisfy.  A
\* command that would go ahead is shown as ready, unless a package is one of
\* several of its base, which alone is then what blocks it; and one that
\* would stop is never shown as ready or as having nothing to do.
DryRunIsHonest ==
    verdict # <<>> => \A route \in IF mode = "legacy" THEN BuildRoutes ELSE UpdateRoutes :
       /\ Shown(route, "Ready") =>
             /\ route.prep.outcome = "Prepared" \/ (route.name = "all" /\ route.prep.outcome = "NoOp")
             /\ Units(route.prep.items) \subseteq Units(route.shown[1].units)
             /\ route.name # "all" => Units(route.prep.items) = Units(route.shown[1].units)
             /\ route.name \notin {"sync", "all"} => route.prep.items = route.shown[1].units
             /\ route.prep.txn \subseteq route.shown[1].repo
       /\ route.prep.outcome = "Prepared" /\ route.shown # <<>> =>
             \/ Shown(route, "Ready")
             \/ HasSplit /\ route.shown[1].blockers = {"SplitPackageSelectionRequired"}
       /\ Shown(route, "NoOp") => route.prep.outcome = "NoOp"
       /\ route.shown = <<>> => EndsWithError(route)
=============================================================================
