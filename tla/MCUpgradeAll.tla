---------------------------- MODULE MCUpgradeAll ----------------------------
(***************************************************************************)
(* Two registered sources and up to two AUR work items of two packages      *)
(* each: enough for something to be done before, in and after the step     *)
(* that fails, in every phase.  The system update of -Syu is looked at on  *)
(* its own: a foreign package that pins a repository package, another one  *)
(* that may, and a package that may need the first.                        *)
(***************************************************************************)
EXTENDS UpgradeAll, SystemAurUpdate

\* The combinations of inputs that are looked at.  upgrade-aur does not use
\* the sources; upgrade-all has one item of either route and no providers of
\* its own in the AUR part, which upgrade-aur has.
SmallUpgradeInit ==
    /\ UpgradeInit
    /\ command = "upgrade-aur" =>
          \A i \in Sources : kind[i] = "aur" /\ recipe[i] = 1 /\ db[i].ver = 1
    /\ command = "upgrade-all" =>
          /\ interactive /\ ~wanted
          /\ \A i \in Sources \ {1} : recipe[i] = 1 /\ kind[i] = "repository"
          /\ items = <<[roots |-> {1}, bootstrap |-> FALSE, devel |-> FALSE],
                       [roots |-> {2}, bootstrap |-> FALSE, devel |-> TRUE]>>

\* The packages of the system update.  Its worlds differ from the first one
\* of each list, in which a transition is possible, in at most two respects.
Requires(on, rel, ver) == [on |-> on, rel |-> rel, ver |-> ver]
Package(needs, provides, reason) ==
    <<[ver |-> 1, needs |-> needs, provides |-> provides, reason |-> reason]>>
Recipe(needs, relations) == <<[ver |-> 2, needs |-> needs, relations |-> relations]>>

Choices ==
    <<<<{Requires("lib", "=", 1)}, {Requires("lib", "=", 1), Requires("lib", "=", 2)},
        {Requires("lib", ">=", 1)}>>,
      <<<<>>, Package({Requires("lib", "=", 1)}, {}, "Explicit"),
        Package({Requires("lib", "<", 2)}, {}, "Explicit")>>,
      <<{}, {Requires("app", "any", 0)}, {Requires("app", "so", 0)}>>,
      <<{}, {"app"}>>,
      <<Recipe({Requires("lib", "=", 2)}, FALSE), <<>>, Recipe({Requires("lib", "=", 2)}, TRUE),
        Recipe({Requires("lib", "=", 1)}, FALSE), Recipe({Requires("lib", ">=", 2)}, FALSE),
        Recipe({Requires("lib", "=", 2), Requires("lib", ">=", 1)}, FALSE), Recipe({}, FALSE)>>,
      <<"Explicit", "Dependency", "Unknown">>,
      <<2, 0, 1>>,
      <<2, 3>>>>

WorldOf(w) ==
    [inst |-> [p \in Packages |->
        CASE p = "app" -> Package(Choices[1][w[1]], {}, Choices[6][w[6]])
          [] p = "app2" -> Choices[2][w[2]]
          [] p = "lib" -> Package({}, Choices[4][w[4]], "Explicit")
          [] OTHER -> Package(Choices[3][w[3]], {}, "Explicit")],
     sync |-> [l \in Libs |-> Choices[7][w[7]]],
     mirror |-> [l \in Libs |-> Choices[8][w[8]]],
     aur |-> [c \in Foreign |-> IF c = "app" THEN Choices[5][w[5]] ELSE <<>>]]

SmallWorlds ==
    UNION {{WorldOf([[k \in 1..8 |-> 1] EXCEPT ![i] = a, ![j] = b]) :
               a \in DOMAIN Choices[i], b \in DOMAIN Choices[j]} : i, j \in 1..8}

\* One of the two operations, the other one stays as it is.
SystemIdle ==
    /\ inst = [p \in Packages |-> <<>>] /\ sync = [l \in Libs |-> 0]
    /\ mirror = sync /\ aurDb = [c \in Foreign |-> <<>>]
    /\ trans = NoTransition /\ sysRes = FreshSystemResult /\ sysDone = {} /\ mishaps = 0
    /\ sys = [SysStart("dryRepo") EXCEPT !.stage = "over"]

UpgradeIdle ==
    /\ command = "none" /\ uaStage = "stopped" /\ agg = FreshAggregate
    /\ Init /\ AurInit /\ ~interactive /\ ~wanted
    /\ \A i \in Sources : kind[i] = "aur" /\ recipe[i] = 1 /\ db[i].ver = 1
    /\ items = <<[roots |-> {1}, bootstrap |-> FALSE, devel |-> FALSE]>>

SmallInit == (SmallUpgradeInit /\ SystemIdle) \/ (UpgradeIdle /\ SysInit)

SmallNext ==
    \/ UpgradeNext /\ UNCHANGED sysVars
    \/ SysNext /\ UNCHANGED allVars

SmallSpec == SmallInit /\ [][SmallNext]_<<allVars, sysVars>>

\* upgrade-all tells phases that were not attempted from those that ran: when
\* it reports the AUR phase as not attempted, nothing of it was done.
NotAttemptedIsTrue ==
    uaStage = "done" /\ agg.aur \in {"NotAttempted", "BlockedBeforeExecution"} =>
       aurChanged = {}
=============================================================================
