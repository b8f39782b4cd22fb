---------------------------- MODULE UpgradeProofs ---------------------------
(***************************************************************************)
(* What an upgrade reports is so, for any number of sources, versions and  *)
(* work items: ReportTruthful, ReplacedIsRebuilt, NothingAfterStop,        *)
(* AggregateTruthful and ReductionTruthful of UpgradeAll, and              *)
(* SystemReportTruthful of SystemAurUpdate.                                *)
(*                                                                         *)
(* The first part is about the system and the registered sources, the      *)
(* second about the AUR work items, the third about the reducer, which     *)
(* finds no contradiction in what the runner returns, the fourth about the *)
(* aggregate and the last about the system update of -Syu.                 *)
(***************************************************************************)
EXTENDS UpgradeAll, SystemAurUpdate, FiniteSetTheorems, WellFoundedInduction, TLAPS

Snapshots == [taken : {TRUE}, db : [Sources -> Versions], other : Versions]
Phases == Sources \cup {SystemPhase, ProviderPhase}
Unblocked == {"Updated", "NoChange", "Incomplete"}

(* The types of the first part, with what a snapshot is. *)
SourceTypes == TypeOK /\ before \in {NotYet, Unavailable} \cup Snapshots

(* What is reported of one phase is true of the package database. *)
Truth(p) ==
  /\ p \in changed => Report(p) # "NoChange"
  /\ Report(p) = "Changed" => p \in changed

Rebuilt(i) == db[i].origin = "source" \/ db[i].ver > recipe[i]

(* A source that is behind the position. *)
Settled(i) ==
  /\ result.sources[i].status \in Unblocked
  /\ Truth(i)
  /\ i \in replaced /\ result.sources[i].status # "Incomplete" => Rebuilt(i)

(* Until pacman runs nothing has changed and nothing is reported; the      *)
(* snapshot of the preparation is the database.                            *)
BeforeSystem ==
  /\ pos = 1 /\ result = FreshResult /\ changed = {} /\ replaced = {}
  /\ stage \in {"execute", "system"} =>
       /\ baseline = [i \in Sources |-> db[i].ver]
       /\ before \in {Snapshot, Unavailable}

(* pacman has run, and only it.  Versions grow, so that a snapshot that is *)
(* equal means that nothing happened.                                      *)
AtObserve ==
  /\ pos = 1 /\ result = [FreshResult EXCEPT !.system.status = "Completed"]
  /\ changed \subseteq {SystemPhase}
  /\ before = Unavailable \/ (before.taken /\ (before # Snapshot <=> SystemPhase \in changed))
  /\ \A i \in replaced : kind[i] = "repository" /\ db[i].ver # baseline[i]

AmongSources ==
  /\ result.status = "Completed" /\ ~result.blocked
  /\ result.system.status = "Completed" /\ Truth(SystemPhase)
  /\ result.providers.status \in {"NotAttempted", "Succeeded"} /\ Truth(ProviderPhase)
  /\ stage # "source" => /\ pos = 1 /\ changed \subseteq {SystemPhase}
                         /\ result.providers = FreshResult.providers
  /\ \A i \in replaced : /\ kind[i] = "repository" /\ installed[i] # baseline[i]
                         /\ i >= pos => db[i].ver = installed[i]
  /\ \A i \in Sources : /\ i >= pos => result.sources[i] = NotAttempted /\ i \notin changed
                        /\ i < pos => Settled(i)

(* Nothing moves any more. *)
AtEnd ==
  /\ \A p \in Phases : Truth(p)
  /\ result.status = "Completed" =>
       /\ result.system.status = "Completed"
       /\ \A i \in replaced : result.sources[i].status # "Incomplete" => Rebuilt(i)
  /\ result.status = "BlockedBeforeMutation" => changed = {}
  /\ result.system.status = "NotAttempted" => changed = {}
  /\ result.system.status = "Failed" => changed \subseteq {SystemPhase}

InOrder ==
  \A j \in changed \cap Sources :
     /\ result.system.status = "Completed"
     /\ \A i \in 1..(j - 1) : result.sources[i].status \in Unblocked

SourceInv ==
  /\ SourceTypes
  /\ stage \in Prepared \cup {"execute", "system"} => BeforeSystem
  /\ stage = "observe" => AtObserve
  /\ stage \in {"check", "providers", "source"} => AmongSources
  /\ stage = "done" => AtEnd
  /\ InOrder

-----------------------------------------------------------------------------
(* The system and the sources *)

LEMMA Numbers ==
  /\ N \in Nat /\ MaxVer \in Nat /\ MaxVer >= 1
  /\ Sources \subseteq Nat /\ \A i \in Sources : i >= 1 /\ i <= N
  /\ SystemPhase \notin Sources /\ ProviderPhase \notin Sources
  /\ SystemPhase # ProviderPhase
  /\ Versions \subseteq Nat /\ 0 \in Versions /\ MaxVer \in Versions /\ 1 \in Versions
BY UpgradeAssumption DEF Sources, SystemPhase, ProviderPhase, Versions

LEMMA FreshTypes ==
  /\ NotAttempted \in SourceResults
  /\ FreshResult \in [status : {"Completed"},
                      system : [status : {"NotAttempted"}, psc : {"NoChange"}],
                      providers : [status : {"NotAttempted"}, psc : {"NoChange"}],
                      sources : [Sources -> SourceResults], blocked : {FALSE}]
  /\ FreshResult.status = "Completed" /\ FreshResult.blocked = FALSE
  /\ FreshResult.system.status = "NotAttempted" /\ FreshResult.system.psc = "NoChange"
  /\ FreshResult.providers.status = "NotAttempted"
  /\ FreshResult.providers.psc = "NoChange"
  /\ \A i \in Sources : FreshResult.sources[i] = NotAttempted
BY DEF NotAttempted, SourceResults, FreshResult, SourceStatuses, Changes

Results == [status : {"Completed", "BlockedBeforeMutation",
                      "StoppedOnSystemFailure", "StoppedOnSourceFailure",
                      "StoppedAfterSourceCleanupFailure", "InconsistentResult"},
            system : [status : {"NotAttempted", "Completed", "Failed"}, psc : Changes],
            providers : [status : {"NotAttempted", "Succeeded", "Failed",
                                   "BlockedBeforeExecution"}, psc : Changes],
            sources : [Sources -> SourceResults],
            blocked : BOOLEAN]
Databases == [Sources -> [ver : Versions, origin : {"source", "binary"}]]

LEMMA TypesOf ==
  SourceTypes <=>
    /\ stage \in Prepared \cup Executing \cup {"execute", "done", "stopped"}
    /\ pos \in 1..(N + 1)
    /\ kind \in [Sources -> {"repository", "aur"}]
    /\ recipe \in [Sources -> Versions]
    /\ db \in Databases /\ other \in Versions
    /\ before \in {NotYet, Unavailable} \cup Snapshots
    /\ baseline \in [Sources -> Versions] /\ installed \in [Sources -> Versions]
    /\ result \in Results
    /\ changed \subseteq Phases /\ replaced \subseteq Sources
BY DEF SourceTypes, TypeOK, Results, Databases, Snapshots, NotYet, Unavailable, Phases

LEMMA SnapshotType ==
  ASSUME SourceTypes
  PROVE  /\ Snapshot \in Snapshots /\ Snapshot.taken
         /\ [i \in Sources |-> db[i].ver] \in [Sources -> Versions]
         /\ \A i \in Sources : db[i].ver \in Versions /\ db[i].ver \in Nat
BY TypesOf, Numbers DEF Databases, Snapshot, Snapshots

(* What is truly reported of the phases, one by one. *)
LEMMA Reports ==
  /\ Report(SystemPhase) = result.system.psc
  /\ Report(ProviderPhase) = result.providers.psc
  /\ \A i \in Sources : Report(i) = result.sources[i].psc
BY Numbers DEF Report

LEMMA SourceInitInv == Init => SourceInv
<1> SUFFICES ASSUME Init PROVE SourceInv
  OBVIOUS
<1> USE Numbers, FreshTypes DEF Init
<1>1. db \in Databases
  BY DEF Databases
<1>2. result \in Results
  BY DEF Results, Changes
<1>3. SourceTypes
  BY <1>1, <1>2, TypesOf DEF Prepared
<1>4. BeforeSystem /\ InOrder
  BY DEF BeforeSystem, InOrder
<1> QED BY <1>3, <1>4 DEF SourceInv, Prepared

LEMMA NotAttemptedFields ==
  NotAttempted.status = "NotAttempted" /\ NotAttempted.psc = "NoChange"
BY DEF NotAttempted

(* What is left of the result when an entry is replaced. *)
LEMMA ResultFields ==
  ASSUME SourceTypes, NEW i \in Sources, NEW s \in SourceResults
  PROVE  LET r == [result EXCEPT !.sources[i] = s] IN
         /\ r \in Results /\ r.status = result.status /\ r.blocked = result.blocked
         /\ r.system = result.system /\ r.providers = result.providers
         /\ r.sources[i] = s
         /\ \A j \in Sources : j # i => r.sources[j] = result.sources[j]
BY TypesOf DEF Results

LEMMA BlockInv ==
  ASSUME SourceInv, stage \in Prepared \cup {"execute"}, NEW where, BlockPreparation(where)
  PROVE  SourceInv'
<1> USE Numbers, FreshTypes
<1>1. BeforeSystem /\ SourceTypes
  BY DEF SourceInv
<1>2. /\ stage' = "done" /\ pos' = pos /\ kind' = kind /\ recipe' = recipe /\ db' = db
      /\ other' = other /\ changed' = {} /\ replaced' = {} /\ before' = before
      /\ baseline' = baseline /\ installed' = installed
  BY <1>1 DEF BlockPreparation, Goto, plan, world, seen, BeforeSystem
<1> DEFINE ss == [i \in Sources |-> IF i \in where
                     THEN [NotAttempted EXCEPT !.status = "Incomplete"]
                     ELSE result.sources[i]]
<1>3. ss \in [Sources -> SourceResults] /\ \A i \in Sources : ss[i].psc = "NoChange"
  BY <1>1 DEF BeforeSystem, NotAttempted, SourceResults, SourceStatuses, Changes
<1>4. result' = [result EXCEPT !.status = "BlockedBeforeMutation", !.blocked = TRUE,
                               !.sources = ss]
  BY DEF BlockPreparation
<1> HIDE DEF ss
<1>5. /\ result'.status = "BlockedBeforeMutation" /\ result'.blocked = TRUE
      /\ result'.sources = ss /\ result'.system = result.system
      /\ result'.providers = result.providers /\ result' \in Results
  BY <1>1, <1>3, <1>4, TypesOf DEF Results
<1>6. SourceTypes'
  BY <1>1, <1>2, <1>5, TypesOf DEF SourceTypes, TypeOK, Results, Databases
<1>7. /\ Report(SystemPhase)' = "NoChange" /\ Report(ProviderPhase)' = "NoChange"
      /\ \A i \in Sources : Report(i)' = "NoChange"
  BY <1>1, <1>3, <1>5 DEF BeforeSystem, Report
<1>8. AtEnd' /\ InOrder'
  BY <1>1, <1>2, <1>5, <1>7 DEF AtEnd, InOrder, Truth, Phases, BeforeSystem
<1> QED BY <1>2, <1>6, <1>8 DEF SourceInv, Prepared

LEMMA PrepareInv ==
  ASSUME SourceInv, NEW from \in Prepared, NEW to \in Prepared, PrepareStep(from, to)
  PROVE  SourceInv'
<1>1. BeforeSystem /\ SourceTypes
  BY DEF SourceInv, PrepareStep
<1>2. /\ stage' = to /\ pos' = pos /\ kind' = kind /\ recipe' = recipe /\ db' = db
      /\ other' = other /\ changed' = changed /\ replaced' = replaced /\ before' = before
      /\ baseline' = baseline /\ installed' = installed /\ result' = result
  BY DEF PrepareStep, Goto, plan, world, seen
<1>3. SourceTypes'
  BY <1>1, <1>2, TypesOf DEF SourceTypes, TypeOK
<1>4. BeforeSystem' /\ InOrder'
  BY <1>1, <1>2 DEF BeforeSystem, InOrder, Prepared
<1> QED BY <1>2, <1>3, <1>4 DEF SourceInv, Prepared

(* A step that leads to "stopped" and changes nothing else. *)
LEMMA StoppedInv ==
  ASSUME SourceInv, stage' = "stopped", UNCHANGED <<pos, plan, world, seen, result>>
  PROVE  SourceInv'
<1>1. /\ pos' = pos /\ kind' = kind /\ recipe' = recipe /\ db' = db
      /\ other' = other /\ changed' = changed /\ replaced' = replaced /\ before' = before
      /\ baseline' = baseline /\ installed' = installed /\ result' = result
  BY DEF plan, world, seen
<1>2. SourceTypes' /\ InOrder'
  BY <1>1 DEF SourceInv, SourceTypes, TypeOK, InOrder
<1> QED BY <1>2 DEF SourceInv, Prepared

LEMMA PreparationInv ==
  ASSUME SourceInv,
         \/ EnumeratePreferences \/ LoadPreferences \/ ResolveIdentities
         \/ PlanAurSources \/ PrepareWorkItems \/ PrepareInvocation
  PROVE  SourceInv'
<1> USE BlockInv, PrepareInv, StoppedInv
<1>1. CASE EnumeratePreferences
  BY <1>1 DEF EnumeratePreferences, Prepared
<1>2. CASE LoadPreferences
  BY <1>2 DEF LoadPreferences, Prepared
<1>3. CASE ResolveIdentities
  BY <1>3 DEF ResolveIdentities, Prepared
<1>4. CASE PlanAurSources
  BY <1>4 DEF PlanAurSources, Prepared, Goto
<1>5. CASE PrepareWorkItems
  BY <1>5 DEF PrepareWorkItems, Prepared
<1>6. CASE PrepareInvocation
  BY <1>6 DEF PrepareInvocation, Prepared
<1> QED BY <1>1, <1>2, <1>3, <1>4, <1>5, <1>6

LEMMA BaselineInv == SourceInv /\ SnapshotBaselines => SourceInv'
<1> SUFFICES ASSUME SourceInv, SnapshotBaselines PROVE SourceInv'
  OBVIOUS
<1>0. stage = "baseline" /\ stage \in Prepared /\ SourceTypes /\ BeforeSystem
  BY DEF SnapshotBaselines, SourceInv, Prepared
<1>1. CASE \E where : BlockPreparation(where)
  BY <1>0, <1>1, BlockInv
<1>2. CASE ~ \E where : BlockPreparation(where)
  <2>1. /\ baseline' = [i \in Sources |-> db[i].ver]
        /\ before' \in {Snapshot, Unavailable}
        /\ stage' = "execute" /\ pos' = pos /\ kind' = kind /\ recipe' = recipe
        /\ db' = db /\ other' = other /\ changed' = changed /\ replaced' = replaced
        /\ installed' = installed /\ result' = result
    BY <1>2 DEF SnapshotBaselines, Goto, plan, world
  <2>2. SourceTypes'
    BY <1>0, <2>1, SnapshotType DEF SourceTypes, TypeOK, Snapshots
  <2>3. BeforeSystem' /\ InOrder'
    BY <1>0, <2>1 DEF BeforeSystem, InOrder, Snapshot
  <2> QED BY <2>1, <2>2, <2>3 DEF SourceInv, Prepared
<1> QED BY <1>1, <1>2

LEMMA BeginInv == SourceInv /\ BeginExecution => SourceInv'
<1> SUFFICES ASSUME SourceInv, BeginExecution PROVE SourceInv'
  OBVIOUS
<1> USE Numbers, FreshTypes
<1>0. stage = "execute" /\ SourceTypes /\ BeforeSystem
  BY DEF BeginExecution, SourceInv
<1>1. CASE BlockPreparation({})
  BY <1>0, <1>1, BlockInv
<1>2. CASE Goto("system") /\ UNCHANGED <<pos, plan, world, seen, result>>
  <2>1. /\ stage' = "system" /\ pos' = pos /\ kind' = kind /\ recipe' = recipe
        /\ db' = db /\ other' = other /\ changed' = changed /\ replaced' = replaced
        /\ before' = before /\ baseline' = baseline /\ installed' = installed
        /\ result' = result
    BY <1>2 DEF Goto, plan, world, seen
  <2>2. SourceTypes' /\ BeforeSystem' /\ InOrder'
    BY <1>0, <2>1 DEF SourceTypes, TypeOK, BeforeSystem, InOrder, Snapshot, Executing
  <2> QED BY <2>1, <2>2 DEF SourceInv, Prepared
<1>3. CASE /\ Stop("InconsistentResult", [result EXCEPT !.blocked = TRUE])
           /\ UNCHANGED <<pos, plan, world, seen>>
  <2>1. /\ stage' = "done" /\ pos' = pos /\ kind' = kind /\ recipe' = recipe
        /\ db' = db /\ other' = other /\ changed' = {} /\ replaced' = {}
        /\ before' = before /\ baseline' = baseline /\ installed' = installed
        /\ result' = [[result EXCEPT !.blocked = TRUE] EXCEPT !.status = "InconsistentResult"]
    BY <1>0, <1>3 DEF Goto, Stop, plan, world, seen, BeforeSystem
  <2>2. /\ result' \in Results /\ result'.status = "InconsistentResult"
        /\ result'.system = result.system /\ result'.providers = result.providers
        /\ result'.sources = result.sources
    BY <1>0, <2>1, TypesOf DEF Results
  <2>3. SourceTypes'
    BY <1>0, <2>1, <2>2 DEF SourceTypes, TypeOK, Results
  <2>4. /\ Report(SystemPhase)' = "NoChange" /\ Report(ProviderPhase)' = "NoChange"
        /\ \A i \in Sources : Report(i)' = "NoChange"
    BY <1>0, <2>2 DEF BeforeSystem, Report, NotAttempted
  <2>5. AtEnd' /\ InOrder'
    BY <1>0, <2>1, <2>2, <2>4 DEF AtEnd, InOrder, Truth, Phases, BeforeSystem
  <2> QED BY <2>1, <2>3, <2>5 DEF SourceInv, Prepared
<1> QED BY <1>0, <1>1, <1>2, <1>3 DEF BeginExecution

LEMMA SystemInv == SourceInv /\ RunSystemUpgrade => SourceInv'
<1> SUFFICES ASSUME SourceInv, RunSystemUpgrade PROVE SourceInv'
  OBVIOUS
<1> USE Numbers, FreshTypes
<1>0. stage = "system" /\ SourceTypes /\ BeforeSystem /\ SystemTransaction
  BY DEF RunSystemUpgrade, SourceInv
<1>1. /\ pos' = pos /\ kind' = kind /\ recipe' = recipe /\ before' = before
      /\ baseline' = baseline /\ installed' = installed
  BY DEF RunSystemUpgrade, plan, seen
<1>2. /\ db' \in Databases /\ other' \in Versions /\ changed' \subseteq {SystemPhase}
      /\ replaced' \subseteq Sources
      /\ \A i \in replaced' : kind[i] = "repository" /\ db'[i].ver # baseline[i]
      /\ Snapshot' # Snapshot <=> SystemPhase \in changed'
  <2>0. changed = {} /\ replaced = {} /\ baseline = [i \in Sources |-> db[i].ver]
        /\ db \in Databases /\ other \in Versions
    BY <1>0, TypesOf DEF BeforeSystem
  <2>1. CASE UNCHANGED world
    BY <2>0, <2>1 DEF world, Snapshot
  <2>2. CASE /\ other' \in {v \in Versions : v > other}
             /\ changed' = changed \cup {SystemPhase}
             /\ UNCHANGED <<db, replaced>>
    <3>1. other' # other
      BY <2>0, <2>2
    <3> QED BY <2>0, <2>2, <3>1 DEF Snapshot
  <2>3. CASE \E i \in Sources, v \in Versions :
                /\ kind[i] = "repository" /\ v > db[i].ver
                /\ db' = [db EXCEPT ![i] = [ver |-> v, origin |-> "binary"]]
                /\ changed' = changed \cup {SystemPhase}
                /\ replaced' = replaced \cup {i}
                /\ UNCHANGED other
    <3>1. PICK i \in Sources, v \in Versions :
                /\ kind[i] = "repository" /\ v > db[i].ver
                /\ db' = [db EXCEPT ![i] = [ver |-> v, origin |-> "binary"]]
                /\ changed' = changed \cup {SystemPhase}
                /\ replaced' = replaced \cup {i}
                /\ UNCHANGED other
      BY <2>3
    <3>2. db' \in Databases /\ db'[i].ver = v
      BY <2>0, <3>1 DEF Databases
    <3>3. db[i].ver \in Nat /\ v # db[i].ver
      BY <1>0, <3>1, SnapshotType
    <3>4. Snapshot'.db[i] # Snapshot.db[i]
      BY <3>2, <3>3 DEF Snapshot
    <3> QED BY <2>0, <3>1, <3>2, <3>3, <3>4
  <2> QED BY <1>0, <2>1, <2>2, <2>3 DEF SystemTransaction
<1>3. result = FreshResult /\ result \in Results
  BY <1>0, TypesOf DEF BeforeSystem
<1>4. CASE /\ result' = [result EXCEPT !.system.status = "Completed"]
           /\ stage' = "observe"
  <2>1. result' \in Results
    BY <1>3, <1>4 DEF Results
  <2>2. SourceTypes'
    BY <1>0, <1>1, <1>2, <1>4, <2>1 DEF SourceTypes, TypeOK, Results, Databases, Executing, Phases
  <2>3. before = Unavailable \/ (before.taken /\ (before # Snapshot' <=> SystemPhase \in changed'))
    BY <1>0, <1>2, SnapshotType DEF BeforeSystem
  <2>4. AtObserve'
    BY <1>0, <1>1, <1>2, <1>3, <1>4, <2>3 DEF AtObserve, BeforeSystem
  <2>5. InOrder'
    BY <1>2 DEF InOrder
  <2> QED BY <1>4, <2>2, <2>4, <2>5 DEF SourceInv, Prepared
<1>5. CASE Stop("StoppedOnSystemFailure",
                [result EXCEPT !.system = [status |-> "Failed", psc |-> "Unknown"]])
  <2>1. /\ result' \in Results /\ result'.status = "StoppedOnSystemFailure"
        /\ result'.system = [status |-> "Failed", psc |-> "Unknown"]
        /\ result'.providers = result.providers
        /\ result'.sources = result.sources /\ stage' = "done"
    BY <1>3, <1>5 DEF Results, Stop, Goto, Changes
  <2>2. SourceTypes'
    BY <1>0, <1>1, <1>2, <2>1 DEF SourceTypes, TypeOK, Results, Databases, Phases
  <2>3. /\ Report(SystemPhase)' = "Unknown" /\ Report(ProviderPhase)' = "NoChange"
        /\ \A i \in Sources : Report(i)' = "NoChange"
    BY <1>3, <2>1 DEF Report, NotAttempted
  <2>4. AtEnd' /\ InOrder'
    <3> HIDE FreshTypes
    <3> QED BY <1>2, <2>1, <2>3 DEF AtEnd, InOrder, Truth, Phases
  <2> QED BY <2>1, <2>2, <2>4 DEF SourceInv, Prepared
<1> QED BY <1>4, <1>5 DEF RunSystemUpgrade, Goto

(* The comparison of two snapshots tells whether pacman changed packages. *)
LEMMA ObservedChange ==
  ASSUME SourceTypes, AtObserve, NEW after \in {Snapshot, Unavailable}
  PROVE  /\ SystemChange(after) \in Changes
         /\ SystemPhase \in changed => SystemChange(after) # "NoChange"
         /\ SystemChange(after) = "Changed" => SystemPhase \in changed
<1>1. before = Unavailable => SystemChange(after) = "Unknown"
  BY DEF SystemChange, Unavailable
<1>2. after = Unavailable => SystemChange(after) = "Unknown"
  BY DEF SystemChange, Unavailable
<1>3. before # Unavailable /\ after = Snapshot =>
        SystemChange(after) = IF before = Snapshot THEN "NoChange" ELSE "Changed"
  BY SnapshotType DEF SystemChange, AtObserve
<1> QED BY <1>1, <1>2, <1>3 DEF AtObserve, Changes

LEMMA ObserveInv == SourceInv /\ ObserveSystem => SourceInv'
<1> SUFFICES ASSUME SourceInv, ObserveSystem PROVE SourceInv'
  OBVIOUS
<1> USE Numbers
<1>0. stage = "observe" /\ SourceTypes /\ AtObserve
  BY DEF ObserveSystem, SourceInv
<1>1. /\ pos' = pos /\ kind' = kind /\ recipe' = recipe /\ before' = before
      /\ baseline' = baseline /\ db' = db /\ other' = other /\ changed' = changed
      /\ replaced' = replaced
  BY DEF ObserveSystem, plan, world
<1>2. /\ result \in Results /\ result.status = "Completed" /\ ~result.blocked
      /\ result.system.status = "Completed"
      /\ result.providers = FreshResult.providers
      /\ result.providers.status = "NotAttempted" /\ result.providers.psc = "NoChange"
      /\ result.sources = FreshResult.sources
      /\ \A i \in Sources : result.sources[i] = NotAttempted
  BY <1>0, TypesOf, FreshTypes DEF AtObserve
<1>3. CASE \E after \in {Snapshot, Unavailable} :
             /\ result' = [result EXCEPT !.system.psc = SystemChange(after)]
             /\ installed' = [i \in Sources |-> db[i].ver]
             /\ Goto("check")
  <2>1. PICK after \in {Snapshot, Unavailable} :
             /\ result' = [result EXCEPT !.system.psc = SystemChange(after)]
             /\ installed' = [i \in Sources |-> db[i].ver]
             /\ stage' = "check"
    BY <1>3 DEF Goto
  <2>2. /\ result' \in Results /\ result'.status = result.status
        /\ result'.blocked = result.blocked /\ result'.system.status = "Completed"
        /\ result'.system.psc = SystemChange(after)
        /\ result'.providers = result.providers /\ result'.sources = result.sources
    <3> SystemChange(after) \in Changes
      BY <1>0, ObservedChange
    <3> QED BY <1>2, <2>1 DEF Results
  <2>3. SourceTypes'
    BY <1>0, <1>1, <2>1, <2>2, SnapshotType DEF SourceTypes, TypeOK, Results, Executing
  <2>4. /\ Report(SystemPhase)' = SystemChange(after)
        /\ Report(ProviderPhase)' = "NoChange"
    BY <1>2, <2>2 DEF Report
  <2>5. Truth(SystemPhase)' /\ Truth(ProviderPhase)'
    BY <1>0, <1>1, <2>4, ObservedChange DEF Truth, AtObserve
  <2>6. InOrder'
    BY <1>0, <1>1 DEF InOrder, AtObserve
  <2>7. \A i \in replaced' : /\ kind'[i] = "repository" /\ installed'[i] # baseline'[i]
                             /\ db'[i].ver = installed'[i]
    BY <1>0, <1>1, <2>1, TypesOf DEF AtObserve
  <2>8. \A i \in Sources : i >= pos' /\ result'.sources[i] = NotAttempted /\ i \notin changed'
    BY <1>0, <1>1, <1>2, <2>2 DEF AtObserve
  <2>9. AmongSources'
    BY <1>0, <1>1, <1>2, <2>1, <2>2, <2>5, <2>7, <2>8 DEF AmongSources, AtObserve, FreshResult
  <2> QED BY <2>1, <2>3, <2>6, <2>9 DEF SourceInv, Prepared
<1>4. CASE \E psc \in {"Unknown", SystemChange(Snapshot)} :
             /\ Stop("StoppedOnSourceFailure",
                     [result EXCEPT !.system.psc = psc, !.blocked = TRUE])
             /\ UNCHANGED installed
  <2>1. PICK psc \in {"Unknown", SystemChange(Snapshot)} :
             /\ result' = [[result EXCEPT !.system.psc = psc, !.blocked = TRUE]
                             EXCEPT !.status = "StoppedOnSourceFailure"]
             /\ installed' = installed /\ stage' = "done"
    BY <1>4 DEF Goto, Stop
  <2>0. /\ psc \in Changes
        /\ SystemPhase \in changed => psc # "NoChange"
        /\ psc = "Changed" => SystemPhase \in changed
    BY <1>0, ObservedChange DEF Changes
  <2>2. /\ result' \in Results /\ result'.status = "StoppedOnSourceFailure"
        /\ result'.system.status = "Completed" /\ result'.system.psc = psc
        /\ result'.providers = result.providers /\ result'.sources = result.sources
    BY <1>2, <2>0, <2>1 DEF Results
  <2>3. SourceTypes'
    BY <1>0, <1>1, <2>1, <2>2 DEF SourceTypes, TypeOK, Results
  <2>4. /\ Report(SystemPhase)' = psc /\ Report(ProviderPhase)' = "NoChange"
        /\ \A i \in Sources : Report(i)' = "NoChange"
    BY <1>2, <2>2 DEF Report, NotAttempted
  <2>5. AtEnd' /\ InOrder'
    BY <1>0, <1>1, <2>0, <2>2, <2>4 DEF AtEnd, InOrder, Truth, Phases, AtObserve
  <2> QED BY <2>1, <2>3, <2>5 DEF SourceInv, Prepared
<1> QED BY <1>3, <1>4 DEF ObserveSystem

(* When the stages among the sources end, what was reported of each phase  *)
(* stays.  s is what is reported last of one source, or of none.           *)
LEMMA EndsAmong ==
  ASSUME SourceInv, AmongSources, NEW did \in SUBSET Sources,
         SourceTypes', stage' = "done",
         changed' = changed \cup did, did \subseteq {pos}, replaced' = replaced,
         result'.status \in {"StoppedOnSourceFailure", "StoppedAfterSourceCleanupFailure",
                             "InconsistentResult"},
         result'.system = result.system,
         ProviderPhase \in changed' => result'.providers.psc # "NoChange",
         result'.providers.psc = "Changed" => ProviderPhase \in changed',
         \A i \in Sources : i # pos => result'.sources[i].psc = result.sources[i].psc,
         \A i \in Sources : i < pos => result'.sources[i] = result.sources[i],
         \A i \in Sources : i = pos =>
            /\ i \in changed' => result'.sources[i].psc # "NoChange"
            /\ result'.sources[i].psc = "Changed" => i \in changed'
  PROVE  SourceInv'
<1> USE Numbers
<1>0. SourceTypes /\ pos \in Nat
  BY TypesOf DEF SourceInv
<1>1. Truth(SystemPhase)'
  BY Reports DEF AmongSources, Truth, Report
<1>5. Truth(ProviderPhase)'
  BY DEF Truth, Report
<1>2. ASSUME NEW i \in Sources PROVE Truth(i)'
  <2>1. CASE i = pos
    BY <2>1 DEF Truth, Report
  <2>2. CASE i # pos
    <3>1. Report(i)' = Report(i) /\ (i \in changed' <=> i \in changed)
      BY <2>2 DEF Report
    <3>2. Truth(i)
      <4>1. CASE i < pos
        BY <4>1 DEF AmongSources, Settled
      <4>2. CASE i >= pos
        <5>1. result.sources[i] = NotAttempted /\ i \notin changed
          BY <4>2 DEF AmongSources
        <5>2. Report(i) = "NoChange"
          BY <5>1, Reports, NotAttemptedFields
        <5> QED BY <5>1, <5>2 DEF Truth
      <4>3. i < pos \/ i >= pos
        BY <1>0
      <4> QED BY <4>1, <4>2, <4>3
    <3> QED BY <3>1, <3>2 DEF Truth
  <2> QED BY <2>1, <2>2
<1>3. AtEnd'
  BY <1>1, <1>2, <1>5 DEF AtEnd, Phases, AmongSources
<1>4. InOrder'
  <2> SUFFICES ASSUME NEW j \in changed' \cap Sources, NEW i \in 1..(j - 1)
               PROVE  /\ result'.system.status = "Completed"
                      /\ result'.sources[i].status \in Unblocked
    BY <1>0 DEF InOrder, AmongSources
  <2>1. j <= pos /\ i \in Sources /\ i < pos
    BY <1>0 DEF AmongSources, Sources
  <2> QED BY <2>1 DEF AmongSources, Settled
<1> QED BY <1>3, <1>4 DEF SourceInv, Prepared

LEMMA CheckInv == SourceInv /\ CheckInstalledVersions => SourceInv'
<1> SUFFICES ASSUME SourceInv, CheckInstalledVersions PROVE SourceInv'
  OBVIOUS
<1> USE Numbers
<1>0. stage = "check" /\ SourceTypes /\ AmongSources /\ result \in Results
  BY TypesOf DEF CheckInstalledVersions, SourceInv
<1>1. /\ pos' = pos /\ kind' = kind /\ recipe' = recipe /\ before' = before
      /\ baseline' = baseline /\ installed' = installed /\ db' = db /\ other' = other
      /\ changed' = changed /\ replaced' = replaced
  BY DEF CheckInstalledVersions, plan, world, seen
<1>2. CASE stage' = "providers" /\ result' = result
  <2>1. SourceTypes'
    BY <1>0, <1>1, <1>2 DEF SourceTypes, TypeOK, Executing
  <2>2. AmongSources' /\ InOrder'
    BY <1>0, <1>1, <1>2 DEF AmongSources, SourceInv, InOrder, Truth, Report, Settled, Rebuilt
  <2> QED BY <1>2, <2>1, <2>2 DEF SourceInv, Prepared
<1>3. CASE \E i \in Sources :
             Stop("StoppedOnSourceFailure",
                  [result EXCEPT !.blocked = TRUE, !.sources[i].status = "Incomplete"])
  <2>1. PICK i \in Sources :
          /\ stage' = "done"
          /\ result' = [[result EXCEPT !.blocked = TRUE, !.sources[i].status = "Incomplete"]
                          EXCEPT !.status = "StoppedOnSourceFailure"]
    BY <1>3 DEF Stop, Goto
  <2>2. [result.sources[i] EXCEPT !.status = "Incomplete"] \in SourceResults
    BY <1>0 DEF Results, SourceResults, SourceStatuses
  <2>3. /\ result' \in Results /\ result'.status = "StoppedOnSourceFailure"
        /\ result'.system = result.system /\ result'.providers = result.providers
        /\ \A j \in Sources : result'.sources[j].psc = result.sources[j].psc
    BY <1>0, <2>1, <2>2 DEF Results, SourceResults
  <2>4. SourceTypes'
    BY <1>0, <1>1, <2>1, <2>3 DEF SourceTypes, TypeOK, Results
  <2>6. /\ ProviderPhase \in changed' => result'.providers.psc # "NoChange"
        /\ result'.providers.psc = "Changed" => ProviderPhase \in changed'
    BY <1>0, <1>1, <2>3 DEF AmongSources, Truth, Report
  <2>7. /\ pos = 1 /\ \A j \in Sources : ~(j < pos)
        /\ \A j \in Sources : result.sources[j] = NotAttempted /\ j \notin changed
    BY <1>0 DEF AmongSources
  <2>8. \A j \in Sources : j \notin changed' /\ result'.sources[j].psc = "NoChange"
    BY <1>1, <2>3, <2>7, NotAttemptedFields
  <2>9. changed' = changed \cup {} /\ {} \in SUBSET Sources
    BY <1>1
  <2> QED BY <1>0, <1>1, <2>1, <2>3, <2>4, <2>6, <2>7, <2>8, <2>9, EndsAmong
<1> QED BY <1>2, <1>3 DEF CheckInstalledVersions, Goto

LEMMA ProvidersInv == SourceInv /\ RunProviders => SourceInv'
<1> SUFFICES ASSUME SourceInv, RunProviders PROVE SourceInv'
  OBVIOUS
<1> USE Numbers
<1>0. /\ stage = "providers" /\ SourceTypes /\ AmongSources /\ result \in Results
      /\ pos = 1 /\ changed \subseteq {SystemPhase} /\ other \in Versions
  BY TypesOf DEF RunProviders, SourceInv, AmongSources
<1>1. /\ pos' = pos /\ kind' = kind /\ recipe' = recipe /\ before' = before
      /\ baseline' = baseline /\ installed' = installed /\ db' = db
      /\ replaced' = replaced
  BY DEF RunProviders, plan, world, seen
<1>2. /\ other' \in Versions
      /\ \/ changed' = changed
         \/ changed' = changed \cup {ProviderPhase} /\ result'.providers.psc = "Unknown"
      /\ \/ stage' = "source" /\ result' = result /\ changed' = changed
         \/ /\ stage' = "source"
            /\ result' = [result EXCEPT !.providers =
                             [status |-> "Succeeded", psc |-> "Unknown"]]
         \/ /\ stage' = "done"
            /\ \E p \in {[status |-> "Failed", psc |-> "Unknown"],
                         [status |-> "BlockedBeforeExecution", psc |-> "NoChange"]} :
                 result' = [[result EXCEPT !.providers = p]
                              EXCEPT !.status = "StoppedOnSourceFailure"]
  <2>1. CASE Goto("source") /\ UNCHANGED <<world, result>>
    BY <1>0, <2>1 DEF Goto, world
  <2>2. CASE Stop("StoppedOnSourceFailure",
                  [result EXCEPT !.providers =
                     [status |-> "BlockedBeforeExecution", psc |-> "NoChange"]])
             /\ UNCHANGED world
    BY <1>0, <2>2 DEF Goto, world, Stop
  <2>3. CASE /\ \/ changed' = changed \cup {ProviderPhase} /\ other' \in Versions
                \/ UNCHANGED <<changed, other>>
             /\ \/ /\ result' = [result EXCEPT !.providers =
                                    [status |-> "Succeeded", psc |-> "Unknown"]]
                   /\ Goto("source")
                \/ Stop("StoppedOnSourceFailure",
                        [result EXCEPT !.providers =
                           [status |-> "Failed", psc |-> "Unknown"]])
    <3>1. /\ other' \in Versions
          /\ changed' = changed \/ changed' = changed \cup {ProviderPhase}
      BY <1>0, <2>3
    <3>2. CASE /\ result' = [result EXCEPT !.providers =
                                [status |-> "Succeeded", psc |-> "Unknown"]]
               /\ stage' = "source"
      <4>1. result'.providers.psc = "Unknown"
        BY <1>0, <3>2 DEF Results
      <4> QED BY <3>1, <3>2, <4>1
    <3>3. CASE /\ result' = [[result EXCEPT !.providers =
                                [status |-> "Failed", psc |-> "Unknown"]]
                                EXCEPT !.status = "StoppedOnSourceFailure"]
               /\ stage' = "done"
      <4>1. result'.providers.psc = "Unknown"
        BY <1>0, <3>3 DEF Results
      <4> QED BY <3>1, <3>3, <4>1
    <3> QED BY <2>3, <3>2, <3>3 DEF Goto, Stop
  <2> QED BY <2>1, <2>2, <2>3 DEF RunProviders
<1>3. /\ result' \in Results /\ result'.system = result.system
      /\ result'.sources = result.sources /\ result'.blocked = result.blocked
      /\ result'.providers.psc # "Changed"
      /\ stage' = "source" => /\ result'.status = result.status
                              /\ result'.providers.status \in {"NotAttempted", "Succeeded"}
      /\ stage' = "done" => result'.status = "StoppedOnSourceFailure"
  <2>0. result.status = "Completed" /\ result.providers = FreshResult.providers
    BY <1>0 DEF AmongSources
  <2>1. CASE result' = result /\ stage' = "source"
    BY <1>0, <2>0, <2>1, FreshTypes
  <2>2. CASE /\ stage' = "source"
             /\ result' = [result EXCEPT !.providers =
                             [status |-> "Succeeded", psc |-> "Unknown"]]
    BY <1>0, <2>0, <2>2 DEF Results, Changes
  <2>3. CASE /\ stage' = "done"
             /\ \E p \in {[status |-> "Failed", psc |-> "Unknown"],
                         [status |-> "BlockedBeforeExecution", psc |-> "NoChange"]} :
                 result' = [[result EXCEPT !.providers = p]
                              EXCEPT !.status = "StoppedOnSourceFailure"]
    <3>1. PICK p \in {[status |-> "Failed", psc |-> "Unknown"],
                      [status |-> "BlockedBeforeExecution", psc |-> "NoChange"]} :
             result' = [[result EXCEPT !.providers = p]
                          EXCEPT !.status = "StoppedOnSourceFailure"]
      BY <2>3
    <3>2. p.psc # "Changed"
          /\ p \in [status : {"NotAttempted", "Succeeded", "Failed",
                             "BlockedBeforeExecution"}, psc : Changes]
      BY DEF Changes
    <3>3. /\ result' \in Results /\ result'.providers = p
          /\ result'.status = "StoppedOnSourceFailure"
          /\ result'.system = result.system /\ result'.sources = result.sources
          /\ result'.blocked = result.blocked
      BY <1>0, <3>1, <3>2 DEF Results
    <3> QED BY <2>3, <3>2, <3>3
  <2> QED BY <1>2, <2>1, <2>2, <2>3
<1>4. SourceTypes'
  BY <1>0, <1>1, <1>2, <1>3, TypesOf DEF SourceTypes, TypeOK, Results, Executing, Phases
<1>5. Truth(ProviderPhase)' /\ changed' \subseteq {SystemPhase, ProviderPhase}
  BY <1>0, <1>2, <1>3 DEF Truth, Report
<1>6. Truth(SystemPhase)' /\ \A i \in Sources : Truth(i)'
  BY <1>0, <1>3, <1>5, <1>2 DEF AmongSources, Truth, Report, NotAttempted
<1>7. InOrder'
  BY <1>5 DEF InOrder
<1>8. CASE stage' = "source"
  <2>1. AmongSources'
    BY <1>0, <1>1, <1>3, <1>5, <1>6, <1>8 DEF AmongSources
  <2> QED BY <1>4, <1>7, <1>8, <2>1 DEF SourceInv, Prepared
<1>9. CASE stage' = "done"
  <2>1. AtEnd'
    BY <1>0, <1>3, <1>5, <1>6, <1>9 DEF AtEnd, Phases, AmongSources
  <2> QED BY <1>4, <1>7, <1>9, <2>1 DEF SourceInv, Prepared
<1> QED BY <1>2, <1>8, <1>9

(* What an installation does to the database, and that it is not needed.   *)
Worked(i, did) == IF did THEN Install(i) ELSE UNCHANGED world

LEMMA WorkedFacts ==
  ASSUME SourceTypes, NEW i \in Sources, NEW did \in BOOLEAN, Worked(i, did)
  PROVE  /\ db' \in Databases /\ other' = other /\ replaced' = replaced
         /\ changed' = IF did THEN changed \cup {i} ELSE changed
         /\ did => db'[i].origin = "source"
         /\ ~did => db' = db
         /\ \A j \in Sources : j # i => db'[j] = db[j]
<1>1. CASE did
  <2>1. Install(i) /\ db \in Databases /\ recipe[i] \in Versions
    BY <1>1, TypesOf DEF Worked
  <2> DEFINE v == IF recipe[i] = NoVersion THEN MaxVer ELSE recipe[i]
  <2>2. v \in Versions
    BY <2>1, Numbers
  <2> HIDE DEF v
  <2>3. /\ db' = [db EXCEPT ![i] = [ver |-> v, origin |-> "source"]]
        /\ changed' = changed \cup {i} /\ other' = other /\ replaced' = replaced
    BY <2>1 DEF Install, v
  <2> QED BY <1>1, <2>1, <2>2, <2>3 DEF Databases
<1>2. CASE ~did
  BY <1>2, TypesOf DEF Worked, world
<1> QED BY <1>1, <1>2

(* A source ends the invocation. *)
LEMMA SourceStops ==
  ASSUME SourceInv, stage = "source", pos <= N, UNCHANGED <<plan, seen>>,
         NEW did \in BOOLEAN, Worked(pos, did),
         NEW s \in SourceResults, NEW b \in BOOLEAN,
         NEW st \in {"StoppedOnSourceFailure", "StoppedAfterSourceCleanupFailure"},
         did => s.psc # "NoChange", s.psc = "Changed" => did,
         stage' = "done", pos' = pos,
         result' = [[[result EXCEPT !.sources[pos] = s] EXCEPT !.blocked = b]
                      EXCEPT !.status = st]
  PROVE  SourceInv'
<1> USE Numbers
<1>1. SourceTypes /\ AmongSources /\ pos \in Sources /\ result \in Results
  BY TypesOf DEF SourceInv, Sources
<1>2. /\ kind' = kind /\ recipe' = recipe /\ before' = before
      /\ baseline' = baseline /\ installed' = installed
  BY DEF plan, seen
<1>3. /\ result' \in Results /\ result'.status = st /\ result'.system = result.system
      /\ result'.providers = result.providers /\ result'.sources[pos] = s
      /\ \A j \in Sources : j # pos => result'.sources[j] = result.sources[j]
  BY <1>1 DEF Results
<1>4. /\ db' \in Databases /\ other' = other /\ replaced' = replaced
      /\ changed' = IF did THEN changed \cup {pos} ELSE changed
  BY <1>1, WorkedFacts
<1>5. SourceTypes'
  BY <1>1, <1>2, <1>3, <1>4 DEF SourceTypes, TypeOK, Results, Databases, Phases
<1>6. /\ ProviderPhase \in changed' => result'.providers.psc # "NoChange"
      /\ result'.providers.psc = "Changed" => ProviderPhase \in changed'
  BY <1>1, <1>3, <1>4, Reports DEF AmongSources, Truth
<1>7. pos \notin changed
  BY <1>1 DEF AmongSources
<1>8. PICK d \in SUBSET Sources : d = IF did THEN {pos} ELSE {}
  BY <1>1
<1>9. changed' = changed \cup d /\ d \subseteq {pos}
  BY <1>4, <1>8
<1>10. \A i \in Sources : i = pos =>
            /\ i \in changed' => result'.sources[i].psc # "NoChange"
            /\ result'.sources[i].psc = "Changed" => i \in changed'
  BY <1>3, <1>4, <1>7
<1>11. /\ \A i \in Sources : i # pos => result'.sources[i].psc = result.sources[i].psc
       /\ \A i \in Sources : i < pos => result'.sources[i] = result.sources[i]
  BY <1>1, <1>3
<1> HIDE Numbers
<1> QED BY <1>1, <1>3, <1>4, <1>5, <1>6, <1>9, <1>10, <1>11, EndsAmong

(* A source is done with and the next one follows. *)
LEMMA SourceContinues ==
  ASSUME SourceInv, stage = "source", pos <= N, UNCHANGED <<plan, seen>>,
         NEW did \in BOOLEAN, Worked(pos, did),
         NEW s \in SourceResults, s.status \in Unblocked,
         did => s.psc # "NoChange", s.psc = "Changed" => did,
         pos \in replaced /\ s.status # "Incomplete" /\ ~did => db[pos].ver > recipe[pos],
         stage' = stage, pos' = pos + 1,
         result' = [result EXCEPT !.sources[pos] = s]
  PROVE  SourceInv'
<1> USE Numbers
<1>1. /\ SourceTypes /\ AmongSources /\ InOrder /\ pos \in Sources /\ result \in Results
      /\ pos \in Nat
  BY TypesOf DEF SourceInv, Sources
<1>2. /\ kind' = kind /\ recipe' = recipe /\ before' = before
      /\ baseline' = baseline /\ installed' = installed
  BY DEF plan, seen
<1>3. /\ result' \in Results /\ result'.status = result.status
      /\ result'.system = result.system /\ result'.blocked = result.blocked
      /\ result'.providers = result.providers /\ result'.sources[pos] = s
      /\ \A j \in Sources : j # pos => result'.sources[j] = result.sources[j]
  BY <1>1, ResultFields
<1>4. /\ db' \in Databases /\ other' = other /\ replaced' = replaced
      /\ changed' = IF did THEN changed \cup {pos} ELSE changed
      /\ did => db'[pos].origin = "source"
      /\ ~did => db' = db
      /\ \A j \in Sources : j # pos => db'[j] = db[j]
  BY <1>1, WorkedFacts
<1>5. SourceTypes'
  <2>1. pos' \in 1..(N + 1) /\ changed' \subseteq Phases
    BY <1>1, <1>4, TypesOf DEF Phases
  <2> QED BY <1>1, <1>2, <1>3, <1>4, <2>1 DEF SourceTypes, TypeOK, Results, Databases, Phases
<1>6. pos \notin changed
  BY <1>1 DEF AmongSources
<1>7. Truth(SystemPhase)' /\ Truth(ProviderPhase)'
  BY <1>1, <1>3, <1>4 DEF AmongSources, Truth, Report
<1>8. ASSUME NEW i \in Sources, i < pos' PROVE Settled(i)'
  <2>1. CASE i = pos
    <3>1. Truth(i)'
      BY <1>3, <1>4, <1>6, <2>1 DEF Truth, Report
    <3>2. i \in replaced' /\ result'.sources[i].status # "Incomplete" => Rebuilt(i)'
      BY <1>2, <1>3, <1>4, <2>1 DEF Rebuilt
    <3> QED BY <1>3, <2>1, <3>1, <3>2 DEF Settled
  <2>2. CASE i # pos
    <3>1. i < pos /\ Settled(i)
      BY <1>1, <1>8, <2>2 DEF AmongSources
    <3>2. /\ result'.sources[i] = result.sources[i] /\ db'[i] = db[i]
          /\ i \in changed' <=> i \in changed
          /\ recipe'[i] = recipe[i] /\ replaced' = replaced
      BY <1>2, <1>3, <1>4, <2>2
    <3> QED BY <3>1, <3>2 DEF Settled, Truth, Report, Rebuilt
  <2> QED BY <2>1, <2>2
<1>9. \A i \in Sources : i >= pos' => i # pos /\ i >= pos
  BY <1>1
<1>10. \A i \in Sources : i >= pos' => result'.sources[i] = NotAttempted /\ i \notin changed'
  BY <1>1, <1>3, <1>4, <1>9 DEF AmongSources
<1>11. \A i \in replaced' : /\ kind'[i] = "repository" /\ installed'[i] # baseline'[i]
                            /\ i >= pos' => db'[i].ver = installed'[i]
  BY <1>1, <1>2, <1>4, <1>9, TypesOf DEF AmongSources
<1>12. AmongSources'
  BY <1>1, <1>3, <1>7, <1>8, <1>10, <1>11 DEF AmongSources
<1>13. InOrder'
  <2> SUFFICES ASSUME NEW j \in changed' \cap Sources, NEW i \in 1..(j - 1)
               PROVE  /\ result'.system.status = "Completed"
                      /\ result'.sources[i].status \in Unblocked
    BY <1>1, <1>3 DEF InOrder, AmongSources
  <2>1. j <= pos /\ i \in Sources /\ i < pos
    BY <1>1, <1>4 DEF AmongSources, Sources
  <2> QED BY <1>1, <1>3, <2>1 DEF AmongSources, Settled
<1> QED BY <1>5, <1>12, <1>13 DEF SourceInv, Prepared

LEMMA SourceResultTypes ==
  ASSUME NEW st \in SourceStatuses, NEW psc \in Changes
  PROVE  /\ [status |-> st, psc |-> psc] \in SourceResults
         /\ [status |-> st, psc |-> psc].status = st
         /\ [status |-> st, psc |-> psc].psc = psc
BY DEF SourceResults

LEMMA RecordStops ==
  ASSUME SourceInv, stage = "source", pos <= N, UNCHANGED <<plan, seen>>,
         NEW did \in BOOLEAN, Worked(pos, did),
         NEW e \in SourceStatuses, NEW psc \in Changes,
         NEW st \in {"StoppedOnSourceFailure", "StoppedAfterSourceCleanupFailure"},
         did => psc # "NoChange", psc = "Changed" => did,
         StopAt(st, Record(pos, e, psc))
  PROVE  SourceInv'
<1> PICK s \in SourceResults : s = [status |-> e, psc |-> psc]
  BY SourceResultTypes
<1>0. s.psc = psc
  BY SourceResultTypes
<1>1. SourceTypes /\ pos \in Sources
  BY TypesOf DEF SourceInv, Sources
<1> DEFINE r == [result EXCEPT !.sources[pos] = s]
<1>2. r \in Results /\ r.blocked = result.blocked /\ result.blocked \in BOOLEAN
  BY <1>1, ResultFields, TypesOf DEF Results
<1>3. stage' = "done" /\ pos' = pos /\ result' = [r EXCEPT !.status = st]
  BY DEF StopAt, Stop, Goto, Record
<1> HIDE DEF r
<1>4. [r EXCEPT !.blocked = result.blocked] = r
  BY <1>2 DEF Results
<1>5. result' = [[r EXCEPT !.blocked = result.blocked] EXCEPT !.status = st]
  BY <1>3, <1>4
<1>6. result' = [[[result EXCEPT !.sources[pos] = s] EXCEPT !.blocked = result.blocked]
                    EXCEPT !.status = st]
  BY <1>5 DEF r
<1> QED BY <1>0, <1>2, <1>3, <1>6, SourceStops

LEMMA CacheStops ==
  ASSUME SourceInv, stage = "source", pos <= N, UNCHANGED <<plan, seen>>,
         UNCHANGED world, CacheFails(pos)
  PROVE  SourceInv'
<1> PICK s \in SourceResults : s = [status |-> "Failed", psc |-> "Unknown"]
  BY SourceResultTypes DEF SourceStatuses, Changes
<1>0. s.psc = "Unknown" /\ Worked(pos, FALSE)
  BY DEF Worked
<1>1. /\ stage' = "done" /\ pos' = pos
      /\ result' = [[[result EXCEPT !.sources[pos] = s] EXCEPT !.blocked = TRUE]
                      EXCEPT !.status = "StoppedOnSourceFailure"]
  BY DEF CacheFails, StopAt, Stop, Goto, Record
<1> QED BY <1>0, <1>1, SourceStops

LEMMA RecordContinues ==
  ASSUME SourceInv, stage = "source", pos <= N, UNCHANGED <<plan, seen>>,
         NEW did \in BOOLEAN, Worked(pos, did),
         NEW e \in Unblocked, NEW psc \in Changes,
         did => psc # "NoChange", psc = "Changed" => did,
         pos \in replaced /\ e # "Incomplete" /\ ~did => db[pos].ver > recipe[pos],
         NextSource(Record(pos, e, psc))
  PROVE  SourceInv'
<1> PICK s \in SourceResults : s = [status |-> e, psc |-> psc]
  BY SourceResultTypes DEF Unblocked, SourceStatuses
<1>0. s.psc = psc /\ s.status = e
  BY SourceResultTypes DEF Unblocked, SourceStatuses
<1>1. stage' = stage /\ pos' = pos + 1 /\ result' = [result EXCEPT !.sources[pos] = s]
  BY DEF NextSource, Record
<1> QED BY <1>0, <1>1, SourceContinues

(* A package that pacman replaced counts as up to date only when the       *)
(* repository is ahead of the recipe.                                      *)
LEMMA UpToDateIsNewer ==
  ASSUME SourceTypes, AmongSources, pos \in Sources, "UpToDate" \in UpdateChecks(pos),
         pos \in replaced
  PROVE  db[pos].ver > recipe[pos]
<1>1. /\ kind[pos] = "repository" /\ installed[pos] # baseline[pos]
      /\ db[pos].ver = installed[pos]
  BY Numbers, TypesOf DEF AmongSources
<1>2. CheckUpdateVersion(recipe[pos], installed[pos], baseline[pos]) = "UpToDate"
  BY <1>1 DEF UpdateChecks
<1>3. installed[pos] \in Nat /\ recipe[pos] \in Nat /\ baseline[pos] \in Nat
  BY TypesOf, Numbers
<1> QED BY <1>1, <1>2, <1>3 DEF CheckUpdateVersion

LEMMA ExecuteInv == SourceInv /\ ExecuteSource => SourceInv'
<1> SUFFICES ASSUME SourceInv, ExecuteSource PROVE SourceInv'
  OBVIOUS
<1>0. /\ stage = "source" /\ pos <= N /\ SourceTypes /\ AmongSources /\ pos \in Sources
      /\ UNCHANGED <<plan, seen>>
  BY TypesOf DEF ExecuteSource, SourceInv, Sources
<1>1. /\ Install(pos) => Worked(pos, TRUE)
      /\ UNCHANGED world => Worked(pos, FALSE)
  BY DEF Worked
<1> USE DEF SourceStatuses, Changes, Unblocked
<1>2. CASE SkipSource(pos) /\ UNCHANGED world
  <2>1. PICK check \in UpdateChecks(pos) :
       \/ /\ check = "UpToDate"
          /\ NextSource(Record(pos, "NoChange", "NoChange"))
       \/ /\ check \in {"Unknown", "RequiresCheck"}
          /\ NextSource(Record(pos, "Incomplete", "NoChange"))
       \/ /\ check = "NotAuthoritative"
          /\ StopAt("StoppedOnSourceFailure", Record(pos, "Incomplete", "NoChange"))
    BY <1>2 DEF SkipSource
  <2>2. CASE check = "UpToDate" /\ NextSource(Record(pos, "NoChange", "NoChange"))
    <3>1. pos \in replaced => db[pos].ver > recipe[pos]
      BY <1>0, <2>2, UpToDateIsNewer
    <3> QED BY <1>0, <1>1, <1>2, <2>2, <3>1, RecordContinues
  <2>3. CASE NextSource(Record(pos, "Incomplete", "NoChange"))
    BY <1>0, <1>1, <1>2, <2>3, RecordContinues
  <2>4. CASE StopAt("StoppedOnSourceFailure", Record(pos, "Incomplete", "NoChange"))
    BY <1>0, <1>1, <1>2, <2>4, RecordStops
  <2> QED BY <2>1, <2>2, <2>3, <2>4
<1>3. CASE BuildInstalls(pos)
  BY <1>0, <1>1, <1>3, RecordContinues, RecordStops
     DEF BuildInstalls, CorrelationFails, CleanupFails, SourceFails
<1>4. CASE BuildFails(pos)
  BY <1>0, <1>1, <1>4, RecordStops, CacheStops
     DEF BuildFails, PhaseFails, GuardFails, OtherwiseFails, SourceFails
<1>5. CASE InstallFails(pos)
  BY <1>0, <1>1, <1>5, RecordStops DEF InstallFails, SourceFails
<1>6. CASE AuthoritativeIncomplete(pos)
  BY <1>0, <1>1, <1>6, RecordStops DEF AuthoritativeIncomplete
<1> QED BY <1>2, <1>3, <1>4, <1>5, <1>6 DEF ExecuteSource

LEMMA SourcesDoneInv == SourceInv /\ AllSourcesDone => SourceInv'
<1> SUFFICES ASSUME SourceInv, AllSourcesDone PROVE SourceInv'
  OBVIOUS
<1> USE Numbers
<1>0. stage = "source" /\ pos > N /\ SourceTypes /\ AmongSources /\ InOrder /\ pos \in Nat
  BY TypesOf DEF AllSourcesDone, SourceInv
<1>1. /\ stage' = "done" /\ pos' = pos /\ kind' = kind /\ recipe' = recipe /\ db' = db
      /\ other' = other /\ changed' = changed /\ replaced' = replaced /\ before' = before
      /\ baseline' = baseline /\ installed' = installed /\ result' = result
  BY DEF AllSourcesDone, Goto, plan, world, seen
<1>2. SourceTypes'
  BY <1>0, <1>1 DEF SourceTypes, TypeOK
<1>3. \A i \in Sources : Settled(i)
  BY <1>0 DEF AmongSources
<1>4. AtEnd
  <2>1. replaced \subseteq Sources
    BY <1>0, TypesOf
  <2> QED BY <1>0, <1>3, <2>1 DEF AtEnd, Phases, AmongSources, Settled
<1>5. AtEnd' /\ InOrder'
  BY <1>0, <1>1, <1>4 DEF AtEnd, InOrder, Truth, Report, Rebuilt
<1> QED BY <1>1, <1>2, <1>5 DEF SourceInv, Prepared

LEMMA UnexpectedInv == SourceInv /\ UnexpectedFailure => SourceInv'
<1> SUFFICES ASSUME SourceInv, UnexpectedFailure PROVE SourceInv'
  OBVIOUS
<1> USE Numbers
<1>0. stage \in Executing /\ SourceTypes /\ result \in Results /\ pos \in Nat
  BY TypesOf DEF UnexpectedFailure, SourceInv
<1>1. PICK active \in BOOLEAN :
       result' = [result EXCEPT
          !.status = "InconsistentResult",
          !.system = IF stage = "system"
                     THEN [status |-> "Failed", psc |-> "Unknown"]
                     ELSE IF stage = "observe" THEN [result.system EXCEPT !.psc = "Unknown"]
                     ELSE result.system,
          !.sources = [i \in Sources |->
             IF active /\ stage = "source" /\ i = pos /\ @[i].status = "NotAttempted"
             THEN [status |-> "Incomplete", psc |-> "Unknown"] ELSE @[i]]]
  BY DEF UnexpectedFailure
<1> DEFINE first == IF stage = "system"
                  THEN [status |-> "Failed", psc |-> "Unknown"]
                  ELSE IF stage = "observe" THEN [result.system EXCEPT !.psc = "Unknown"]
                  ELSE result.system
           ss == [i \in Sources |->
             IF active /\ stage = "source" /\ i = pos /\ result.sources[i].status = "NotAttempted"
             THEN [status |-> "Incomplete", psc |-> "Unknown"] ELSE result.sources[i]]
<1>2. /\ first \in [status : {"NotAttempted", "Completed", "Failed"}, psc : Changes]
      /\ stage = "system" => first.status = "Failed" /\ first.psc = "Unknown"
      /\ stage = "observe" => first.status = result.system.status /\ first.psc = "Unknown"
      /\ stage \notin {"system", "observe"} => first = result.system
  BY <1>0 DEF Results, Changes
<1>3. /\ ss \in [Sources -> SourceResults]
      /\ \A i \in Sources : (stage # "source" \/ i # pos) => ss[i] = result.sources[i]
      /\ \A i \in Sources : ss[i] # result.sources[i] => ss[i].psc = "Unknown"
  BY <1>0 DEF Results, Changes, SourceResults, SourceStatuses
<1>4. result' = [result EXCEPT !.status = "InconsistentResult", !.system = first, !.sources = ss]
  BY <1>1
<1> HIDE DEF first, ss
<1>5. /\ result'.status = "InconsistentResult" /\ result'.system = first
      /\ result'.providers = result.providers /\ result'.sources = ss
      /\ result' \in Results
  BY <1>0, <1>2, <1>3, <1>4 DEF Results
<1>6. /\ stage' = "done" /\ pos' = pos /\ kind' = kind /\ recipe' = recipe /\ db' = db
      /\ other' = other /\ changed' = changed /\ replaced' = replaced /\ before' = before
      /\ baseline' = baseline /\ installed' = installed
  BY DEF UnexpectedFailure, Goto, plan, world, seen
<1>7. SourceTypes'
  BY <1>0, <1>5, <1>6 DEF SourceTypes, TypeOK, Results
<1>8. CASE stage \in {"system", "observe"}
  <2>1. /\ changed \subseteq {SystemPhase} /\ result.providers.psc = "NoChange"
        /\ stage = "system" => changed = {}
        /\ stage = "observe" => result.system.status = "Completed"
        /\ \A i \in Sources : result.sources[i].psc = "NoChange"
    BY <1>8, FreshTypes, NotAttemptedFields, TypesOf
       DEF SourceInv, BeforeSystem, AtObserve, FreshResult
  <2>2. /\ Report(SystemPhase)' = "Unknown" /\ Report(ProviderPhase)' = "NoChange"
        /\ \A i \in Sources : Report(i)' = "NoChange"
    BY <1>2, <1>3, <1>5, <1>8, <2>1 DEF Report
  <2>3. AtEnd' /\ InOrder'
    BY <1>2, <1>5, <1>6, <1>8, <2>1, <2>2 DEF AtEnd, InOrder, Truth, Phases
  <2> QED BY <1>6, <1>7, <2>3 DEF SourceInv, Prepared
<1>9. CASE stage \in {"check", "providers", "source"}
  <2>0. AmongSources
    BY <1>9 DEF SourceInv
  <2>1. /\ ProviderPhase \in changed' => result'.providers.psc # "NoChange"
        /\ result'.providers.psc = "Changed" => ProviderPhase \in changed'
    BY <2>0, <1>5, <1>6, Reports DEF AmongSources, Truth
  <2>2. ASSUME NEW i \in Sources, i = pos
        PROVE  i \notin changed' /\ result'.sources[i].psc # "Changed"
    <3>1. result.sources[i] = NotAttempted /\ i \notin changed
      BY <1>0, <2>0, <2>2 DEF AmongSources
    <3> QED BY <1>3, <1>5, <1>6, <3>1, NotAttemptedFields
  <2>3. /\ \A i \in Sources : i # pos => result'.sources[i].psc = result.sources[i].psc
        /\ \A i \in Sources : i < pos => result'.sources[i] = result.sources[i]
    <3>1. ASSUME NEW i \in Sources, i # pos PROVE result'.sources[i] = result.sources[i]
      BY <1>3, <1>5, <3>1
    <3>2. \A i \in Sources : i < pos => i # pos
      BY <1>0
    <3> QED BY <3>1, <3>2
  <2>4. result'.system = result.system
    BY <1>2, <1>5, <1>9
  <2>5. changed' = changed \cup {} /\ {} \in SUBSET Sources /\ {} \subseteq {pos}
    BY <1>6
  <2> HIDE Numbers
  <2> QED BY <1>5, <1>6, <1>7, <2>0, <2>1, <2>2, <2>3, <2>4, <2>5, EndsAmong
<1> QED BY <1>0, <1>8, <1>9 DEF Executing

LEMMA SourceNextInv == SourceInv /\ Next => SourceInv'
<1> SUFFICES ASSUME SourceInv, Next PROVE SourceInv'
  OBVIOUS
<1>1. CASE ConfirmationStops
  BY <1>1, StoppedInv DEF ConfirmationStops, Goto
<1> QED BY <1>1, PreparationInv, BaselineInv, BeginInv, SystemInv, ObserveInv, CheckInv,
          ProvidersInv, ExecuteInv, SourcesDoneInv, UnexpectedInv DEF Next

-----------------------------------------------------------------------------
(* The AUR work items *)

Items == DOMAIN items
ProviderStatuses == {"NotRequired", "BlockedBeforeExecution", "Succeeded", "Failed"}
Executions ==
  [status : InvocationStatuses, phase : {"BootstrapDecisions", "WorkItems"},
   providers : [status : ProviderStatuses, psc : {"NoChange", "Unknown"}],
   items : [Items -> ItemResults]]
Waiting == {"NotAttempted", "BootstrapSkipped"}
Done == {"Updated", "NoChange", "BootstrapSkipped"}
Installing == {"Installed", "InstalledCleanupFailed"}

AurTypes ==
  /\ items \in PreparedItems /\ interactive \in BOOLEAN /\ wanted \in BOOLEAN
  /\ auStage \in {"idle", "decide", "activate", "providers", "items",
                  "returned", "cancelled", "cacheError", "stopped"}
  /\ auPos \in 1..(Len(items) + 1)
  /\ aur \in Executions
  /\ aurChanged \subseteq {0} \cup Items

(* An item tells why it failed and how its children ended. *)
ItemOK(r) ==
  /\ HasConsistentFailureKind(r) /\ FailurePayloadIsConsistent(r)
  /\ WorkItemChildOutcomesAreConsistent(r)

(* What is kept of an item tells whether it changed packages; r is its     *)
(* result and did whether it did.                                          *)
Honest(r, did) ==
  /\ did => \/ \E c \in Children : r.children[c] \in Installing
            \/ r.txn \/ r.op \in {"Succeeded", "Failed", "OutcomeUnknown"}
  /\ (\E c \in Children : r.children[c] \in Installing) => did
  /\ r.status \in {"NoChange", "NotAttempted", "BootstrapSkipped"} => ~did

(* Decisions are taken first; after them exactly the items that nobody     *)
(* wants any more are skipped.                                             *)
Deciding ==
  /\ aur.phase = "BootstrapDecisions" /\ aurChanged = {} /\ aur.providers = NotRequired
  /\ \A k \in Items :
       /\ aur.items[k].decision # "None" => items[k].bootstrap
       /\ aur.items[k].status = "BootstrapSkipped" <=>
             aur.items[k].decision \notin {"None", "Accepted"}

Working ==
  /\ aur.phase = "WorkItems"
  /\ \A k \in Items :
       /\ aur.items[k].decision # "None" <=> items[k].bootstrap
       /\ aur.items[k].status = "BootstrapSkipped" <=> k \notin Executed

Untried ==
  /\ aur.status = "Completed" /\ aur.providers = NotRequired /\ aurChanged = {}
  /\ auPos = 1
  /\ \A k \in Items : aur.items[k].status \in Waiting

InProgress ==
  /\ aur.status = "Completed" /\ ProviderSuccess(aur.providers)
  /\ \A k \in Items : /\ k < auPos => aur.items[k].status \in Done
                      /\ k >= auPos => aur.items[k].status \in Waiting

(* The ways in which the runner ends. *)
DecisionCancelled ==
  /\ Deciding /\ aur.status = "StoppedOnWorkItemCancellation"
  /\ \E t \in Items :
       /\ aur.items[t].status = "Cancelled" /\ aur.items[t].decision = "None"
       /\ \A k \in Items : k # t => aur.items[k].status \in Waiting

AllDone ==
  /\ Working /\ aur.status = "Completed" /\ ProviderSuccess(aur.providers)
  /\ \A k \in Items : aur.items[k].status \in Done

ProvidersFailed ==
  /\ Working /\ aur.status = "StoppedOnProviderTransactionFailure"
  /\ aur.providers.status \in {"Failed", "BlockedBeforeExecution"}
  /\ \A k \in Items : aur.items[k].status \in Waiting

StatusOf(end) ==
  CASE end = "Cancelled" -> "StoppedOnWorkItemCancellation"
    [] end = "Failed" -> "StoppedOnWorkItemFailure"
    [] OTHER -> "StoppedAfterPackageCleanupFailure"

ItemStopped ==
  /\ Working /\ ProviderSuccess(aur.providers)
  /\ \E t \in Items :
       /\ aur.items[t].status \in Terminal /\ aur.status = StatusOf(aur.items[t].status)
       /\ \A k \in Items : /\ k < t => aur.items[k].status \in Done
                           /\ k > t => aur.items[k].status \in Waiting

AurOrder ==
  \A j \in aurChanged \ {0} :
     /\ ProviderSuccess(aur.providers)
     /\ j \in Executed
     /\ \A k \in 1..(j - 1) : aur.items[k].status \in Done

AurInv ==
  /\ AurTypes
  /\ \A k \in Items : ItemOK(aur.items[k]) /\ Honest(aur.items[k], k \in aurChanged)
  /\ 0 \in aurChanged => aur.providers.psc = "Unknown"
  /\ AurOrder
  /\ auStage = "idle" => aur = FreshExecution(items) /\ aurChanged = {} /\ auPos = 1
  /\ auStage = "decide" => Deciding /\ Untried
  /\ auStage \in {"activate", "providers"} => Working /\ Untried
  /\ auStage = "items" => Working /\ InProgress
  /\ auStage = "returned" => AllDone \/ ProvidersFailed \/ ItemStopped
  /\ auStage = "cancelled" => DecisionCancelled \/ ItemStopped

LEMMA ItemFacts ==
  ASSUME items \in PreparedItems
  PROVE  /\ Len(items) \in Nat /\ Len(items) \in 1..MaxItems /\ Items = 1..Len(items)
         /\ \A k \in Items :
              /\ items[k].roots # {} /\ items[k].roots \subseteq Items
              /\ items[k].bootstrap \in BOOLEAN /\ items[k].devel \in BOOLEAN
              /\ \A r \in items[k].roots : r >= k /\ r \in items[r].roots
              /\ items[k].bootstrap => items[k].roots = {k}
<1>1. PICK n \in 1..MaxItems :
        items \in [1..n -> [roots : (SUBSET (1..n)) \ {{}}, bootstrap : BOOLEAN,
                            devel : BOOLEAN]]
  BY DEF PreparedItems
<1>2. n \in Nat /\ Len(items) = n /\ Items = 1..n
  BY <1>1, ExecutionAssumption DEF Items
<1>3. \A k \in Items :
         /\ \A r \in items[k].roots : r >= k /\ r \in items[r].roots
         /\ items[k].bootstrap => items[k].devel /\ items[k].roots = {k}
  BY DEF PreparedItems, Items
<1>4. ASSUME NEW k \in Items
      PROVE  /\ items[k].roots # {} /\ items[k].roots \subseteq Items
             /\ items[k].bootstrap \in BOOLEAN /\ items[k].devel \in BOOLEAN
  <2>1. items[k] \in [roots : (SUBSET (1..n)) \ {{}}, bootstrap : BOOLEAN, devel : BOOLEAN]
    BY <1>1, <1>2
  <2>2. items[k].roots \in (SUBSET (1..n)) \ {{}}
    BY <2>1
  <2>3. items[k].bootstrap \in BOOLEAN /\ items[k].devel \in BOOLEAN
    BY <2>1
  <2>4. items[k].roots # {} /\ items[k].roots \subseteq Items
    BY <1>2, <2>2
  <2> QED BY <2>3, <2>4
<1> QED BY <1>2, <1>3, <1>4

LEMMA FreshItem ==
  /\ NotAttemptedItem \in ItemResults
  /\ NotAttemptedItem.status = "NotAttempted"
  /\ NotAttemptedItem.kind = "PriorWorkItemStopped"
  /\ NotAttemptedItem.decision = "None" /\ NotAttemptedItem.op = "None"
  /\ ~NotAttemptedItem.txn /\ ~NotAttemptedItem.cancelled
  /\ \A c \in Children : NotAttemptedItem.children[c] = "NotAttempted"
BY DEF NotAttemptedItem, ItemResults, All, ItemStatuses, Kinds, ChildStatuses, Decisions,
       Operations

LEMMA FreshItemOK == ItemOK(NotAttemptedItem) /\ Honest(NotAttemptedItem, FALSE)
<1>1. /\ HasConsistentFailureKind(NotAttemptedItem)
      /\ FailurePayloadIsConsistent(NotAttemptedItem)
  BY FreshItem DEF HasConsistentFailureKind, FailurePayloadIsConsistent
<1>2. WorkItemChildOutcomesAreConsistent(NotAttemptedItem)
  BY FreshItem DEF WorkItemChildOutcomesAreConsistent, AllowedChildren
<1>3. Honest(NotAttemptedItem, FALSE)
  BY FreshItem DEF Honest, Installing
<1> QED BY <1>1, <1>2, <1>3 DEF ItemOK

LEMMA FreshExecutionFacts ==
  /\ FreshExecution(items) \in Executions
  /\ FreshExecution(items).status = "Completed" /\ FreshExecution(items).phase = "WorkItems"
  /\ FreshExecution(items).providers = NotRequired
  /\ \A k \in Items : FreshExecution(items).items[k] = NotAttemptedItem
BY FreshItem DEF FreshExecution, Executions, Items, InvocationStatuses, NotRequired,
                 ProviderStatuses

LEMMA AurInitInv == AurInit => AurInv
<1> SUFFICES ASSUME AurInit PROVE AurInv
  OBVIOUS
<1>1. AurTypes
  BY ItemFacts, FreshExecutionFacts DEF AurInit, AurTypes
<1>2. \A k \in Items : ItemOK(aur.items[k]) /\ Honest(aur.items[k], k \in aurChanged)
  <2> SUFFICES ASSUME NEW k \in Items
               PROVE  ItemOK(aur.items[k]) /\ Honest(aur.items[k], k \in aurChanged)
    OBVIOUS
  <2>1. aur.items[k] = NotAttemptedItem /\ (k \in aurChanged) = FALSE
    BY FreshExecutionFacts DEF AurInit
  <2> QED BY <2>1, FreshItemOK
<1> QED BY <1>1, <1>2 DEF AurInit, AurInv, AurOrder

LEMMA ExecutedKept ==
  ASSUME items' = items, \A k \in Items : aur'.items[k].decision = aur.items[k].decision
  PROVE  Executed' = Executed
<1>1. Bootstraps' = Bootstraps /\ Bootstraps \subseteq Items
  BY DEF Bootstraps, Items
<1>2. {i \in Bootstraps' : aur'.items[i].decision # "Accepted"} =
      {i \in Bootstraps : aur.items[i].decision # "Accepted"}
  BY <1>1
<1>3. SkippedRoots' = SkippedRoots
  BY <1>2 DEF SkippedRoots
<1> QED BY <1>3 DEF Executed

(* A package that is built for itself is skipped when its trial was not    *)
(* accepted.                                                               *)
LEMMA BootstrapExecuted ==
  ASSUME items \in PreparedItems, NEW k \in Items, items[k].bootstrap
  PROVE  k \in Executed <=> aur.items[k].decision = "Accepted"
<1>1. items[k].roots = {k} /\ \A j \in Bootstraps : j \in Items /\ items[j].roots = {j}
  BY ItemFacts DEF Bootstraps, Items
<1>2. k \in SkippedRoots <=> aur.items[k].decision # "Accepted"
  BY <1>1 DEF SkippedRoots, Bootstraps, Items
<1> QED BY <1>1, <1>2 DEF Executed, Items

(* Every set of numbers has a least one. *)
LEMMA LeastNumber ==
  ASSUME NEW S \in SUBSET Nat, S # {}
  PROVE  \E n \in S : \A j \in S : n <= j
<1> DEFINE R == {ss \in Nat \X Nat : ss[1] < ss[2]}
<1>1. IsWellFoundedOn(R, Nat)
  BY NatLessThanWellFounded DEF OpToRel
<1> HIDE DEF R
<1>2. PICK n \in S : \A j \in S : ~(<<j, n>> \in R)
  BY <1>1, WFMin
<1>3. \A j \in S : ~(j < n)
  BY <1>2 DEF R
<1> QED BY <1>2, <1>3

LEMMA AurTypeFacts ==
  ASSUME AurInv
  PROVE  /\ aur \in Executions /\ items \in PreparedItems /\ Items = 1..Len(items)
         /\ Len(items) \in Nat /\ auPos \in Nat /\ Items \subseteq Nat /\ 0 \notin Items
         /\ \A k \in Items : aur.items[k] \in ItemResults
BY ItemFacts DEF AurInv, AurTypes, Executions

(* The stages before the work items. *)
LEMMA StartInv == AurInv /\ StartExecution => AurInv'
<1> SUFFICES ASSUME AurInv, StartExecution PROVE AurInv'
  OBVIOUS
<1>1. /\ auStage = "idle" /\ aur = FreshExecution(items) /\ aurChanged = {} /\ auPos = 1
      /\ aur \in Executions
  BY AurTypeFacts DEF StartExecution, AurInv
<1>2. /\ items' = items /\ interactive' = interactive /\ wanted' = wanted
      /\ auPos' = auPos /\ aurChanged' = {} /\ Items' = Items
      /\ PreparedItems' = PreparedItems
  BY <1>1 DEF StartExecution, aurInput, Items, PreparedItems
<1>3. /\ aur' \in Executions /\ aur'.status = "Completed" /\ aur'.providers = NotRequired
      /\ aur'.items = aur.items
      /\ aur'.phase = IF Bootstraps = {} THEN "WorkItems" ELSE "BootstrapDecisions"
      /\ auStage' = IF Bootstraps = {} THEN "activate" ELSE "decide"
  BY <1>1, FreshExecutionFacts DEF StartExecution, Executions
<1>4. \A k \in Items : aur.items[k] = NotAttemptedItem
  BY <1>1, FreshExecutionFacts
<1>5. AurTypes'
  <2>1. Executions' = Executions
    BY <1>2 DEF Executions
  <2> QED BY <1>1, <1>2, <1>3, <2>1 DEF AurTypes, AurInv
<1>6. \A k \in Items : ItemOK(aur'.items[k]) /\ Honest(aur'.items[k], k \in aurChanged')
  <2> SUFFICES ASSUME NEW k \in Items
               PROVE  ItemOK(aur'.items[k]) /\ Honest(aur'.items[k], k \in aurChanged')
    OBVIOUS
  <2>1. aur'.items[k] = NotAttemptedItem /\ (k \in aurChanged') = FALSE
    BY <1>2, <1>3, <1>4
  <2> QED BY <2>1, FreshItemOK
<1>7. Untried'
  BY <1>1, <1>2, <1>3, <1>4, FreshItem DEF Untried, Waiting
<1>8. CASE Bootstraps # {}
  <2>1. Deciding'
    BY <1>2, <1>3, <1>4, <1>8, FreshItem DEF Deciding
  <2> QED BY <1>2, <1>3, <1>5, <1>6, <1>7, <1>8, <2>1 DEF AurInv, AurOrder
<1>9. CASE Bootstraps = {}
  <2>1. Executed' = Executed
    BY <1>2, <1>3, ExecutedKept
  <2>2. Executed = Items
    <3>1. SkippedRoots = {}
      BY <1>9 DEF SkippedRoots
    <3>2. \A k \in Items : items[k].roots # {}
      BY ItemFacts DEF AurInv, AurTypes
    <3> QED BY <3>1, <3>2 DEF Executed, Items
  <2>3. \A k \in Items : ~items[k].bootstrap
    BY <1>9 DEF Bootstraps, Items
  <2>4. Working'
    BY <1>2, <1>3, <1>4, <1>9, <2>1, <2>2, <2>3, FreshItem DEF Working
  <2> QED BY <1>2, <1>3, <1>5, <1>6, <1>7, <1>9, <2>4 DEF AurInv, AurOrder
<1> QED BY <1>8, <1>9

(* A step that only moves on. *)
LEMMA AurCarried ==
  ASSUME AurInv, UNCHANGED <<aurInput, auPos, aur, aurChanged>>,
         auStage' \in {"activate", "providers", "items", "returned", "cancelled",
                       "cacheError", "stopped"}
  PROVE  /\ AurTypes' /\ Items' = Items /\ AurOrder'
         /\ \A k \in Items' : ItemOK(aur'.items[k]) /\ Honest(aur'.items[k], k \in aurChanged')
         /\ 0 \in aurChanged' => aur'.providers.psc = "Unknown"
         /\ Working => Working'
         /\ Untried => Untried'
         /\ InProgress => InProgress'
         /\ AllDone => AllDone'
<1>1. /\ items' = items /\ interactive' = interactive /\ wanted' = wanted
      /\ auPos' = auPos /\ aur' = aur /\ aurChanged' = aurChanged /\ Items' = Items
      /\ PreparedItems' = PreparedItems
  BY DEF aurInput, Items, PreparedItems
<1>2. Executed' = Executed
  BY <1>1, ExecutedKept
<1>3. Executions' = Executions
  BY <1>1 DEF Executions
<1>4. AurTypes'
  BY <1>1, <1>3 DEF AurInv, AurTypes
<1>5. AurOrder'
  BY <1>1, <1>2 DEF AurInv, AurOrder
<1>6. \A k \in Items' : ItemOK(aur'.items[k]) /\ Honest(aur'.items[k], k \in aurChanged')
  BY <1>1 DEF AurInv
<1>7. Working => Working'
  BY <1>1, <1>2 DEF Working
<1>8. (Untried => Untried') /\ (InProgress => InProgress')
  BY <1>1 DEF Untried, InProgress
<1>9. AllDone => AllDone'
  BY <1>1, <1>7 DEF AllDone
<1> QED BY <1>1, <1>4, <1>5, <1>6, <1>7, <1>8, <1>9 DEF AurInv

LEMMA ActivateInv == AurInv /\ ActivateCache => AurInv'
<1> SUFFICES ASSUME AurInv, ActivateCache PROVE AurInv'
  OBVIOUS
<1>1. /\ auStage = "activate" /\ Working /\ Untried
      /\ UNCHANGED <<aurInput, auPos, aur, aurChanged>>
  BY DEF ActivateCache, AurInv
<1>2. \/ auStage' = "providers" \/ auStage' = "cacheError"
      \/ auStage' = "returned" /\ Executed = {}
  BY DEF ActivateCache, CacheError
<1>3. Executed = {} => AllDone
  BY <1>1 DEF Working, Untried, AllDone, ProviderSuccess, NotRequired, Done
<1>4. /\ AurTypes' /\ Items' = Items /\ AurOrder'
      /\ \A k \in Items' : ItemOK(aur'.items[k]) /\ Honest(aur'.items[k], k \in aurChanged')
      /\ 0 \in aurChanged' => aur'.providers.psc = "Unknown"
      /\ Working' /\ Untried' /\ (AllDone => AllDone')
  BY <1>1, <1>2, AurCarried
<1> QED BY <1>2, <1>3, <1>4 DEF AurInv

LEMMA ItemsDoneInv == AurInv /\ AllItemsDone => AurInv'
<1> SUFFICES ASSUME AurInv, AllItemsDone PROVE AurInv'
  OBVIOUS
<1>1. /\ auStage = "items" /\ auPos > Len(items) /\ Working /\ InProgress
      /\ UNCHANGED <<aurInput, auPos, aur, aurChanged>> /\ auStage' = "returned"
  BY DEF AllItemsDone, AurInv
<1>2. AllDone
  <2>1. \A k \in Items : k < auPos
    BY <1>1, AurTypeFacts
  <2> QED BY <1>1, <2>1 DEF InProgress, AllDone
<1>4. /\ AurTypes' /\ Items' = Items /\ AurOrder'
      /\ \A k \in Items' : ItemOK(aur'.items[k]) /\ Honest(aur'.items[k], k \in aurChanged')
      /\ 0 \in aurChanged' => aur'.providers.psc = "Unknown"
      /\ AllDone'
  BY <1>1, <1>2, AurCarried
<1> QED BY <1>1, <1>4 DEF AurInv

LEMMA ProvidersAurInv == AurInv /\ ExecuteProviders => AurInv'
<1> SUFFICES ASSUME AurInv, ExecuteProviders PROVE AurInv'
  OBVIOUS
<1>0. /\ auStage = "providers" /\ Working /\ Untried /\ aur \in Executions
      /\ items' = items /\ interactive' = interactive /\ wanted' = wanted
      /\ auPos' = auPos /\ aurChanged = {}
  BY AurTypeFacts DEF ExecuteProviders, AurInv, aurInput, Untried
<1>1. CASE /\ auStage' \in {"items", "cacheError"} /\ UNCHANGED <<aur, aurChanged>>
  <2>1. /\ AurTypes' /\ Items' = Items /\ AurOrder'
        /\ \A k \in Items' : ItemOK(aur'.items[k]) /\ Honest(aur'.items[k], k \in aurChanged')
        /\ 0 \in aurChanged' => aur'.providers.psc = "Unknown"
        /\ Working' /\ (InProgress => InProgress')
    BY <1>0, <1>1, AurCarried DEF aurInput
  <2>2. InProgress
    BY <1>0, AurTypeFacts DEF Untried, InProgress, ProviderSuccess, NotRequired
  <2> QED BY <1>1, <2>1, <2>2 DEF AurInv
<1>2. CASE \E p \in [status : {"BlockedBeforeExecution", "Succeeded", "Failed"},
                     psc : {"NoChange", "Unknown"}],
             st \in {"Completed", "StoppedOnProviderTransactionFailure"} :
             /\ aur' = [aur EXCEPT !.providers = p, !.status = st]
             /\ auStage' = IF st = "Completed" THEN "items" ELSE "returned"
             /\ p.status = "Succeeded" <=> st = "Completed"
             /\ aurChanged' \subseteq {0}
             /\ aurChanged' # {} => p.psc = "Unknown"
  <2>1. PICK p \in [status : {"BlockedBeforeExecution", "Succeeded", "Failed"},
                     psc : {"NoChange", "Unknown"}],
             st \in {"Completed", "StoppedOnProviderTransactionFailure"} :
             /\ aur' = [aur EXCEPT !.providers = p, !.status = st]
             /\ auStage' = IF st = "Completed" THEN "items" ELSE "returned"
             /\ p.status = "Succeeded" <=> st = "Completed"
             /\ aurChanged' \subseteq {0}
             /\ aurChanged' # {} => p.psc = "Unknown"
    BY <1>2
  <2>2. /\ aur' \in Executions /\ aur'.status = st /\ aur'.providers = p
        /\ aur'.items = aur.items /\ aur'.phase = aur.phase
    BY <1>0, <2>1 DEF Executions, InvocationStatuses, ProviderStatuses
  <2>3. Items' = Items /\ PreparedItems' = PreparedItems
    BY <1>0 DEF Items, PreparedItems
  <2>4. Executed' = Executed
    BY <1>0, <2>2, ExecutedKept
  <2>5. AurTypes'
    <3>1. Executions' = Executions
      BY <2>3 DEF Executions
    <3> QED BY <1>0, <2>1, <2>2, <2>3, <3>1 DEF AurTypes, AurInv
  <2>6. \A k \in Items' : ItemOK(aur'.items[k]) /\ Honest(aur'.items[k], k \in aurChanged')
    <3> SUFFICES ASSUME NEW k \in Items
                 PROVE  ItemOK(aur'.items[k]) /\ Honest(aur'.items[k], k \in aurChanged')
      BY <2>3
    <3>1. (k \in aurChanged') = FALSE /\ (k \in aurChanged) = FALSE
      BY <1>0, <2>1, AurTypeFacts
    <3> QED BY <2>2, <3>1 DEF AurInv
  <2>7. AurOrder' /\ (0 \in aurChanged' => aur'.providers.psc = "Unknown")
    BY <2>1, <2>2 DEF AurOrder
  <2>8. Working'
    BY <1>0, <2>2, <2>3, <2>4 DEF Working
  <2>9. CASE st = "Completed"
    <3>1. InProgress'
      BY <1>0, <2>1, <2>2, <2>3, <2>9, AurTypeFacts DEF Untried, InProgress, ProviderSuccess
    <3> QED BY <2>1, <2>5, <2>6, <2>7, <2>8, <2>9, <3>1 DEF AurInv
  <2>10. CASE st # "Completed"
    <3>1. ProvidersFailed'
      BY <1>0, <2>1, <2>2, <2>3, <2>8, <2>10 DEF Untried, ProvidersFailed
    <3> QED BY <2>1, <2>5, <2>6, <2>7, <2>10, <3>1 DEF AurInv
  <2> QED BY <2>9, <2>10
<1>3. CASE /\ aur' = [aur EXCEPT !.providers = ProviderResult("BlockedBeforeExecution"),
                                 !.status = "StoppedOnProviderTransactionFailure"]
           /\ auStage' = "returned" /\ UNCHANGED aurChanged
  <2>1. ProviderResult("BlockedBeforeExecution") =
          [status |-> "BlockedBeforeExecution", psc |-> "NoChange"]
    BY DEF ProviderResult
  <2> QED BY <1>0, <1>2, <1>3, <2>1
<1>4. CASE /\ aurChanged' \in {aurChanged, aurChanged \cup {0}}
           /\ aur' = [aur EXCEPT !.providers = ProviderResult("Succeeded")]
           /\ auStage' = "items"
  <2>1. ProviderResult("Succeeded") = [status |-> "Succeeded", psc |-> "Unknown"]
    BY DEF ProviderResult
  <2>2. aur' = [aur EXCEPT !.providers = [status |-> "Succeeded", psc |-> "Unknown"],
                           !.status = "Completed"]
    BY <1>0, <1>4, <2>1 DEF Untried, Executions
  <2>3. PICK p \in [status : {"BlockedBeforeExecution", "Succeeded", "Failed"},
                   psc : {"NoChange", "Unknown"}] :
          p = [status |-> "Succeeded", psc |-> "Unknown"]
    OBVIOUS
  <2>4. p.status = "Succeeded" /\ p.psc = "Unknown"
    BY <2>3
  <2>5. aurChanged' \subseteq {0}
    BY <1>0, <1>4
  <2> QED BY <1>2, <1>4, <2>2, <2>3, <2>4, <2>5
<1>5. CASE /\ aurChanged' \in {aurChanged, aurChanged \cup {0}}
           /\ aur' = [aur EXCEPT !.providers = ProviderResult("Failed"),
                                 !.status = "StoppedOnProviderTransactionFailure"]
           /\ auStage' = "returned"
  <2>1. ProviderResult("Failed") = [status |-> "Failed", psc |-> "Unknown"]
    BY DEF ProviderResult
  <2>3. PICK p \in [status : {"BlockedBeforeExecution", "Succeeded", "Failed"},
                   psc : {"NoChange", "Unknown"}] :
          p = [status |-> "Failed", psc |-> "Unknown"]
    OBVIOUS
  <2>4. p.status = "Failed" /\ p.psc = "Unknown"
    BY <2>3
  <2>5. aurChanged' \subseteq {0}
    BY <1>0, <1>5
  <2> QED BY <1>2, <1>5, <2>1, <2>3, <2>4, <2>5
<1> QED BY <1>1, <1>3, <1>4, <1>5 DEF ExecuteProviders, CacheError

(* What becomes of an item that was not tried. *)
LEMMA WaitingItem ==
  ASSUME NEW r \in ItemResults, ItemOK(r), r.status \in Waiting
  PROVE  /\ ~r.cancelled /\ ~r.txn
         /\ r.status = "NotAttempted" => /\ r.kind = "PriorWorkItemStopped"
                                         /\ \A c \in Children : r.children[c] = "NotAttempted"
         /\ r.status = "BootstrapSkipped" =>
              \A c \in Children : r.children[c] = "BootstrapSkipped"
<1>1. ~r.cancelled /\ ~r.txn
  BY DEF ItemOK, Waiting, HasConsistentFailureKind, FailurePayloadIsConsistent
<1>2. \A c \in Children : r.children[c] \in AllowedChildren(r.status)
  BY DEF ItemOK, Waiting, WorkItemChildOutcomesAreConsistent, RetainsInstall
<1>3. r.status = "NotAttempted" => r.kind = "PriorWorkItemStopped"
  BY DEF ItemOK, HasConsistentFailureKind
<1> QED BY <1>1, <1>2, <1>3 DEF AllowedChildren, Waiting

LEMMA AcceptOK ==
  ASSUME NEW r \in ItemResults, ItemOK(r), r.status = "NotAttempted", NEW d \in Decisions
  PROVE  LET q == [r EXCEPT !.decision = d] IN
         /\ q \in ItemResults /\ ItemOK(q) /\ Honest(q, FALSE)
         /\ q.status = "NotAttempted" /\ q.decision = d
<1> DEFINE q == [r EXCEPT !.decision = d]
<1>1. /\ q \in ItemResults /\ q.status = r.status /\ q.decision = d
      /\ q.kind = r.kind /\ q.children = r.children /\ q.txn = r.txn /\ q.op = r.op
      /\ q.cancelled = r.cancelled
  BY DEF ItemResults
<1> HIDE DEF q
<1>2. ItemOK(q)
  BY <1>1 DEF ItemOK, HasConsistentFailureKind, FailurePayloadIsConsistent,
              WorkItemChildOutcomesAreConsistent, RetainsInstall
<1>3. \A c \in Children : q.children[c] = "NotAttempted"
  BY <1>1, WaitingItem DEF Waiting
<1>4. Honest(q, FALSE)
  BY <1>3 DEF Honest, Installing
<1> QED BY <1>1, <1>2, <1>4 DEF q

LEMMA SkipOK ==
  ASSUME NEW r \in ItemResults, ItemOK(r), r.status \in Waiting
  PROVE  /\ Skip(r) \in ItemResults /\ ItemOK(Skip(r)) /\ Honest(Skip(r), FALSE)
         /\ Skip(r).status = "BootstrapSkipped" /\ Skip(r).decision = r.decision
<1>1. /\ Skip(r) \in ItemResults /\ Skip(r).status = "BootstrapSkipped"
      /\ Skip(r).decision = r.decision /\ Skip(r).kind = "None"
      /\ \A c \in Children : Skip(r).children[c] = "BootstrapSkipped"
      /\ Skip(r).txn = r.txn /\ Skip(r).cancelled = r.cancelled
  BY DEF ItemResults, Skip, All, ItemStatuses, Kinds, ChildStatuses
<1>2. ~r.cancelled /\ ~r.txn
  BY WaitingItem
<1>3. HasConsistentFailureKind(Skip(r)) /\ FailurePayloadIsConsistent(Skip(r))
  BY <1>1, <1>2 DEF HasConsistentFailureKind, FailurePayloadIsConsistent
<1>4. WorkItemChildOutcomesAreConsistent(Skip(r))
  BY <1>1 DEF WorkItemChildOutcomesAreConsistent, AllowedChildren
<1>5. Honest(Skip(r), FALSE)
  BY <1>1 DEF Honest, Installing
<1> QED BY <1>1, <1>3, <1>4, <1>5 DEF ItemOK

LEMMA CancelOK ==
  ASSUME NEW r \in ItemResults, ItemOK(r), r.status = "NotAttempted"
  PROVE  LET q == CancelItem(r) IN
         /\ q \in ItemResults /\ ItemOK(q) /\ Honest(q, FALSE)
         /\ q.status = "Cancelled" /\ q.decision = r.decision
<1> DEFINE q == CancelItem(r)
<1>1. /\ q \in ItemResults /\ q.status = "Cancelled" /\ q.decision = r.decision
      /\ q.kind = "None" /\ q.children = r.children /\ q.txn = r.txn /\ q.cancelled = TRUE
  BY DEF ItemResults, CancelItem, ItemStatuses, Terminal, Kinds
<1> HIDE DEF q
<1>2. ~r.txn /\ \A c \in Children : q.children[c] = "NotAttempted"
  BY <1>1, WaitingItem DEF Waiting
<1>3. HasConsistentFailureKind(q) /\ FailurePayloadIsConsistent(q)
  BY <1>1, <1>2 DEF HasConsistentFailureKind, FailurePayloadIsConsistent
<1>4. WorkItemChildOutcomesAreConsistent(q)
  BY <1>1, <1>2 DEF WorkItemChildOutcomesAreConsistent, AllowedChildren
<1>5. Honest(q, FALSE)
  BY <1>1, <1>2 DEF Honest, Installing
<1> QED BY <1>1, <1>3, <1>4, <1>5 DEF ItemOK, q

(* One item is decided, or the operation is cancelled at its question. *)
LEMMA DecidedInv ==
  ASSUME AurInv, auStage = "decide", UNCHANGED <<aurInput, auPos, aurChanged>>,
         NEW k \in Undecided, NEW r \in ItemResults, ItemOK(r), Honest(r, FALSE),
         NEW st \in InvocationStatuses,
         aur' = [aur EXCEPT !.items[k] = r, !.status = st],
         \/ /\ auStage' = "decide" /\ st = "Completed" /\ r.status \in Waiting
            /\ r.status = "BootstrapSkipped" <=> r.decision \notin {"None", "Accepted"}
         \/ /\ auStage' = "cancelled" /\ st = "StoppedOnWorkItemCancellation"
            /\ r.status = "Cancelled" /\ r.decision = "None"
  PROVE  AurInv'
<1>0. /\ Deciding /\ Untried /\ aur \in Executions /\ k \in Items /\ items[k].bootstrap
      /\ aurChanged = {}
  BY AurTypeFacts DEF AurInv, Undecided, Bootstraps, Items, Untried
<1>1. /\ items' = items /\ interactive' = interactive /\ wanted' = wanted
      /\ auPos' = auPos /\ aurChanged' = {} /\ Items' = Items
      /\ PreparedItems' = PreparedItems
  BY <1>0 DEF aurInput, Items, PreparedItems
<1>2. /\ aur' \in Executions /\ aur'.status = st /\ aur'.providers = aur.providers
      /\ aur'.phase = aur.phase /\ aur'.items[k] = r
      /\ \A j \in Items : j # k => aur'.items[j] = aur.items[j]
  BY <1>0 DEF Executions
<1>3. AurTypes'
  <2>1. Executions' = Executions
    BY <1>1 DEF Executions
  <2> QED BY <1>0, <1>1, <1>2, <2>1 DEF AurTypes, AurInv
<1>4. \A j \in Items' : ItemOK(aur'.items[j]) /\ Honest(aur'.items[j], j \in aurChanged')
  <2> SUFFICES ASSUME NEW j \in Items
               PROVE  ItemOK(aur'.items[j]) /\ Honest(aur'.items[j], j \in aurChanged')
    BY <1>1
  <2>1. (j \in aurChanged') = FALSE /\ (j \in aurChanged) = FALSE
    BY <1>0, <1>1
  <2>2. CASE j = k
    BY <1>2, <2>1, <2>2
  <2>3. CASE j # k
    BY <1>2, <2>1, <2>3 DEF AurInv
  <2> QED BY <2>2, <2>3
<1>5. Deciding'
  BY <1>0, <1>1, <1>2 DEF Deciding
<1>6. AurOrder' /\ 0 \notin aurChanged'
  BY <1>1 DEF AurOrder
<1>7. CASE auStage' = "decide"
  <2>1. Untried'
    BY <1>0, <1>1, <1>2, <1>7 DEF Untried
  <2> QED BY <1>3, <1>4, <1>5, <1>6, <1>7, <2>1 DEF AurInv
<1>8. CASE auStage' = "cancelled"
  <2>1. DecisionCancelled'
    BY <1>0, <1>1, <1>2, <1>5, <1>8 DEF Untried, DecisionCancelled
  <2> QED BY <1>3, <1>4, <1>6, <1>8, <2>1 DEF AurInv
<1> QED BY <1>7, <1>8

LEMMA DecideInv == AurInv /\ DecideBootstrap => AurInv'
<1> SUFFICES ASSUME AurInv, DecideBootstrap PROVE AurInv'
  OBVIOUS
<1>0. /\ auStage = "decide" /\ Undecided # {} /\ UNCHANGED <<aurInput, auPos, aurChanged>>
      /\ Deciding /\ Untried /\ aur \in Executions /\ Undecided \subseteq Items
  BY AurTypeFacts DEF DecideBootstrap, AurInv, Undecided, Bootstraps, Items
<1> DEFINE k == CHOOSE i \in Undecided : \A j \in Undecided : i <= j
<1>1. CASE auStage' = "stopped" /\ UNCHANGED aur
  <2>1. /\ AurTypes' /\ Items' = Items /\ AurOrder'
        /\ \A j \in Items' : ItemOK(aur'.items[j]) /\ Honest(aur'.items[j], j \in aurChanged')
        /\ 0 \in aurChanged' => aur'.providers.psc = "Unknown"
    BY <1>0, <1>1, AurCarried
  <2> QED BY <1>1, <2>1 DEF AurInv
<1>2. k \in Undecided
  <2>1. PICK n \in Undecided : \A j \in Undecided : n <= j
    <3>1. Undecided \subseteq Nat /\ Undecided # {}
      BY <1>0, AurTypeFacts
    <3> QED BY <3>1, LeastNumber
  <2> QED BY <2>1
<1> HIDE DEF k
<1>3. /\ k \in Items /\ aur.items[k] \in ItemResults /\ ItemOK(aur.items[k])
      /\ aur.items[k].decision = "None" /\ aur.items[k].status = "NotAttempted"
  BY <1>0, <1>2, AurTypeFacts DEF Undecided, AurInv, Deciding, Untried, Waiting
<1>4. CASE \E d \in Decisions \ {"None"} : Decide(k, d) /\ auStage' = auStage
  <2>1. PICK d \in Decisions \ {"None"} : Decide(k, d) /\ auStage' = auStage
    BY <1>4
  <2> DEFINE q == [aur.items[k] EXCEPT !.decision = d]
             r == IF d = "Accepted" THEN q ELSE Skip(q)
  <2>2. /\ q \in ItemResults /\ ItemOK(q) /\ Honest(q, FALSE)
        /\ q.status = "NotAttempted" /\ q.decision = d
    BY <1>3, AcceptOK
  <2>3. aur' = [aur EXCEPT !.items[k] = r]
    BY <2>1 DEF Decide
  <2> HIDE DEF q
  <2>4. /\ r \in ItemResults /\ ItemOK(r) /\ Honest(r, FALSE) /\ r.decision = d
        /\ r.status = IF d = "Accepted" THEN "NotAttempted" ELSE "BootstrapSkipped"
    BY <2>2, SkipOK DEF Waiting
  <2> HIDE DEF r
  <2>5. aur' = [aur EXCEPT !.items[k] = r, !.status = "Completed"]
    BY <1>0, <2>3 DEF Untried, Executions
  <2> QED BY <1>0, <1>2, <2>1, <2>4, <2>5, DecidedInv DEF Waiting, InvocationStatuses
<1>5. CASE /\ aur' = [aur EXCEPT !.items[k] = CancelItem(@),
                                 !.status = "StoppedOnWorkItemCancellation"]
           /\ auStage' = "cancelled"
  <2> DEFINE r == CancelItem(aur.items[k])
  <2>1. /\ r \in ItemResults /\ ItemOK(r) /\ Honest(r, FALSE)
        /\ r.status = "Cancelled" /\ r.decision = "None"
    BY <1>3, CancelOK
  <2>2. aur' = [aur EXCEPT !.items[k] = r, !.status = "StoppedOnWorkItemCancellation"]
    BY <1>5
  <2> HIDE DEF r
  <2> QED BY <1>0, <1>2, <1>5, <2>1, <2>2, DecidedInv DEF InvocationStatuses
<1> QED BY <1>1, <1>4, <1>5 DEF DecideBootstrap, Decisions, k

LEMMA FinishInv == AurInv /\ FinishDecisions => AurInv'
<1> SUFFICES ASSUME AurInv, FinishDecisions PROVE AurInv'
  OBVIOUS
<1>0. /\ auStage = "decide" /\ auStage' = "activate" /\ Undecided = {} /\ Deciding /\ Untried
      /\ aur \in Executions /\ items \in PreparedItems
      /\ \A k \in Items : aur.items[k] \in ItemResults /\ ItemOK(aur.items[k])
      /\ aurChanged = {}
  BY AurTypeFacts DEF FinishDecisions, AurInv, Untried
<1>1. /\ items' = items /\ interactive' = interactive /\ wanted' = wanted
      /\ auPos' = auPos /\ aurChanged' = {} /\ Items' = Items
      /\ PreparedItems' = PreparedItems
  BY <1>0 DEF FinishDecisions, aurInput, Items, PreparedItems
<1> DEFINE xs == [k \in Items |-> IF k \in Executed THEN aur.items[k] ELSE Skip(aur.items[k])]
<1>2. aur' = [aur EXCEPT !.phase = "WorkItems", !.items = xs]
  BY DEF FinishDecisions, Items
<1>3. \A k \in Items :
         /\ xs[k] \in ItemResults /\ ItemOK(xs[k])
         /\ xs[k].decision = aur.items[k].decision
         /\ k \in Executed => xs[k] = aur.items[k]
         /\ k \notin Executed => /\ xs[k].status = "BootstrapSkipped"
                                 /\ Honest(xs[k], FALSE)
  BY <1>0, SkipOK DEF Untried
<1>4. xs \in [Items -> ItemResults]
  BY <1>3
<1> HIDE DEF xs
<1>5. /\ aur' \in Executions /\ aur'.status = aur.status /\ aur'.providers = aur.providers
      /\ aur'.phase = "WorkItems" /\ aur'.items = xs
  BY <1>0, <1>2, <1>4 DEF Executions
<1>6. AurTypes'
  <2>1. Executions' = Executions
    BY <1>1 DEF Executions
  <2> QED BY <1>0, <1>1, <1>5, <2>1 DEF AurTypes, AurInv
<1>7. \A j \in Items' : ItemOK(aur'.items[j]) /\ Honest(aur'.items[j], j \in aurChanged')
  <2> SUFFICES ASSUME NEW j \in Items
               PROVE  ItemOK(aur'.items[j]) /\ Honest(aur'.items[j], j \in aurChanged')
    BY <1>1
  <2>1. (j \in aurChanged') = FALSE /\ (j \in aurChanged) = FALSE
    BY <1>0, <1>1
  <2>2. CASE j \in Executed
    BY <1>3, <1>5, <2>1, <2>2 DEF AurInv
  <2>3. CASE j \notin Executed
    BY <1>3, <1>5, <2>1, <2>3
  <2> QED BY <2>2, <2>3
<1>8. Executed' = Executed
  BY <1>1, <1>3, <1>5, ExecutedKept
<1>9. ASSUME NEW k \in Items
      PROVE  /\ aur'.items[k].decision # "None" <=> items[k].bootstrap
             /\ aur'.items[k].status = "BootstrapSkipped" <=> k \notin Executed
             /\ aur'.items[k].status \in Waiting
  <2>1. aur.items[k].decision # "None" <=> items[k].bootstrap
    <3>1. items[k].bootstrap => aur.items[k].decision # "None"
      BY <1>0 DEF Undecided, Bootstraps, Items
    <3>2. aur.items[k].decision # "None" => items[k].bootstrap
      BY <1>0 DEF Deciding
    <3> QED BY <3>1, <3>2
  <2>2. k \in Executed => aur.items[k].status # "BootstrapSkipped"
    <3> SUFFICES ASSUME k \in Executed, aur.items[k].status = "BootstrapSkipped" PROVE FALSE
      OBVIOUS
    <3>1. aur.items[k].decision \notin {"None", "Accepted"}
      BY <1>0 DEF Deciding
    <3>2. items[k].bootstrap
      BY <2>1, <3>1
    <3> QED BY <1>0, <3>1, <3>2, BootstrapExecuted
  <2> QED BY <1>0, <1>3, <1>5, <2>1, <2>2 DEF Untried, Waiting
<1>10. Working'
  BY <1>1, <1>5, <1>8, <1>9 DEF Working
<1>11. Untried'
  BY <1>0, <1>1, <1>5, <1>9 DEF Untried
<1>12. AurOrder' /\ 0 \notin aurChanged'
  BY <1>1 DEF AurOrder
<1> QED BY <1>0, <1>6, <1>7, <1>10, <1>11, <1>12 DEF AurInv

(* One work item ends, in r, and either the next one follows or the        *)
(* invocation stops.                                                       *)
LEMMA ItemEnds ==
  ASSUME AurInv, auStage = "items", auPos \in Items, auPos \in Executed,
         UNCHANGED aurInput, NEW did \in BOOLEAN,
         aurChanged' = (IF did THEN aurChanged \cup {auPos} ELSE aurChanged),
         NEW r \in ItemResults, ItemOK(r), Honest(r, did),
         r.decision = aur.items[auPos].decision,
         \/ /\ aur' = [aur EXCEPT !.items[auPos] = r]
            /\ auStage' = auStage /\ auPos' = auPos + 1 /\ r.status \in {"Updated", "NoChange"}
         \/ /\ aur' = [aur EXCEPT !.items[auPos] = r, !.status = StatusOf(r.status)]
            /\ auStage' \in {"returned", "cancelled"} /\ auPos' = auPos
            /\ r.status \in Terminal
  PROVE  AurInv'
<1>0. /\ Working /\ InProgress /\ aur \in Executions /\ items \in PreparedItems /\ AurOrder
      /\ Items = 1..Len(items) /\ Len(items) \in Nat /\ auPos \in Nat /\ 0 \notin Items
      /\ Items \subseteq Nat /\ aurChanged \subseteq {0} \cup Items
      /\ 0 \in aurChanged => aur.providers.psc = "Unknown"
  BY AurTypeFacts DEF AurInv, AurTypes
<1>1. /\ items' = items /\ interactive' = interactive /\ wanted' = wanted
      /\ Items' = Items /\ PreparedItems' = PreparedItems
  BY DEF aurInput, Items, PreparedItems
<1>2. StatusOf(r.status) \in InvocationStatuses
  BY DEF StatusOf, InvocationStatuses
<1>3. /\ aur' \in Executions /\ aur'.providers = aur.providers
      /\ aur'.phase = aur.phase /\ aur'.items[auPos] = r
      /\ \A j \in Items : j # auPos => aur'.items[j] = aur.items[j]
      /\ auStage' = "items" => aur'.status = aur.status
      /\ auStage' \in {"returned", "cancelled"} => aur'.status = StatusOf(r.status)
  <2> DEFINE st == StatusOf(r.status)
  <2>1. st \in InvocationStatuses
    BY <1>2
  <2> HIDE DEF st
  <2>2. CASE /\ aur' = [aur EXCEPT !.items[auPos] = r] /\ auStage' = "items"
    BY <1>0, <2>2 DEF Executions
  <2>3. CASE /\ aur' = [aur EXCEPT !.items[auPos] = r, !.status = st]
             /\ auStage' \in {"returned", "cancelled"}
    <3>1. /\ aur' \in Executions /\ aur'.providers = aur.providers
          /\ aur'.phase = aur.phase /\ aur'.items[auPos] = r
          /\ \A j \in Items : j # auPos => aur'.items[j] = aur.items[j]
          /\ aur'.status = st
      BY <1>0, <2>1, <2>3 DEF Executions
    <3> QED BY <2>3, <3>1 DEF st
  <2> QED BY <2>2, <2>3 DEF st
<1>4. aurChanged' \subseteq {0} \cup Items
  BY <1>0
<1>5. AurTypes'
  <2>1. Executions' = Executions
    BY <1>1 DEF Executions
  <2>2. auPos' \in 1..(Len(items') + 1)
    BY <1>0, <1>1
  <2> QED BY <1>1, <1>3, <1>4, <2>1, <2>2 DEF AurTypes, AurInv
<1>6. \A j \in Items' : ItemOK(aur'.items[j]) /\ Honest(aur'.items[j], j \in aurChanged')
  <2> SUFFICES ASSUME NEW j \in Items
               PROVE  ItemOK(aur'.items[j]) /\ Honest(aur'.items[j], j \in aurChanged')
    BY <1>1
  <2>1. CASE j = auPos
    <3>1. auPos \notin aurChanged
      BY <1>0 DEF AurInv, InProgress, Honest, Waiting
    <3>2. (j \in aurChanged') = did
      BY <2>1, <3>1
    <3> QED BY <1>3, <2>1, <3>2
  <2>2. CASE j # auPos
    <3>1. (j \in aurChanged') = (j \in aurChanged) /\ aur'.items[j] = aur.items[j]
      BY <1>3, <2>2
    <3> QED BY <3>1 DEF AurInv
  <2> QED BY <2>1, <2>2
<1>7. Executed' = Executed
  <2>1. \A j \in Items : aur'.items[j].decision = aur.items[j].decision
    BY <1>3
  <2> QED BY <1>1, <2>1, ExecutedKept
<1>8. r.status # "BootstrapSkipped"
  BY DEF Terminal
<1>9. Working'
  BY <1>0, <1>1, <1>3, <1>7, <1>8 DEF Working
<1>10. AurOrder'
  <2> SUFFICES ASSUME NEW j \in aurChanged' \ {0}
               PROVE  /\ ProviderSuccess(aur'.providers) /\ j \in Executed
                      /\ \A k \in 1..(j - 1) : aur'.items[k].status \in Done
    BY <1>7 DEF AurOrder
  <2>0. ProviderSuccess(aur'.providers)
    BY <1>0, <1>3 DEF InProgress
  <2>1. CASE j = auPos
    <3>1. ASSUME NEW k \in 1..(j - 1) PROVE aur'.items[k].status \in Done
      <4>1. k \in Items /\ k < auPos /\ k # auPos
        BY <1>0, <2>1
      <4> QED BY <1>0, <1>3, <4>1 DEF InProgress
    <3> QED BY <2>0, <2>1, <3>1
  <2>2. CASE j # auPos
    <3>1. j \in aurChanged \ {0} /\ j \in Items
      BY <1>0, <2>2
    <3>2. aur.items[j].status \notin Waiting /\ j < auPos
      BY <1>0, <3>1, AurTypeFacts DEF AurInv, Honest, InProgress, Waiting
    <3>3. ASSUME NEW k \in 1..(j - 1) PROVE aur'.items[k].status \in Done
      <4>1. k \in Items /\ k < auPos /\ k # auPos
        BY <1>0, <3>1, <3>2
      <4> QED BY <1>0, <1>3, <4>1 DEF InProgress
    <3> QED BY <1>0, <2>0, <3>1, <3>3 DEF AurOrder
  <2> QED BY <2>1, <2>2
<1>11. 0 \in aurChanged' => aur'.providers.psc = "Unknown"
  BY <1>0, <1>3
<1>12. CASE auStage' = "items" /\ auPos' = auPos + 1 /\ r.status \in {"Updated", "NoChange"}
  <2>1. ASSUME NEW k \in Items
        PROVE  /\ k < auPos' => aur'.items[k].status \in Done
               /\ k >= auPos' => aur'.items[k].status \in Waiting
    <3>1. CASE k = auPos
      BY <1>0, <1>3, <1>12, <3>1 DEF Done
    <3>2. CASE k # auPos
      <4>1. (k < auPos' <=> k < auPos) /\ (k >= auPos' <=> k >= auPos)
        BY <1>0, <1>12, <3>2
      <4> QED BY <1>0, <1>3, <3>2, <4>1 DEF InProgress
    <3> QED BY <3>1, <3>2
  <2>2. InProgress'
    BY <1>0, <1>1, <1>3, <1>12, <2>1 DEF InProgress
  <2> QED BY <1>5, <1>6, <1>9, <1>10, <1>11, <1>12, <2>2 DEF AurInv
<1>13. CASE auStage' \in {"returned", "cancelled"} /\ r.status \in Terminal
  <2>1. /\ aur'.items[auPos].status \in Terminal
        /\ aur'.status = StatusOf(aur'.items[auPos].status)
        /\ ProviderSuccess(aur'.providers)
    BY <1>0, <1>3, <1>13 DEF InProgress
  <2>2. ASSUME NEW k \in Items
        PROVE  /\ k < auPos => aur'.items[k].status \in Done
               /\ k > auPos => aur'.items[k].status \in Waiting
    <3>1. (k < auPos => k # auPos) /\ (k > auPos => k # auPos /\ k >= auPos)
      BY <1>0
    <3> QED BY <1>0, <1>3, <3>1 DEF InProgress
  <2>3. ItemStopped'
    BY <1>1, <1>9, <2>1, <2>2 DEF ItemStopped
  <2> QED BY <1>5, <1>6, <1>10, <1>11, <1>13, <2>3 DEF AurInv
<1> QED BY <1>12, <1>13

(* The results of an item. *)
LEMMA FailedOK ==
  ASSUME NEW b \in ItemResults, ItemOK(b), b.status = "NotAttempted",
         NEW r \in ItemResults, r.status = "Failed", r.decision = b.decision,
         r.kind \in {"BuildOrInstallFailed", "AuthoritativeExecutionIncomplete",
                     "UnknownException"},
         r.children = b.children, r.cancelled = b.cancelled,
         r.txn => r.kind = "BuildOrInstallFailed",
         r.kind = "AuthoritativeExecutionIncomplete" => r.op # "None",
         NEW did \in BOOLEAN, did => r.txn \/ r.op \in {"Failed", "OutcomeUnknown"}
  PROVE  ItemOK(r) /\ Honest(r, did)
<1>1. ~b.cancelled /\ \A c \in Children : r.children[c] = "NotAttempted"
  BY WaitingItem DEF Waiting
<1>2. HasConsistentFailureKind(r)
  BY DEF HasConsistentFailureKind
<1>3. FailurePayloadIsConsistent(r)
  BY <1>1 DEF FailurePayloadIsConsistent
<1>4. WorkItemChildOutcomesAreConsistent(r)
  BY <1>1 DEF WorkItemChildOutcomesAreConsistent, AllowedChildren
<1>5. Honest(r, did)
  BY <1>1 DEF Honest, Installing
<1> QED BY <1>2, <1>3, <1>4, <1>5 DEF ItemOK

LEMMA RetainedOK ==
  ASSUME NEW b \in ItemResults, ItemOK(b), b.status = "NotAttempted",
         NEW r \in ItemResults,
         r.children = All("Installed"), r.cancelled = b.cancelled, r.txn = b.txn,
         r.op = "Succeeded",
         \/ r.status = "Failed" /\ r.kind = "AuthoritativeExecutionIncomplete"
         \/ r.status = "Updated" /\ r.kind = "None"
  PROVE  ItemOK(r) /\ Honest(r, TRUE)
<1>1. ~b.cancelled /\ ~b.txn /\ \A c \in Children : r.children[c] = "Installed"
  BY WaitingItem DEF Waiting, All
<1>2. PICK c \in Children : TRUE
  BY ExecutionAssumption
<1>3. HasConsistentFailureKind(r)
  BY DEF HasConsistentFailureKind
<1>4. FailurePayloadIsConsistent(r)
  BY <1>1 DEF FailurePayloadIsConsistent
<1>5. WorkItemChildOutcomesAreConsistent(r)
  BY <1>1, <1>2 DEF WorkItemChildOutcomesAreConsistent, AllowedChildren, RetainsInstall
<1>6. Honest(r, TRUE)
  BY <1>1, <1>2 DEF Honest, Installing
<1> QED BY <1>3, <1>4, <1>5, <1>6 DEF ItemOK

LEMMA PromotedOK ==
  ASSUME NEW k, aur.items[k] \in ItemResults, ItemOK(aur.items[k]),
         aur.items[k].status = "NotAttempted",
         NEW outcome \in [Children -> {"Installed", "SkippedAsNeeded"}], NEW failed \in BOOLEAN
  PROVE  LET r == Promoted(k, outcome, failed) IN
         /\ r \in ItemResults /\ ItemOK(r) /\ Honest(r, Installs(outcome))
         /\ r.decision = aur.items[k].decision
         /\ ~failed => r.status \in {"Updated", "NoChange"}
         /\ failed => r.status \in {"UpdatedCleanupFailed", "NoChangeCleanupFailed"}
<1> DEFINE b == aur.items[k]
           any == Installs(outcome)
           st == IF any THEN IF failed THEN "UpdatedCleanupFailed" ELSE "Updated"
                 ELSE IF failed THEN "NoChangeCleanupFailed" ELSE "NoChange"
           kd == IF failed THEN "CleanupFailedAfterPackageTransaction" ELSE "None"
           ch == [c \in Children |->
                   CASE outcome[c] = "Installed" ->
                        IF failed THEN "InstalledCleanupFailed" ELSE "Installed"
                   [] OTHER -> IF failed THEN "SkippedAsNeededCleanupFailed"
                               ELSE "SkippedAsNeeded"]
           r == Promoted(k, outcome, failed)
<1>1. r = [b EXCEPT !.status = st, !.kind = kd, !.children = ch]
  BY DEF Promoted, Installs
<1>2. \A c \in Children : ch[c] = IF outcome[c] = "Installed"
                                  THEN IF failed THEN "InstalledCleanupFailed" ELSE "Installed"
                                  ELSE IF failed THEN "SkippedAsNeededCleanupFailed"
                                  ELSE "SkippedAsNeeded"
  OBVIOUS
<1>3. /\ ch \in [Children -> ChildStatuses] /\ st \in ItemStatuses /\ kd \in Kinds
  BY DEF ChildStatuses, ItemStatuses, Terminal, Kinds
<1>4. any <=> \E c \in Children : ch[c] \in Installing
  BY <1>2 DEF Installs, Installing
<1>5. /\ any => st = IF failed THEN "UpdatedCleanupFailed" ELSE "Updated"
      /\ ~any => st = IF failed THEN "NoChangeCleanupFailed" ELSE "NoChange"
      /\ kd = IF failed THEN "CleanupFailedAfterPackageTransaction" ELSE "None"
  OBVIOUS
<1> HIDE DEF ch, st, kd, r
<1>6. /\ r \in ItemResults /\ r.status = st /\ r.kind = kd /\ r.children = ch
      /\ r.decision = b.decision /\ r.txn = b.txn /\ r.cancelled = b.cancelled
  BY <1>1, <1>3 DEF ItemResults
<1>7. ~b.cancelled /\ ~b.txn
  BY WaitingItem DEF Waiting
<1> HIDE DEF any
<1>8. HasConsistentFailureKind(r) /\ FailurePayloadIsConsistent(r)
  BY <1>5, <1>6, <1>7 DEF HasConsistentFailureKind, FailurePayloadIsConsistent
<1>9. \A c \in Children : r.children[c] \in AllowedChildren(r.status)
  BY <1>2, <1>4, <1>5, <1>6 DEF AllowedChildren, Installing
<1>10. r.status \in {"Updated", "UpdatedCleanupFailed"} =>
         \E c \in Children : r.children[c] \in {"Installed", "InstalledCleanupFailed"}
  BY <1>4, <1>5, <1>6 DEF Installing
<1>11. WorkItemChildOutcomesAreConsistent(r)
  BY <1>9, <1>10 DEF WorkItemChildOutcomesAreConsistent
<1>12. Honest(r, any)
  BY <1>4, <1>5, <1>6 DEF Honest
<1>13. /\ ~failed => r.status \in {"Updated", "NoChange"}
       /\ failed => r.status \in {"UpdatedCleanupFailed", "NoChangeCleanupFailed"}
  BY <1>5, <1>6
<1> QED BY <1>6, <1>8, <1>11, <1>12, <1>13 DEF ItemOK, r, any

LEMMA PassOverInv ==
  ASSUME AurInv, auStage = "items", auPos \in Items, UNCHANGED aurInput, PassOver(auPos)
  PROVE  AurInv'
<1>0. /\ Working /\ InProgress /\ aur \in Executions /\ items \in PreparedItems
      /\ Items = 1..Len(items) /\ Len(items) \in Nat /\ auPos \in Nat
  BY AurTypeFacts DEF AurInv, AurTypes
<1>1. /\ items' = items /\ interactive' = interactive /\ wanted' = wanted
      /\ Items' = Items /\ PreparedItems' = PreparedItems /\ aurChanged' = aurChanged
      /\ auStage' = "items" /\ auPos' = auPos + 1 /\ auPos \notin Executed
      /\ aur' = [aur EXCEPT !.items[auPos] = aur.items[auPos]]
  BY DEF aurInput, Items, PreparedItems, PassOver, Continue
<1>2. aur' = aur
  BY <1>0, <1>1 DEF Executions
<1>3. Executed' = Executed
  BY <1>1, <1>2, ExecutedKept
<1>4. AurTypes'
  <2>1. Executions' = Executions
    BY <1>1 DEF Executions
  <2>2. auPos' \in 1..(Len(items') + 1)
    BY <1>0, <1>1
  <2> QED BY <1>1, <1>2, <2>1, <2>2 DEF AurTypes, AurInv
<1>5. Working' /\ AurOrder'
  BY <1>0, <1>1, <1>2, <1>3 DEF Working, AurInv, AurOrder
<1>6. \A j \in Items' : ItemOK(aur'.items[j]) /\ Honest(aur'.items[j], j \in aurChanged')
  BY <1>1, <1>2 DEF AurInv
<1>7. InProgress'
  <2>1. ASSUME NEW k \in Items
        PROVE  /\ k < auPos' => aur.items[k].status \in Done
               /\ k >= auPos' => aur.items[k].status \in Waiting
    <3>1. CASE k = auPos
      BY <1>0, <1>1, <3>1 DEF Working, Done
    <3>2. CASE k # auPos
      <4>1. (k < auPos' <=> k < auPos) /\ (k >= auPos' <=> k >= auPos)
        BY <1>0, <1>1, <3>2
      <4> QED BY <1>0, <4>1 DEF InProgress
    <3> QED BY <3>1, <3>2
  <2> QED BY <1>0, <1>1, <1>2, <2>1 DEF InProgress
<1> QED BY <1>1, <1>2, <1>4, <1>5, <1>6, <1>7 DEF AurInv

LEMMA ItemInv == AurInv /\ ExecuteItem => AurInv'
<1> SUFFICES ASSUME AurInv, ExecuteItem PROVE AurInv'
  OBVIOUS
<1> DEFINE k == auPos
           b == aur.items[k]
<1>0. /\ auStage = "items" /\ k \in Items /\ UNCHANGED aurInput /\ Working /\ InProgress
      /\ aur \in Executions
  BY AurTypeFacts DEF ExecuteItem, AurInv, AurTypes
<1>1. CASE PassOver(auPos)
  BY <1>0, <1>1, PassOverInv
<1>2. CASE k \in Executed
  <2>0. b \in ItemResults /\ ItemOK(b) /\ b.status = "NotAttempted"
    <3>1. b.status \in Waiting
      BY <1>0, AurTypeFacts DEF InProgress
    <3> QED BY <1>0, <1>2, <3>1, AurTypeFacts DEF AurInv, Working, Waiting
  <2> USE DEF ItemChanges
  <2>1. CASE LegacyCompletes(auPos)
    <3>1. PICK outcome \in [Children -> {"Installed", "SkippedAsNeeded"}] :
          /\ ItemChanges(k, Installs(outcome))
          /\ \/ Continue(k, Promoted(k, outcome, FALSE))
             \/ Halt(k, Promoted(k, outcome, TRUE),
                     "StoppedAfterPackageCleanupFailure", "returned")
      BY <2>1 DEF LegacyCompletes
    <3>0. Installs(outcome) \in BOOLEAN
      BY DEF Installs
    <3>2. CASE Continue(k, Promoted(k, outcome, FALSE))
      <4> DEFINE r == Promoted(k, outcome, FALSE)
      <4>1. /\ r \in ItemResults /\ ItemOK(r) /\ Honest(r, Installs(outcome))
            /\ r.decision = b.decision /\ r.status \in {"Updated", "NoChange"}
        BY <2>0, PromotedOK
      <4>2. /\ aur' = [aur EXCEPT !.items[auPos] = r]
            /\ auStage' = auStage /\ auPos' = auPos + 1
        BY <3>2 DEF Continue
      <4> HIDE DEF r
      <4> QED BY <1>0, <1>2, <3>0, <3>1, <4>1, <4>2, ItemEnds
    <3>3. CASE Halt(k, Promoted(k, outcome, TRUE),
                    "StoppedAfterPackageCleanupFailure", "returned")
      <4> DEFINE r == Promoted(k, outcome, TRUE)
      <4>1. /\ r \in ItemResults /\ ItemOK(r) /\ Honest(r, Installs(outcome))
            /\ r.decision = b.decision
            /\ r.status \in {"UpdatedCleanupFailed", "NoChangeCleanupFailed"}
        BY <2>0, PromotedOK
      <4>2. StatusOf(r.status) = "StoppedAfterPackageCleanupFailure" /\ r.status \in Terminal
        BY <4>1 DEF StatusOf, Terminal
      <4>3. /\ aur' = [aur EXCEPT !.items[auPos] = r, !.status = StatusOf(r.status)]
            /\ auStage' = "returned" /\ auPos' = auPos
        BY <3>3, <4>2 DEF Halt
      <4> HIDE DEF r
      <4> QED BY <1>0, <1>2, <3>0, <3>1, <4>1, <4>2, <4>3, ItemEnds
    <3> QED BY <3>1, <3>2, <3>3
  <2>2. ASSUME NEW r \in ItemResults, r.status = "Failed", r.decision = b.decision,
               NEW did \in BOOLEAN, ItemOK(r), Honest(r, did), ItemChanges(k, did),
               Fail(k, r)
        PROVE  AurInv'
    <3>1. StatusOf(r.status) = "StoppedOnWorkItemFailure" /\ r.status \in Terminal
      BY <2>2 DEF StatusOf, Terminal
    <3>2. /\ aur' = [aur EXCEPT !.items[auPos] = r, !.status = StatusOf(r.status)]
          /\ auStage' = "returned" /\ auPos' = auPos
      BY <2>2, <3>1 DEF Fail, Halt
    <3> QED BY <1>0, <1>2, <2>2, <3>1, <3>2, ItemEnds
  <2>3. ASSUME NEW kind_ \in {"BuildOrInstallFailed", "AuthoritativeExecutionIncomplete",
                              "UnknownException"}
        PROVE  LET r == FailedAs(k, kind_) IN
               /\ r \in ItemResults /\ r.status = "Failed" /\ r.decision = b.decision
               /\ r.kind = kind_ /\ r.children = b.children /\ r.cancelled = b.cancelled
               /\ r.txn = b.txn
    BY <2>0 DEF FailedAs, ItemResults, ItemStatuses, Terminal, Kinds
  <2>4. ~b.txn /\ ~b.cancelled
    BY <2>0, WaitingItem DEF Waiting
  <2>5. CASE FailsBeforeInstall(auPos)
    <3>1. PICK kind_ \in {"BuildOrInstallFailed", "UnknownException"} :
            Fail(k, FailedAs(k, kind_))
      BY <2>5 DEF FailsBeforeInstall
    <3> DEFINE r == FailedAs(k, kind_)
    <3>2. /\ r \in ItemResults /\ r.status = "Failed" /\ r.decision = b.decision
          /\ r.kind = kind_ /\ r.children = b.children /\ r.cancelled = b.cancelled
          /\ r.txn = b.txn
      BY <2>3
    <3> HIDE DEF r
    <3>3. ItemOK(r) /\ Honest(r, FALSE)
      BY <2>0, <2>4, <3>2, FailedOK
    <3>4. ItemChanges(k, FALSE)
      BY <2>5 DEF FailsBeforeInstall
    <3>5. Fail(k, r)
      BY <3>1 DEF r
    <3> QED BY <2>2, <3>2, <3>3, <3>4, <3>5
  <2>6. CASE LegacyTransactionFails(auPos)
    <3> DEFINE q == FailedAs(k, "BuildOrInstallFailed")
               r == TransactionFailure(k)
    <3>1. /\ q \in ItemResults /\ q.status = "Failed" /\ q.decision = b.decision
          /\ q.kind = "BuildOrInstallFailed" /\ q.children = b.children
          /\ q.cancelled = b.cancelled /\ q.txn = b.txn
      BY <2>3
    <3> HIDE DEF q
    <3>2. r = [q EXCEPT !.txn = TRUE]
      BY DEF TransactionFailure, q
    <3> HIDE DEF r
    <3>3. /\ r \in ItemResults /\ r.status = "Failed" /\ r.decision = b.decision
          /\ r.kind = "BuildOrInstallFailed" /\ r.children = b.children
          /\ r.cancelled = b.cancelled /\ r.txn
      BY <3>1, <3>2 DEF ItemResults
    <3>4. PICK did \in BOOLEAN : ItemChanges(k, did)
      BY <2>6 DEF LegacyTransactionFails, MayChange
    <3>5. ItemOK(r) /\ Honest(r, did)
      BY <2>0, <2>4, <3>3, FailedOK
    <3>6. Fail(k, r)
      BY <2>6 DEF LegacyTransactionFails, r
    <3> QED BY <2>2, <3>3, <3>4, <3>5, <3>6
  <2>7. CASE DevelCompletes(auPos)
    <3> DEFINE r == [aur.items[k] EXCEPT !.status = "Updated", !.kind = "None",
                       !.children = All("Installed"), !.op = "Succeeded"]
    <3>1. /\ r \in ItemResults /\ r.status = "Updated" /\ r.decision = b.decision
          /\ r.kind = "None" /\ r.children = All("Installed") /\ r.op = "Succeeded"
          /\ r.cancelled = b.cancelled /\ r.txn = b.txn
      BY <2>0 DEF ItemResults, ItemStatuses, Kinds, All, ChildStatuses, Operations
    <3>2. /\ aur' = [aur EXCEPT !.items[auPos] = r]
          /\ auStage' = auStage /\ auPos' = auPos + 1 /\ ItemChanges(k, TRUE)
      BY <2>7 DEF DevelCompletes, Continue
    <3> HIDE DEF r
    <3>3. ItemOK(r) /\ Honest(r, TRUE)
      BY <2>0, <3>1, RetainedOK
    <3> QED BY <1>0, <1>2, <3>1, <3>2, <3>3, ItemEnds
  <2>8. CASE DevelIncomplete(auPos)
    <3>0. ASSUME NEW kind_ \in {"BuildOrInstallFailed", "AuthoritativeExecutionIncomplete"},
                 NEW o \in Operations \ {"None", "Succeeded"}, NEW did \in BOOLEAN,
                 did => o \in {"Failed", "OutcomeUnknown"}, ItemChanges(k, did),
                 Fail(k, [FailedAs(k, kind_) EXCEPT !.op = o])
          PROVE  AurInv'
      <4> DEFINE q == FailedAs(k, kind_)
                 r == [q EXCEPT !.op = o]
      <4>1. /\ q \in ItemResults /\ q.status = "Failed" /\ q.decision = b.decision
            /\ q.kind = kind_ /\ q.children = b.children
            /\ q.cancelled = b.cancelled /\ q.txn = b.txn
        BY <2>3
      <4> HIDE DEF q
      <4>2. /\ r \in ItemResults /\ r.status = "Failed" /\ r.decision = b.decision
            /\ r.kind = kind_ /\ r.children = b.children
            /\ r.cancelled = b.cancelled /\ r.txn = b.txn /\ r.op = o
        BY <4>1 DEF ItemResults
      <4>3. Fail(k, r)
        BY <3>0 DEF q
      <4> HIDE DEF r
      <4>4. ItemOK(r) /\ Honest(r, did)
        BY <2>0, <2>4, <3>0, <4>2, FailedOK
      <4> QED BY <2>2, <3>0, <4>2, <4>3, <4>4
    <3>1. CASE /\ \E kind_ \in {"AuthoritativeExecutionIncomplete", "BuildOrInstallFailed"} :
                     Fail(k, [FailedAs(k, kind_) EXCEPT !.op = "NotAttempted"])
               /\ UNCHANGED aurChanged
      BY <3>0, <3>1 DEF Operations
    <3>2. CASE /\ \E o \in {"Failed", "OutcomeUnknown"} :
                    Fail(k, [FailedAs(k, "AuthoritativeExecutionIncomplete") EXCEPT !.op = o])
               /\ MayChange(k)
      BY <3>0, <3>2 DEF Operations, MayChange
    <3>3. CASE /\ Fail(k, [FailedAs(k, "AuthoritativeExecutionIncomplete") EXCEPT
                              !.op = "Succeeded", !.children = All("Installed")])
               /\ ItemChanges(k, TRUE)
      <4> DEFINE q == FailedAs(k, "AuthoritativeExecutionIncomplete")
                 r == [q EXCEPT !.op = "Succeeded", !.children = All("Installed")]
      <4>1. /\ q \in ItemResults /\ q.status = "Failed" /\ q.decision = b.decision
            /\ q.kind = "AuthoritativeExecutionIncomplete" /\ q.children = b.children
            /\ q.cancelled = b.cancelled /\ q.txn = b.txn
        BY <2>3
      <4>2. Fail(k, r)
        BY <3>3
      <4> HIDE DEF q
      <4>3. /\ r \in ItemResults /\ r.status = "Failed" /\ r.decision = b.decision
            /\ r.kind = "AuthoritativeExecutionIncomplete" /\ r.children = All("Installed")
            /\ r.cancelled = b.cancelled /\ r.txn = b.txn /\ r.op = "Succeeded"
        BY <4>1 DEF ItemResults, Operations, All, ChildStatuses
      <4> HIDE DEF r
      <4>4. ItemOK(r) /\ Honest(r, TRUE)
        BY <2>0, <4>3, RetainedOK
      <4> QED BY <2>2, <3>3, <4>2, <4>3, <4>4
    <3> QED BY <2>8, <3>1, <3>2, <3>3 DEF DevelIncomplete
  <2>9. CASE CancelsItem(auPos)
    <3> DEFINE r == CancelItem(aur.items[k])
    <3>1. /\ r \in ItemResults /\ ItemOK(r) /\ Honest(r, FALSE)
          /\ r.status = "Cancelled" /\ r.decision = b.decision
      BY <2>0, CancelOK
    <3>2. StatusOf(r.status) = "StoppedOnWorkItemCancellation" /\ r.status \in Terminal
      BY <3>1 DEF StatusOf, Terminal
    <3>3. /\ aur' = [aur EXCEPT !.items[auPos] = r, !.status = StatusOf(r.status)]
          /\ auStage' = "cancelled" /\ auPos' = auPos /\ ItemChanges(k, FALSE)
      BY <2>9, <3>2 DEF CancelsItem, Halt
    <3> HIDE DEF r
    <3> QED BY <1>0, <1>2, <3>1, <3>2, <3>3, ItemEnds
  <2>10. CASE LeavesRunner(auPos)
    <3>1. /\ auStage' \in {"cacheError", "stopped"}
          /\ UNCHANGED <<aurInput, auPos, aur, aurChanged>>
      BY <1>0, <2>10 DEF LeavesRunner, CacheError
    <3>2. /\ AurTypes' /\ Items' = Items /\ AurOrder'
          /\ \A j \in Items' : ItemOK(aur'.items[j]) /\ Honest(aur'.items[j], j \in aurChanged')
          /\ 0 \in aurChanged' => aur'.providers.psc = "Unknown"
      BY <3>1, AurCarried
    <3> QED BY <3>1, <3>2 DEF AurInv
  <2> QED BY <1>2, <2>1, <2>5, <2>6, <2>7, <2>8, <2>9, <2>10 DEF ExecuteItem, PassOver
<1> QED BY <1>1, <1>2 DEF ExecuteItem

LEMMA AurNextInv == AurInv /\ AurNext => AurInv'
BY StartInv, DecideInv, FinishInv, ActivateInv, ProvidersAurInv, ItemInv, ItemsDoneInv
   DEF AurNext

-----------------------------------------------------------------------------
(* The reducer *)

LEMMA DomainOfItems == AurInv => DOMAIN aur.items = Items
BY AurTypeFacts DEF Executions

LEMMA PerItemConsistent ==
  ASSUME AurInv, NEW k \in Items
  PROVE  WorkItemResultConsistent(items[k], aur.items[k]) /\ ChildrenConsistent(aur.items[k])
<1>1. ItemOK(aur.items[k]) /\ items[k].roots # {}
  BY ItemFacts DEF AurInv, AurTypes
<1> QED BY <1>1 DEF ItemOK, WorkItemResultConsistent, ChildrenConsistent,
                    WorkItemChildOutcomesAreConsistent

LEMMA SnapshotsConsistent ==
  ASSUME AurInv, Deciding \/ Working,
         Deciding => \A k \in Items : aur.items[k].status \in Waiting \cup {"Cancelled"}
  PROVE  BootstrapSnapshotsAreConsistent(items, aur)
<1> SUFFICES ASSUME NEW k \in Items
    PROVE  /\ aur.items[k].decision # "None" =>
                /\ items[k].bootstrap
                /\ aur.items[k].decision = "Accepted" <=>
                      aur.items[k].status # "BootstrapSkipped"
           /\ items[k].bootstrap /\ aur.items[k].decision = "None" =>
                /\ aur.phase = "BootstrapDecisions"
                /\ aur.items[k].status \in {"NotAttempted", "Cancelled"}
           /\ aur.items[k].status = "BootstrapSkipped" =>
                \A r \in items[k].roots : \E j \in Items :
                   /\ items[j].bootstrap /\ r \in items[j].roots
                   /\ aur.items[j].decision \notin {"None", "Accepted"}
  BY DEF BootstrapSnapshotsAreConsistent, Items
<1>0. items \in PreparedItems
  BY AurTypeFacts
<1>1. CASE Deciding
  <2>1. /\ aur.items[k].decision # "None" => items[k].bootstrap
        /\ aur.items[k].status = "BootstrapSkipped" <=>
              aur.items[k].decision \notin {"None", "Accepted"}
        /\ aur.items[k].status \in Waiting \cup {"Cancelled"}
        /\ aur.phase = "BootstrapDecisions"
    BY <1>1 DEF Deciding
  <2> QED BY <2>1 DEF Waiting
<1>2. CASE Working
  <2>1. /\ aur.items[k].decision # "None" <=> items[k].bootstrap
        /\ aur.items[k].status = "BootstrapSkipped" <=> k \notin Executed
    BY <1>2 DEF Working
  <2>2. items[k].bootstrap => (k \in Executed <=> aur.items[k].decision = "Accepted")
    BY <1>0, BootstrapExecuted
  <2>3. ASSUME k \notin Executed, NEW r \in items[k].roots
        PROVE  \E j \in Items : /\ items[j].bootstrap /\ r \in items[j].roots
                                /\ aur.items[j].decision \notin {"None", "Accepted"}
    <3>1. r \in SkippedRoots
      BY <2>3 DEF Executed, Items
    <3>2. PICK j \in Bootstraps : aur.items[j].decision # "Accepted" /\ r \in items[j].roots
      BY <3>1 DEF SkippedRoots
    <3>3. j \in Items /\ items[j].bootstrap
      BY <3>2 DEF Bootstraps, Items
    <3> QED BY <1>2, <3>2, <3>3 DEF Working
  <2> QED BY <2>1, <2>2, <2>3
<1> QED BY <1>1, <1>2

(* What the runner returns is no contradiction, whichever way it ends. *)
LEMMA InvocationConsistent ==
  ASSUME AurInv, auStage \in {"returned", "cancelled"},
         aur.providers.status # "BlockedBeforeExecution"
  PROVE  InvocationResultIsConsistent(aur)
<1> DEFINE ts == TerminalItems(aur)
<1>0. /\ DOMAIN aur.items = Items /\ Items \subseteq Nat
      /\ ts = {k \in Items : aur.items[k].status \in Terminal}
      /\ Terminal \cap Waiting = {} /\ Terminal \cap Done = {}
  BY DomainOfItems, AurTypeFacts DEF TerminalItems, Terminal, Waiting, Done
<1>1. \A k \in Items : WorkItemChildOutcomesAreConsistent(aur.items[k])
  BY DEF AurInv, ItemOK
<1>2. \/ DecisionCancelled \/ AllDone \/ ProvidersFailed \/ ItemStopped
  BY DEF AurInv
<1>3. CASE DecisionCancelled
  <2>1. PICK t \in Items :
         /\ aur.items[t].status = "Cancelled"
         /\ \A k \in Items : k # t => aur.items[k].status \in Waiting
    BY <1>3 DEF DecisionCancelled
  <2>2. ts = {t}
    BY <1>0, <2>1 DEF Terminal
  <2>3. Cardinality(ts) = 1
    BY <2>2, FS_Singleton
  <2>4. /\ aur.status = "StoppedOnWorkItemCancellation" /\ aur.providers = NotRequired
        /\ aur.phase = "BootstrapDecisions"
    BY <1>3 DEF DecisionCancelled, Deciding
  <2>5. \A k \in Items : aur.items[k].status \in {"NotAttempted", "BootstrapSkipped", "Cancelled"}
    BY <2>1 DEF Waiting
  <2> HIDE DEF ts
  <2> QED BY <1>0, <1>1, <2>3, <2>4, <2>5 DEF InvocationResultIsConsistent, ts
<1>4. CASE AllDone
  <2>1. ts = {}
    BY <1>0, <1>4 DEF AllDone
  <2>2. Cardinality(ts) = 0
    BY <2>1, FS_EmptySet
  <2>3. StopsInOrder(aur)
    BY <2>1 DEF StopsInOrder
  <2>4. /\ aur.status = "Completed" /\ ProviderSuccess(aur.providers)
        /\ aur.phase = "WorkItems"
        /\ \A k \in Items : aur.items[k].status \in {"Updated", "NoChange", "BootstrapSkipped"}
    BY <1>4 DEF AllDone, Working, Done
  <2> HIDE DEF ts
  <2> QED BY <1>0, <1>1, <2>2, <2>3, <2>4 DEF InvocationResultIsConsistent, ts
<1>5. CASE ProvidersFailed
  <2>1. ts = {}
    BY <1>0, <1>5 DEF ProvidersFailed
  <2>2. Cardinality(ts) = 0
    BY <2>1, FS_EmptySet
  <2>3. StopsInOrder(aur)
    BY <2>1 DEF StopsInOrder
  <2>4. /\ aur.status = "StoppedOnProviderTransactionFailure"
        /\ aur.providers.status \in {"Failed", "OutcomeUnknown"}
        /\ aur.phase = "WorkItems"
        /\ \A k \in Items : aur.items[k].status \in {"NotAttempted", "BootstrapSkipped"}
    BY <1>5 DEF ProvidersFailed, Working, Waiting
  <2> HIDE DEF ts
  <2> QED BY <1>0, <1>1, <2>2, <2>3, <2>4 DEF InvocationResultIsConsistent, ts
<1>6. CASE ItemStopped
  <2>1. PICK t \in Items :
       /\ aur.items[t].status \in Terminal /\ aur.status = StatusOf(aur.items[t].status)
       /\ \A k \in Items : /\ k < t => aur.items[k].status \in Done
                           /\ k > t => aur.items[k].status \in Waiting
    BY <1>6 DEF ItemStopped
  <2>2. ts = {t}
    <3>1. \A k \in Items : k # t => k < t \/ k > t
      BY <1>0
    <3> QED BY <1>0, <2>1, <3>1
  <2>3. Cardinality(ts) = 1
    BY <2>2, FS_Singleton
  <2>4. StopsInOrder(aur)
    BY <1>0, <2>1, <2>2 DEF StopsInOrder, Done, Waiting
  <2>5. ProviderSuccess(aur.providers) /\ aur.phase = "WorkItems"
    BY <1>6 DEF ItemStopped, Working
  <2> HIDE DEF ts
  <2>6. CASE aur.items[t].status = "Cancelled"
    <3>1. aur.status = "StoppedOnWorkItemCancellation"
      BY <2>1, <2>6 DEF StatusOf
    <3> QED BY <1>0, <1>1, <2>2, <2>3, <2>4, <2>5, <2>6, <3>1
            DEF InvocationResultIsConsistent, ts
  <2>7. CASE aur.items[t].status = "Failed"
    <3>1. aur.status = "StoppedOnWorkItemFailure"
      BY <2>1, <2>7 DEF StatusOf
    <3> QED BY <1>0, <1>1, <2>2, <2>3, <2>4, <2>5, <2>7, <3>1
            DEF InvocationResultIsConsistent, ts
  <2>8. CASE aur.items[t].status \in {"UpdatedCleanupFailed", "NoChangeCleanupFailed"}
    <3>1. aur.status = "StoppedAfterPackageCleanupFailure"
      BY <2>1, <2>8 DEF StatusOf
    <3> QED BY <1>0, <1>1, <2>2, <2>3, <2>4, <2>5, <2>8, <3>1
            DEF InvocationResultIsConsistent, ts
  <2> QED BY <2>1, <2>6, <2>7, <2>8 DEF Terminal
<1> QED BY <1>2, <1>3, <1>4, <1>5, <1>6

LEMMA StatusIsKept ==
  ASSUME AurInv, auStage \in {"returned", "cancelled"},
         aur.providers.status # "BlockedBeforeExecution"
  PROVE  Reduce(items, aur).status = aur.status
<1>1. InvocationResultIsConsistent(aur)
  BY InvocationConsistent
<1>2. BootstrapSnapshotsAreConsistent(items, aur)
  <2>1. Deciding \/ Working
    BY DEF AurInv, DecisionCancelled, AllDone, ProvidersFailed, ItemStopped
  <2>2. Deciding => \A k \in Items : aur.items[k].status \in Waiting \cup {"Cancelled"}
    <3> SUFFICES ASSUME Deciding PROVE \A k \in Items : aur.items[k].status \in Waiting \cup {"Cancelled"}
      OBVIOUS
    <3>1. ~Working
      BY DEF Deciding, Working
    <3>2. DecisionCancelled
      BY <3>1 DEF AurInv, AllDone, ProvidersFailed, ItemStopped
    <3> QED BY <3>2 DEF DecisionCancelled
  <2> QED BY <2>1, <2>2, SnapshotsConsistent
<1>3. \A k \in DOMAIN items : /\ WorkItemResultConsistent(items[k], aur.items[k])
                              /\ ChildrenConsistent(aur.items[k])
  BY PerItemConsistent DEF Items
<1> QED BY <1>1, <1>2, <1>3 DEF Reduce


(* The decisive contribution is one of them, and what outranks it is       *)
(* missing.                                                                *)
LEMMA Priorities ==
  /\ DOMAIN Priority = 1..6
  /\ Priority[1] = {"UpdatedCleanupFailed"} /\ Priority[2] = {"NoChangeCleanupFailed"}
  /\ Priority[3] = {"Cancelled", "Failed"} /\ Priority[4] = {"NotAttempted"}
  /\ Priority[5] = {"Updated"} /\ Priority[6] = {"NoChange"}
BY DEF Priority

LEMMA FoldFacts ==
  ASSUME NEW all \in SUBSET ItemStatuses
  PROVE  /\ Fold(all) \in ItemStatuses \ {"BootstrapSkipped"}
         /\ Fold(all) # "NotAttempted" => Fold(all) \in all
         /\ Fold(all) \in {"Updated", "NoChange"} =>
               all \subseteq {"Updated", "NoChange", "BootstrapSkipped"}
         /\ Fold(all) = "NoChange" => "Updated" \notin all
<1>1. CASE all \subseteq {"BootstrapSkipped"}
  <2>1. Fold(all) = "NotAttempted"
    BY <1>1 DEF Fold
  <2> QED BY <2>1 DEF ItemStatuses
<1>2. CASE ~(all \subseteq {"BootstrapSkipped"})
  <2> DEFINE S == {i \in 1..6 : Priority[i] \cap all # {}}
             First1(i) == /\ Priority[i] \cap all # {}
                          /\ \A j \in 1..(i - 1) : Priority[j] \cap all = {}
             p == CHOOSE i \in DOMAIN Priority : First1(i)
  <2>1. S # {}
    <3>1. PICK s \in all : s # "BootstrapSkipped"
      BY <1>2
    <3>2. s \in ItemStatuses
      BY <3>1
    <3>3. \E i \in 1..6 : s \in Priority[i]
      BY <3>1, <3>2, Priorities DEF ItemStatuses, Terminal
    <3> QED BY <3>3
  <2>2. PICK n \in S : \A j \in S : n <= j
    BY <2>1, LeastNumber
  <2>3. n \in DOMAIN Priority /\ First1(n)
    BY <2>2, Priorities
  <2>4. p \in DOMAIN Priority /\ First1(p)
    <3> HIDE DEF First1
    <3> QED BY <2>3
  <2>5. Fold(all) = CHOOSE s \in Priority[p] \cap all : TRUE
    BY <1>2 DEF Fold
  <2> HIDE DEF p
  <2>6. Fold(all) \in Priority[p] \cap all
    BY <2>4, <2>5
  <2>7. p \in 1..6 /\ \A j \in 1..6 : j < p => Priority[j] \cap all = {}
    BY <2>4, Priorities
  <2>8. CASE p \in {1, 2, 3, 4}
    <3>1. Fold(all) \in {"UpdatedCleanupFailed", "NoChangeCleanupFailed", "Cancelled",
                         "Failed", "NotAttempted"}
      BY <2>6, <2>8, Priorities
    <3> QED BY <2>6, <3>1 DEF ItemStatuses, Terminal
  <2>9. CASE p = 5
    <3>1. Fold(all) = "Updated"
      BY <2>6, <2>9, Priorities
    <3>2. all \cap {"UpdatedCleanupFailed", "NoChangeCleanupFailed", "Cancelled", "Failed",
                    "NotAttempted"} = {}
      BY <2>7, <2>9, Priorities
    <3> QED BY <2>6, <3>1, <3>2 DEF ItemStatuses, Terminal
  <2>10. CASE p = 6
    <3>1. Fold(all) = "NoChange"
      BY <2>6, <2>10, Priorities
    <3>2. all \cap {"UpdatedCleanupFailed", "NoChangeCleanupFailed", "Cancelled", "Failed",
                    "NotAttempted", "Updated"} = {}
      BY <2>7, <2>10, Priorities
    <3> QED BY <2>6, <3>1, <3>2 DEF ItemStatuses, Terminal
  <2> QED BY <2>7, <2>8, <2>9, <2>10
<1> QED BY <1>1, <1>2

(* What an item contributes to its targets. *)
LEMMA ContributionFacts ==
  ASSUME AurInv, NEW k \in Items
  PROVE  /\ Contributions(aur, k) \in SUBSET ItemStatuses
         /\ aur.items[k].status \in Contributions(aur, k)
         /\ Contributions(aur, k) \cap {"Updated", "UpdatedCleanupFailed"} # {} =>
              \E c \in Children : aur.items[k].children[c] \in Installing
<1> DEFINE r == aur.items[k]
<1>1. /\ r \in ItemResults /\ WorkItemChildOutcomesAreConsistent(r)
      /\ r.status \in ItemStatuses
  BY AurTypeFacts DEF AurInv, ItemOK, ItemResults
<1>2. PICK d \in Children : TRUE
  BY ExecutionAssumption
<1> HIDE DEF r
<1>3. CASE r.status \in {"Cancelled", "Failed", "NotAttempted"}
  <2>1. Contributions(aur, k) = {r.status}
    BY <1>3 DEF Contributions, r
  <2> QED BY <1>1, <1>3, <2>1 DEF r
<1>4. CASE r.status \notin {"Cancelled", "Failed", "NotAttempted"}
  <2>1. Contributions(aur, k) = {ChildContribution(r.children[c]) : c \in Children}
    BY <1>4 DEF Contributions, r
  <2>2. \A c \in Children : r.children[c] \in AllowedChildren(r.status)
    BY <1>1, <1>4 DEF WorkItemChildOutcomesAreConsistent, RetainsInstall
  <2>3. CASE r.status = "BootstrapSkipped"
    <3>1. \A c \in Children : ChildContribution(r.children[c]) = "BootstrapSkipped"
      BY <2>2, <2>3 DEF AllowedChildren, ChildContribution
    <3>2. Contributions(aur, k) = {"BootstrapSkipped"}
      BY <1>2, <2>1, <3>1
    <3> QED BY <2>3, <3>2 DEF r, ItemStatuses
  <2>4. CASE r.status = "NoChange"
    <3>1. \A c \in Children : ChildContribution(r.children[c]) = "NoChange"
      BY <2>2, <2>4 DEF AllowedChildren, ChildContribution
    <3>2. Contributions(aur, k) = {"NoChange"}
      BY <1>2, <2>1, <3>1
    <3> QED BY <2>4, <3>2 DEF r, ItemStatuses
  <2>5. CASE r.status = "NoChangeCleanupFailed"
    <3>1. \A c \in Children : ChildContribution(r.children[c]) = "NoChangeCleanupFailed"
      BY <2>2, <2>5 DEF AllowedChildren, ChildContribution
    <3>2. Contributions(aur, k) = {"NoChangeCleanupFailed"}
      BY <1>2, <2>1, <3>1
    <3> QED BY <2>5, <3>2 DEF r, ItemStatuses, Terminal
  <2>6. CASE r.status = "Updated"
    <3>1. \A c \in Children : ChildContribution(r.children[c]) \in {"Updated", "NoChange"}
      BY <2>2, <2>6 DEF AllowedChildren, ChildContribution
    <3>2. PICK c \in Children : r.children[c] \in {"Installed", "InstalledCleanupFailed"}
      BY <1>1, <2>6 DEF WorkItemChildOutcomesAreConsistent
    <3>3. r.children[c] = "Installed"
      BY <2>2, <2>6, <3>2 DEF AllowedChildren
    <3>4. ChildContribution(r.children[c]) = "Updated"
      BY <3>3 DEF ChildContribution
    <3>5. "Updated" \in Contributions(aur, k) /\ Contributions(aur, k) \subseteq {"Updated", "NoChange"}
      BY <2>1, <3>1, <3>4
    <3> QED BY <2>6, <3>3, <3>5 DEF r, ItemStatuses, Installing
  <2>7. CASE r.status = "UpdatedCleanupFailed"
    <3>1. \A c \in Children :
            ChildContribution(r.children[c]) \in {"UpdatedCleanupFailed", "NoChangeCleanupFailed"}
      BY <2>2, <2>7 DEF AllowedChildren, ChildContribution
    <3>2. PICK c \in Children : r.children[c] \in {"Installed", "InstalledCleanupFailed"}
      BY <1>1, <2>7 DEF WorkItemChildOutcomesAreConsistent
    <3>3. r.children[c] = "InstalledCleanupFailed"
      BY <2>2, <2>7, <3>2 DEF AllowedChildren
    <3>4. ChildContribution(r.children[c]) = "UpdatedCleanupFailed"
      BY <3>3 DEF ChildContribution
    <3>5. /\ "UpdatedCleanupFailed" \in Contributions(aur, k)
          /\ Contributions(aur, k) \subseteq {"UpdatedCleanupFailed", "NoChangeCleanupFailed"}
      BY <2>1, <3>1, <3>4
    <3> QED BY <2>7, <3>3, <3>5 DEF r, ItemStatuses, Terminal, Installing
  <2> QED BY <1>1, <1>4, <2>3, <2>4, <2>5, <2>6, <2>7 DEF ItemStatuses, Terminal
<1> QED BY <1>3, <1>4


LEMMA EndsDecidingOrWorking ==
  ASSUME AurInv, auStage \in {"returned", "cancelled"}
  PROVE  Deciding \/ Working
BY DEF AurInv, DecisionCancelled, AllDone, ProvidersFailed, ItemStopped

(* A target is given up only by its own decision. *)
LEMMA SkippedTarget ==
  ASSUME AurInv, Deciding \/ Working, NEW k \in Items, NEW t \in items[k].roots,
         aur.items[k].status = "BootstrapSkipped"
  PROVE  items[t].bootstrap /\ aur.items[t].decision \notin {"None", "Accepted"}
<1>0. items \in PreparedItems
  BY AurTypeFacts
<1>1. CASE Deciding
  <2>1. items[k].bootstrap /\ aur.items[k].decision \notin {"None", "Accepted"}
    BY <1>1 DEF Deciding
  <2>2. items[k].roots = {k}
    BY <1>0, <2>1, ItemFacts
  <2> QED BY <2>1, <2>2
<1>2. CASE Working
  <2>1. t \in SkippedRoots
    BY <1>2 DEF Working, Executed, Items
  <2>2. PICK j \in Bootstraps : aur.items[j].decision # "Accepted" /\ t \in items[j].roots
    BY <2>1 DEF SkippedRoots
  <2>3. j \in Items /\ items[j].bootstrap
    BY <2>2 DEF Bootstraps, Items
  <2>4. items[j].roots = {j}
    BY <1>0, <2>3, ItemFacts
  <2> QED BY <1>2, <2>2, <2>3, <2>4 DEF Working
<1> QED BY <1>1, <1>2

LEMMA TargetFacts ==
  ASSUME AurInv, auStage \in {"returned", "cancelled"}, NEW t \in TargetsOf(items)
  PROVE  LET f == FoldTarget(items, aur, t) IN
         /\ t \in Items
         /\ f \in {"Updated", "NoChange"} =>
              \A k \in Items : t \in items[k].roots =>
                 aur.items[k].status \in {"Updated", "NoChange"}
         /\ f = "NoChange" => \A k \in Items : t \in items[k].roots => k \notin aurChanged
         /\ f \in {"Updated", "UpdatedCleanupFailed"} =>
              \E k \in Items : \E c \in Children : aur.items[k].children[c] \in Installing
         /\ f = "Skipped" => \A k \in aurChanged \ {0} : items[k].roots # {t}
<1> DEFINE f == FoldTarget(items, aur, t)
           own == items[t].bootstrap /\ aur.items[t].decision \notin {"None", "Accepted"}
           all == UNION {Contributions(aur, k) : k \in ContributingItems(items, t)}
<1>0. items \in PreparedItems /\ (Deciding \/ Working)
  BY AurTypeFacts, EndsDecidingOrWorking
<1>1. t \in Items
  BY <1>0, AurTypeFacts, ItemFacts DEF TargetsOf, Items
<1>2. f = IF own THEN "Skipped" ELSE Fold(all)
  BY DEF FoldTarget
<1>3. \A k \in Items : t \in items[k].roots => Contributions(aur, k) \subseteq all
  BY DEF ContributingItems, Items
<1>4. \A s \in all : \E k \in Items : t \in items[k].roots /\ s \in Contributions(aur, k)
  BY DEF ContributingItems, Items
<1>5. all \in SUBSET ItemStatuses
  BY <1>4, ContributionFacts
<1>6. own => \A k \in aurChanged \ {0} : items[k].roots # {t}
  <2> SUFFICES ASSUME own, NEW k \in aurChanged \ {0}, items[k].roots = {t} PROVE FALSE
    OBVIOUS
  <2>1. t \in Bootstraps /\ aur.items[t].decision # "Accepted" /\ t \in items[t].roots
    BY <1>0, <1>1, AurTypeFacts, ItemFacts DEF Bootstraps, Items
  <2>2. t \in SkippedRoots
    BY <2>1 DEF SkippedRoots
  <2>3. k \in Executed
    BY DEF AurInv, AurOrder
  <2> QED BY <2>2, <2>3 DEF Executed
<1> HIDE DEF f, own, all
<1>7. CASE own
  BY <1>1, <1>2, <1>6, <1>7 DEF f
<1>8. CASE ~own
  <2>0. f = Fold(all)
    BY <1>2, <1>8
  <2>1. /\ f \in ItemStatuses \ {"BootstrapSkipped"}
        /\ f # "NotAttempted" => f \in all
        /\ f \in {"Updated", "NoChange"} => all \subseteq {"Updated", "NoChange", "BootstrapSkipped"}
        /\ f = "NoChange" => "Updated" \notin all
    BY <1>5, <2>0, FoldFacts
  <2>2. f # "Skipped"
    BY <2>1 DEF ItemStatuses, Terminal
  <2>3. \A k \in Items : t \in items[k].roots =>
           /\ aur.items[k].status \in all
           /\ aur.items[k].status # "BootstrapSkipped"
    <3> SUFFICES ASSUME NEW k \in Items, t \in items[k].roots
                 PROVE  /\ aur.items[k].status \in all
                        /\ aur.items[k].status # "BootstrapSkipped"
      OBVIOUS
    <3>1. aur.items[k].status \in Contributions(aur, k)
      BY ContributionFacts
    <3> QED BY <1>0, <1>3, <1>8, <3>1, SkippedTarget DEF own
  <2>4. ASSUME f \in {"Updated", "NoChange"}, NEW k \in Items, t \in items[k].roots
        PROVE  aur.items[k].status \in {"Updated", "NoChange"}
    BY <2>1, <2>3, <2>4
  <2>5. ASSUME f = "NoChange", NEW k \in Items, t \in items[k].roots
        PROVE  k \notin aurChanged
    <3>1. aur.items[k].status = "NoChange"
      BY <2>1, <2>3, <2>4, <2>5
    <3>2. Honest(aur.items[k], k \in aurChanged)
      BY DEF AurInv
    <3> QED BY <3>1, <3>2 DEF Honest
  <2>6. ASSUME f \in {"Updated", "UpdatedCleanupFailed"}
        PROVE  \E k \in Items : \E c \in Children : aur.items[k].children[c] \in Installing
    <3>1. f \in all
      BY <2>1, <2>6
    <3>2. PICK k \in Items : f \in Contributions(aur, k)
      BY <1>4, <3>1
    <3> QED BY <2>6, <3>2, ContributionFacts
  <2> QED BY <1>1, <2>2, <2>4, <2>5, <2>6 DEF f
<1> QED BY <1>7, <1>8

LEMMA ReducedFields ==
  LET r == Reduce(items, aur) IN
  /\ DOMAIN r.targets = TargetsOf(items)
  /\ \A t \in TargetsOf(items) : r.targets[t] = FoldTarget(items, aur, t)
  /\ r.providers = aur.providers.status
  /\ r.psc \in Changes
  /\ r.psc = "Changed" <=> \/ PackagesInstalled(aur)
                           \/ \E t \in TargetsOf(items) : FoldTarget(items, aur, t)
                                                \in {"Updated", "UpdatedCleanupFailed"}
  /\ r.psc = "NoChange" => /\ aur.providers.psc # "Unknown"
                           /\ \A k \in Items : /\ ~aur.items[k].txn
                                               /\ aur.items[k].op \in {"None", "NotAttempted"}
BY DEF Reduce, Changes, Items

(* The reducer neither hides nor invents a change. *)
LEMMA ReducedChange ==
  ASSUME AurInv, auStage \in {"returned", "cancelled"}
  PROVE  /\ aurChanged # {} => Reduce(items, aur).psc # "NoChange"
         /\ Reduce(items, aur).psc = "Changed" => aurChanged # {}
<1> DEFINE r == Reduce(items, aur)
<1>0. DOMAIN aur.items = Items
  BY DomainOfItems
<1>1. ASSUME aurChanged # {}, r.psc = "NoChange" PROVE FALSE
  <2>1. PICK j \in aurChanged : TRUE
    BY <1>1
  <2>2. /\ aur.providers.psc # "Unknown" /\ ~PackagesInstalled(aur)
        /\ \A k \in Items : ~aur.items[k].txn /\ aur.items[k].op \in {"None", "NotAttempted"}
    BY <1>1, ReducedFields
  <2>3. j # 0 /\ j \in Items
    BY <2>1, <2>2 DEF AurInv, AurTypes
  <2>4. Honest(aur.items[j], j \in aurChanged)
    BY <2>3 DEF AurInv
  <2>5. \E c \in Children : aur.items[j].children[c] \in Installing
    BY <2>1, <2>2, <2>3, <2>4 DEF Honest
  <2> QED BY <1>0, <2>2, <2>3, <2>5 DEF PackagesInstalled, Installing
<1>2. ASSUME r.psc = "Changed" PROVE aurChanged # {}
  <2>1. \E k \in Items : \E c \in Children : aur.items[k].children[c] \in Installing
    <3>1. CASE PackagesInstalled(aur)
      BY <1>0, <3>1 DEF PackagesInstalled, Installing
    <3>2. CASE \E t \in TargetsOf(items) :
                 FoldTarget(items, aur, t) \in {"Updated", "UpdatedCleanupFailed"}
      BY <3>2, TargetFacts
    <3> QED BY <1>2, <3>1, <3>2, ReducedFields
  <2>2. PICK k \in Items : \E c \in Children : aur.items[k].children[c] \in Installing
    BY <2>1
  <2>3. Honest(aur.items[k], k \in aurChanged)
    BY DEF AurInv
  <2> QED BY <2>2, <2>3 DEF Honest
<1> QED BY <1>1, <1>2

LEMMA ReductionHolds == AurInv => ReductionTruthful
<1> SUFFICES ASSUME AurInv, auStage \in {"returned", "cancelled"} PROVE ReductionTruthful
  BY DEF ReductionTruthful
<1> DEFINE r == Reduce(items, aur)
           Of(t) == {k \in DOMAIN items : t \in items[k].roots}
<1>1. aur.providers.status # "BlockedBeforeExecution" => r.status = aur.status
  BY StatusIsKept
<1>2. aurChanged # {} => (ReducedSuccess(r) \/ ReducedPartial(r) \/ r.psc = "Unknown")
  BY ReducedChange, ReducedFields DEF ReducedPartial, Changes
<1>3. ASSUME NEW t \in DOMAIN r.targets
      PROVE  /\ r.targets[t] \in {"Updated", "NoChange"} =>
                   \A k \in Of(t) : aur.items[k].status \in {"Updated", "NoChange"}
             /\ r.targets[t] = "NoChange" => Of(t) \cap aurChanged = {}
             /\ r.targets[t] = "Skipped" =>
                   \A k \in aurChanged \ {0} : items[k].roots # {t}
  BY <1>3, ReducedFields, TargetFacts DEF Items
<1> HIDE DEF r
<1> QED BY <1>1, <1>2, <1>3 DEF ReductionTruthful, r


-----------------------------------------------------------------------------
(* The whole operation *)

(* The first part has ended well, as the AUR part requires. *)
FirstPartSucceeded ==
  stage = "done" /\ IsSuccess /\ result.system.status = "Completed"

(* What the aggregate keeps of the AUR part: nothing, what was never       *)
(* executed, or what the runner returned.                                  *)
NothingKept ==
  agg.op = <<>> /\ agg.aur # "Completed" /\ (agg.confirmation => aurChanged = {})
UnexecutedKept ==
  /\ \E s \in {"NoUpdates", "BlockedBeforeExecution"} : agg.op = <<Unexecuted(s)>>
  /\ agg.aur # "Completed" /\ aurChanged = {}
ReducedKept ==
  /\ agg.op = <<Reduce(items, aur)>> /\ auStage \in {"returned", "cancelled"}
  /\ agg.aur = "Completed" => Reduce(items, aur).status = "Completed"

Aggregated ==
  /\ NothingKept \/ UnexecutedKept \/ ReducedKept
  /\ stage # "done" => changed = {} /\ aurChanged = {} /\ PackageStateChange = "NoChange"
  /\ agg.status = "BlockedBeforeMutation" => changed = {} /\ aurChanged = {}
  /\ agg.status = "NoUpdates" => AggregateStateChange(agg) = "NoChange"

AurPart == {"inventory", "query", "prepare", "execute"}

UpInv ==
  /\ AurInv
  /\ SourceTypes /\ InOrder /\ (stage = "done" => AtEnd)
  /\ command \in {"upgrade-all", "upgrade-aur"}
  /\ uaStage \in {"systemSource", "done", "stopped"} \cup AurPart
  /\ uaStage = "systemSource" => SourceInv
  /\ uaStage \in {"systemSource", "inventory", "query", "prepare"} => auStage = "idle"
  /\ uaStage \in {"systemSource"} \cup AurPart =>
        agg = [FreshAggregate EXCEPT !.inventory = agg.inventory]
  /\ uaStage \in AurPart /\ command = "upgrade-all" => FirstPartSucceeded
  /\ aurChanged # {} /\ command = "upgrade-all" => FirstPartSucceeded
  /\ uaStage = "done" /\ command = "upgrade-all" => Aggregated


LEMMA SourceKept ==
  ASSUME UNCHANGED vars
  PROVE  /\ SourceTypes <=> SourceTypes'
         /\ InOrder <=> InOrder'
         /\ AtEnd <=> AtEnd'
         /\ SourceInv <=> SourceInv'
         /\ FirstPartSucceeded <=> FirstPartSucceeded'
         /\ PackageStateChange' = PackageStateChange
<1> USE DEF vars
<1>1. SourceTypes <=> SourceTypes'
  BY DEF SourceTypes, TypeOK
<1>2. InOrder <=> InOrder'
  BY DEF InOrder
<1>3. AtEnd <=> AtEnd'
  BY DEF AtEnd, Truth, Report, Rebuilt
<1>4. BeforeSystem <=> BeforeSystem'
  BY DEF BeforeSystem, Snapshot
<1>5. AtObserve <=> AtObserve'
  BY DEF AtObserve, Snapshot
<1>6. AmongSources <=> AmongSources'
  BY DEF AmongSources, Truth, Report, Settled, Rebuilt
<1>7. FirstPartSucceeded <=> FirstPartSucceeded'
  BY DEF FirstPartSucceeded, IsSuccess
<1>8. PackageStateChange' = PackageStateChange
  BY DEF PackageStateChange
<1> QED BY <1>1, <1>2, <1>3, <1>4, <1>5, <1>6, <1>7, <1>8 DEF SourceInv

LEMMA AurKept ==
  ASSUME UNCHANGED aurVars
  PROVE  AurInv <=> AurInv'
<1> USE DEF aurVars
<1>1. AurTypes <=> AurTypes'
  BY DEF AurTypes, Executions, Items
<1>2. AurOrder <=> AurOrder'
  BY DEF AurOrder, Executed, SkippedRoots, Bootstraps
<1>3. Deciding <=> Deciding'
  BY DEF Deciding, Items
<1>4. Working <=> Working'
  BY DEF Working, Items, Executed, SkippedRoots, Bootstraps
<1>5. Untried <=> Untried'
  BY DEF Untried, Items
<1>6. InProgress <=> InProgress'
  BY DEF InProgress, Items
<1>7. DecisionCancelled <=> DecisionCancelled'
  BY <1>3 DEF DecisionCancelled, Items
<1>8. AllDone <=> AllDone'
  BY <1>4 DEF AllDone, Items
<1>9. ProvidersFailed <=> ProvidersFailed'
  BY <1>4 DEF ProvidersFailed, Items
<1>10. ItemStopped <=> ItemStopped'
  BY <1>4 DEF ItemStopped, Items
<1> QED BY <1>1, <1>2, <1>3, <1>4, <1>5, <1>6, <1>7, <1>8, <1>9, <1>10 DEF AurInv, Items

(* Of a first part that has ended, the change of packages is told. *)
LEMMA FirstPartChange ==
  ASSUME SourceTypes, AtEnd
  PROVE  /\ changed # {} => PackageStateChange # "NoChange"
         /\ PackageStateChange = "Changed" => changed # {}
<1> DEFINE parts == {result.system.psc, result.providers.psc}
                    \cup {result.sources[i].psc : i \in Sources}
<1>1. \A p \in Phases : Report(p) \in parts
  BY Reports DEF Phases
<1>2. \A x \in parts : \E p \in Phases : Report(p) = x
  BY Reports DEF Phases
<1>3. parts \subseteq Changes
  BY TypesOf, Numbers DEF Results, SourceResults
<1>4. PackageStateChange = IF "Changed" \in parts THEN "Changed"
                           ELSE IF "Unknown" \in parts THEN "Unknown" ELSE "NoChange"
  BY DEF PackageStateChange
<1>5. \A p \in Phases : Truth(p)
  BY DEF AtEnd
<1> HIDE DEF parts
<1>6. ASSUME changed # {} PROVE PackageStateChange # "NoChange"
  <2>1. PICK p \in changed : p \in Phases
    BY <1>6, TypesOf
  <2>2. Report(p) # "NoChange" /\ Report(p) \in parts
    BY <1>1, <1>5, <2>1 DEF Truth
  <2> QED BY <1>3, <1>4, <2>2 DEF Changes
<1>7. ASSUME PackageStateChange = "Changed" PROVE changed # {}
  <2>1. PICK p \in Phases : Report(p) = "Changed"
    BY <1>2, <1>4, <1>7
  <2> QED BY <1>5, <2>1 DEF Truth
<1> QED BY <1>6, <1>7

LEMMA UnattemptedFacts ==
  ASSUME NEW s \in {"BlockedBeforeMutation", "InconsistentResult"}
  PROVE  /\ Unattempted(s) \in Results
         /\ Unattempted(s).system.psc = "NoChange"
         /\ Unattempted(s).providers.psc = "NoChange"
         /\ \A i \in Sources : Unattempted(s).sources[i].psc = "NoChange"
BY FreshTypes, NotAttemptedFields DEF Unattempted, FreshResult, Results, Changes

LEMMA UpInitInv == UpgradeInit => UpInv
<1> SUFFICES ASSUME UpgradeInit PROVE UpInv
  OBVIOUS
<1>1. SourceInv /\ AurInv
  BY SourceInitInv, AurInitInv DEF UpgradeInit
<1>2. stage = "enumerate" /\ aurChanged = {} /\ auStage = "idle"
  BY DEF UpgradeInit, Init, AurInit
<1>3. agg = [FreshAggregate EXCEPT !.inventory = agg.inventory]
  BY DEF UpgradeInit, FreshAggregate
<1> QED BY <1>1, <1>2, <1>3 DEF UpInv, UpgradeInit, SourceInv, AurPart


(* Nothing but the stage and the aggregate moves. *)
LEMMA OperationEnds ==
  ASSUME UpInv, UNCHANGED <<vars, aurVars, command>>, uaStage' \in {"done", "stopped"},
         uaStage' = "done" /\ command = "upgrade-all" => Aggregated'
  PROVE  UpInv'
<1>1. UNCHANGED vars /\ UNCHANGED aurVars /\ command' = command /\ aurChanged' = aurChanged
      /\ stage' = stage
  BY DEF aurVars, vars
<1>2. SourceTypes' /\ InOrder' /\ (stage' = "done" => AtEnd') /\ AurInv'
  BY <1>1, SourceKept, AurKept DEF UpInv
<1>3. aurChanged' # {} /\ command' = "upgrade-all" => FirstPartSucceeded'
  BY <1>1, SourceKept DEF UpInv
<1> QED BY <1>1, <1>2, <1>3 DEF UpInv, AurPart

LEMMA OperationMovesOn ==
  ASSUME UpInv, UNCHANGED <<vars, aurVars, command>>, uaStage' \in AurPart, auStage = "idle",
         command = "upgrade-all" => FirstPartSucceeded,
         agg' = [FreshAggregate EXCEPT !.inventory = agg'.inventory]
  PROVE  UpInv'
<1>1. UNCHANGED vars /\ UNCHANGED aurVars /\ command' = command /\ aurChanged' = aurChanged
      /\ stage' = stage /\ auStage' = auStage
  BY DEF aurVars, vars
<1>2. SourceTypes' /\ InOrder' /\ (stage' = "done" => AtEnd') /\ AurInv'
  BY <1>1, SourceKept, AurKept DEF UpInv
<1>3. command' = "upgrade-all" => FirstPartSucceeded'
  BY <1>1, SourceKept DEF UpInv
<1> QED BY <1>1, <1>2, <1>3 DEF UpInv, AurPart

(* The aggregate before the operation ends. *)
LEMMA FreshFields ==
  ASSUME agg = [FreshAggregate EXCEPT !.inventory = agg.inventory]
  PROVE  agg = [status |-> "Completed", inventory |-> agg.inventory, aur |-> "NotAttempted",
                confirmation |-> FALSE, op |-> <<>>, issue |-> "None"]
BY DEF FreshAggregate

LEMMA FreshReplaced ==
  ASSUME NEW iv, NEW st, NEW au, NEW op
  PROVE  LET a == [status |-> "Completed", inventory |-> iv, aur |-> "NotAttempted",
                   confirmation |-> FALSE, op |-> <<>>, issue |-> "None"]
             b == [status |-> st, inventory |-> iv, aur |-> au,
                   confirmation |-> FALSE, op |-> op, issue |-> "None"]
         IN [a EXCEPT !.op = op, !.status = st, !.aur = au] = b
<1> DEFINE a == [status |-> "Completed", inventory |-> iv, aur |-> "NotAttempted",
                 confirmation |-> FALSE, op |-> <<>>, issue |-> "None"]
           e == [a EXCEPT !.op = op, !.status = st, !.aur = au]
<1>1. e \in [status : {st}, inventory : {iv}, aur : {au}, confirmation : {FALSE},
             op : {op}, issue : {"None"}]
  OBVIOUS
<1> HIDE DEF e
<1>2. e = [status |-> e.status, inventory |-> e.inventory, aur |-> e.aur,
           confirmation |-> e.confirmation, op |-> e.op, issue |-> e.issue]
  BY <1>1
<1>3. /\ e.status = st /\ e.inventory = iv /\ e.aur = au /\ e.confirmation = FALSE
      /\ e.op = op /\ e.issue = "None"
  BY <1>1
<1> QED BY <1>2, <1>3, Zenon DEF e

LEMMA FreshWithoutUpdates ==
  ASSUME NEW iv, NEW au, NEW op
  PROVE  LET a == [status |-> "Completed", inventory |-> iv, aur |-> "NotAttempted",
                   confirmation |-> FALSE, op |-> <<>>, issue |-> "None"]
             b == [status |-> "Completed", inventory |-> iv, aur |-> au,
                   confirmation |-> FALSE, op |-> op, issue |-> "None"]
         IN [a EXCEPT !.aur = au, !.op = op] = b
<1> DEFINE a == [status |-> "Completed", inventory |-> iv, aur |-> "NotAttempted",
                 confirmation |-> FALSE, op |-> <<>>, issue |-> "None"]
           e == [a EXCEPT !.aur = au, !.op = op]
<1>1. e \in [status : {"Completed"}, inventory : {iv}, aur : {au}, confirmation : {FALSE},
             op : {op}, issue : {"None"}]
  OBVIOUS
<1> HIDE DEF e
<1>2. e = [status |-> e.status, inventory |-> e.inventory, aur |-> e.aur,
           confirmation |-> e.confirmation, op |-> e.op, issue |-> e.issue]
  BY <1>1
<1>3. /\ e.status = "Completed" /\ e.inventory = iv /\ e.aur = au
      /\ e.confirmation = FALSE /\ e.op = op /\ e.issue = "None"
  BY <1>1
<1> QED BY <1>2, <1>3, Zenon DEF e

LEMMA EndsWithoutResult ==
  ASSUME UpInv, stage = "done", aurChanged = {} \/ ~agg'.confirmation,
         UNCHANGED <<vars, aurVars, command>>,
         agg'.op = <<>>, agg'.aur # "Completed",
         agg'.status # "NoUpdates",
         agg'.status = "BlockedBeforeMutation" => changed = {} /\ aurChanged = {}
  PROVE  Aggregated'
<1>1. stage' = stage /\ aurChanged' = aurChanged /\ changed' = changed
  BY DEF aurVars, vars
<1> QED BY <1>1 DEF Aggregated, NothingKept

LEMMA AfterSystemSourceInv == UpInv /\ AfterSystemSource => UpInv'
<1> SUFFICES ASSUME UpInv, AfterSystemSource PROVE UpInv'
  OBVIOUS
<1>1. /\ uaStage = "systemSource" /\ stage = "done" /\ auStage = "idle"
      /\ UNCHANGED <<vars, aurVars, command>>
      /\ agg = [FreshAggregate EXCEPT !.inventory = agg.inventory]
      /\ SourceTypes /\ AtEnd /\ aurChanged = {}
  BY DEF UpInv, AfterSystemSource, AurInv
<1>2. /\ result.status \in {"Completed", "BlockedBeforeMutation", "StoppedOnSystemFailure",
                            "StoppedOnSourceFailure", "StoppedAfterSourceCleanupFailure",
                            "InconsistentResult"}
  BY <1>1, TypesOf DEF Results
<1>3. CASE StatusAfterSystemSource = "Continue"
  <2>1. uaStage' = "inventory" /\ agg' = agg
    BY <1>3 DEF AfterSystemSource, Part
  <2>2. IsSuccess /\ result.status = "Completed"
    BY <1>2, <1>3 DEF StatusAfterSystemSource
  <2>3. FirstPartSucceeded
    BY <1>1, <2>2 DEF FirstPartSucceeded, AtEnd
  <2> QED BY <1>1, <2>1, <2>3, OperationMovesOn DEF AurPart
<1>4. CASE StatusAfterSystemSource # "Continue"
  <2> DEFINE is == IF agg.issue = "None" /\ StatusAfterSystemSource = "StoppedBeforeAurExecution"
                   THEN "SystemSourcePhaseIncomplete" ELSE agg.issue
  <2>1. /\ uaStage' = "done"
        /\ agg' = [agg EXCEPT !.status = StatusAfterSystemSource, !.issue = is]
    BY <1>4 DEF AfterSystemSource, Finish
  <2>2. StatusAfterSystemSource \in {result.status, "StoppedOnSourceFailure",
                                     "StoppedBeforeAurExecution"}
    BY <1>4 DEF StatusAfterSystemSource
  <2> HIDE DEF is
  <2>3. /\ agg'.op = <<>> /\ agg'.aur = "NotAttempted" /\ ~agg'.confirmation
        /\ agg'.status = StatusAfterSystemSource
    BY <1>1, <2>1, FreshFields
  <2>4. /\ agg'.status # "NoUpdates"
        /\ agg'.status = "BlockedBeforeMutation" => changed = {}
    BY <1>1, <1>2, <2>2, <2>3 DEF AtEnd
  <2> QED BY <1>1, <2>1, <2>3, <2>4, EndsWithoutResult, OperationEnds
<1> QED BY <1>3, <1>4

LEMMA RejectedInv ==
  ASSUME UpInv, uaStage = "systemSource", stage \in {"enumerate", "execute"},
         NEW s \in {"BlockedBeforeMutation", "InconsistentResult"}, NEW issue,
         Rejected(s, issue)
  PROVE  UpInv'
<1>1. /\ SourceInv /\ SourceTypes /\ BeforeSystem /\ auStage = "idle" /\ AurInv /\ aurChanged = {}
      /\ agg = [FreshAggregate EXCEPT !.inventory = agg.inventory]
  BY DEF UpInv, SourceInv, Prepared, AurInv
<1>2. /\ stage' = stage /\ pos' = pos /\ kind' = kind /\ recipe' = recipe /\ db' = db
      /\ other' = other /\ changed' = {} /\ replaced' = {} /\ before' = before
      /\ baseline' = baseline /\ installed' = installed /\ result' = Unattempted(s)
      /\ UNCHANGED aurVars /\ command' = command /\ uaStage' = "done"
      /\ agg' = [agg EXCEPT !.status = s, !.issue = issue]
  BY <1>1 DEF Rejected, Finish, plan, world, seen, BeforeSystem
<1>3. SourceTypes'
  BY <1>1, <1>2, TypesOf, UnattemptedFacts DEF SourceTypes, TypeOK, Results, Databases
<1>4. InOrder'
  BY <1>2 DEF InOrder
<1>5. AurInv' /\ aurChanged' = {}
  BY <1>1, <1>2, AurKept DEF aurVars
<1>6. {result'.sources[i].psc : i \in Sources} \subseteq {"NoChange"}
  BY <1>2, UnattemptedFacts
<1>7. PackageStateChange' = "NoChange"
  BY <1>2, <1>6, UnattemptedFacts DEF PackageStateChange
<1>8. /\ agg'.op = <<>> /\ agg'.aur = "NotAttempted" /\ ~agg'.confirmation /\ agg'.status = s
  BY <1>1, <1>2, FreshFields
<1>9. Aggregated'
  BY <1>2, <1>5, <1>7, <1>8 DEF Aggregated, NothingKept
<1> QED BY <1>2, <1>3, <1>4, <1>5, <1>9 DEF UpInv, AurPart

(* The stages of the AUR part before its execution. *)
LEMMA PreflightInv ==
  ASSUME UpInv, CacheReplaced \/ ForeignInventory \/ AurQuery
  PROVE  UpInv'
<1>1. /\ uaStage \in {"inventory", "query", "prepare"} /\ uaStage \in AurPart
      /\ UNCHANGED <<vars, aurVars, command>> /\ auStage = "idle" /\ aurChanged = {}
      /\ agg = [FreshAggregate EXCEPT !.inventory = agg.inventory]
      /\ command = "upgrade-all" => FirstPartSucceeded /\ stage = "done"
  BY DEF CacheReplaced, ForeignInventory, AurQuery, UpInv, AurInv, AurPart, FirstPartSucceeded
<1>2. CASE uaStage' = "done" /\ agg' = StopForCacheAuthority(agg)
  <2>1. /\ agg'.op = <<>> /\ agg'.aur = "NotAttempted" /\ ~agg'.confirmation
        /\ agg'.status = "StoppedBeforeAurExecution"
    BY <1>1, <1>2, FreshFields DEF StopForCacheAuthority
  <2> QED BY <1>1, <1>2, <2>1, EndsWithoutResult, OperationEnds
<1>3. ASSUME NEW inv, NEW issue \in {"ForeignInventoryFailed", "AurQueryFailed"},
             uaStage' = "done",
             agg' = StoppedInPreflight([agg EXCEPT !.inventory = inv], issue)
      PROVE  UpInv'
  <2>1. /\ agg'.op = <<>> /\ agg'.aur \in {"NotAttempted", "BlockedBeforeExecution"}
        /\ ~agg'.confirmation /\ agg'.status = "StoppedBeforeAurExecution"
    BY <1>1, <1>3, FreshFields DEF StoppedInPreflight, ContradictionIssues
  <2> QED BY <1>1, <1>3, <2>1, EndsWithoutResult, OperationEnds
<1>4. CASE CacheReplaced
  BY <1>2, <1>4 DEF CacheReplaced, Finish
<1>5. CASE ForeignInventory
  <2>1. CASE uaStage' = "query" /\ agg' = [agg EXCEPT !.inventory = "Completed"]
    <3>1. agg' = [FreshAggregate EXCEPT !.inventory = agg'.inventory]
      BY <1>1, <2>1, FreshFields DEF FreshAggregate
    <3> QED BY <1>1, <2>1, <3>1, OperationMovesOn DEF AurPart
  <2> QED BY <1>3, <1>5, <2>1 DEF ForeignInventory, Finish, Part
<1>6. CASE AurQuery
  <2>1. CASE uaStage' = "prepare" /\ agg' = agg
    BY <1>1, <2>1, OperationMovesOn DEF AurPart
  <2>2. CASE uaStage' = "done" /\ agg' = StoppedInPreflight(agg, "AurQueryFailed")
    <3>1. [agg EXCEPT !.inventory = agg.inventory] = agg
      BY <1>1, FreshFields
    <3> QED BY <1>3, <2>2, <3>1
  <2> QED BY <1>6, <2>1, <2>2 DEF AurQuery, Finish, Part
<1> QED BY <1>4, <1>5, <1>6


(* The aggregate becomes NoUpdates only when it tells of no change. *)
LEMMA ConcludedFacts ==
  ASSUME UpInv, UNCHANGED vars, NEW st, NEW iv, NEW au, NEW op, NEW is, st # "NoUpdates",
         agg' = Concluded([status |-> st, inventory |-> iv, aur |-> au,
                           confirmation |-> FALSE, op |-> op, issue |-> is])
  PROVE  /\ agg'.op = op /\ agg'.aur = au /\ ~agg'.confirmation
         /\ agg'.status \in {st, "NoUpdates"}
         /\ agg'.status = "NoUpdates" => st = "Completed" /\ AggregateStateChange(agg)' = "NoChange"
<1> DEFINE a == [status |-> st, inventory |-> iv, aur |-> au, confirmation |-> FALSE,
                 op |-> op, issue |-> is]
<1>1. /\ agg'.op = op /\ agg'.aur = au /\ agg'.confirmation = FALSE
      /\ agg'.status \in {st, "NoUpdates"}
  BY DEF Concluded
<1>2. ASSUME agg'.status = "NoUpdates"
      PROVE  st = "Completed" /\ AggregateStateChange(agg)' = "NoChange"
  <2>1. st = "Completed" /\ QualifiesAsNoUpdates(a)
    BY <1>2 DEF Concluded
  <2>2. AggregateStateChange(a) = "NoChange"
    BY <2>1 DEF QualifiesAsNoUpdates
  <2>3. AurPackageStateChange(agg') = AurPackageStateChange(a)
    BY <1>1 DEF AurPackageStateChange
  <2>4. PackageStateChange' = PackageStateChange
    BY SourceKept
  <2> HIDE DEF a
  <2> QED BY <2>1, <2>2, <2>3, <2>4 DEF AggregateStateChange
<1> QED BY <1>1, <1>2

LEMMA PrepareFilteredInv == UpInv /\ PrepareFilteredOperation => UpInv'
<1> SUFFICES ASSUME UpInv, PrepareFilteredOperation PROVE UpInv'
  OBVIOUS
<1>1. /\ uaStage = "prepare" /\ uaStage \in AurPart /\ UNCHANGED vars
      /\ UNCHANGED <<vars, aurVars, command>> /\ auStage = "idle" /\ aurChanged = {}
      /\ agg = [FreshAggregate EXCEPT !.inventory = agg.inventory]
      /\ command = "upgrade-all" => FirstPartSucceeded /\ stage = "done"
      /\ aurChanged' = {} /\ stage' = stage /\ items' = items
  BY DEF PrepareFilteredOperation, UpInv, AurInv, AurPart, FirstPartSucceeded, vars, aurVars
<1>2. CASE uaStage' = "execute" /\ agg' = agg
  BY <1>1, <1>2, OperationMovesOn DEF AurPart
<1>3. CASE /\ uaStage' = "done"
           /\ agg' = Concluded([agg EXCEPT !.aur = "NoUpdates",
                                           !.op = <<Unexecuted("NoUpdates")>>])
  <2>1. [agg EXCEPT !.aur = "NoUpdates", !.op = <<Unexecuted("NoUpdates")>>] =
           [status |-> "Completed", inventory |-> agg.inventory, aur |-> "NoUpdates",
            confirmation |-> FALSE, op |-> <<Unexecuted("NoUpdates")>>, issue |-> "None"]
    <3>1. PICK iv : iv = agg.inventory
      OBVIOUS
    <3>2. agg = [status |-> "Completed", inventory |-> iv, aur |-> "NotAttempted",
                 confirmation |-> FALSE, op |-> <<>>, issue |-> "None"]
      BY <1>1, <3>1, FreshFields
    <3>3. [agg EXCEPT !.aur = "NoUpdates", !.op = <<Unexecuted("NoUpdates")>>] =
             [status |-> "Completed", inventory |-> iv, aur |-> "NoUpdates",
              confirmation |-> FALSE, op |-> <<Unexecuted("NoUpdates")>>, issue |-> "None"]
      BY <3>2, FreshWithoutUpdates, Zenon
    <3> QED BY <3>1, <3>3, Zenon
  <2>2. /\ agg'.op = <<Unexecuted("NoUpdates")>> /\ agg'.aur = "NoUpdates"
        /\ agg'.status \in {"Completed", "NoUpdates"}
        /\ agg'.status = "NoUpdates" => AggregateStateChange(agg)' = "NoChange"
    BY <1>1, <1>3, <2>1, ConcludedFacts
  <2>3. Unexecuted("NoUpdates")' = Unexecuted("NoUpdates")
    BY <1>1 DEF Unexecuted
  <2>4. UnexecutedKept'
    BY <1>1, <2>2, <2>3 DEF UnexecutedKept
  <2>5. command = "upgrade-all" => Aggregated'
    BY <1>1, <2>2, <2>4 DEF Aggregated
  <2> QED BY <1>1, <1>3, <2>5, OperationEnds
<1>4. CASE /\ uaStage' = "done"
           /\ agg' = [agg EXCEPT !.aur = "BlockedBeforeExecution",
                                 !.status = "StoppedBeforeAurExecution",
                                 !.op = <<Unexecuted("BlockedBeforeExecution")>>]
  <2>1. /\ agg'.op = <<Unexecuted("BlockedBeforeExecution")>>
        /\ agg'.aur = "BlockedBeforeExecution" /\ agg'.status = "StoppedBeforeAurExecution"
    BY <1>1, <1>4, FreshFields
  <2>2. Unexecuted("BlockedBeforeExecution")' = Unexecuted("BlockedBeforeExecution")
    BY <1>1 DEF Unexecuted
  <2>3. UnexecutedKept'
    BY <1>1, <2>1, <2>2 DEF UnexecutedKept
  <2>4. command = "upgrade-all" => Aggregated'
    BY <1>1, <2>1, <2>3 DEF Aggregated
  <2> QED BY <1>1, <1>4, <2>4, OperationEnds
<1>5. ASSUME NEW issue \in {"FilteredAurExecutionFailed", "FilteredAurPreparationFailed"},
             uaStage' = "done", agg' = StoppedInPreflight(agg, issue)
      PROVE  UpInv'
  <2>1. /\ agg'.op = <<>> /\ agg'.aur # "Completed" /\ ~agg'.confirmation
        /\ agg'.status \in {"InconsistentResult", "StoppedBeforeAurExecution"}
    BY <1>1, <1>5, FreshFields DEF StoppedInPreflight, ContradictionIssues
  <2> QED BY <1>1, <1>5, <2>1, EndsWithoutResult, OperationEnds
<1>6. ASSUME NEW cancelled \in BOOLEAN, uaStage' = "done", agg' = StoppedByQuestion(cancelled)
      PROVE  UpInv'
  <2>1. /\ agg'.op = <<>> /\ agg'.aur # "Completed"
        /\ agg'.status \in {"StoppedOnAurCancellation", "StoppedBeforeAurExecution"}
    BY <1>1, <1>6, FreshFields DEF StoppedByQuestion
  <2> QED BY <1>1, <1>6, <2>1, EndsWithoutResult, OperationEnds
<1> QED BY <1>2, <1>3, <1>4, <1>5, <1>6 DEF PrepareFilteredOperation, Finish, Part

LEMMA ReduceKept ==
  ASSUME UNCHANGED aurVars
  PROVE  Reduce(items, aur)' = Reduce(items, aur)
BY DEF aurVars

LEMMA MappedStatus ==
  ASSUME NEW r
  PROVE  /\ MapFilteredStatus(r)[2] = "Completed" => r.status = "Completed"
         /\ MapFilteredStatus(r)[1] \notin {"NoUpdates", "BlockedBeforeMutation"}
BY DEF MapFilteredStatus

LEMMA ReduceAurInv == UpInv /\ ReduceAur => UpInv'
<1> SUFFICES ASSUME UpInv, ReduceAur PROVE UpInv'
  OBVIOUS
<1> DEFINE r == Reduce(items, aur)
<1>1. /\ uaStage = "execute" /\ uaStage \in AurPart /\ UNCHANGED vars /\ UNCHANGED aurVars
      /\ UNCHANGED <<vars, aurVars, command>> /\ auStage \in {"returned", "cancelled"}
      /\ agg = [FreshAggregate EXCEPT !.inventory = agg.inventory]
      /\ command = "upgrade-all" => FirstPartSucceeded /\ stage = "done"
      /\ auStage' = auStage /\ stage' = stage /\ uaStage' = "done"
      /\ agg' = Concluded([agg EXCEPT !.op = <<r>>, !.status = MapFilteredStatus(r)[1],
                                      !.aur = MapFilteredStatus(r)[2]])
  BY DEF ReduceAur, Finish, UpInv, AurPart, FirstPartSucceeded, vars, aurVars
<1>2. r' = r
  BY <1>1, ReduceKept
<1> HIDE DEF r
<1>3. [agg EXCEPT !.op = <<r>>, !.status = MapFilteredStatus(r)[1],
                  !.aur = MapFilteredStatus(r)[2]] =
         [status |-> MapFilteredStatus(r)[1], inventory |-> agg.inventory,
          aur |-> MapFilteredStatus(r)[2], confirmation |-> FALSE, op |-> <<r>>,
          issue |-> "None"]
  <2>1. PICK iv : iv = agg.inventory
    OBVIOUS
  <2>2. agg = [status |-> "Completed", inventory |-> iv, aur |-> "NotAttempted",
               confirmation |-> FALSE, op |-> <<>>, issue |-> "None"]
    BY <1>1, <2>1, FreshFields
  <2>3. [agg EXCEPT !.op = <<r>>, !.status = MapFilteredStatus(r)[1],
                    !.aur = MapFilteredStatus(r)[2]] =
           [status |-> MapFilteredStatus(r)[1], inventory |-> iv,
            aur |-> MapFilteredStatus(r)[2], confirmation |-> FALSE, op |-> <<r>>,
            issue |-> "None"]
    <3>1. \A st, au, op :
            [agg EXCEPT !.op = op, !.status = st, !.aur = au] =
               [status |-> st, inventory |-> iv, aur |-> au, confirmation |-> FALSE,
                op |-> op, issue |-> "None"]
      BY <2>2, FreshReplaced, Zenon
    <3> QED BY <3>1, Zenon
  <2> QED BY <2>1, <2>3, Zenon
<1>4. /\ agg'.op = <<r>> /\ agg'.aur = MapFilteredStatus(r)[2]
      /\ agg'.status \in {MapFilteredStatus(r)[1], "NoUpdates"}
      /\ agg'.status = "NoUpdates" => AggregateStateChange(agg)' = "NoChange"
  BY <1>1, <1>3, ConcludedFacts, MappedStatus
<1>5. /\ agg'.aur = "Completed" => r.status = "Completed"
      /\ agg'.status # "BlockedBeforeMutation"
  BY <1>4, MappedStatus
<1>6. ReducedKept'
  BY <1>1, <1>2, <1>4, <1>5 DEF ReducedKept, r
<1>7. command = "upgrade-all" => Aggregated'
  BY <1>1, <1>4, <1>5, <1>6 DEF Aggregated
<1> QED BY <1>1, <1>7, OperationEnds

LEMMA AurEscapesInv == UpInv /\ AurEscapes => UpInv'
<1> SUFFICES ASSUME UpInv, AurEscapes PROVE UpInv'
  OBVIOUS
<1>1. /\ uaStage = "execute" /\ uaStage \in AurPart
      /\ UNCHANGED <<vars, aurVars, command>>
      /\ agg = [FreshAggregate EXCEPT !.inventory = agg.inventory]
      /\ command = "upgrade-all" => FirstPartSucceeded /\ stage = "done"
  BY DEF AurEscapes, UpInv, AurPart, FirstPartSucceeded
<1>2. CASE command = "upgrade-aur"
  BY <1>1, <1>2, OperationEnds DEF AurEscapes, Part
<1>3. CASE command # "upgrade-aur"
  <2>1. /\ uaStage' = "done"
        /\ agg' \in {StopForCacheAuthority(agg),
                     StoppedInPreflight(agg, "FilteredAurExecutionFailed"),
                     StoppedInPreflight(agg, "FilteredAurPreparationFailed")}
    BY <1>3 DEF AurEscapes, Finish
  <2>2. /\ agg'.op = <<>> /\ agg'.aur # "Completed" /\ ~agg'.confirmation
        /\ agg'.status \in {"StoppedBeforeAurExecution", "InconsistentResult"}
    <3>1. CASE agg' = StopForCacheAuthority(agg)
      BY <1>1, <3>1, FreshFields DEF StopForCacheAuthority
    <3>2. CASE agg' = StoppedInPreflight(agg, "FilteredAurPreparationFailed")
      BY <1>1, <3>2, FreshFields DEF StoppedInPreflight, ContradictionIssues
    <3>3. CASE agg' = StoppedInPreflight(agg, "FilteredAurExecutionFailed")
      BY <1>1, <3>3, FreshFields DEF StoppedInPreflight, ContradictionIssues
    <3> QED BY <2>1, <3>1, <3>2, <3>3
  <2>3. command = "upgrade-all"
    BY <1>3 DEF UpInv
  <2> QED BY <1>1, <2>1, <2>2, <2>3, EndsWithoutResult, OperationEnds
<1> QED BY <1>2, <1>3

LEMMA PartsInv ==
  ASSUME UpInv, SystemSourceStep \/ AurStep
  PROVE  UpInv'
<1>1. CASE SystemSourceStep
  <2>1. /\ uaStage = "systemSource" /\ UNCHANGED aurVars /\ command' = command
        /\ uaStage' = uaStage /\ agg' = agg /\ auStage' = auStage /\ aurChanged' = aurChanged
        /\ aurChanged = {} /\ Next
    BY <1>1 DEF SystemSourceStep, uaVars, aurVars, UpInv, AurInv
  <2>2. SourceInv'
    BY <2>1, SourceNextInv DEF UpInv
  <2>3. AurInv'
    BY <2>1, AurKept DEF UpInv
  <2> QED BY <2>1, <2>2, <2>3 DEF UpInv, SourceInv, AurPart
<1>2. CASE AurStep
  <2>1. /\ uaStage = "execute" /\ UNCHANGED vars /\ command' = command
        /\ uaStage' = uaStage /\ agg' = agg /\ stage' = stage /\ AurNext
    BY <1>2 DEF AurStep, uaVars, vars
  <2>2. AurInv'
    BY <2>1, AurNextInv DEF UpInv
  <2>3. /\ SourceTypes' /\ InOrder' /\ (stage' = "done" => AtEnd')
        /\ command' = "upgrade-all" => FirstPartSucceeded'
    BY <2>1, SourceKept DEF UpInv, AurPart
  <2> QED BY <2>1, <2>2, <2>3 DEF UpInv, AurPart
<1> QED BY <1>1, <1>2

LEMMA NoStepInv == UpInv /\ UNCHANGED allVars => UpInv'
<1> SUFFICES ASSUME UpInv, UNCHANGED allVars PROVE UpInv'
  OBVIOUS
<1>1. /\ UNCHANGED vars /\ UNCHANGED aurVars /\ command' = command /\ uaStage' = uaStage
      /\ agg' = agg /\ stage' = stage /\ auStage' = auStage /\ aurChanged' = aurChanged
      /\ items' = items /\ changed' = changed
  BY DEF allVars, vars, aurVars, uaVars
<1>2. /\ SourceTypes' /\ InOrder' /\ (stage' = "done" => AtEnd') /\ AurInv'
      /\ FirstPartSucceeded => FirstPartSucceeded'
      /\ SourceInv => SourceInv'
      /\ PackageStateChange' = PackageStateChange
  BY <1>1, SourceKept, AurKept DEF UpInv
<1>3. Reduce(items, aur)' = Reduce(items, aur)
  BY <1>1, ReduceKept
<1>4. \A s \in {"NoUpdates", "BlockedBeforeExecution"} : Unexecuted(s)' = Unexecuted(s)
  BY <1>1 DEF Unexecuted
<1>5. NothingKept => NothingKept'
  BY <1>1 DEF NothingKept
<1>6. UnexecutedKept => UnexecutedKept'
  BY <1>1, <1>4 DEF UnexecutedKept
<1>7. ReducedKept => ReducedKept'
  BY <1>1, <1>3 DEF ReducedKept
<1>8. AggregateStateChange(agg)' = AggregateStateChange(agg)
  BY <1>1, <1>2 DEF AggregateStateChange, AurPackageStateChange
<1>9. Aggregated => Aggregated'
  BY <1>1, <1>2, <1>5, <1>6, <1>7, <1>8 DEF Aggregated
<1> QED BY <1>1, <1>2, <1>9 DEF UpInv, AurPart

LEMMA UpNextInv == UpInv /\ [UpgradeNext]_allVars => UpInv'
<1> SUFFICES ASSUME UpInv, [UpgradeNext]_allVars PROVE UpInv'
  OBVIOUS
<1>1. CASE PreparationEscapes
  BY <1>1, RejectedInv DEF PreparationEscapes
<1>2. CASE RejectBeforeExecution
  BY <1>2, RejectedInv DEF RejectBeforeExecution
<1>3. CASE SystemSourceEscapes
  BY <1>3, RejectedInv DEF SystemSourceEscapes
<1>4. CASE SystemSourceStopped
  BY <1>4, OperationEnds DEF SystemSourceStopped, Part
<1>5. CASE Over \/ UNCHANGED allVars
  BY <1>5, NoStepInv DEF Over
<1> QED BY <1>1, <1>2, <1>3, <1>4, <1>5, PartsInv, AfterSystemSourceInv, PreflightInv,
           PrepareFilteredInv, ReduceAurInv, AurEscapesInv DEF UpgradeNext


LEMMA UpInvariant == UpgradeSpec => []UpInv
<1>1. UpgradeInit => UpInv
  BY UpInitInv
<1>2. UpInv /\ [UpgradeNext]_allVars => UpInv'
  BY UpNextInv
<1> QED BY <1>1, <1>2, PTL DEF UpgradeSpec

-----------------------------------------------------------------------------
(* What follows *)

(* What execute_prepared_system_source_upgrade reports of the system, of   *)
(* the providers and of each source is true of the package database: a     *)
(* phase that changed packages is never reported as NoChange, and one      *)
(* reported as Changed did.                                                *)
THEOREM UpgradeReportIsTrue == UpgradeSpec => []ReportTruthful
<1>1. UpInv => ReportTruthful
  BY DEF UpInv, ReportTruthful, AtEnd, Phases, Truth
<1> QED BY <1>1, UpInvariant, PTL

(* When pacman replaced a registered source package, a successful upgrade  *)
(* has put the build of the source back, unless the repository is ahead of *)
(* the recipe (check_update_version with the baseline of the preparation). *)
THEOREM ReplacedAreRebuilt == UpgradeSpec => []ReplacedIsRebuilt
<1>1. UpInv => ReplacedIsRebuilt
  <2> SUFFICES ASSUME UpInv, stage = "done", IsSuccess, NEW i \in replaced
               PROVE  db[i].origin = "source" \/ db[i].ver > recipe[i]
    BY DEF ReplacedIsRebuilt
  <2>1. AtEnd /\ i \in Sources /\ result.status = "Completed"
    BY TypesOf DEF UpInv, IsSuccess
  <2>2. result.sources[i].status # "Incomplete"
    BY <2>1 DEF IsSuccess, NonSuccess
  <2> QED BY <2>1, <2>2 DEF AtEnd, Rebuilt
<1> QED BY <1>1, UpInvariant, PTL

(* No phase of upgrade-all or upgrade-aur changes packages after something *)
(* before it has failed: sources follow the system, AUR packages follow    *)
(* all sources, and every work item the items before it.                   *)
THEOREM NothingFollowsAStop == UpgradeSpec => []NothingAfterStop
<1>1. UpInv => NothingAfterStop
  <2> SUFFICES ASSUME UpInv PROVE NothingAfterStop
    OBVIOUS
  <2>1. \A j \in changed \cap Sources :
          /\ result.system.status = "Completed"
          /\ \A i \in 1..(j - 1) : result.sources[i].status \in {"Updated", "NoChange", "Incomplete"}
    BY DEF UpInv, InOrder, Unblocked
  <2>2. aurChanged # {} /\ command = "upgrade-all" =>
          IsSuccess /\ result.system.status = "Completed"
    BY DEF UpInv, FirstPartSucceeded
  <2>3. \A j \in aurChanged \ {0} : /\ ProviderSuccess(aur.providers)
                                    /\ \A k \in 1..(j - 1) : Finished(aur.items[k].status)
    BY DEF UpInv, AurInv, AurOrder, Finished, Done
  <2> QED BY <2>1, <2>2, <2>3 DEF NothingAfterStop
<1> QED BY <1>1, UpInvariant, PTL

(* The reducer of the AUR part tells what the runner did: it takes no end  *)
(* of an invocation for a contradiction, and a target is Updated, NoChange *)
(* or Skipped only when its work items were.                               *)
THEOREM ReductionIsTrue == UpgradeSpec => []ReductionTruthful
<1>1. UpInv => ReductionTruthful
  BY ReductionHolds DEF UpInv
<1> QED BY <1>1, UpInvariant, PTL

(* What the aggregate tells of the AUR part is so. *)
LEMMA AurPartChange ==
  ASSUME AurInv, Aggregated
  PROVE  /\ AurPackageStateChange(agg) \in Changes
         /\ aurChanged # {} => AurPackageStateChange(agg) # "NoChange"
         /\ AurPackageStateChange(agg) = "Changed" => aurChanged # {}
<1>1. CASE NothingKept
  BY <1>1 DEF NothingKept, AurPackageStateChange, Changes
<1>2. CASE UnexecutedKept
  <2>1. PICK s : agg.op = <<Unexecuted(s)>>
    BY <1>2 DEF UnexecutedKept
  <2>2. Unexecuted(s).psc = "NoChange"
    BY DEF Unexecuted
  <2>3. agg.op # <<>> /\ agg.op[1] = Unexecuted(s)
    BY <2>1
  <2>4. AurPackageStateChange(agg) \in {"NoChange", "Unknown"}
    BY <2>2, <2>3 DEF AurPackageStateChange
  <2>5. aurChanged = {}
    BY <1>2 DEF UnexecutedKept
  <2> QED BY <2>4, <2>5 DEF Changes
<1>3. CASE ReducedKept
  <2> DEFINE r == Reduce(items, aur)
  <2>1. /\ agg.op = <<r>> /\ auStage \in {"returned", "cancelled"}
    BY <1>3 DEF ReducedKept
  <2>2. /\ r.psc \in Changes
        /\ aurChanged # {} => r.psc # "NoChange"
        /\ r.psc = "Changed" => aurChanged # {}
    BY <2>1, ReducedFields, ReducedChange
  <2> HIDE DEF r
  <2>3. agg.op # <<>> /\ agg.op[1] = r
    BY <2>1
  <2>4. AurPackageStateChange(agg) = r.psc \/
          (r.psc = "NoChange" /\ AurPackageStateChange(agg) \in {"NoChange", "Unknown"})
    BY <2>3 DEF AurPackageStateChange
  <2> QED BY <2>2, <2>4 DEF Changes
<1> QED BY <1>1, <1>2, <1>3 DEF Aggregated

LEMMA CompletedItems ==
  ASSUME AurInv, Aggregated, agg.aur = "Completed"
  PROVE  \A k \in Items : Finished(aur.items[k].status)
<1>1. ReducedKept
  BY DEF Aggregated, NothingKept, UnexecutedKept
<1>2. Reduce(items, aur).status = "Completed"
  BY <1>1 DEF ReducedKept
<1>3. aur.status = "Completed" /\ InvocationResultIsConsistent(aur)
  BY <1>2 DEF Reduce
<1>4. DOMAIN aur.items = Items
  BY DomainOfItems
<1> QED BY <1>3, <1>4 DEF InvocationResultIsConsistent, Finished


(* The final result of upgrade-all leaves nothing out: NoChange and        *)
(* NoUpdates mean that no package changed in any phase, Changed that one   *)
(* did, success that no source and no item was left over; what is shown    *)
(* for the operation and for its phases says the same                      *)
(* (upgrade_all_operation_result.cpp).                                     *)
THEOREM AggregateIsTrue == UpgradeSpec => []AggregateTruthful
<1>1. UpInv => AggregateTruthful
  <2> SUFFICES ASSUME UpInv, uaStage = "done", command = "upgrade-all" PROVE AggregateTruthful
    BY DEF AggregateTruthful
  <2> DEFINE some == changed \cup aurChanged
             first == PackageStateChange
             second == AurPackageStateChange(agg)
             whole == AggregateStateChange(agg)
  <2>0. AurInv /\ SourceTypes /\ Aggregated /\ (stage = "done" => AtEnd)
    BY DEF UpInv
  <2>1. /\ first \in Changes
        /\ changed # {} => first # "NoChange"
        /\ first = "Changed" => changed # {}
    <3>1. first \in Changes
      BY DEF PackageStateChange, Changes
    <3>2. CASE stage = "done"
      BY <2>0, <3>1, <3>2, FirstPartChange
    <3>3. CASE stage # "done"
      BY <2>0, <3>1, <3>3 DEF Aggregated
    <3> QED BY <3>2, <3>3
  <2>2. /\ second \in Changes
        /\ aurChanged # {} => second # "NoChange"
        /\ second = "Changed" => aurChanged # {}
    BY <2>0, AurPartChange
  <2>3. whole = IF "Changed" \in {first, second} THEN "Changed"
                ELSE IF "Unknown" \in {first, second} THEN "Unknown" ELSE "NoChange"
    BY DEF AggregateStateChange
  <2> HIDE DEF first, second, whole
  <2>4. /\ whole \in Changes
        /\ some # {} => whole # "NoChange"
        /\ whole = "Changed" => some # {}
    BY <2>1, <2>2, <2>3 DEF Changes
  <2>5. some # {} => agg.status # "NoUpdates"
    BY <2>0, <2>4 DEF Aggregated, whole
  <2>6. AggregateSuccess => /\ \A i \in Sources : Finished(result.sources[i].status)
                            /\ agg.aur = "Completed" =>
                                  \A k \in DOMAIN items : Finished(aur.items[k].status)
    <3>1. AggregateSuccess => \A i \in Sources : Finished(result.sources[i].status)
      BY DEF AggregateSuccess, IsSuccess, NonSuccess, Finished
    <3>2. agg.aur = "Completed" => \A k \in DOMAIN items : Finished(aur.items[k].status)
      BY <2>0, CompletedItems DEF Items
    <3> QED BY <3>1, <3>2
  <2>7. ASSUME some # {}
        PROVE  /\ OperationState.outcome \notin {"NoOp", "Blocked"}
               /\ OperationState.outcome = "Failed" =>
                     changed = {SystemPhase} /\ result.system.status = "Failed"
    <3>1. ~IsNoOp
      BY <2>4, <2>7 DEF IsNoOp, whole
    <3>2. agg.status # "BlockedBeforeMutation"
      BY <2>0, <2>7 DEF Aggregated
    <3>3. OperationState.outcome = Outcome
      BY DEF OperationState
    <3>4. Outcome \notin {"NoOp", "Blocked"}
      BY <3>1, <3>2 DEF Outcome
    <3>5. ASSUME Outcome = "Failed"
          PROVE  changed = {SystemPhase} /\ result.system.status = "Failed"
      <4>1. result.system.status # "Completed"
        BY <3>5 DEF Outcome, HasPartialCompletion
      <4>2. aurChanged = {} /\ changed # {}
        BY <2>7, <4>1 DEF UpInv, FirstPartSucceeded
      <4>3. AtEnd
        BY <2>0, <4>2 DEF Aggregated
      <4>4. result.system.status \in {"NotAttempted", "Completed", "Failed"}
        BY <2>0, TypesOf DEF Results
      <4> QED BY <4>1, <4>2, <4>3, <4>4 DEF AtEnd
    <3> QED BY <3>3, <3>4, <3>5
  <2>8. \A psc, reason : psc \in Changes =>
           /\ Observation(psc, reason) = "Changed" => psc = "Changed"
           /\ Observation(psc, reason) = "VerifiedUnchanged" => psc = "NoChange"
    BY DEF Observation, Changes
  <2>9. \A psc \in Changes, skipped \in BOOLEAN :
           /\ FailClosed(psc, skipped) \in Changes
           /\ FailClosed(psc, skipped) = "Changed" => psc = "Changed"
           /\ FailClosed(psc, skipped) = "NoChange" => psc = "NoChange"
    BY DEF FailClosed, Changes
  <2>10. SystemSourceNotAttempted \in BOOLEAN /\ AurPhaseNotAttempted \in BOOLEAN
    BY DEF SystemSourceNotAttempted, HasNotAttemptedSources, AurPhaseNotAttempted
  <2>11. /\ PhaseObservations.systemSource = "Changed" => changed # {}
         /\ PhaseObservations.systemSource = "VerifiedUnchanged" => changed = {}
    <3>1. PhaseObservations.systemSource =
            Observation(FailClosed(first, SystemSourceNotAttempted),
                        SystemSourceObservationReason)
      BY DEF PhaseObservations, first
    <3> QED BY <2>1, <2>8, <2>9, <2>10, <3>1
  <2>12. /\ PhaseObservations.aur = "Changed" => aurChanged # {}
         /\ PhaseObservations.aur = "VerifiedUnchanged" => aurChanged = {}
    <3>1. PhaseObservations.aur =
            Observation(FailClosed(second, AurPhaseNotAttempted), AurObservationReason)
      BY DEF PhaseObservations, second
    <3> QED BY <2>2, <2>8, <2>9, <2>10, <3>1
  <2>13. /\ OperationState.state = "Changed" => some # {}
         /\ OperationState.state = "VerifiedUnchanged" => some = {}
    <3>1. OperationState.state = Observation(whole, OperationReason)
      BY DEF OperationState, whole
    <3> QED BY <2>4, <2>8, <3>1
  <2>14. \A p \in {<<PhaseObservations.systemSource, changed>>,
                   <<PhaseObservations.aur, aurChanged>>,
                   <<OperationState.state, changed \cup aurChanged>>} :
             /\ p[1] = "Changed" => p[2] # {}
             /\ p[1] = "VerifiedUnchanged" => p[2] = {}
    BY <2>11, <2>12, <2>13
  <2> QED BY <2>4, <2>5, <2>6, <2>7, <2>14 DEF AggregateTruthful, whole
<1> QED BY <1>1, UpInvariant, PTL

(***************************************************************************)
(* The system update of -Syu                                               *)
(***************************************************************************)
SystemStatuses ==
    {"InconsistentResult", "Completed", "StoppedOnRepositoryFailure", "StoppedBeforeAurExecution",
     "StoppedOnAurCancellation", "StoppedAfterAurCleanupFailure", "StoppedOnAurFailure",
     "StoppedOnCoordinatedTransition"}
SystemPhases ==
    {"Reduction", "None", "Repository", "ForeignInventory", "AurQuery", "AurPreparation",
     "AurExecution", "CoordinatedTransition"}
PhaseStatuses == {"NotAttempted", "Completed", "Failed"}
AurPhaseStatuses ==
    {"NotAttempted", "InconsistentResult", "NoUpdates", "Completed", "BlockedBeforeExecution",
     "StoppedOnProviderTransactionFailure", "StoppedOnWorkItemCancellation",
     "StoppedOnWorkItemFailure", "StoppedAfterCleanupFailure"}
SkipReasons == {"none", "RepositoryFailure", "ForeignInventoryFailure", "AurQueryFailure",
                "PriorAggregateInconsistency"}

SystemResults ==
    [status : SystemStatuses, phase : SystemPhases, repo : PhaseStatuses,
     exit : {<<>>, <<0>>, <<1>>}, inventory : PhaseStatuses, query : PhaseStatuses,
     hasQuery : BOOLEAN, queryFails : BOOLEAN, aur : AurPhaseStatuses,
     op : {<<>>} \cup {<<f>> : f \in FilteredResults},
     reasons : [inventory : SkipReasons, query : SkipReasons, aur : SkipReasons,
                repo : SkipReasons]]

NoReasons == [inventory |-> "none", query |-> "none", aur |-> "none", repo |-> "none"]

\* What the steps need to know about the package database.
InstShape ==
    /\ DOMAIN inst = Packages
    /\ \A p \in Packages : inst[p] # <<>> =>
          1 \in DOMAIN inst[p] /\ "needs" \in DOMAIN inst[p][1]

Observing == {"foreign", "relations", "dependencies", "remote"}
ReportedModes == {"actual", "reused"}

\* An observation has a purpose, and its candidates are foreign packages.
ObsShape(o) ==
    /\ {"purpose", "candidates"} \subseteq DOMAIN o
    /\ \A cand \in o.candidates : cand.consumer \in Foreign

SysShape ==
    /\ {"mode", "stage", "obs"} \subseteq DOMAIN sys
    /\ ObsShape(sys.obs)
    /\ sysRes \in SystemResults
    /\ trans.on \in BOOLEAN

TransFields == {"on", "plan", "phase", "failed", "complete", "metadataFailure",
                "aurResult", "queryFailure", "consumer", "final"}

\* The replacement of a confirmed plan pins the repository package.
Pinned(chosen) ==
    LET reqs == MatchingRuntimeRequirements(chosen.cand)
    IN reqs # {} /\ \A r \in reqs : Exact(r) /\ r.on = chosen.cand.lib

\* What the last phase has found of the replacement.
Verified(t) ==
    LET c == t.plan.cand
        p == t.final[1][c.consumer][1]
    IN /\ p.ver = c.aur.recipe.ver
       /\ p.reason = t.plan.snapshot[1].foreign[c.consumer][1].reason
       /\ \E r \in p.needs : r.on = c.lib /\ Exact(r) /\ Meets(r, t.final[1][c.lib][1].ver)

\* The packages as they were read for the install reason: whoever touches the
\* consumer since then leaves its requirements alone.
FinalRead(t) ==
    LET c == t.plan.cand.consumer
        found == t.final[1]
    IN /\ found[c][1].reason = t.plan.snapshot[1].foreign[c][1].reason
       /\ Present(inst, c) => inst[c][1].needs = found[c][1].needs

Untroubled(t) == ~t.metadataFailure /\ ~t.queryFailure /\ t.consumer = "unseen"

PhaseOfStage(t) ==
    \/ At("confirm") /\ t.phase = 1
    \/ sys.stage \in Observing \cup {"revalidate"} /\ t.phase = 2 /\ sys.obs.purpose = "reval"
    \/ At("remove") /\ t.phase = 3
    \/ At("sync") /\ t.phase = 4
    \/ At("repoState") /\ t.phase = 5
    \/ At("authority") /\ t.phase = 6
    \/ sys.stage \in {"replace", "build"} /\ t.phase = 7
    \/ At("finalSnapshot") /\ t.phase = 8
    \/ At("finalState") /\ t.phase = 9 /\ FinalRead(t)

\* A coordinated transition: which phase it is in, what it has done by then.
TransFacts(t, done) ==
    /\ TransFields \subseteq DOMAIN t
    /\ t.on
    /\ t.phase \in 1..9
    /\ t.plan.cand.consumer \in Foreign /\ Pinned(t.plan)
    /\ "removed" \in done <=> t.phase > 3
    /\ "synced" \in done <=> t.phase > 4
    /\ t.phase > 7 => t.aurResult # <<>> /\ FilteredSuccess(t.aurResult[1])
    /\ t.complete \in BOOLEAN
    /\ t.complete => t.phase = 9 /\ Verified(t) /\ Untroubled(t)

OnRoute ==
    /\ TransFacts(trans, sysDone)
    /\ \/ ~trans.complete /\ Untroubled(trans) /\ PhaseOfStage(trans)
       \/ At("afterPartial") /\ ~trans.complete
       \/ sys.stage \in {"reduce", "over"}

\* The repository transaction is done and nothing of the AUR yet.
Early(r) ==
    /\ r.repo = "Completed" /\ r.exit = <<0>> /\ r.reasons = NoReasons
    /\ r.aur = "NotAttempted" /\ r.op = <<>>

Queried(r) ==
    /\ r.repo = "Completed" /\ r.exit = <<0>> /\ r.reasons = NoReasons
    /\ r.inventory = "Completed" /\ r.query \in {"Completed", "Failed"} /\ r.hasQuery
    /\ r.queryFails = (r.query = "Failed")

\* The results that are reduced, with what was done.
Reducible(r, done, mode) ==
    \/ /\ mode = "reused" /\ r.repo = "NotAttempted" /\ r.aur = "NotAttempted"
       /\ r.op = <<>> /\ done = {}
    \/ r.repo = "Failed" /\ r.exit # <<0>> /\ RepositoryFailureTail(r) /\ done = {}
    \/ /\ r.repo = "Completed" /\ r.exit = <<0>> /\ r.inventory = "Failed"
       /\ InventoryFailureTail(r) /\ done = {"synced"}
    \/ /\ r.repo = "Completed" /\ r.exit = <<0>> /\ r.inventory = "Completed"
       /\ r.query = "Failed" /\ ~r.hasQuery /\ r.aur = "NotAttempted"
       /\ r.reasons.aur = "AurQueryFailure" /\ r.op = <<>> /\ done = {"synced"}
    \/ /\ Queried(r) /\ r.op = <<>> /\ r.aur = "BlockedBeforeExecution" /\ done = {"synced"}
    \/ /\ Queried(r) /\ r.op = <<>> /\ r.aur = "InconsistentResult"
       /\ r.phase \in {"AurPreparation", "AurExecution"} /\ done \in {{"synced"}, {"synced", "aur"}}
    \/ /\ Queried(r) /\ r.op # <<>> /\ r.aur = "NotAttempted"
       /\ r.op[1].queryFailure = (r.query = "Failed")
       /\ done \in {{"synced"}, {"synced", "aur"}}
       /\ r.op[1].psc = "Changed" => "aur" \in done

OffRoute ==
    \/ /\ sysRes = FreshSystemResult /\ sysDone = {}
       /\ \/ sys.stage \in Observing /\ sys.obs.purpose = "pre"
          \/ sys.stage \in {"decide", "sync"}
          \/ At("reused") /\ sys.mode = "reused"
          \/ sys.stage \in {"dryRepo", "dryInventory"} /\ sys.mode \notin ReportedModes
    \/ /\ sys.stage \in Observing /\ sys.obs.purpose = "late"
       /\ sysRes.repo = "Failed" /\ sysRes.exit # <<0>> /\ RepositoryFailureTail(sysRes)
       /\ sysDone = {}
    \/ /\ At("inventory") /\ Early(sysRes) /\ sysRes.query = "NotAttempted"
       /\ ~sysRes.hasQuery /\ sysDone = {"synced"}
    \/ /\ At("query") /\ Early(sysRes) /\ sysRes.inventory = "Completed"
       /\ ~sysRes.hasQuery /\ sysDone = {"synced"}
    \/ /\ sys.stage \in {"prepareAur", "executeAur"} /\ Early(sysRes) /\ Queried(sysRes)
       /\ sysDone = {"synced"}
    \/ At("reduce") /\ Reducible(sysRes, sysDone, sys.mode)
    \/ At("over")

Reported ==
    At("over") /\ sys.mode \in ReportedModes =>
       /\ ResultIsTrue(sysRes, trans, sysDone, sys.mode)
       /\ ReduceSystemAurUpdate(sysRes, trans) = sysRes

SysInv ==
    /\ InstShape
    /\ SysShape
    /\ trans.on => OnRoute
    /\ ~trans.on => OffRoute
    /\ Reported

(***************************************************************************)
(* Operators                                                               *)
(***************************************************************************)
\* A plan that is ready is for a foreign package whose replacement pins the
\* repository package.
LEMMA ReadyIsPinned ==
    ASSUME NEW o, ObsShape(o), ReadyTransition(o) # <<>>
    PROVE  LET chosen == ReadyTransition(o)[1]
           IN chosen.cand.consumer \in Foreign /\ Pinned(chosen)
<1>1. PICK chosen \in PlanTransitions(o) :
         chosen.status = "ReadOnlyReady" /\ ReadyTransition(o) = <<chosen>>
  <2> DEFINE ready == {p \in PlanTransitions(o) : p.status = "ReadOnlyReady"}
  <2>1. ready # {} /\ ReadyTransition(o) = <<CHOOSE p \in ready : TRUE>>
    BY DEF ReadyTransition
  <2>2. PICK q \in ready : q = CHOOSE p \in ready : TRUE
    BY <2>1
  <2> QED BY <2>1, <2>2
<1>3. PICK cand \in o.candidates :
         /\ chosen.cand = cand
         /\ chosen.status = "Unsupported" \/ chosen.status = ClassifyTransition(o, cand)[1]
  <2> DEFINE blockers == {c \in o.candidates : Locks(c)}
             status(c) == IF Cardinality(blockers) > 1 THEN "Unsupported"
                          ELSE ClassifyTransition(o, c)[1]
  <2>1. PlanTransitions(o) =
           {[cand |-> c, snapshot |-> o.snapshot, status |-> status(c)] : c \in blockers}
    BY Zenon DEF PlanTransitions
  <2>2. PICK c \in blockers : chosen = [cand |-> c, snapshot |-> o.snapshot, status |-> status(c)]
    BY <2>1
  <2> QED BY <2>2
<1>4. ClassifyTransition(o, cand)[1] = "ReadOnlyReady"
  BY <1>1, <1>3
<1> DEFINE reqs == MatchingRuntimeRequirements(cand)
<1>5. AssessCandidate(cand) \notin {"MissingReplacement", "QueryFailure", "IncompatibleReplacement",
                                    "Ambiguous", "Unknown"}
      /\ \A r \in reqs : Exact(r)
  BY <1>4 DEF ClassifyTransition
<1>6. reqs # {}
  BY <1>5 DEF AssessCandidate
<1>7. \A r \in reqs : r.on = cand.lib
  BY DEF MatchingRuntimeRequirements
<1>8. cand.consumer \in Foreign
  BY DEF ObsShape
<1> QED BY <1>1, <1>3, <1>5, <1>6, <1>7, <1>8 DEF Pinned

\* Everything but status, phase and aur is the same.
SameParts(s, r) ==
    /\ s.repo = r.repo /\ s.exit = r.exit /\ s.inventory = r.inventory /\ s.query = r.query
    /\ s.hasQuery = r.hasQuery /\ s.queryFails = r.queryFails /\ s.op = r.op
    /\ s.reasons = r.reasons

\* What stopping an operation sets, and that doing so again sets the same.
LEMMA StoppedIs ==
    ASSUME NEW r \in SystemResults, NEW status \in SystemStatuses, NEW phase \in SystemPhases
    PROVE  LET s == StoppedAt(r, status, phase)
           IN /\ s \in SystemResults /\ s.status = status /\ s.phase = phase
              /\ s.aur = r.aur /\ SameParts(s, r) /\ StoppedAt(s, status, phase) = s
<1> DEFINE s == StoppedAt(r, status, phase)
<1>1. /\ s \in SystemResults /\ s.status = status /\ s.phase = phase
      /\ s.aur = r.aur /\ SameParts(s, r)
  BY DEF StoppedAt, SystemResults, SameParts
<1>2. StoppedAt(s, status, phase) = s
  BY DEF StoppedAt, SystemResults
<1> QED BY <1>1, <1>2

\* The same for a result that contradicts itself.
LEMMA InconsistentIs ==
    ASSUME NEW r \in SystemResults, NEW phase \in SystemPhases
    PROVE  LET s == Inconsistent(r, phase)
           IN /\ s \in SystemResults /\ s.status = "InconsistentResult" /\ s.phase = phase
              /\ s.aur = (IF r.op # <<>> \/ r.aur # "NotAttempted" THEN "InconsistentResult" ELSE r.aur)
              /\ SameParts(s, r) /\ Inconsistent(s, phase) = s
<1> DEFINE s == Inconsistent(r, phase)
           projected == IF r.op # <<>> \/ r.aur # "NotAttempted" THEN "InconsistentResult" ELSE r.aur
<1>1. /\ s \in SystemResults /\ s.status = "InconsistentResult" /\ s.phase = phase
      /\ s.aur = projected /\ SameParts(s, r)
  <2>1. s = [r EXCEPT !.status = "InconsistentResult", !.phase = phase, !.aur = projected]
    BY DEF Inconsistent
  <2>2. projected \in AurPhaseStatuses
    BY DEF SystemResults, AurPhaseStatuses
  <2>3. "InconsistentResult" \in SystemStatuses
    BY DEF SystemStatuses
  <2> HIDE DEF s, projected
  <2> QED BY <2>1, <2>2, <2>3 DEF SystemResults, SameParts
<1> HIDE DEF s, projected
<1>2. (IF s.op # <<>> \/ s.aur # "NotAttempted" THEN "InconsistentResult" ELSE s.aur) = s.aur
  BY <1>1 DEF SameParts, projected
<1>3. Inconsistent(s, phase) = [s EXCEPT !.status = s.status, !.phase = s.phase, !.aur = s.aur]
  BY <1>1, <1>2 DEF Inconsistent
<1>4. Inconsistent(s, phase) = s
  BY <1>1, <1>3 DEF SystemResults
<1> QED BY <1>1, <1>4 DEF s, projected

\* The same when the AUR operation has returned.
LEMMA FilteredIsTrue ==
    ASSUME NEW r \in SystemResults, NEW t, NEW done, NEW mode, ~t.on,
           Queried(r), r.op # <<>>, r.aur = "NotAttempted",
           r.op[1].queryFailure = (r.query = "Failed"),
           done \in {{"synced"}, {"synced", "aur"}}, r.op[1].psc = "Changed" => "aur" \in done
    PROVE  LET s == ReduceSystemAurUpdate(r, t)
           IN /\ s \in SystemResults
              /\ ResultIsTrue(s, t, done, mode)
              /\ ReduceSystemAurUpdate(s, t) = s
<1> DEFINE f == r.op[1]
           projected == ProjectedAurPhaseStatus(f)
           s == ReduceSystemAurUpdate(r, t)
<1>1. f \in FilteredResults /\ r.op = <<f>>
  BY DEF SystemResults
<1>2. projected \in AurPhaseStatuses \ {"NotAttempted"}
  BY <1>1 DEF FilteredResults, ProjectedAurPhaseStatus, AurPhaseStatuses
<1>3. \A q : q.op = r.op /\ q.reasons = r.reasons /\ q.query = r.query /\ q.repo = r.repo
             /\ q.exit = r.exit /\ q.inventory = r.inventory /\ q.hasQuery = r.hasQuery
             /\ q.queryFails = r.queryFails
             => ReduceSystemAurUpdate(q, t) = ReduceFiltered(q)
  BY DEF ReduceSystemAurUpdate, Queried
<1>4. CASE FilteredInconsistent(f)
  <2>1. \A q : q.op = r.op => ReduceFiltered(q) = Inconsistent(q, "Reduction")
    BY <1>4 DEF ReduceFiltered
  <2>2. s = Inconsistent(r, "Reduction")
    BY <1>3, <2>1
  <2>3. "Reduction" \in SystemPhases
    BY DEF SystemPhases
  <2> HIDE DEF s
  <2>4. /\ s \in SystemResults /\ s.status = "InconsistentResult" /\ s.phase = "Reduction"
        /\ s.aur = "InconsistentResult" /\ SameParts(s, r) /\ Inconsistent(s, "Reduction") = s
    BY <2>2, <2>3, InconsistentIs
  <2>5. ReduceSystemAurUpdate(s, t) = s
    BY <1>3, <2>1, <2>4 DEF SameParts
  <2>6. ResultIsTrue(s, t, done, mode)
    BY <1>4, <2>4 DEF ResultIsTrue, SameParts, SysSuccess, SysStateChange, SysPartial, Queried
  <2> QED BY <2>4, <2>5, <2>6 DEF s
<1>5. CASE ~FilteredInconsistent(f)
  <2> DEFINE Stopping(q, status, phase) == StoppedAt([q EXCEPT !.aur = projected], status, phase)
  <2>1. PICK status \in SystemStatuses, phase \in SystemPhases :
           /\ status = "Completed" <=> FilteredSuccess(f)
           /\ status = "Completed" => phase = "None" /\ projected \in {"NoUpdates", "Completed"}
           /\ status # "InconsistentResult"
           /\ \A q : /\ q.op = r.op /\ q.reasons = r.reasons /\ q.query = r.query
                     /\ q.aur \in {"NotAttempted", projected}
                     => ReduceFiltered(q) = Stopping(q, status, phase)
    <3>0. r.reasons.aur = "none" /\ (r.query = "Failed") = f.queryFailure
      BY DEF Queried, NoReasons
    <3> DEFINE Reduces(status, phase) ==
                 \A q : /\ q.op = r.op /\ q.reasons = r.reasons /\ q.query = r.query
                        /\ q.aur \in {"NotAttempted", projected}
                        => ReduceFiltered(q) = Stopping(q, status, phase)
    <3> HIDE DEF projected
    <3>1. CASE r.query = "Failed"
      <4>1. Reduces("StoppedBeforeAurExecution", "AurQuery")
        BY <1>5, <3>0, <3>1 DEF ReduceFiltered, projected
      <4>2. ~FilteredSuccess(f)
        BY <3>0, <3>1 DEF FilteredSuccess
      <4> QED BY <4>1, <4>2 DEF SystemStatuses, SystemPhases
    <3>2. CASE r.query # "Failed" /\ f.status \in {"NoUpdates", "Completed"}
      <4>1. FilteredSuccess(f)
        BY <3>0, <3>2, <1>1 DEF FilteredSuccess, FilteredResults
      <4>2. Reduces("Completed", "None")
        BY <1>5, <3>0, <3>2, <4>1 DEF ReduceFiltered, projected
      <4>3. projected \in {"NoUpdates", "Completed"}
        BY <3>0, <3>2, <1>1 DEF projected, ProjectedAurPhaseStatus, FilteredResults
      <4> QED BY <4>1, <4>2, <4>3 DEF SystemStatuses, SystemPhases
    <3>3. CASE r.query # "Failed" /\ f.status \notin {"NoUpdates", "Completed"}
      <4>1. ~FilteredSuccess(f)
        BY <3>3 DEF FilteredSuccess
      <4>2. CASE f.status = "BlockedBeforeExecution"
        <5>1. Reduces("StoppedBeforeAurExecution", "AurPreparation")
          BY <1>5, <3>0, <3>3, <4>2 DEF ReduceFiltered, projected
        <5> QED BY <4>1, <5>1 DEF SystemStatuses, SystemPhases
      <4>3. CASE f.status = "StoppedOnWorkItemCancellation"
        <5>1. Reduces("StoppedOnAurCancellation", "AurExecution")
          BY <1>5, <3>0, <3>3, <4>3 DEF ReduceFiltered, projected
        <5> QED BY <4>1, <5>1 DEF SystemStatuses, SystemPhases
      <4>4. CASE f.status = "StoppedAfterPackageCleanupFailure"
        <5>1. Reduces("StoppedAfterAurCleanupFailure", "AurExecution")
          BY <1>5, <3>0, <3>3, <4>4 DEF ReduceFiltered, projected
        <5> QED BY <4>1, <5>1 DEF SystemStatuses, SystemPhases
      <4>5. CASE f.status \notin {"BlockedBeforeExecution", "StoppedOnWorkItemCancellation",
                                  "StoppedAfterPackageCleanupFailure"}
        <5>1. Reduces("StoppedOnAurFailure", "AurExecution")
          BY <1>5, <3>0, <3>3, <4>5 DEF ReduceFiltered, projected
        <5> QED BY <4>1, <5>1 DEF SystemStatuses, SystemPhases
      <4> QED BY <4>2, <4>3, <4>4, <4>5
    <3> QED BY <3>1, <3>2, <3>3
  <2> DEFINE u == [r EXCEPT !.aur = projected]
  <2> HIDE DEF projected
  <2>2. u \in SystemResults /\ u.aur = projected /\ SameParts(u, r)
    BY <1>2 DEF SystemResults, SameParts
  <2>3. s = StoppedAt(u, status, phase)
    BY <1>3, <2>1
  <2> HIDE DEF s, u
  <2>4. /\ s \in SystemResults /\ s.status = status /\ s.phase = phase /\ s.aur = projected
        /\ SameParts(s, r) /\ StoppedAt(s, status, phase) = s
    BY <2>2, <2>3, StoppedIs DEF SameParts
  <2>5. [s EXCEPT !.aur = projected] = s
    BY <2>4 DEF SystemResults
  <2>6. ReduceSystemAurUpdate(s, t) = s
    <3>1. ReduceSystemAurUpdate(s, t) = ReduceFiltered(s)
      BY <1>3, <2>4 DEF SameParts
    <3>2. ReduceFiltered(s) = Stopping(s, status, phase)
      BY <2>1, <2>4 DEF SameParts
    <3> QED BY <2>4, <2>5, <3>1, <3>2
  <2>7. ResultIsTrue(s, t, done, mode)
    <3>1. s.op = <<f>> /\ s.op # <<>> /\ s.reasons = NoReasons /\ s.aur # "NotAttempted"
      BY <1>1, <1>2, <2>4 DEF SameParts, Queried, projected
    <3>2. SysSuccess(s, t) = (s.status = "Completed")
      <4>1. FilteredSuccess(f) => r.query = "Completed"
        BY DEF FilteredSuccess, Queried
      <4>2. ASSUME s.status = "Completed" PROVE SysSuccess(s, t)
        <5>1. FilteredSuccess(s.op[1]) /\ s.phase = "None" /\ s.aur \in {"NoUpdates", "Completed"}
          BY <2>1, <2>4, <3>1, <4>2
        <5> QED BY <2>1, <2>4, <3>1, <4>1, <4>2, <5>1 DEF SysSuccess, SameParts, Queried, NoReasons
      <4>3. SysSuccess(s, t) => s.status = "Completed"
        BY DEF SysSuccess
      <4>4. SysSuccess(s, t) \in BOOLEAN
        BY DEF SysSuccess
      <4> QED BY <4>2, <4>3, <4>4
    <3>3. SysSuccess(s, t) => ~SysNotAttempted(s, t) /\ ~SysQueryFailure(s, t)
      BY <2>1, <2>4, <3>1, <3>2 DEF SysSuccess, SysNotAttempted, SysQueryFailure, SameParts, Queried,
         NoReasons, FilteredSuccess
    <3>4. SysStateChange(s, t) = "Changed" => "aur" \in done
      BY <3>1 DEF SysStateChange
    <3> QED BY <2>1, <2>4, <3>1, <3>2, <3>3, <3>4 DEF ResultIsTrue, SameParts, Queried, SysPartial
  <2> QED BY <2>4, <2>6, <2>7 DEF s
<1> QED BY <1>4, <1>5

\* A result that is reduced is true, and reducing it again changes nothing.
LEMMA ReducedIsTrue ==
    ASSUME NEW r \in SystemResults, NEW t, NEW done, NEW mode,
           ~t.on, Reducible(r, done, mode)
    PROVE  LET s == ReduceSystemAurUpdate(r, t)
           IN /\ s \in SystemResults
              /\ ResultIsTrue(s, t, done, mode)
              /\ ReduceSystemAurUpdate(s, t) = s
<1> DEFINE s == ReduceSystemAurUpdate(r, t)
<1>1. CASE /\ mode = "reused" /\ r.repo = "NotAttempted" /\ r.aur = "NotAttempted"
           /\ r.op = <<>> /\ done = {}
  <2>1. "Reduction" \in SystemPhases
    BY <1>1 DEF SystemPhases
  <2>2. s = Inconsistent(r, "Reduction")
    BY <1>1 DEF ReduceSystemAurUpdate
  <2> HIDE DEF s
  <2>3. /\ s \in SystemResults /\ s.status = "InconsistentResult" /\ s.phase = "Reduction"
        /\ s.aur = (IF r.op # <<>> \/ r.aur # "NotAttempted" THEN "InconsistentResult" ELSE r.aur)
        /\ SameParts(s, r) /\ Inconsistent(s, "Reduction") = s
    BY <2>1, <2>2, InconsistentIs
  <2>4. ReduceSystemAurUpdate(s, t) = s
    BY <2>3, <1>1 DEF ReduceSystemAurUpdate, SameParts
  <2>5. ResultIsTrue(s, t, done, mode)
    BY <2>3, <1>1 DEF ResultIsTrue, SameParts, SysSuccess, SysStateChange, SysPartial
  <2> QED BY <2>3, <2>4, <2>5 DEF s
<1>2. CASE r.repo = "Failed" /\ r.exit # <<0>> /\ RepositoryFailureTail(r) /\ done = {}
  <2>1. "StoppedOnRepositoryFailure" \in SystemStatuses /\ "Repository" \in SystemPhases
    BY DEF SystemStatuses, SystemPhases
  <2>2. s = StoppedAt(r, "StoppedOnRepositoryFailure", "Repository")
    BY <1>2 DEF ReduceSystemAurUpdate, RepositoryFailureTail
  <2> HIDE DEF s
  <2>3. /\ s \in SystemResults /\ s.status = "StoppedOnRepositoryFailure" /\ s.phase = "Repository"
        /\ s.aur = r.aur /\ SameParts(s, r) /\ StoppedAt(s, "StoppedOnRepositoryFailure", "Repository") = s
    BY <2>1, <2>2, StoppedIs
  <2>4. ReduceSystemAurUpdate(s, t) = s
    BY <2>3, <1>2 DEF ReduceSystemAurUpdate, SameParts, RepositoryFailureTail
  <2>5. ResultIsTrue(s, t, done, mode)
    BY <2>3, <1>2 DEF ResultIsTrue, SameParts, SysSuccess, SysStateChange, SysPartial, RepositoryFailureTail
  <2> QED BY <2>3, <2>4, <2>5 DEF s
<1>3. CASE /\ r.repo = "Completed" /\ r.exit = <<0>> /\ r.inventory = "Failed"
           /\ InventoryFailureTail(r) /\ done = {"synced"}
  <2>1. "StoppedBeforeAurExecution" \in SystemStatuses /\ "ForeignInventory" \in SystemPhases
    BY DEF SystemStatuses, SystemPhases
  <2>2. s = StoppedAt(r, "StoppedBeforeAurExecution", "ForeignInventory")
    BY <1>3 DEF ReduceSystemAurUpdate, InventoryFailureTail
  <2> HIDE DEF s
  <2>3. /\ s \in SystemResults /\ s.status = "StoppedBeforeAurExecution" /\ s.phase = "ForeignInventory"
        /\ s.aur = r.aur /\ SameParts(s, r) /\ StoppedAt(s, "StoppedBeforeAurExecution", "ForeignInventory") = s
    BY <2>1, <2>2, StoppedIs
  <2>4. ReduceSystemAurUpdate(s, t) = s
    BY <2>3, <1>3 DEF ReduceSystemAurUpdate, SameParts, InventoryFailureTail
  <2>5. ResultIsTrue(s, t, done, mode)
    BY <2>3, <1>3 DEF ResultIsTrue, SameParts, SysSuccess, SysStateChange, SysPartial, InventoryFailureTail
  <2> QED BY <2>3, <2>4, <2>5 DEF s
<1>4. CASE /\ r.repo = "Completed" /\ r.exit = <<0>> /\ r.inventory = "Completed"
           /\ r.query = "Failed" /\ ~r.hasQuery /\ r.aur = "NotAttempted"
           /\ r.reasons.aur = "AurQueryFailure" /\ r.op = <<>> /\ done = {"synced"}
  <2>1. "StoppedBeforeAurExecution" \in SystemStatuses /\ "AurQuery" \in SystemPhases
    BY DEF SystemStatuses, SystemPhases
  <2>2. s = StoppedAt(r, "StoppedBeforeAurExecution", "AurQuery")
    BY <1>4 DEF ReduceSystemAurUpdate
  <2> HIDE DEF s
  <2>3. /\ s \in SystemResults /\ s.status = "StoppedBeforeAurExecution" /\ s.phase = "AurQuery"
        /\ s.aur = r.aur /\ SameParts(s, r) /\ StoppedAt(s, "StoppedBeforeAurExecution", "AurQuery") = s
    BY <2>1, <2>2, StoppedIs
  <2>4. ReduceSystemAurUpdate(s, t) = s
    BY <2>3, <1>4 DEF ReduceSystemAurUpdate, SameParts
  <2>5. ResultIsTrue(s, t, done, mode)
    BY <2>3, <1>4 DEF ResultIsTrue, SameParts, SysSuccess, SysStateChange, SysPartial
  <2> QED BY <2>3, <2>4, <2>5 DEF s
<1>5. CASE /\ Queried(r) /\ r.op = <<>> /\ r.aur = "BlockedBeforeExecution" /\ done = {"synced"}
  <2>1. "StoppedBeforeAurExecution" \in SystemStatuses /\ "AurPreparation" \in SystemPhases
    BY DEF SystemStatuses, SystemPhases
  <2>2. s = StoppedAt(r, "StoppedBeforeAurExecution", "AurPreparation")
    BY <1>5 DEF ReduceSystemAurUpdate, Queried, NoReasons
  <2> HIDE DEF s
  <2>3. /\ s \in SystemResults /\ s.status = "StoppedBeforeAurExecution" /\ s.phase = "AurPreparation"
        /\ s.aur = r.aur /\ SameParts(s, r) /\ StoppedAt(s, "StoppedBeforeAurExecution", "AurPreparation") = s
    BY <2>1, <2>2, StoppedIs
  <2>4. ReduceSystemAurUpdate(s, t) = s
    BY <2>3, <1>5 DEF ReduceSystemAurUpdate, SameParts, Queried, NoReasons
  <2>5. ResultIsTrue(s, t, done, mode)
    BY <2>3, <1>5 DEF ResultIsTrue, SameParts, SysSuccess, SysStateChange, SysPartial, Queried, NoReasons
  <2> QED BY <2>3, <2>4, <2>5 DEF s
<1>6. CASE /\ Queried(r) /\ r.op = <<>> /\ r.aur = "InconsistentResult"
           /\ r.phase \in {"AurPreparation", "AurExecution"} /\ done \in {{"synced"}, {"synced", "aur"}}
  <2>1. r.phase \in SystemPhases
    BY <1>6 DEF SystemPhases
  <2>2. s = Inconsistent(r, r.phase)
    BY <1>6 DEF ReduceSystemAurUpdate, Queried, NoReasons
  <2> HIDE DEF s
  <2>3. /\ s \in SystemResults /\ s.status = "InconsistentResult" /\ s.phase = r.phase
        /\ s.aur = (IF r.op # <<>> \/ r.aur # "NotAttempted" THEN "InconsistentResult" ELSE r.aur)
        /\ SameParts(s, r) /\ Inconsistent(s, r.phase) = s
    BY <2>1, <2>2, InconsistentIs
  <2>4. ReduceSystemAurUpdate(s, t) = s
    BY <2>3, <1>6 DEF ReduceSystemAurUpdate, SameParts, Queried, NoReasons
  <2>5. ResultIsTrue(s, t, done, mode)
    BY <2>3, <1>6 DEF ResultIsTrue, SameParts, SysSuccess, SysStateChange, SysPartial, Queried, NoReasons
  <2> QED BY <2>3, <2>4, <2>5 DEF s
<1>7. CASE /\ Queried(r) /\ r.op # <<>> /\ r.aur = "NotAttempted"
           /\ r.op[1].queryFailure = (r.query = "Failed")
           /\ done \in {{"synced"}, {"synced", "aur"}}
           /\ r.op[1].psc = "Changed" => "aur" \in done
  BY <1>7, FilteredIsTrue
<1> QED BY <1>1, <1>2, <1>3, <1>4, <1>5, <1>6, <1>7 DEF Reducible
\* The result of a transition is reduced to what its phases say.
LEMMA TransitionIsTrue ==
    ASSUME NEW r \in SystemResults, NEW t, NEW done, NEW mode, TransFacts(t, done)
    PROVE  LET s == ReduceSystemAurUpdate(r, t)
           IN /\ s \in SystemResults
              /\ ResultIsTrue(s, t, done, mode)
              /\ ReduceSystemAurUpdate(s, t) = s
<1> DEFINE status == IF TransSuccess(t) THEN "Completed" ELSE "StoppedOnCoordinatedTransition"
           phase == IF TransSuccess(t) THEN "None" ELSE "CoordinatedTransition"
           repo == PhaseStatus(t, 4)
           Marked(q) == [q EXCEPT !.status = status, !.phase = phase, !.repo = repo]
           s == ReduceSystemAurUpdate(r, t)
<1>1. /\ status \in SystemStatuses /\ phase \in SystemPhases /\ repo \in PhaseStatuses
      /\ status = "Completed" <=> TransSuccess(t)
      /\ status # "InconsistentResult"
  BY DEF SystemStatuses, SystemPhases, PhaseStatuses, PhaseStatus
<1>2. \A q : ReduceSystemAurUpdate(q, t) = Marked(q)
  BY DEF ReduceSystemAurUpdate, TransFacts
<1>3. repo = "NotAttempted" => t.phase < 4
  BY DEF PhaseStatus, TransFacts
<1> HIDE DEF status, phase, repo
<1>4. s \in SystemResults /\ s.status = status /\ s.phase = phase /\ s.repo = repo
  <2>1. s = [r EXCEPT !.status = status, !.phase = phase, !.repo = repo]
    BY <1>2
  <2> HIDE DEF s
  <2> QED BY <1>1, <2>1 DEF SystemResults
<1>5. Marked(s) = s
  BY <1>4 DEF SystemResults
<1>6. ReduceSystemAurUpdate(s, t) = s
  BY <1>2, <1>5
<1> HIDE DEF s
<1>7. SysSuccess(s, t) = TransSuccess(t)
  BY DEF SysSuccess, TransFacts
<1>8. TransSuccess(t) => t.complete /\ t.phase = 9 /\ Untroubled(t) /\ ~t.aurResult[1].queryFailure
  BY DEF TransSuccess, TransFacts, FilteredSuccess
<1>9. RemovalCompleted(t) <=> "removed" \in done
  BY DEF RemovalCompleted, PhaseStatus, TransFacts
<1>10. TransSuccess(t) \in BOOLEAN
  BY DEF TransSuccess, TransFacts
<1>11. SysSuccess(s, t) => "synced" \in done
  BY <1>7, <1>8 DEF TransFacts
<1>12. SysSuccess(s, t) = (s.status = "Completed")
  BY <1>1, <1>4, <1>7, <1>10
<1>13. SysSuccess(s, t) => ~SysNotAttempted(s, t) /\ ~SysQueryFailure(s, t)
  BY <1>7, <1>8 DEF TransFacts, SysNotAttempted, SysQueryFailure, PhaseStatus, Untroubled
<1>14. SysStateChange(s, t) = "Changed" => done \cap {"removed", "aur"} # {}
  BY <1>9 DEF SysStateChange, TransFacts
<1>15. SysPartial(s, t) => done # {}
  BY <1>9 DEF SysPartial, TransPartial, TransFacts
<1>16. "removed" \in done => TransSuccess(t) \/ TransPartial(t)
  BY <1>9 DEF TransPartial
<1>17. s.repo = "NotAttempted" => "synced" \notin done
  BY <1>3, <1>4 DEF TransFacts
<1>18. t.on
  BY DEF TransFacts
<1>19. ResultIsTrue(s, t, done, mode)
  BY <1>1, <1>4, <1>11, <1>12, <1>13, <1>14, <1>15, <1>16, <1>17, <1>18 DEF ResultIsTrue
<1> QED BY <1>4, <1>6, <1>19 DEF s

(***************************************************************************)
(* The steps                                                               *)
(***************************************************************************)
LEMMA SysStarts == SysInit => SysInv
<1> SUFFICES ASSUME SysInit PROVE SysInv
  OBVIOUS
<1>1. InstShape
  <2>1. PICK w \in SysWorlds : inst = w.inst
    BY DEF SysInit
  <2> DEFINE R == [ver : Nat, needs : SUBSET Requirements, provides : SUBSET Packages, reason : STRING]
  <2>2. inst \in [Packages -> {<<>>} \cup [{1} -> R]]
    BY <2>1, SysAssumption
  <2>3. \A p \in Packages : inst[p] # <<>> => inst[p] \in [{1} -> R]
    BY <2>2
  <2>4. \A x \in R : "needs" \in DOMAIN x
    OBVIOUS
  <2> HIDE DEF R
  <2> QED BY <2>2, <2>3, <2>4 DEF InstShape
<1>2. PICK m \in {"actual", "dryAuto", "dryRepo", "reused"} : sys = SysStart(m)
  BY DEF SysInit
<1>3. ~trans.on /\ trans.on \in BOOLEAN
  BY DEF SysInit, NoTransition
<1>4. /\ sys.mode = m /\ sys.stage = (IF m = "actual" \/ m = "dryAuto" THEN "foreign" ELSE m)
      /\ sys.obs = FreshObservation("pre") /\ {"mode", "stage", "obs"} \subseteq DOMAIN sys
  BY <1>2 DEF SysStart
<1>5. ObsShape(FreshObservation("pre")) /\ FreshObservation("pre").purpose = "pre"
  BY DEF ObsShape, FreshObservation
<1>6. sysRes = FreshSystemResult /\ sysDone = {}
  BY DEF SysInit
<1>7. FreshSystemResult \in SystemResults
  <2>1. /\ "InconsistentResult" \in SystemStatuses /\ "Reduction" \in SystemPhases
        /\ "NotAttempted" \in PhaseStatuses /\ "NotAttempted" \in AurPhaseStatuses
        /\ "none" \in SkipReasons
    BY DEF SystemStatuses, SystemPhases, PhaseStatuses, AurPhaseStatuses, SkipReasons
  <2> QED BY <2>1 DEF FreshSystemResult, SystemResults
<1>8. SysShape
  BY <1>3, <1>4, <1>5, <1>6, <1>7 DEF SysShape
<1>9. OffRoute /\ Reported
  BY <1>4, <1>5, <1>6 DEF OffRoute, Reported, Observing, ReportedModes, At
<1> QED BY <1>1, <1>3, <1>8, <1>9 DEF SysInv
\* A step of an observation, or its end.
LEMMA ObservationMoves ==
    ASSUME SysInv, sys.stage \in Observing, NEW o, ObsShape(o), o.purpose = sys.obs.purpose,
           UNCHANGED <<inst, trans, sysRes, sysDone>>,
           Observed(o) \/ \E s \in Observing : sys' = [sys EXCEPT !.stage = s, !.obs = o]
    PROVE  SysInv'
<1>1. PICK s : /\ sys' = [sys EXCEPT !.stage = s, !.obs = o]
               /\ \/ s \in Observing
                  \/ o.purpose = "reval" /\ s = "revalidate"
                  \/ o.purpose = "late" /\ s = "reduce"
                  \/ o.purpose \notin {"reval", "late"} /\ sys.mode = "dryAuto" /\ s = "dryInventory"
                  \/ o.purpose \notin {"reval", "late"} /\ s = "decide"
  <2> DEFINE To(s) == sys' = [sys EXCEPT !.stage = s, !.obs = o]
  <2>1. ASSUME Observed(o), o.purpose = "reval" PROVE To("revalidate")
    BY <2>1 DEF Observed
  <2>2. ASSUME Observed(o), o.purpose = "late" PROVE To("reduce")
    BY <2>2 DEF Observed
  <2>3. ASSUME Observed(o), o.purpose \notin {"reval", "late"}, sys.mode = "dryAuto"
        PROVE  To("dryInventory")
    BY <2>3 DEF Observed
  <2>4. ASSUME Observed(o), o.purpose \notin {"reval", "late"}, sys.mode # "dryAuto"
        PROVE  To("decide")
    BY <2>4 DEF Observed
  <2> QED BY <2>1, <2>2, <2>3, <2>4
<1>2. /\ sys'.stage = s /\ sys'.obs = o /\ sys'.mode = sys.mode
      /\ {"mode", "stage", "obs"} \subseteq DOMAIN sys'
  BY <1>1 DEF SysInv, SysShape
<1>3. s # "over"
  BY <1>1 DEF Observing
<1>4. InstShape' /\ SysShape' /\ Reported'
  BY <1>2, <1>3 DEF SysInv, SysShape, InstShape, Reported, At
<1>5. ASSUME trans.on PROVE OnRoute'
  <2>1. /\ TransFacts(trans, sysDone) /\ ~trans.complete /\ Untroubled(trans)
        /\ trans.phase = 2 /\ sys.obs.purpose = "reval"
    BY <1>5 DEF SysInv, OnRoute, PhaseOfStage, Observing, At
  <2>2. s \in Observing \cup {"revalidate"}
    BY <1>1, <2>1
  <2> QED BY <1>2, <2>1, <2>2 DEF OnRoute, PhaseOfStage
<1>6. ASSUME ~trans.on PROVE OffRoute'
  <2>1. \/ sysRes = FreshSystemResult /\ sysDone = {} /\ sys.obs.purpose = "pre"
        \/ /\ sys.obs.purpose = "late" /\ sysRes.repo = "Failed" /\ sysRes.exit # <<0>>
           /\ RepositoryFailureTail(sysRes) /\ sysDone = {}
    BY <1>6 DEF SysInv, OffRoute, Observing, At
  <2>2. CASE sysRes = FreshSystemResult /\ sysDone = {} /\ sys.obs.purpose = "pre"
    <3>1. s \in Observing \/ s = "decide" \/ (s = "dryInventory" /\ sys.mode \notin ReportedModes)
      BY <1>1, <2>2 DEF ReportedModes
    <3> QED BY <1>2, <2>2, <3>1 DEF OffRoute
  <2>3. CASE /\ sys.obs.purpose = "late" /\ sysRes.repo = "Failed" /\ sysRes.exit # <<0>>
             /\ RepositoryFailureTail(sysRes) /\ sysDone = {}
    <3>1. s \in Observing \cup {"reduce"}
      BY <1>1, <2>3
    <3>2. RepositoryFailureTail(sysRes')
      BY <2>3
    <3>3. Reducible(sysRes', sysDone', sys'.mode)
      BY <2>3, <3>2 DEF Reducible
    <3> QED BY <1>2, <2>3, <3>1, <3>2, <3>3 DEF OffRoute, At
  <2> QED BY <2>1, <2>2, <2>3
<1> QED BY <1>4, <1>5, <1>6 DEF SysInv

\* An issue leaves purpose and candidates alone.
LEMMA IssueKept ==
    \A o, k, st : ObsShape(o) =>
       ObsShape(Issue(o, k, st)) /\ Issue(o, k, st).purpose = o.purpose
BY DEF ObsShape, Issue

LEMMA ForeignStep == SysInv /\ ObserveForeign => SysInv'
<1> SUFFICES ASSUME SysInv, ObserveForeign PROVE SysInv'
  OBVIOUS
<1> DEFINE found == [p \in Foreign |-> IF Present(inst, p)
                       THEN <<[ver |-> inst[p][1].ver, reason |-> inst[p][1].reason]>> ELSE <<>>]
           Read(f) == [sys.obs EXCEPT !.fault = f, !.foreign = found]
           Go(o) == Observed(o) \/ \E s \in Observing : sys' = [sys EXCEPT !.stage = s, !.obs = o]
<1>1. \E f : \/ Go([Read(f) EXCEPT !.failure = TRUE])
             \/ \E k, st : Go(Issue(sys.obs, k, st))
             \/ Go(Read(f))
  BY DEF ObserveForeign, Observing
<1>2. ObsShape(sys.obs)
  BY DEF SysInv, SysShape
<1> HIDE DEF found
<1>3. PICK o : ObsShape(o) /\ o.purpose = sys.obs.purpose /\ Go(o)
  <2>1. \A f : ObsShape(Read(f)) /\ Read(f).purpose = sys.obs.purpose
    BY <1>2 DEF ObsShape
  <2> HIDE DEF Read
  <2>2. \A f : LET i == [Read(f) EXCEPT !.failure = TRUE]
               IN ObsShape(i) /\ i.purpose = sys.obs.purpose
    BY <2>1 DEF ObsShape
  <2>3. \A k, st : LET i == Issue(sys.obs, k, st) IN ObsShape(i) /\ i.purpose = sys.obs.purpose
    BY <1>2, IssueKept
  <2> HIDE DEF Go
  <2> QED BY <1>1, <2>1, <2>2, <2>3
<1>4. sys.stage \in Observing /\ UNCHANGED <<inst, trans, sysRes, sysDone>>
  BY DEF ObserveForeign, At, Observing, worldVars
<1> QED BY <1>3, <1>4, ObservationMoves

LEMMA RelationsStep == SysInv /\ ObserveRelations => SysInv'
<1> SUFFICES ASSUME SysInv, ObserveRelations PROVE SysInv'
  OBVIOUS
<1> DEFINE Read(set) == [sys.obs EXCEPT !.pkgs = [p \in Packages |->
                            IF p \in set /\ Present(inst, p) THEN inst[p] ELSE <<>>]]
           Go(o) == Observed(o) \/ \E s \in Observing : sys' = [sys EXCEPT !.stage = s, !.obs = o]
<1>1. \/ \E k, st : Go(Issue(sys.obs, k, st))
      \/ \E set, k, st : Go(Issue(Read(set), k, st))
      \/ \E set : Go(Read(set))
  <2>1. CASE sys.obs.fault = "relations"
    BY <2>1 DEF ObserveRelations
  <2>2. CASE sys.obs.fault = "relationsPartial"
    <3>1. PICK p : sys' = [sys EXCEPT !.stage = "dependencies",
                              !.obs = Issue(Read(Packages \ {p}),
                                 "InstalledRelationInventoryUnavailable", "Partial")]
      BY <2>2 DEF ObserveRelations
    <3>2. Go(Issue(Read(Packages \ {p}), "InstalledRelationInventoryUnavailable", "Partial"))
      BY <3>1 DEF Observing
    <3> HIDE DEF Go, Read
    <3> QED BY <3>2
  <2>3. CASE sys.obs.fault \notin {"relations", "relationsPartial"}
    <3>1. sys' = [sys EXCEPT !.stage = "dependencies", !.obs = Read(Packages)]
      BY <2>3 DEF ObserveRelations
    <3>2. Go(Read(Packages))
      BY <3>1 DEF Observing
    <3> HIDE DEF Go, Read
    <3> QED BY <3>2
  <2> QED BY <2>1, <2>2, <2>3
<1>2. ObsShape(sys.obs)
  BY DEF SysInv, SysShape
<1>3. PICK o : ObsShape(o) /\ o.purpose = sys.obs.purpose /\ Go(o)
  <2>1. \A set : ObsShape(Read(set)) /\ Read(set).purpose = sys.obs.purpose
    BY <1>2 DEF ObsShape
  <2> HIDE DEF Read
  <2>2. \A set, k, st : LET i == Issue(Read(set), k, st)
                        IN ObsShape(i) /\ i.purpose = sys.obs.purpose
    BY <2>1, IssueKept
  <2>3. \A k, st : LET i == Issue(sys.obs, k, st) IN ObsShape(i) /\ i.purpose = sys.obs.purpose
    BY <1>2, IssueKept
  <2> HIDE DEF Go
  <2> QED BY <1>1, <2>1, <2>2, <2>3
<1>4. sys.stage \in Observing /\ UNCHANGED <<inst, trans, sysRes, sysDone>>
  BY DEF ObserveRelations, At, Observing, worldVars, KeepWorld
<1> QED BY <1>3, <1>4, ObservationMoves

LEMMA DependenciesStep == SysInv /\ ObserveDependencies => SysInv'
<1> SUFFICES ASSUME SysInv, ObserveDependencies PROVE SysInv'
  OBVIOUS
<1> DEFINE told(set) == [p \in Packages |->
                IF p \in set /\ Present(inst, p)
                THEN <<[ver |-> inst[p][1].ver,
                        needs |-> inst[p][1].needs \cup
                           IF sys.obs.fault = "invalid" /\ p \in Foreign
                           THEN {[on |-> p, rel |-> "bad", ver |-> 0]} ELSE {}]>>
                ELSE <<>>]
           Read(set) == [sys.obs EXCEPT !.deps = told(set)]
           Kept(q) == [q EXCEPT !.snapshot = <<TransitionInstalledSnapshot(q)>>]
           Go(o) == Observed(o) \/ \E s \in Observing : sys' = [sys EXCEPT !.stage = s, !.obs = o]
<1>1. \/ \E k, st : Go(Issue(sys.obs, k, st))
      \/ \E set, k, st : Go(Kept(Issue(Read(set), k, st)))
      \/ \E set : Go(Kept(Read(set)))
  <2>1. CASE sys.obs.fault = "dependencies"
    BY <2>1 DEF ObserveDependencies
  <2>2. CASE sys.obs.fault = "dependenciesPartial"
    <3>1. PICK p : sys' = [sys EXCEPT !.stage = "remote",
                     !.obs = Kept(Issue(Read(Packages \ {p}),
                                 "InstalledRuntimeDependencyInventoryUnavailable", "Partial"))]
      BY <2>2 DEF ObserveDependencies
    <3> HIDE DEF Kept, Read
    <3>2. Go(Kept(Issue(Read(Packages \ {p}), "InstalledRuntimeDependencyInventoryUnavailable", "Partial")))
      BY <3>1 DEF Observing
    <3> HIDE DEF Go
    <3> QED BY <3>2
  <2>3. CASE sys.obs.fault \notin {"dependencies", "dependenciesPartial"}
    <3>1. sys' = [sys EXCEPT !.stage = "remote", !.obs = Kept(Read(Packages))]
      BY <2>3 DEF ObserveDependencies
    <3> HIDE DEF Kept, Read
    <3>2. Go(Kept(Read(Packages)))
      BY <3>1 DEF Observing
    <3> HIDE DEF Go
    <3> QED BY <3>2
  <2> QED BY <2>1, <2>2, <2>3
<1>2. ObsShape(sys.obs)
  BY DEF SysInv, SysShape
<1>3. PICK o : ObsShape(o) /\ o.purpose = sys.obs.purpose /\ Go(o)
  <2> HIDE DEF told
  <2>1. \A set : ObsShape(Read(set)) /\ Read(set).purpose = sys.obs.purpose
    BY <1>2 DEF ObsShape
  <2> HIDE DEF Read
  <2>2. \A set, k, st : LET i == Issue(Read(set), k, st)
                        IN ObsShape(i) /\ i.purpose = sys.obs.purpose
    BY <2>1, IssueKept
  <2>3. \A k, st : LET i == Issue(sys.obs, k, st) IN ObsShape(i) /\ i.purpose = sys.obs.purpose
    BY <1>2, IssueKept
  <2>4. \A q : ObsShape(q) => ObsShape(Kept(q)) /\ Kept(q).purpose = q.purpose
    BY DEF ObsShape
  <2> HIDE DEF Go, Kept
  <2> QED BY <1>1, <2>1, <2>2, <2>3, <2>4
<1>4. sys.stage \in Observing /\ UNCHANGED <<inst, trans, sysRes, sysDone>>
  BY DEF ObserveDependencies, At, Observing, worldVars, KeepWorld
<1> QED BY <1>3, <1>4, ObservationMoves

LEMMA RemoteStep == SysInv /\ ObserveRemote => SysInv'
<1> SUFFICES ASSUME SysInv, ObserveRemote PROVE SysInv'
  OBVIOUS
<1>1. PICK x, y : Observed([sys.obs EXCEPT !.candidates = Candidates(sys.obs), !.issues = x, !.status = y])
  BY DEF ObserveRemote
<1> DEFINE o == [sys.obs EXCEPT !.candidates = Candidates(sys.obs), !.issues = x, !.status = y]
<1>2. \A cand \in Candidates(sys.obs) : cand.consumer \in Foreign
  BY DEF Candidates, Consumers
<1>3. ObsShape(o) /\ o.purpose = sys.obs.purpose
  BY <1>2 DEF SysInv, SysShape, ObsShape
<1>4. sys.stage \in Observing /\ UNCHANGED <<inst, trans, sysRes, sysDone>>
  BY DEF ObserveRemote, At, Observing, worldVars, KeepWorld
<1> HIDE DEF o
<1>5. Observed(o)
  BY <1>1 DEF o
<1> QED BY <1>3, <1>4, <1>5, ObservationMoves
\* In the stages that only a transition has.
LEMMA InTransition ==
    ASSUME SysInv,
           sys.stage \in {"confirm", "revalidate", "remove", "repoState", "authority", "replace",
                          "build", "finalSnapshot", "finalState"}
    PROVE  /\ trans.on /\ TransFacts(trans, sysDone) /\ ~trans.complete /\ Untroubled(trans)
           /\ PhaseOfStage(trans)
<1>1. trans.on
  BY DEF SysInv, OffRoute, Observing, At
<1>2. OnRoute
  BY <1>1 DEF SysInv
<1> QED BY <1>1, <1>2 DEF OnRoute, At

\* A transition goes on in its next phase.
LEMMA NextPhaseIs ==
    ASSUME NEW t, NEW done, NEW after, TransFacts(t, done), ~t.complete, Untroubled(t), t.phase < 9,
           "removed" \in after <=> t.phase > 2,
           "synced" \in after <=> t.phase > 3,
           t.phase = 7 => t.aurResult # <<>> /\ FilteredSuccess(t.aurResult[1])
    PROVE  LET u == [t EXCEPT !.phase = @ + 1]
           IN /\ TransFacts(u, after) /\ ~u.complete /\ Untroubled(u)
              /\ u.phase = t.phase + 1 /\ u.plan = t.plan /\ u.final = t.final
<1> DEFINE u == [t EXCEPT !.phase = @ + 1]
<1>1. /\ DOMAIN u = DOMAIN t /\ u.phase = t.phase + 1 /\ u.plan = t.plan /\ u.final = t.final
      /\ u.on = t.on /\ u.complete = t.complete /\ u.aurResult = t.aurResult
      /\ u.metadataFailure = t.metadataFailure /\ u.queryFailure = t.queryFailure
      /\ u.consumer = t.consumer
  BY DEF TransFacts, TransFields
<1> HIDE DEF u
<1>2. t.phase \in 1..9 /\ u.phase \in 1..9 /\ (u.phase > 7 => t.phase >= 7)
  BY <1>1 DEF TransFacts
<1>3. u.phase > 7 => u.aurResult # <<>> /\ FilteredSuccess(u.aurResult[1])
  BY <1>1, <1>2 DEF TransFacts
<1>4. ("removed" \in after <=> u.phase > 3) /\ ("synced" \in after <=> u.phase > 4)
  BY <1>1, <1>2
<1>5. TransFacts(u, after)
  BY <1>1, <1>2, <1>3, <1>4 DEF TransFacts
<1> QED BY <1>1, <1>5 DEF Untroubled, u

LEMMA TransitionMoves ==
    ASSUME SysInv, NEW s, sys' = [sys EXCEPT !.stage = s], s # "over", sysRes' = sysRes, InstShape',
           TransFacts(trans', sysDone'), ~trans'.complete, Untroubled(trans'), PhaseOfStage(trans)'
    PROVE  SysInv'
<1>1. sys'.stage = s /\ sys'.obs = sys.obs /\ {"mode", "stage", "obs"} \subseteq DOMAIN sys'
  BY DEF SysInv, SysShape
<1>2. trans'.on /\ trans'.on \in BOOLEAN
  BY DEF TransFacts
<1>3. SysShape'
  BY <1>1, <1>2 DEF SysInv, SysShape
<1>4. OnRoute'
  BY DEF OnRoute
<1>5. Reported'
  BY <1>1 DEF Reported, At
<1> QED BY <1>2, <1>3, <1>4, <1>5 DEF SysInv

\* A transition ends, complete or not.
LEMMA TransitionEnds ==
    ASSUME SysInv, NEW t, EndTransition(t), sysRes' = sysRes, InstShape',
           TransFacts(t, sysDone')
    PROVE  SysInv'
<1>1. PICK s : sys' = [sys EXCEPT !.stage = s] /\ trans' = t /\ s \in {"afterPartial", "reduce"}
               /\ (s = "afterPartial" => TransPartial(t))
  BY DEF EndTransition, GoTo
<1>2. sys'.stage = s /\ sys'.obs = sys.obs /\ {"mode", "stage", "obs"} \subseteq DOMAIN sys'
  BY <1>1 DEF SysInv, SysShape
<1>3. t.on /\ t.on \in BOOLEAN
  BY DEF TransFacts
<1>4. t.complete => TransSuccess(t)
  BY DEF TransFacts, TransSuccess, Untroubled
<1>5. s = "afterPartial" => ~t.complete
  BY <1>1, <1>4 DEF TransPartial
<1>6. SysShape'
  BY <1>1, <1>2, <1>3 DEF SysInv, SysShape
<1>7. OnRoute'
  BY <1>1, <1>2, <1>5 DEF OnRoute, At
<1>8. Reported'
  BY <1>1, <1>2 DEF Reported, At
<1> QED BY <1>1, <1>3, <1>6, <1>7, <1>8 DEF SysInv

\* What happens to a transition that fails does not change what it has done.
LEMMA FailedIs ==
    ASSUME NEW t, NEW done, TransFacts(t, done), ~t.complete, NEW m
    PROVE  /\ TransFacts([t EXCEPT !.failed = TRUE], done)
           /\ TransFacts([t EXCEPT !.failed = TRUE, !.metadataFailure = m], done)
           /\ TransFacts([t EXCEPT !.failed = TRUE, !.queryFailure = m], done)
<1>1. ASSUME NEW u, DOMAIN u = DOMAIN t, u.on = t.on, u.phase = t.phase, u.plan = t.plan,
             u.complete = t.complete, u.aurResult = t.aurResult
      PROVE  TransFacts(u, done)
  BY <1>1 DEF TransFacts
<1>2. TransFields \subseteq DOMAIN t
  BY DEF TransFacts
<1>3. TransFacts([t EXCEPT !.failed = TRUE], done)
  BY <1>1, <1>2 DEF TransFields
<1>4. TransFacts([t EXCEPT !.failed = TRUE, !.metadataFailure = m], done)
  BY <1>1, <1>2 DEF TransFields
<1>5. TransFacts([t EXCEPT !.failed = TRUE, !.queryFailure = m], done)
  BY <1>1, <1>2 DEF TransFields
<1> QED BY <1>3, <1>4, <1>5

\* A transition fails, or an exception ends it.
LEMMA TransitionFails ==
    ASSUME SysInv, NEW t, TransFacts(t, sysDone'), ~t.complete, sysRes' = sysRes, InstShape',
           \/ EndTransition([t EXCEPT !.failed = TRUE])
           \/ Throws(t)
           \/ \E q : EndTransition([t EXCEPT !.failed = TRUE, !.queryFailure = q])
    PROVE  SysInv'
<1>1. PICK u : TransFacts(u, sysDone') /\ EndTransition(u)
  <2>1. CASE EndTransition([t EXCEPT !.failed = TRUE])
    BY <2>1, FailedIs
  <2>2. CASE Throws(t)
    <3>1. PICK m : EndTransition([t EXCEPT !.failed = TRUE, !.metadataFailure = m])
      BY <2>2 DEF Throws
    <3> QED BY <3>1, FailedIs
  <2>3. CASE \E q : EndTransition([t EXCEPT !.failed = TRUE, !.queryFailure = q])
    <3>1. PICK q : EndTransition([t EXCEPT !.failed = TRUE, !.queryFailure = q])
      BY <2>3
    <3> QED BY <3>1, FailedIs
  <2> QED BY <2>1, <2>2, <2>3
<1> QED BY <1>1, TransitionEnds
LEMMA ConfirmStep == SysInv /\ Confirm => SysInv'
<1> SUFFICES ASSUME SysInv, Confirm PROVE SysInv'
  OBVIOUS
<1>1. At("confirm") /\ sysRes' = sysRes /\ UNCHANGED <<inst, sysDone>>
  BY DEF Confirm, KeepWorld, worldVars
<1>2. /\ TransFacts(trans, sysDone) /\ ~trans.complete /\ Untroubled(trans) /\ trans.phase = 1
  BY <1>1, InTransition DEF At, PhaseOfStage, Observing
<1>3. InstShape'
  BY <1>1 DEF SysInv, InstShape
<1>4. CASE /\ trans' = [trans EXCEPT !.phase = 2]
           /\ sys' = [sys EXCEPT !.stage = "foreign", !.obs = FreshObservation("reval")]
  <2>1. trans' = [trans EXCEPT !.phase = @ + 1]
    BY <1>2, <1>4
  <2>2. /\ TransFacts(trans', sysDone') /\ ~trans'.complete /\ Untroubled(trans')
        /\ trans'.phase = 2
    BY <1>1, <1>2, <2>1, NextPhaseIs DEF TransFacts
  <2>3. ObsShape(FreshObservation("reval")) /\ FreshObservation("reval").purpose = "reval"
    BY DEF ObsShape, FreshObservation
  <2>4. /\ sys'.stage = "foreign" /\ sys'.obs = FreshObservation("reval")
        /\ {"mode", "stage", "obs"} \subseteq DOMAIN sys'
    BY <1>4 DEF SysInv, SysShape
  <2>5. trans'.on /\ trans'.on \in BOOLEAN
    BY <2>2 DEF TransFacts
  <2>6. SysShape'
    BY <1>1, <2>3, <2>4, <2>5 DEF SysInv, SysShape
  <2>7. OnRoute'
    BY <2>2, <2>3, <2>4 DEF OnRoute, PhaseOfStage, Observing
  <2>8. Reported'
    BY <2>4 DEF Reported, At
  <2> QED BY <1>3, <2>5, <2>6, <2>7, <2>8 DEF SysInv
<1>5. CASE EndTransition([trans EXCEPT !.failed = TRUE])
  BY <1>1, <1>2, <1>3, <1>5, TransitionFails
<1> QED BY <1>4, <1>5 DEF Confirm

LEMMA RevalidateStep == SysInv /\ Revalidate => SysInv'
<1> SUFFICES ASSUME SysInv, Revalidate PROVE SysInv'
  OBVIOUS
<1>1. At("revalidate") /\ sysRes' = sysRes /\ UNCHANGED <<inst, sysDone>>
  BY DEF Revalidate, KeepWorld, worldVars
<1>2. /\ TransFacts(trans, sysDone) /\ ~trans.complete /\ Untroubled(trans) /\ trans.phase = 2
  BY <1>1, InTransition DEF At, PhaseOfStage, Observing
<1>3. InstShape'
  BY <1>1 DEF SysInv, InstShape
<1>4. CASE NextPhase(trans, "remove")
  <2>1. trans' = [trans EXCEPT !.phase = @ + 1] /\ sys' = [sys EXCEPT !.stage = "remove"]
    BY <1>4 DEF NextPhase, GoTo
  <2>2. /\ TransFacts(trans', sysDone') /\ ~trans'.complete /\ Untroubled(trans')
        /\ trans'.phase = 3
    BY <1>1, <1>2, <2>1, NextPhaseIs DEF TransFacts
  <2>3. PhaseOfStage(trans)'
    BY <2>1, <2>2 DEF PhaseOfStage, At, SysInv, SysShape
  <2> QED BY <1>1, <1>3, <2>1, <2>2, <2>3, TransitionMoves
<1>5. CASE EndTransition([trans EXCEPT !.failed = TRUE])
  BY <1>1, <1>2, <1>3, <1>5, TransitionFails
<1> QED BY <1>4, <1>5 DEF Revalidate

LEMMA RepoStateStep == SysInv /\ RepositoryPostState => SysInv'
<1> SUFFICES ASSUME SysInv, RepositoryPostState PROVE SysInv'
  OBVIOUS
<1>1. At("repoState") /\ sysRes' = sysRes /\ UNCHANGED <<inst, sysDone>>
  BY DEF RepositoryPostState, KeepWorld, worldVars
<1>2. /\ TransFacts(trans, sysDone) /\ ~trans.complete /\ Untroubled(trans) /\ trans.phase = 5
  BY <1>1, InTransition DEF At, PhaseOfStage, Observing
<1>3. InstShape'
  BY <1>1 DEF SysInv, InstShape
<1>4. CASE NextPhase(trans, "authority")
  <2>1. trans' = [trans EXCEPT !.phase = @ + 1] /\ sys' = [sys EXCEPT !.stage = "authority"]
    BY <1>4 DEF NextPhase, GoTo
  <2>2. /\ TransFacts(trans', sysDone') /\ ~trans'.complete /\ Untroubled(trans')
        /\ trans'.phase = 6
    BY <1>1, <1>2, <2>1, NextPhaseIs DEF TransFacts
  <2>3. PhaseOfStage(trans)'
    BY <2>1, <2>2 DEF PhaseOfStage, At, SysInv, SysShape
  <2> QED BY <1>1, <1>3, <2>1, <2>2, <2>3, TransitionMoves
<1>5. CASE EndTransition([trans EXCEPT !.failed = TRUE]) \/ Throws(trans)
  BY <1>1, <1>2, <1>3, <1>5, TransitionFails
<1> QED BY <1>4, <1>5 DEF RepositoryPostState

LEMMA AuthorityStep == SysInv /\ AurAuthority => SysInv'
<1> SUFFICES ASSUME SysInv, AurAuthority PROVE SysInv'
  OBVIOUS
<1>1. At("authority") /\ sysRes' = sysRes /\ UNCHANGED <<inst, sysDone>>
  BY DEF AurAuthority, KeepWorld, worldVars
<1>2. /\ TransFacts(trans, sysDone) /\ ~trans.complete /\ Untroubled(trans) /\ trans.phase = 6
  BY <1>1, InTransition DEF At, PhaseOfStage, Observing
<1>3. InstShape'
  BY <1>1 DEF SysInv, InstShape
<1>4. CASE NextPhase(trans, "replace")
  <2>1. trans' = [trans EXCEPT !.phase = @ + 1] /\ sys' = [sys EXCEPT !.stage = "replace"]
    BY <1>4 DEF NextPhase, GoTo
  <2>2. /\ TransFacts(trans', sysDone') /\ ~trans'.complete /\ Untroubled(trans')
        /\ trans'.phase = 7
    BY <1>1, <1>2, <2>1, NextPhaseIs DEF TransFacts
  <2>3. PhaseOfStage(trans)'
    BY <2>1, <2>2 DEF PhaseOfStage, At, SysInv, SysShape
  <2> QED BY <1>1, <1>3, <2>1, <2>2, <2>3, TransitionMoves
<1>5. CASE EndTransition([trans EXCEPT !.failed = TRUE]) \/ \E q : EndTransition([trans EXCEPT !.failed = TRUE, !.queryFailure = q])
  BY <1>1, <1>2, <1>3, <1>5, TransitionFails
<1> QED BY <1>4, <1>5 DEF AurAuthority

LEMMA QueryStep == SysInv /\ QueryReplacement => SysInv'
<1> SUFFICES ASSUME SysInv, QueryReplacement PROVE SysInv'
  OBVIOUS
<1>1. At("replace") /\ sysRes' = sysRes /\ UNCHANGED <<inst, sysDone>>
  BY DEF QueryReplacement, KeepWorld, worldVars
<1>2. /\ TransFacts(trans, sysDone) /\ ~trans.complete /\ Untroubled(trans) /\ trans.phase = 7
  BY <1>1, InTransition DEF At, PhaseOfStage, Observing
<1>3. InstShape'
  BY <1>1 DEF SysInv, InstShape
<1>4. CASE GoTo("build") /\ UNCHANGED trans
  <2>1. sys' = [sys EXCEPT !.stage = "build"]
    BY <1>4 DEF GoTo
  <2>2. PhaseOfStage(trans)'
    BY <1>2, <1>4, <2>1 DEF PhaseOfStage, At, SysInv, SysShape
  <2> QED BY <1>1, <1>2, <1>3, <1>4, <2>1, <2>2, TransitionMoves
<1>5. CASE \E q : EndTransition([trans EXCEPT !.failed = TRUE, !.queryFailure = q])
  BY <1>1, <1>2, <1>3, <1>5, TransitionFails
<1> QED BY <1>4, <1>5 DEF QueryReplacement
\* The changes to the package database keep its shape.
LEMMA WithoutShape ==
    ASSUME InstShape, NEW p, inst' = Without(inst, p) PROVE InstShape'
BY DEF InstShape, Without

LEMMA UpgradedShape ==
    ASSUME InstShape, NEW v, inst' = Upgraded(inst, v) PROVE InstShape'
<1>1. DOMAIN inst' = Packages
  BY DEF Upgraded
<1>2. ASSUME NEW p \in Packages, inst'[p] # <<>>
      PROVE  1 \in DOMAIN inst'[p] /\ "needs" \in DOMAIN inst'[p][1]
  <2>1. CASE inst'[p] = inst[p]
    BY <1>2, <2>1 DEF InstShape
  <2>2. CASE inst'[p] = <<[inst[p][1] EXCEPT !.ver = v[p]]>> /\ Present(inst, p)
    BY <2>2 DEF InstShape, Present
  <2> QED BY <2>1, <2>2 DEF Upgraded
<1> QED BY <1>1, <1>2 DEF InstShape

LEMMA RemoveStep == SysInv /\ RemoveInstalledForeign => SysInv'
<1> SUFFICES ASSUME SysInv, RemoveInstalledForeign PROVE SysInv'
  OBVIOUS
<1>1. At("remove") /\ sysRes' = sysRes
  BY DEF RemoveInstalledForeign
<1>2. /\ TransFacts(trans, sysDone) /\ ~trans.complete /\ Untroubled(trans) /\ trans.phase = 3
  BY <1>1, InTransition DEF At, PhaseOfStage, Observing
<1> DEFINE c == trans.plan.cand.consumer
<1>3. CASE inst' = Without(inst, c) /\ sysDone' = sysDone \cup {"removed"} /\ NextPhase(trans, "sync")
  <2>1. trans' = [trans EXCEPT !.phase = @ + 1] /\ sys' = [sys EXCEPT !.stage = "sync"]
    BY <1>3 DEF NextPhase, GoTo
  <2>2. ("removed" \in sysDone' <=> trans.phase > 2) /\ ("synced" \in sysDone' <=> trans.phase > 3)
    BY <1>2, <1>3 DEF TransFacts
  <2>3. /\ TransFacts(trans', sysDone') /\ ~trans'.complete /\ Untroubled(trans')
        /\ trans'.phase = 4
    BY <1>2, <2>1, <2>2, NextPhaseIs
  <2>4. PhaseOfStage(trans)'
    BY <2>1, <2>3 DEF PhaseOfStage, At, SysInv, SysShape
  <2>5. InstShape'
    BY <1>3, WithoutShape DEF SysInv
  <2> QED BY <1>1, <2>1, <2>3, <2>4, <2>5, TransitionMoves
<1>4. CASE EndTransition([trans EXCEPT !.failed = TRUE])
           /\ (UNCHANGED <<inst, sysDone>>
               \/ (inst' = Without(inst, c) /\ sysDone' = sysDone \cup {"interrupted"}))
  <2>1. InstShape'
    BY <1>4, WithoutShape DEF SysInv, InstShape
  <2>2. ("removed" \in sysDone' <=> "removed" \in sysDone) /\ ("synced" \in sysDone' <=> "synced" \in sysDone)
    BY <1>4
  <2>3. TransFacts(trans, sysDone')
    BY <1>2, <2>2 DEF TransFacts
  <2> QED BY <1>1, <1>2, <1>4, <2>1, <2>3, TransitionFails
<1> QED BY <1>3, <1>4 DEF RemoveInstalledForeign

LEMMA BuildStep == SysInv /\ BuildReplacement => SysInv'
<1> SUFFICES ASSUME SysInv, BuildReplacement PROVE SysInv'
  OBVIOUS
<1>1. At("build") /\ sysRes' = sysRes
  BY DEF BuildReplacement
<1>2. /\ TransFacts(trans, sysDone) /\ ~trans.complete /\ Untroubled(trans) /\ trans.phase = 7
  BY <1>1, InTransition DEF At, PhaseOfStage, Observing
<1> DEFINE T(r) == [trans EXCEPT !.aurResult = <<r>>]
<1>3. PICK r : /\ \/ /\ sysDone' = sysDone \cup {"aur"}
                     /\ \E v, n, q, e : inst' = [inst EXCEPT ![trans.plan.cand.consumer] =
                           <<[ver |-> v, needs |-> n, provides |-> q, reason |-> e]>>]
                  \/ UNCHANGED <<inst, sysDone>>
               /\ \/ FilteredSuccess(r) /\ NextPhase(T(r), "finalSnapshot")
                  \/ EndTransition([T(r) EXCEPT !.failed = TRUE])
  <2> DEFINE offered == trans.plan.cand.aur.recipe
             Puts(e, n) == inst' = [inst EXCEPT ![trans.plan.cand.consumer] =
                <<[ver |-> offered.ver, needs |-> n, provides |-> {}, reason |-> e]>>]
  <2>1. PICK r :
           /\ \/ /\ sysDone' = sysDone \cup {"aur"}
                 /\ \E e \in {"Explicit", "Dependency"}, n \in {offered.needs, {}} : Puts(e, n)
              \/ UNCHANGED <<inst, sysDone>>
           /\ IF FilteredSuccess(r) /\ r.status # "NoUpdates"
              THEN NextPhase(T(r), "finalSnapshot")
              ELSE EndTransition([T(r) EXCEPT !.failed = TRUE])
    BY Zenon DEF BuildReplacement
  <2> HIDE DEF T
  <2>2. \/ FilteredSuccess(r) /\ NextPhase(T(r), "finalSnapshot")
        \/ EndTransition([T(r) EXCEPT !.failed = TRUE])
    BY <2>1
  <2>3. CASE UNCHANGED <<inst, sysDone>>
    BY <2>2, <2>3
  <2>4. CASE /\ sysDone' = sysDone \cup {"aur"}
             /\ \E e \in {"Explicit", "Dependency"}, n \in {offered.needs, {}} : Puts(e, n)
    <3>1. PICK e, n : Puts(e, n)
      BY <2>4
    <3>2. \E v, m, q, f : inst' = [inst EXCEPT ![trans.plan.cand.consumer] =
                              <<[ver |-> v, needs |-> m, provides |-> q, reason |-> f]>>]
      BY <3>1
    <3> QED BY <2>2, <2>4, <3>2
  <2> QED BY <2>1, <2>3, <2>4
<1>4. InstShape'
  <2>1. ASSUME NEW v, NEW n, NEW q, NEW e,
               inst' = [inst EXCEPT ![trans.plan.cand.consumer] =
                           <<[ver |-> v, needs |-> n, provides |-> q, reason |-> e]>>]
        PROVE  InstShape'
    BY <2>1 DEF InstShape, SysInv
  <2>2. CASE UNCHANGED inst
    BY <2>2 DEF InstShape, SysInv
  <2> QED BY <1>3, <2>1, <2>2
<1>5. ("removed" \in sysDone' <=> "removed" \in sysDone) /\ ("synced" \in sysDone' <=> "synced" \in sysDone)
  BY <1>3
<1> DEFINE t == T(r)
<1>6. /\ DOMAIN t = DOMAIN trans /\ t.aurResult = <<r>> /\ t.on = trans.on /\ t.phase = trans.phase
      /\ t.plan = trans.plan /\ t.complete = trans.complete /\ t.consumer = trans.consumer
      /\ t.metadataFailure = trans.metadataFailure /\ t.queryFailure = trans.queryFailure
  BY <1>2 DEF TransFacts, TransFields
<1> HIDE DEF t
<1>7. TransFacts(t, sysDone') /\ ~t.complete /\ Untroubled(t) /\ t.phase = 7
  BY <1>2, <1>5, <1>6 DEF TransFacts, Untroubled
<1>8. CASE FilteredSuccess(r) /\ NextPhase(t, "finalSnapshot")
  <2>1. trans' = [t EXCEPT !.phase = @ + 1] /\ sys' = [sys EXCEPT !.stage = "finalSnapshot"]
    BY <1>8 DEF NextPhase, GoTo
  <2>2. /\ t.aurResult # <<>> /\ FilteredSuccess(t.aurResult[1])
        /\ "removed" \in sysDone' /\ "synced" \in sysDone'
    BY <1>6, <1>7, <1>8 DEF TransFacts
  <2>3. /\ TransFacts(trans', sysDone') /\ ~trans'.complete /\ Untroubled(trans')
        /\ trans'.phase = 8
    BY <1>7, <2>1, <2>2, NextPhaseIs
  <2>4. PhaseOfStage(trans)'
    BY <2>1, <2>3 DEF PhaseOfStage, At, SysInv, SysShape
  <2> QED BY <1>1, <1>4, <2>1, <2>3, <2>4, TransitionMoves
<1>9. CASE EndTransition([t EXCEPT !.failed = TRUE])
  BY <1>1, <1>4, <1>7, <1>9, TransitionFails
<1> QED BY <1>3, <1>8, <1>9 DEF t

LEMMA ReasonStep == SysInv /\ InstallReason => SysInv'
<1> SUFFICES ASSUME SysInv, InstallReason PROVE SysInv'
  OBVIOUS
<1>1. At("finalSnapshot") /\ sysRes' = sysRes /\ UNCHANGED <<inst, sysDone>>
  BY DEF InstallReason, KeepWorld, worldVars
<1>2. /\ TransFacts(trans, sysDone) /\ ~trans.complete /\ Untroubled(trans) /\ trans.phase = 8
  BY <1>1, InTransition DEF At, PhaseOfStage, Observing
<1>3. InstShape'
  BY <1>1 DEF SysInv, InstShape
<1> DEFINE t == [trans EXCEPT !.final = <<inst>>]
<1>4. CASE ReasonRestored(trans, inst) /\ NextPhase(t, "finalState")
  <2>1. /\ DOMAIN t = DOMAIN trans /\ t.aurResult = trans.aurResult /\ t.on = trans.on
        /\ t.phase = trans.phase /\ t.final = <<inst>>
        /\ t.plan = trans.plan /\ t.complete = trans.complete /\ t.consumer = trans.consumer
        /\ t.metadataFailure = trans.metadataFailure /\ t.queryFailure = trans.queryFailure
    BY <1>2 DEF TransFacts, TransFields
  <2> HIDE DEF t
  <2>2. TransFacts(t, sysDone') /\ ~t.complete /\ Untroubled(t) /\ t.phase = 8
    BY <1>1, <1>2, <2>1 DEF TransFacts, Untroubled
  <2>3. trans' = [t EXCEPT !.phase = @ + 1] /\ sys' = [sys EXCEPT !.stage = "finalState"]
    BY <1>4 DEF NextPhase, GoTo
  <2>4. /\ TransFacts(trans', sysDone') /\ ~trans'.complete /\ Untroubled(trans')
        /\ trans'.phase = 9 /\ trans'.plan = trans.plan /\ trans'.final = <<inst>>
    <3>1. "removed" \in sysDone' /\ "synced" \in sysDone'
      BY <2>2 DEF TransFacts
    <3>2. /\ TransFacts(trans', sysDone') /\ ~trans'.complete /\ Untroubled(trans')
          /\ trans'.phase = t.phase + 1 /\ trans'.plan = t.plan /\ trans'.final = t.final
      BY <2>2, <2>3, <3>1, NextPhaseIs
    <3> QED BY <2>1, <2>2, <3>2
  <2>5. FinalRead(trans)'
    BY <1>1, <1>4, <2>4 DEF FinalRead, ReasonRestored
  <2>6. PhaseOfStage(trans)'
    BY <2>3, <2>4, <2>5 DEF PhaseOfStage, At, SysInv, SysShape
  <2> QED BY <1>1, <1>3, <2>3, <2>4, <2>6, TransitionMoves
<1>5. CASE EndTransition([trans EXCEPT !.failed = TRUE]) \/ Throws(trans)
  BY <1>1, <1>2, <1>3, <1>5, TransitionFails
<1> QED BY <1>4, <1>5 DEF InstallReason

LEMMA VerificationStep == SysInv /\ PostStateVerification => SysInv'
<1> SUFFICES ASSUME SysInv, PostStateVerification PROVE SysInv'
  OBVIOUS
<1>1. At("finalState") /\ sysRes' = sysRes /\ UNCHANGED <<inst, sysDone>>
  BY DEF PostStateVerification, KeepWorld, worldVars
<1>2. /\ TransFacts(trans, sysDone) /\ ~trans.complete /\ Untroubled(trans) /\ trans.phase = 9
      /\ FinalRead(trans)
  BY <1>1, InTransition DEF At, PhaseOfStage, Observing
<1>3. InstShape'
  BY <1>1 DEF SysInv, InstShape
<1> DEFINE cand == trans.plan.cand
           c == cand.consumer
           found == trans.final[1]
           req == CHOOSE r \in MatchingRuntimeRequirements(cand) : TRUE
           t == [trans EXCEPT !.complete = TRUE]
<1>4. CASE /\ found[c][1].ver = cand.aur.recipe.ver
           /\ Present(inst, c) /\ req \in inst[c][1].needs
           /\ Meets(req, found[cand.lib][1].ver)
           /\ EndTransition(t)
  <2>1. req \in MatchingRuntimeRequirements(cand)
    BY <1>2 DEF TransFacts, Pinned
  <2>2. Exact(req) /\ req.on = cand.lib
    BY <1>2, <2>1 DEF TransFacts, Pinned
  <2>3. inst[c][1].needs = found[c][1].needs
        /\ found[c][1].reason = trans.plan.snapshot[1].foreign[c][1].reason
    BY <1>2, <1>4 DEF FinalRead
  <2>4. /\ DOMAIN t = DOMAIN trans /\ t.aurResult = trans.aurResult /\ t.on = trans.on
        /\ t.phase = trans.phase /\ t.final = trans.final
        /\ t.plan = trans.plan /\ t.complete = TRUE /\ t.consumer = trans.consumer
        /\ t.metadataFailure = trans.metadataFailure /\ t.queryFailure = trans.queryFailure
    BY <1>2 DEF TransFacts, TransFields
  <2> HIDE DEF t, req
  <2>5. Verified(t)
    BY <1>4, <2>2, <2>3, <2>4 DEF Verified
  <2>6. TransFacts(t, sysDone')
    BY <1>1, <1>2, <2>4, <2>5 DEF TransFacts, Untroubled
  <2> QED BY <1>1, <1>3, <1>4, <2>6, TransitionEnds
<1>5. CASE EndTransition([trans EXCEPT !.failed = TRUE]) \/ Throws(trans)
  BY <1>1, <1>2, <1>3, <1>5, TransitionFails
<1> QED BY <1>4, <1>5 DEF PostStateVerification
LEMMA AfterPartialStep == SysInv /\ AfterPartial => SysInv'
<1> SUFFICES ASSUME SysInv, AfterPartial PROVE SysInv'
  OBVIOUS
<1>1. At("afterPartial") /\ sysRes' = sysRes /\ UNCHANGED <<inst, sysDone>>
      /\ sys' = [sys EXCEPT !.stage = "reduce"]
  BY DEF AfterPartial, KeepWorld, worldVars, GoTo
<1>2. trans.on
  BY <1>1 DEF SysInv, OffRoute, Observing, At
<1>3. TransFacts(trans, sysDone) /\ ~trans.complete
  BY <1>1, <1>2 DEF SysInv, OnRoute, PhaseOfStage, Observing, At
<1>4. PICK x : trans' = [trans EXCEPT !.consumer = x]
  BY DEF AfterPartial
<1>5. /\ DOMAIN trans' = DOMAIN trans /\ trans'.aurResult = trans.aurResult
      /\ trans'.on = trans.on /\ trans'.phase = trans.phase
      /\ trans'.plan = trans.plan /\ trans'.complete = trans.complete
  BY <1>3, <1>4 DEF TransFacts, TransFields
<1>6. TransFacts(trans', sysDone')
  BY <1>1, <1>3, <1>5 DEF TransFacts
<1>7. sys'.stage = "reduce" /\ sys'.obs = sys.obs /\ {"mode", "stage", "obs"} \subseteq DOMAIN sys'
  BY <1>1 DEF SysInv, SysShape
<1>8. InstShape' /\ SysShape' /\ Reported'
  BY <1>1, <1>5, <1>7 DEF SysInv, SysShape, InstShape, Reported, At
<1>9. OnRoute'
  BY <1>6, <1>7 DEF OnRoute
<1> QED BY <1>2, <1>5, <1>8, <1>9 DEF SysInv

LEMMA RouteStep == SysInv /\ ChooseRoute => SysInv'
<1> SUFFICES ASSUME SysInv, ChooseRoute PROVE SysInv'
  OBVIOUS
<1>1. At("decide") /\ UNCHANGED <<inst, sysRes, sysDone>>
  BY DEF ChooseRoute, KeepWorld, worldVars
<1>2. ~trans.on
  BY <1>1 DEF SysInv, OnRoute, PhaseOfStage, Observing, At
<1>3. sysRes = FreshSystemResult /\ sysDone = {}
  BY <1>1, <1>2 DEF SysInv, OffRoute, Observing, At
<1>4. InstShape'
  BY <1>1 DEF SysInv, InstShape
<1>5. CASE ReadyTransition(sys.obs) # <<>>
  <2> DEFINE chosen == ReadyTransition(sys.obs)[1]
  <2>1. trans' = FreshTransition(chosen) /\ sys' = [sys EXCEPT !.stage = "confirm"]
    BY <1>5 DEF ChooseRoute, GoTo
  <2>2. chosen.cand.consumer \in Foreign /\ Pinned(chosen)
    BY <1>5, ReadyIsPinned DEF SysInv, SysShape
  <2> HIDE DEF chosen
  <2>3. /\ TransFields \subseteq DOMAIN trans' /\ trans'.on = TRUE /\ trans'.phase = 1
        /\ trans'.plan = chosen /\ trans'.complete = FALSE /\ Untroubled(trans')
    BY <2>1 DEF FreshTransition, TransFields, Untroubled
  <2>4. TransFacts(trans', sysDone')
    <3>1. trans'.plan.cand.consumer \in Foreign /\ Pinned(trans'.plan)
      BY <2>2, <2>3
    <3>2. ("removed" \in sysDone' <=> trans'.phase > 3) /\ ("synced" \in sysDone' <=> trans'.phase > 4)
          /\ trans'.phase \in 1..9 /\ ~(trans'.phase > 7)
      BY <1>1, <1>3, <2>3
    <3>3. trans'.on /\ ~trans'.complete /\ trans'.complete \in BOOLEAN
      BY <2>3
    <3> QED BY <2>3, <3>1, <3>2, <3>3 DEF TransFacts
  <2>5. PhaseOfStage(trans)'
    BY <2>1, <2>3 DEF PhaseOfStage, At, SysInv, SysShape
  <2> QED BY <1>1, <1>4, <2>1, <2>3, <2>4, <2>5, TransitionMoves
<1>6. CASE sys' = [sys EXCEPT !.stage = "sync"] /\ UNCHANGED trans
  <2>1. sys'.stage = "sync" /\ sys'.obs = sys.obs /\ {"mode", "stage", "obs"} \subseteq DOMAIN sys'
    BY <1>6 DEF SysInv, SysShape
  <2>2. SysShape' /\ Reported'
    BY <1>1, <1>6, <2>1 DEF SysInv, SysShape, Reported, At
  <2>3. OffRoute'
    BY <1>1, <1>3, <2>1 DEF OffRoute
  <2> QED BY <1>2, <1>4, <1>6, <2>2, <2>3 DEF SysInv
<1> QED BY <1>5, <1>6 DEF ChooseRoute, GoTo

\* A step of the ordinary update: its result and its next stage fit.
LEMMA OrdinaryMoves ==
    ASSUME SysInv, ~trans.on, UNCHANGED <<inst, trans>>, NEW s, sys' = [sys EXCEPT !.stage = s],
           s # "over", sysRes' \in SystemResults,
           \/ /\ s = "inventory" /\ Early(sysRes') /\ sysRes'.query = "NotAttempted"
              /\ ~sysRes'.hasQuery /\ sysDone' = {"synced"}
           \/ /\ s = "query" /\ Early(sysRes') /\ sysRes'.inventory = "Completed"
              /\ ~sysRes'.hasQuery /\ sysDone' = {"synced"}
           \/ /\ s \in {"prepareAur", "executeAur"} /\ Early(sysRes') /\ Queried(sysRes')
              /\ sysDone' = {"synced"}
           \/ s = "reduce" /\ Reducible(sysRes', sysDone', sys.mode)
    PROVE  SysInv'
<1>1. /\ sys'.stage = s /\ sys'.obs = sys.obs /\ sys'.mode = sys.mode
      /\ {"mode", "stage", "obs"} \subseteq DOMAIN sys'
  BY DEF SysInv, SysShape
<1>2. InstShape' /\ SysShape' /\ Reported'
  BY <1>1 DEF SysInv, SysShape, InstShape, Reported, At
<1>3. OffRoute'
  BY <1>1 DEF OffRoute, At
<1> QED BY <1>2, <1>3 DEF SysInv

\* In the stages that only an ordinary update has.
LEMMA InUpdate ==
    ASSUME SysInv, sys.stage \in {"reused", "inventory", "query", "prepareAur", "executeAur"}
    PROVE  ~trans.on /\ OffRoute /\ sysRes \in SystemResults
BY DEF SysInv, SysShape, OnRoute, PhaseOfStage, Observing, At

LEMMA ReusedStep == SysInv /\ ReusedOperation => SysInv'
<1> SUFFICES ASSUME SysInv, ReusedOperation PROVE SysInv'
  OBVIOUS
<1>1. At("reused") /\ UNCHANGED <<inst, trans, sysDone>> /\ sys' = [sys EXCEPT !.stage = "reduce"]
      /\ sysRes' = MarkAllNotAttempted(sysRes)
  BY DEF ReusedOperation, KeepWorld, worldVars, GoTo
<1>2. /\ ~trans.on /\ sysRes \in SystemResults /\ sysRes = FreshSystemResult /\ sysDone = {}
      /\ sys.mode = "reused"
  BY <1>1, InUpdate DEF OffRoute, Observing, At
<1>3. "PriorAggregateInconsistency" \in SkipReasons /\ "NotAttempted" \in PhaseStatuses
      /\ "NotAttempted" \in AurPhaseStatuses
  BY DEF SkipReasons, PhaseStatuses, AurPhaseStatuses
<1>4. sysRes' \in SystemResults
  BY <1>1, <1>2, <1>3 DEF SystemResults, MarkAllNotAttempted, MarkLater
<1>5. sysRes'.repo = "NotAttempted" /\ sysRes'.aur = "NotAttempted" /\ sysRes'.op = <<>>
  <2>1. sysRes.repo = "NotAttempted" /\ sysRes.op = <<>>
    BY <1>2 DEF FreshSystemResult
  <2> QED BY <1>1, <1>2, <2>1 DEF SystemResults, MarkAllNotAttempted, MarkLater
<1>6. Reducible(sysRes', sysDone', sys.mode)
  BY <1>1, <1>2, <1>5 DEF Reducible
<1> QED BY <1>1, <1>2, <1>4, <1>6, OrdinaryMoves

LEMMA InventoryStep == SysInv /\ ForeignInventoryPhase => SysInv'
<1> SUFFICES ASSUME SysInv, ForeignInventoryPhase PROVE SysInv'
  OBVIOUS
<1>1. At("inventory") /\ UNCHANGED <<inst, trans, sysDone>>
  BY DEF ForeignInventoryPhase, KeepWorld, worldVars
<1>2. /\ ~trans.on /\ sysRes \in SystemResults /\ Early(sysRes) /\ sysDone = {"synced"}
      /\ sysRes.query = "NotAttempted" /\ ~sysRes.hasQuery
  BY <1>1, InUpdate DEF OffRoute, Observing, At
<1>3. CASE sys' = [sys EXCEPT !.stage = "query"] /\ sysRes' = [sysRes EXCEPT !.inventory = "Completed"]
  <2>1. sysRes' \in SystemResults
    BY <1>2, <1>3 DEF SystemResults, PhaseStatuses
  <2>2. Early(sysRes') /\ sysRes'.inventory = "Completed" /\ ~sysRes'.hasQuery
    BY <1>2, <1>3 DEF SystemResults, Early
  <2> QED BY <1>1, <1>2, <1>3, <2>1, <2>2, OrdinaryMoves
<1>4. CASE sys' = [sys EXCEPT !.stage = "reduce"] /\ sysRes' = InventoryFailed(sysRes)
  <2>0. "ForeignInventoryFailure" \in SkipReasons /\ {"NotAttempted", "Failed"} \subseteq PhaseStatuses
        /\ "NotAttempted" \in AurPhaseStatuses
    BY DEF SkipReasons, PhaseStatuses, AurPhaseStatuses
  <2>1. sysRes' \in SystemResults
    BY <1>2, <1>4, <2>0 DEF SystemResults, InventoryFailed, MarkLater
  <2>2. /\ sysRes'.repo = "Completed" /\ sysRes'.exit = <<0>> /\ sysRes'.inventory = "Failed"
        /\ InventoryFailureTail(sysRes')
    BY <1>2, <1>4 DEF SystemResults, InventoryFailed, MarkLater, InventoryFailureTail, Early
  <2>3. Reducible(sysRes', sysDone', sys.mode)
    BY <1>1, <1>2, <2>2 DEF Reducible
  <2> QED BY <1>1, <1>2, <1>4, <2>1, <2>3, OrdinaryMoves
<1> QED BY <1>3, <1>4 DEF ForeignInventoryPhase, GoTo

LEMMA QueryPhaseStep == SysInv /\ AurQueryPhase => SysInv'
<1> SUFFICES ASSUME SysInv, AurQueryPhase PROVE SysInv'
  OBVIOUS
<1>1. At("query") /\ UNCHANGED <<inst, trans, sysDone>>
  BY DEF AurQueryPhase, KeepWorld, worldVars
<1>2. /\ ~trans.on /\ sysRes \in SystemResults /\ Early(sysRes) /\ sysDone = {"synced"}
      /\ sysRes.inventory = "Completed" /\ ~sysRes.hasQuery
  BY <1>1, InUpdate DEF OffRoute, Observing, At
<1>3. ASSUME NEW f \in BOOLEAN, sys' = [sys EXCEPT !.stage = "prepareAur"],
             sysRes' = [sysRes EXCEPT !.query = IF f THEN "Failed" ELSE "Completed",
                                      !.hasQuery = TRUE, !.queryFails = f]
      PROVE  SysInv'
  <2> DEFINE q == IF f THEN "Failed" ELSE "Completed"
  <2>1. q \in {"Completed", "Failed"} /\ q \in PhaseStatuses /\ f = (q = "Failed")
    BY DEF PhaseStatuses
  <2> HIDE DEF q
  <2>2. sysRes' = [sysRes EXCEPT !.query = q, !.hasQuery = TRUE, !.queryFails = f]
    BY <1>3 DEF q
  <2>3. sysRes' \in SystemResults
    BY <1>2, <2>1, <2>2 DEF SystemResults
  <2>4. Early(sysRes') /\ Queried(sysRes')
    BY <1>2, <2>1, <2>2 DEF SystemResults, Early, Queried
  <2> QED BY <1>1, <1>2, <1>3, <2>3, <2>4, OrdinaryMoves
<1>4. CASE /\ sys' = [sys EXCEPT !.stage = "reduce"]
           /\ sysRes' = [sysRes EXCEPT !.query = "Failed", !.aur = "NotAttempted",
                                       !.reasons.aur = "AurQueryFailure"]
  <2>0. "AurQueryFailure" \in SkipReasons /\ "Failed" \in PhaseStatuses
        /\ "NotAttempted" \in AurPhaseStatuses
    BY DEF SkipReasons, PhaseStatuses, AurPhaseStatuses
  <2>1. sysRes' \in SystemResults
    BY <1>2, <1>4, <2>0 DEF SystemResults
  <2>2. /\ sysRes'.repo = "Completed" /\ sysRes'.exit = <<0>> /\ sysRes'.inventory = "Completed"
        /\ sysRes'.query = "Failed" /\ ~sysRes'.hasQuery /\ sysRes'.aur = "NotAttempted"
        /\ sysRes'.reasons.aur = "AurQueryFailure" /\ sysRes'.op = <<>>
    BY <1>2, <1>4 DEF SystemResults, Early
  <2>3. Reducible(sysRes', sysDone', sys.mode)
    BY <1>1, <1>2, <2>2 DEF Reducible
  <2> QED BY <1>1, <1>2, <1>4, <2>1, <2>3, OrdinaryMoves
<1> QED BY <1>3, <1>4 DEF AurQueryPhase, GoTo

LEMMA PreparationStep == SysInv /\ AurPreparationPhase => SysInv'
<1> SUFFICES ASSUME SysInv, AurPreparationPhase PROVE SysInv'
  OBVIOUS
<1>1. At("prepareAur") /\ UNCHANGED <<inst, trans, sysDone>>
  BY DEF AurPreparationPhase, KeepWorld, worldVars
<1>2. /\ ~trans.on /\ sysRes \in SystemResults /\ Early(sysRes) /\ Queried(sysRes)
      /\ sysDone = {"synced"}
  BY <1>1, InUpdate DEF OffRoute, Observing, At
<1>3. CASE sys' = [sys EXCEPT !.stage = "executeAur"] /\ UNCHANGED sysRes
  <2>1. Early(sysRes') /\ Queried(sysRes') /\ sysRes' \in SystemResults
    BY <1>2, <1>3
  <2> QED BY <1>1, <1>2, <1>3, <2>1, OrdinaryMoves
<1>4. CASE /\ sys' = [sys EXCEPT !.stage = "reduce"]
           /\ sysRes' = [sysRes EXCEPT !.aur = "BlockedBeforeExecution"]
  <2>1. sysRes' \in SystemResults
    BY <1>2, <1>4 DEF SystemResults, AurPhaseStatuses
  <2>2. Queried(sysRes') /\ sysRes'.op = <<>> /\ sysRes'.aur = "BlockedBeforeExecution"
    BY <1>2, <1>4 DEF SystemResults, Early, Queried
  <2>3. Reducible(sysRes', sysDone', sys.mode)
    BY <1>1, <1>2, <2>2 DEF Reducible
  <2> QED BY <1>1, <1>2, <1>4, <2>1, <2>3, OrdinaryMoves
<1>5. CASE /\ sys' = [sys EXCEPT !.stage = "reduce"]
           /\ sysRes' = [sysRes EXCEPT !.aur = "InconsistentResult", !.phase = "AurPreparation"]
  <2>1. sysRes' \in SystemResults
    BY <1>2, <1>5 DEF SystemResults, AurPhaseStatuses, SystemPhases
  <2>2. Queried(sysRes') /\ sysRes'.op = <<>> /\ sysRes'.aur = "InconsistentResult"
        /\ sysRes'.phase = "AurPreparation"
    BY <1>2, <1>5 DEF SystemResults, Early, Queried
  <2>3. Reducible(sysRes', sysDone', sys.mode)
    BY <1>1, <1>2, <2>2 DEF Reducible
  <2> QED BY <1>1, <1>2, <1>5, <2>1, <2>3, OrdinaryMoves
<1> QED BY <1>3, <1>4, <1>5 DEF AurPreparationPhase, GoTo
LEMMA ExecutionStep == SysInv /\ AurExecutionPhase => SysInv'
<1> SUFFICES ASSUME SysInv, AurExecutionPhase PROVE SysInv'
  OBVIOUS
<1>1. At("executeAur") /\ UNCHANGED <<inst, trans>> /\ sys' = [sys EXCEPT !.stage = "reduce"]
  BY DEF AurExecutionPhase, worldVars, GoTo
<1>2. /\ ~trans.on /\ sysRes \in SystemResults /\ Early(sysRes) /\ Queried(sysRes)
      /\ sysDone = {"synced"}
  BY <1>1, InUpdate DEF OffRoute, Observing, At
<1>3. ASSUME NEW r \in FilteredResults, r.queryFailure = (sysRes.query = "Failed"),
             sysRes' = [sysRes EXCEPT !.op = <<r>>],
             \/ r.psc # "NoChange" /\ sysDone' = sysDone \cup {"aur"}
             \/ r.psc # "Changed" /\ UNCHANGED sysDone
      PROVE  SysInv'
  <2>1. sysRes' \in SystemResults
    BY <1>2, <1>3 DEF SystemResults
  <2>2. Queried(sysRes') /\ sysRes'.op = <<r>> /\ sysRes'.aur = "NotAttempted"
        /\ sysRes'.query = sysRes.query
    BY <1>2, <1>3 DEF SystemResults, Early, Queried
  <2>3. /\ sysRes'.op # <<>> /\ sysRes'.op[1].queryFailure = (sysRes'.query = "Failed")
        /\ sysRes'.op[1].psc = "Changed" => "aur" \in sysDone'
    BY <1>3, <2>2
  <2>4. sysDone' \in {{"synced"}, {"synced", "aur"}}
    BY <1>2, <1>3
  <2>5. Reducible(sysRes', sysDone', sys.mode)
    BY <2>2, <2>3, <2>4 DEF Reducible
  <2> QED BY <1>1, <1>2, <2>1, <2>5, OrdinaryMoves
<1>4. CASE /\ sysRes' = [sysRes EXCEPT !.aur = "InconsistentResult", !.phase = "AurExecution"]
           /\ sysDone' \in {sysDone, sysDone \cup {"aur"}}
  <2>1. sysRes' \in SystemResults
    BY <1>2, <1>4 DEF SystemResults, AurPhaseStatuses, SystemPhases
  <2>2. Queried(sysRes') /\ sysRes'.op = <<>> /\ sysRes'.aur = "InconsistentResult"
        /\ sysRes'.phase = "AurExecution"
    BY <1>2, <1>4 DEF SystemResults, Early, Queried
  <2>3. sysDone' \in {{"synced"}, {"synced", "aur"}}
    BY <1>2, <1>4
  <2>4. Reducible(sysRes', sysDone', sys.mode)
    BY <2>2, <2>3 DEF Reducible
  <2> QED BY <1>1, <1>2, <2>1, <2>4, OrdinaryMoves
<1> QED BY <1>3, <1>4 DEF AurExecutionPhase

LEMMA UpgradeStep == SysInv /\ RepositorySystemUpgrade => SysInv'
<1> SUFFICES ASSUME SysInv, RepositorySystemUpgrade PROVE SysInv'
  OBVIOUS
<1>1. At("sync")
  BY DEF RepositorySystemUpgrade
<1>2. trans.on => TransFacts(trans, sysDone) /\ ~trans.complete /\ Untroubled(trans) /\ trans.phase = 4
  BY <1>1 DEF SysInv, OnRoute, PhaseOfStage, Observing, At
<1>3. ~trans.on => sysRes = FreshSystemResult /\ sysDone = {}
  BY <1>1 DEF SysInv, OffRoute, Observing, At
<1>4. sysRes \in SystemResults
  BY DEF SysInv, SysShape
<1>5. CASE /\ \E refresh \in BOOLEAN : SyncTransaction(refresh)
           /\ IF trans.on THEN NextPhase(trans, "repoState") /\ UNCHANGED sysRes
              ELSE /\ GoTo("inventory") /\ UNCHANGED trans
                   /\ sysRes' = [sysRes EXCEPT !.repo = "Completed", !.exit = <<0>>]
  <2>1. PICK v : inst' = Upgraded(inst, v) /\ sysDone' = sysDone \cup {"synced"}
    BY <1>5 DEF SyncTransaction
  <2>2. InstShape'
    BY <2>1, UpgradedShape DEF SysInv
  <2>3. CASE trans.on
    <3>1. trans' = [trans EXCEPT !.phase = @ + 1] /\ sys' = [sys EXCEPT !.stage = "repoState"]
          /\ sysRes' = sysRes
      BY <1>5, <2>3 DEF NextPhase, GoTo
    <3>2. "removed" \in sysDone' /\ "synced" \in sysDone'
      BY <1>2, <2>1, <2>3 DEF TransFacts
    <3>3. /\ TransFacts(trans', sysDone') /\ ~trans'.complete /\ Untroubled(trans')
          /\ trans'.phase = 5
      BY <1>2, <2>3, <3>1, <3>2, NextPhaseIs
    <3>4. PhaseOfStage(trans)'
      BY <3>1, <3>3 DEF PhaseOfStage, At, SysInv, SysShape
    <3> QED BY <2>2, <3>1, <3>3, <3>4, TransitionMoves
  <2>4. CASE ~trans.on
    <3>1. /\ sys' = [sys EXCEPT !.stage = "inventory"] /\ UNCHANGED trans
          /\ sysRes' = [sysRes EXCEPT !.repo = "Completed", !.exit = <<0>>]
      BY <1>5, <2>4 DEF GoTo
    <3>2. sysRes' \in SystemResults
      BY <1>4, <3>1 DEF SystemResults, PhaseStatuses
    <3>3. /\ sysRes.query = "NotAttempted" /\ sysRes.hasQuery = FALSE /\ sysRes.reasons = NoReasons
          /\ sysRes.aur = "NotAttempted" /\ sysRes.op = <<>>
      BY <1>3, <2>4 DEF FreshSystemResult, NoReasons
    <3>4. Early(sysRes') /\ sysRes'.query = "NotAttempted" /\ ~sysRes'.hasQuery
      BY <1>4, <3>1, <3>3 DEF SystemResults, Early
    <3>5. sysDone' = {"synced"}
      BY <1>3, <2>1, <2>4
    <3>6. sys'.stage = "inventory" /\ sys'.obs = sys.obs /\ {"mode", "stage", "obs"} \subseteq DOMAIN sys'
      BY <3>1 DEF SysInv, SysShape
    <3>7. SysShape' /\ Reported'
      BY <3>1, <3>2, <3>6 DEF SysInv, SysShape, Reported, At
    <3>8. OffRoute'
      BY <3>4, <3>5, <3>6 DEF OffRoute, At
    <3> QED BY <2>2, <2>4, <3>1, <3>7, <3>8 DEF SysInv
  <2> QED BY <2>3, <2>4
<1>6. CASE /\ UNCHANGED <<inst, sysDone>>
           /\ IF trans.on THEN EndTransition([trans EXCEPT !.failed = TRUE]) /\ UNCHANGED sysRes
              ELSE /\ \E e \in {<<>>, <<1>>} : sysRes' = RepositoryFailed(sysRes, e)
                   /\ sys' = [sys EXCEPT !.stage = "foreign", !.obs = FreshObservation("late")]
                   /\ UNCHANGED trans
  <2>1. InstShape'
    BY <1>6 DEF SysInv, InstShape
  <2>2. CASE trans.on
    BY <1>2, <1>6, <2>1, <2>2, TransitionFails
  <2>3. CASE ~trans.on
    <3>1. PICK e \in {<<>>, <<1>>} : sysRes' = RepositoryFailed(sysRes, e)
      BY <1>6, <2>3
    <3>2. "RepositoryFailure" \in SkipReasons /\ {"NotAttempted", "Failed"} \subseteq PhaseStatuses
          /\ "NotAttempted" \in AurPhaseStatuses
      BY DEF SkipReasons, PhaseStatuses, AurPhaseStatuses
    <3>3. sysRes' \in SystemResults
      BY <1>4, <3>1, <3>2 DEF SystemResults, RepositoryFailed, MarkLater
    <3>4. sysRes.hasQuery = FALSE /\ sysRes.op = <<>>
      BY <1>3, <2>3 DEF FreshSystemResult
    <3>5. sysRes'.repo = "Failed" /\ sysRes'.exit = e /\ RepositoryFailureTail(sysRes')
      BY <1>4, <3>1, <3>4 DEF SystemResults, RepositoryFailed, MarkLater, RepositoryFailureTail
    <3>6. sysRes'.exit # <<0>>
      <4>1. <<1>>[1] # <<0>>[1]
        OBVIOUS
      <4>2. <<1>> # <<0>>
        BY <4>1
      <4>3. <<>> # <<0>>
        OBVIOUS
      <4> QED BY <3>1, <3>5, <4>2, <4>3
    <3>7. ObsShape(FreshObservation("late")) /\ FreshObservation("late").purpose = "late"
      BY DEF ObsShape, FreshObservation
    <3>8. /\ sys'.stage = "foreign" /\ sys'.obs = FreshObservation("late")
          /\ {"mode", "stage", "obs"} \subseteq DOMAIN sys' /\ UNCHANGED trans
      BY <1>6, <2>3 DEF SysInv, SysShape
    <3>9. SysShape' /\ Reported'
      BY <3>3, <3>7, <3>8 DEF SysInv, SysShape, Reported, At
    <3>10. OffRoute'
      BY <1>3, <1>6, <2>3, <3>5, <3>6, <3>7, <3>8 DEF OffRoute, Observing
    <3> QED BY <2>1, <2>3, <3>8, <3>9, <3>10 DEF SysInv
  <2> QED BY <2>2, <2>3
<1> QED BY <1>5, <1>6 DEF RepositorySystemUpgrade

LEMMA ReduceStep == SysInv /\ ReduceSystem => SysInv'
<1> SUFFICES ASSUME SysInv, ReduceSystem PROVE SysInv'
  OBVIOUS
<1>1. /\ At("reduce") /\ UNCHANGED <<inst, trans, sysDone>> /\ sys' = [sys EXCEPT !.stage = "over"]
      /\ sysRes' = ReduceSystemAurUpdate(sysRes, trans)
  BY DEF ReduceSystem, KeepWorld, worldVars, GoTo
<1>2. /\ sys'.stage = "over" /\ sys'.obs = sys.obs /\ sys'.mode = sys.mode
      /\ {"mode", "stage", "obs"} \subseteq DOMAIN sys'
  BY <1>1 DEF SysInv, SysShape
<1>3. sysRes \in SystemResults /\ trans.on \in BOOLEAN
  BY DEF SysInv, SysShape
<1>4. /\ sysRes' \in SystemResults /\ ResultIsTrue(sysRes', trans, sysDone, sys.mode)
      /\ ReduceSystemAurUpdate(sysRes', trans) = sysRes'
  <2>1. CASE trans.on
    <3>1. TransFacts(trans, sysDone)
      BY <2>1 DEF SysInv, OnRoute
    <3> QED BY <1>1, <1>3, <3>1, TransitionIsTrue
  <2>2. CASE ~trans.on
    <3>1. Reducible(sysRes, sysDone, sys.mode)
      BY <1>1, <2>2 DEF SysInv, OffRoute, Observing, At
    <3> QED BY <1>1, <1>3, <2>2, <3>1, ReducedIsTrue
  <2> QED BY <2>1, <2>2
<1>5. InstShape' /\ SysShape'
  BY <1>1, <1>2, <1>4 DEF SysInv, InstShape, SysShape
<1>6. Reported'
  BY <1>1, <1>2, <1>4 DEF Reported
<1>7. trans.on => OnRoute'
  BY <1>1, <1>2 DEF SysInv, OnRoute
<1>8. OffRoute'
  BY <1>2 DEF OffRoute, At
<1> QED BY <1>1, <1>5, <1>6, <1>7, <1>8 DEF SysInv

LEMMA DryRunStep == SysInv /\ (DryRunRepositoryOnly \/ DryRunObserve) => SysInv'
<1> SUFFICES ASSUME SysInv, DryRunRepositoryOnly \/ DryRunObserve PROVE SysInv'
  OBVIOUS
<1>1. /\ sys.stage \in {"dryRepo", "dryInventory"} /\ UNCHANGED <<inst, trans, sysRes, sysDone>>
      /\ \E d, r : \/ sys' = [sys EXCEPT !.stage = "over", !.ready = r]
                   \/ sys' = [sys EXCEPT !.stage = "over", !.dry = d, !.ready = r]
  BY DEF DryRunRepositoryOnly, DryRunObserve, KeepWorld, worldVars, At
<1>2. /\ sys'.stage = "over" /\ sys'.obs = sys.obs /\ sys'.mode = sys.mode
      /\ {"mode", "stage", "obs"} \subseteq DOMAIN sys'
  BY <1>1 DEF SysInv, SysShape
<1>3. ~trans.on
  BY <1>1 DEF SysInv, OnRoute, PhaseOfStage, Observing, At
<1>4. sys.mode \notin ReportedModes
  BY <1>1, <1>3 DEF SysInv, OffRoute, Observing, At
<1>5. InstShape' /\ SysShape'
  BY <1>1, <1>2 DEF SysInv, InstShape, SysShape
<1>6. OffRoute' /\ Reported'
  BY <1>2, <1>4 DEF OffRoute, Reported, At
<1> QED BY <1>1, <1>3, <1>5, <1>6 DEF SysInv

\* Another program changes no requirement and installs nothing.
LEMMA TouchInst ==
    ASSUME InstShape, NEW p \in Installed(inst),
           \/ inst' = [inst EXCEPT ![p][1].ver = @ + 1]
           \/ inst' = [inst EXCEPT ![p][1].reason =
                           IF @ = "Explicit" THEN "Dependency" ELSE "Explicit"]
           \/ inst' = Without(inst, p)
    PROVE  /\ InstShape'
           /\ \A c \in Packages : Present(inst', c) =>
                 Present(inst, c) /\ inst'[c][1].needs = inst[c][1].needs
<1>1. p \in Packages /\ inst[p] # <<>> /\ 1 \in DOMAIN inst[p] /\ "needs" \in DOMAIN inst[p][1]
  BY DEF InstShape, Installed, Present
<1>2. ASSUME NEW x, NEW y, inst' = [inst EXCEPT ![p] = x], x = <<>> \/ x = [inst[p] EXCEPT ![1] = y],
             "needs" \in DOMAIN y, y.needs = inst[p][1].needs
      PROVE  /\ InstShape'
             /\ \A c \in Packages : Present(inst', c) =>
                   Present(inst, c) /\ inst'[c][1].needs = inst[c][1].needs
  BY <1>1, <1>2 DEF InstShape, Present
<1>3. CASE inst' = [inst EXCEPT ![p][1].ver = @ + 1]
  <2> DEFINE y == [inst[p][1] EXCEPT !.ver = @ + 1]
             x == [inst[p] EXCEPT ![1] = y]
  <2>1. inst' = [inst EXCEPT ![p] = x] /\ "needs" \in DOMAIN y /\ y.needs = inst[p][1].needs
    BY <1>1, <1>3
  <2> QED BY <1>2, <2>1
<1>4. CASE inst' = [inst EXCEPT ![p][1].reason =
                       IF @ = "Explicit" THEN "Dependency" ELSE "Explicit"]
  <2> DEFINE y == [inst[p][1] EXCEPT !.reason = IF @ = "Explicit" THEN "Dependency" ELSE "Explicit"]
             x == [inst[p] EXCEPT ![1] = y]
  <2>1. inst' = [inst EXCEPT ![p] = x] /\ "needs" \in DOMAIN y /\ y.needs = inst[p][1].needs
    BY <1>1, <1>4
  <2> QED BY <1>2, <2>1
<1>5. CASE inst' = Without(inst, p)
  BY <1>1, <1>2, <1>5 DEF Without
<1> QED BY <1>3, <1>4, <1>5

LEMMA TouchStep == SysInv /\ Touch => SysInv'
<1> SUFFICES ASSUME SysInv, Touch PROVE SysInv'
  OBVIOUS
<1>1. ~At("over") /\ UNCHANGED <<sys, trans, sysRes, sysDone>>
  BY DEF Touch
<1>2. /\ InstShape'
      /\ \A c \in Packages : Present(inst', c) =>
            Present(inst, c) /\ inst'[c][1].needs = inst[c][1].needs
  <2>1. CASE UNCHANGED inst
    BY <2>1 DEF SysInv, InstShape
  <2>2. CASE \E p \in Installed(inst) :
                \/ inst' = [inst EXCEPT ![p][1].ver = @ + 1]
                \/ inst' = [inst EXCEPT ![p][1].reason =
                                IF @ = "Explicit" THEN "Dependency" ELSE "Explicit"]
                \/ inst' = Without(inst, p)
    BY <2>2, TouchInst DEF SysInv
  <2> QED BY <2>1, <2>2 DEF Touch
<1>3. SysShape' /\ Reported' /\ (~trans.on => OffRoute')
  BY <1>1 DEF SysInv, SysShape, Reported, OffRoute, At
<1>4. ASSUME trans.on PROVE OnRoute'
  <2>1. OnRoute /\ TransFacts(trans', sysDone')
    BY <1>1, <1>4 DEF SysInv, OnRoute
  <2>2. trans.plan.cand.consumer \in Packages
    BY <2>1 DEF OnRoute, TransFacts, Packages
  <2>3. FinalRead(trans) => FinalRead(trans)'
    BY <1>1, <1>2, <2>2 DEF FinalRead
  <2>4. PhaseOfStage(trans) => PhaseOfStage(trans)'
    BY <1>1, <2>3 DEF PhaseOfStage, At
  <2> QED BY <1>1, <2>1, <2>4 DEF OnRoute, At
<1> QED BY <1>1, <1>2, <1>3, <1>4 DEF SysInv

LEMMA SysStep == SysInv /\ [SysNext]_sysVars => SysInv'
<1> SUFFICES ASSUME SysInv, [SysNext]_sysVars PROVE SysInv'
  OBVIOUS
<1>1. CASE UNCHANGED sysVars
  <2>1. UNCHANGED <<inst, sys, trans, sysRes, sysDone>>
    BY <1>1 DEF sysVars
  <2>2. InstShape' /\ SysShape' /\ Reported' /\ (~trans.on => OffRoute')
    BY <2>1 DEF SysInv, InstShape, SysShape, Reported, OffRoute, At
  <2>3. trans.on => OnRoute'
    BY <2>1 DEF SysInv, OnRoute, PhaseOfStage, FinalRead, At
  <2> QED BY <2>1, <2>2, <2>3 DEF SysInv
<1>2. CASE SysNext
  BY <1>1, <1>2, ForeignStep, RelationsStep, DependenciesStep, RemoteStep, ReusedStep, RouteStep,
     ConfirmStep, RevalidateStep, RemoveStep, UpgradeStep, RepoStateStep, AuthorityStep, QueryStep,
     BuildStep, ReasonStep, VerificationStep, AfterPartialStep, InventoryStep, QueryPhaseStep,
     PreparationStep, ExecutionStep, ReduceStep, DryRunStep, TouchStep
     DEF SysNext, SysOver
<1> QED BY <1>1, <1>2

\* What -Syu reports at its end is true, in every world and whatever other
\* programs and failing calls do meanwhile: success is that of all phases,
\* every change that is reported happened, a removal that went through is
\* never passed over, and a completed transition left the confirmed
\* replacement, which pins the installed version (SystemReportTruthful).
THEOREM SystemReportIsTrue == SysSpec => []SystemReportTruthful
<1>1. SysInv => SystemReportTruthful
  <2> SUFFICES ASSUME SysInv PROVE SystemReportTruthful
    OBVIOUS
  <2>1. TransitionVerified
    <3> SUFFICES ASSUME trans.on, TransSuccess(trans), trans.final = <<inst>>
                 PROVE  TransitionVerified
      BY DEF TransitionVerified
    <3>1. trans.complete
      BY DEF TransSuccess
    <3>2. Verified(trans)
      BY <3>1 DEF SysInv, OnRoute, TransFacts
    <3>3. trans.final[1] = inst
      OBVIOUS
    <3> QED BY <3>2, <3>3 DEF Verified, TransitionVerified
  <2> QED BY <2>1 DEF SystemReportTruthful, SysInv, Reported, ReportedModes
<1> QED BY <1>1, SysStarts, SysStep, PTL DEF SysSpec
=============================================================================
