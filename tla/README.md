# Verification of Moguet

TLA+ models of the parts of Moguet that decide what is planned, reviewed, built,
installed, recorded and removed, with TLC configurations that check them on
small instances and TLAPS proofs of the central properties for every instance.
Source paths are relative to `source/` of the repository, others to its root.

Five layers are modelled: plans (what would be done, and what a dry run says of
it), builds (of reviewed AUR sources, of development packages, of directories of
the user), the privileged installation with its receipts, the operations that
put these together and report on them, and the stores, workspaces and processes
below. The generation store is proved to implement its abstract specification;
the central invariants of the reviewed build, of the installation helper and its
client, of the receipts and of process supervision are proved as well; the rest
is model-checked.

## 1. The system and its components

Moguet is a command-line AUR helper. Every invocation is a process of its own;
several may run at once for the same user, share the XDG state directory and
the cache of package checkouts, and be killed at any time. There is no daemon.
Concurrency is therefore between processes: through `flock` on directories,
through compare-and-append on immutable record files, through child processes
that may outlive their parent, and through a privileged helper reached over a
socket pair.

| Component (files) | State | Operations | Talks to | What is hard | What makes it correct |
|---|---|---|---|---|---|
| Immutable generation store (`xdg_generation_store`) | one directory of immutable record files per unit, each name holding its generation and its predecessor's identity | lookup, publication | file system, other releases of Moguet | piecewise observation, lost answers after `linkat`, power failure, lock waits, counter at its limit | linearizable compare-and-append, durable acknowledgements, truthful outcomes, no downgrade |
| Reviewed source build (`source_build`, `reviewed_source_*`, `trusted_git`, `checkout_fetch`, `separated_source_build`) | reviewed state record, persistent checkout, its lease, pinned revision, editor overlay | preflight, fetch/clone, plan, accept, check out, edit and seal, publish, build, install; fetch only | generation store, Git, makepkg, the user | state read before the lease, moving upstream, killed parents with living commands, edits between proof and use | no upstream change unseen, builds run on exactly what was reviewed, every invocation ends |
| Development packages (`evaluated_devel_*`, `invocation_owned_source_build_context`, `pinned_submodule_*`, `devel_*`, `installed_artifact_binding`) | private build root, proofs of a commit, provenance generations | build, prove, install, publish, assess | generation store, ALPM database, remotes | upstream moves during the build, three stores change while they are compared | provenance names the commit that was built; an assessment was true when the remote answered |
| Trusted artifact installation (`source_artifact_install_trusted_*`, `exact_artifact_transaction_*`) | helper state, sealed descriptors, transaction receipt | prepare, execute, record, consume, abort | privileged helper, ALPM | lost answer after commit, death of either side | outcome never claims more or less than was committed |
| Trusted ALPM receipt helper (`trusted_alpm_receipt_*`) | transaction directory, receipt | prepare, record, consume, abort | pacman hooks | a hook that outlives its pacman, no lock | a complete receipt names what was installed, a token serves once |
| Dependency planning (`dependency_plan*`, `provider_selection`, `build_plan_artifact_target_projection`) | plan graph | walk, choose providers, order, guard | metadata, the user | cycles, shared bases, an AUR that changes between queries | what passes the guard can be built in order |
| AUR update planning (`aur_update_execution_preflight`, `_preparation`, `filtered_aur_update_operation`, `upgrade_all_plan`) | update targets, work items | filter, preflight, prepare | planning, registered sources | several stages recompute the same facts | everything is updated once, stages agree |
| Command routes and dry run (`commands_sync`, `unified_plan_*`, `dry_run`) | none of its own | prepare, project | all planning | two derivations of one plan | the dry run shows what the command would do |
| Upgrade orchestration (`system_source_upgrade`, `upgrade_all_operation*`, `aur_update_execution_runner`, `aur_update_operation_result`, `system_aur_update_operation`, `cross_source_version_lock*`) | phase results | system transaction, sources, AUR items, coordinated transition, reduction | all of the above | one step of several failing, pacman doing more or less than its status says | the report is true of the package database; nothing runs after a stop |
| Dependency cleanup (`invocation_owned_cleanup_*`, `dependency_cleanup_*`, `remote_aur_cleanup_candidate_collector`) | baseline, evidence, assessment | collect, confirm, look again, remove | pacman, receipts | a package becoming wanted meanwhile | only what the invocation brought, and as much of it as can go |
| Local source builds (`local_source_*`, `local_recipe_candidate`, `local_dependency_plan_projection`, `review_recipe_patch_save`) | private copy, evaluated metadata, dependencies | open, review, evaluate, plan, copy, build, install, save a patch | workspaces, planning, the user's editor | the directory is edited at any time | builds the recipe that was accepted |
| Workspaces and caches (`trusted_cache`, `local_source_workspace`, `artifact_workspace`) | private directories and their manifests | create, copy, validate, clean, dispose | kernel, makepkg, pacman | names replaced and inodes reused between two system calls | removes only what was recorded, hands on only what was inspected |
| User stores (`xdg_directory_safety`, `xdg_paths`, `source_preference`, `local_patch_association`, `xdg_state_log`) | directories and files of the user | prepare, lock, read, replace, remove, log | kernel, editors | writers without the lock, kills | nothing unseen is destroyed, no series that never existed |
| Process supervision (`process`) | child, process group, output, signals | run, capture, terminate, reap | kernel | descendants that linger or leave the group, races with setpgid | the call returns, truthfully, and leaves nothing behind |
| Record digest, metadata parsers, root selection, review projection, Git process policy, command line, presentation, localization, PKGBUILD export | values | parse, compare, render | | | not protocols |

`PROJECT.json` lists the components with their files, status and, for those
not modelled, the reason; its `hazards` are the hard places with their lines.

## 2. The modules

| Module | Content |
|---|---|
| `GenerationRegister` | abstract specification of the store: read, append to what was read, acknowledge, forget, power loss |
| `XdgGenerationStore` | the store's code, one observation of the file system per step |
| `MCStoreInterference` | one client next to processes that take no lock, with history variables |
| `XdgGenerationStoreProofs` | type correctness, interference included, no downgrade and refinement of the register, for every instance |
| `StoreInterferenceProofs` | answers of one operation next to processes without the lock, for every instance |
| `ReviewedSourceBuild` | invocations of one PackageBase; composes `GenerationRegister` |
| `ReviewedBuildProofs` | the chain of reviews has no gap, the lease, and that a build builds what was reviewed and is current, for every instance |
| `TrustedInstallStore` | the privileged helper: one transaction, its files and locks, pacman and its hooks |
| `TrustedInstallTransport` | the client's dialogue with the helper; extends `TrustedInstallStore` |
| `TrustedInstallProofs` | pacman runs once, its inputs stay, what the files of a transaction say is so and what the client reports is so, for every instance |
| `ProcessSupervision` | one bounded call or plain command, its child and descendants |
| `ProcessProofs` | what a call leaves behind and what it reports, for every instance |
| `MCReviewedLiveness` | liveness of the reviewed build and of a bounded call |
| `DependencyPlan` | the walk that finds a build plan, one query per step |
| `BuildPlanTargets`, `PlanReadiness` | what a plan has to produce, and what it is ready for |
| `AurUpdatePreflight`, `AurUpdatePreparation` | from candidates to work items |
| `UpgradeAllPlan`, `FilteredAurUpdate` | which packages and units are left to registered sources |
| `UnifiedPlan` | what each command prepares and what its dry run shows |
| `MCPlans` | the way from update targets to work items, for TLC |
| `SystemSourceUpgrade` | the system transaction and the registered sources |
| `AurUpdateExecution` | the AUR work items and the reduction of their results |
| `UpgradeAll` | both, with the aggregate result; composes the two modules above |
| `SystemAurUpdate` | -Syu with the transition of a version lock |
| `UpgradeProofs` | what an upgrade reports, in what order it changes packages and what its results are reduced to, for every instance |
| `DirectoryProofs` | what the removals of cleaning, rollback and disposal unlink, what is installed of a built package base, what the user's stores unlink and which patches they answer, for every tree and every number of foreign steps |
| `MCUpgradeAll` | TLC instance of the upgrades (two configurations) |
| `CleanupAssessment`, `DependencyCleanup` | assessment and life of a build with --rmdeps |
| `AlpmReceipt` | a pacman transaction with a receipt |
| `CleanupProofs` | what is offered and what is removed, and what the client of a receipt reports, for every instance |
| `MCDependencyCleanup` | TLC instance of both |
| `DirectoryTree` | nodes, inodes and what other processes do to them |
| `TrustedCache`, `LocalSourceWorkspace`, `ArtifactWorkspace` | private directories |
| `DevelBuildContext`, `DevelSourceBuild`, `DevelAssessment` | development packages |
| `UserDirectory`, `SourcePreference`, `PatchAssociation` | stores of the user, and the state log |
| `LocalSourceBuild` | `moguet build <directory>` |
| `MCWorkspaces` | TLC instance of everything that lives in a directory |

The store, the reviewed build and the trusted installation are checked as they
are: the configurations `MCGenerationStore.cfg`, `MCReviewedSourceBuild.cfg`,
`MCTrustedInstallStore.cfg`, `MCTrustedInstallTransport.cfg` and
`MCTransportLiveness.cfg` give values to the constants of the modules that
the proofs are about. The `map` of `PROJECT.json` names the definitions that carry
source lines; a small helper inside the lines of a mapped definition is not
listed again.

The layers fit together: `ReviewedSourceBuild` touches the reviewed state only
through `Read`, `Append`, `Acknowledge` and `Forget` of `GenerationRegister`,
and `XdgGenerationStoreProofs` proves that the store provides exactly those.
(Losing an unacknowledged record by power failure ends all invocations; the
build model contains killed invocations and no power failure.)

### XdgGenerationStore

The state is the directory the path names (`place`), the entries of each
directory (`dirs`: name, inode, ctime, link count, contents), which of them are
on disk (`synced`), and for each client the position in the operation, its
lock, and everything it has collected: names still to inspect (`todo`), names
and status (`snap`), records read (`acc`), the evidence of the first proof
(`token`). A lookup is `OpenStore`, `LockStore`, `EnterUnit`, `Scan`, one
`Inspect` per name, `Survey`, one `ReadRecord` per record, `Conclude`,
`ReadTip`, a second round of the scan, `FinishRead`. A publication runs one
round, `ComparePredecessor`, `PrepareRecord` (O_TMPFILE), `RecheckPredecessor`, a
second round, `Link`, `VerifyCommit`, a third round, `SyncUnit` and
`FinishPublish`.
`OperationFails` is any system call or allocation that fails, at any stage;
`Committed` decides whether it is a failure or `PublishedUncertain`.
`Interfere` is what processes without the lock may do.

Abstractions: records are compared by their contents where the code compares
SHA-256 digests; generation numbers run to `MaxGen` instead of 2^64 - 1; the
store directory itself exists at the start (its creation and the ownership and
mode checks belong to `xdg_directory_safety`); `Missing` with and without a unit
directory is one answer.

### ReviewedSourceBuild

The world is the upstream branch (`remote`), the directory the checkout path
names (`place`), what each directory holds (`tree`: whether it is a clone, the
fetched revision, HEAD, changes of the work tree), who holds each directory's
lease and which command of a killed invocation still runs in it (`orphan`). An
invocation goes through

    Start - Preflight - OpenCheckout - [CreateDirectory] - AcquireLease
      - fetch | clone - PlanReview - DecideAcceptance - checkout - clean
      - CheckUpdateStatus - ReviewBuildFiles - [editor] - SealOverlay
      - [ConfirmEdit] - PublishState - PublishAnswers | RereadState
      - PinCheckout - QueryPackageList - RunMakepkg - InstallArtifact

in one of three modes: with review, without it (`--noconfirm`, a setting, no
terminal), or only fetching. A command (`git`, the editor, `makepkg`) takes time:
it starts in one step and ends in another, so that everything else runs
meanwhile; `CommandFails` may leave the directory as it was or as after success.
`Stop` is an exception unwinding the invocation: it releases the lease and, in
the scope of a clone, removes the new directory. `Kill` unwinds nothing, and the
running command keeps the lease, as
`run_command_with_parent_independent_lifetime_guard` arranges.

Abstractions: revisions are model values; an edit is a member of a set, and
build residue (untracked or ignored files) one more; the review of a revision is
reduced to what it was shown against; Git commands are atomic at their end.
Several checks of the same fact within one uninterrupted stretch of code
are one check. Invalid, corrupted and mismatching records are one document
`Abnormal` (each leads to a full review); a record of a later release is
`Future` (fatal).

### TrustedInstallStore

One transaction token. The directory is in one `place` (none, preparing, active,
used); each leaf of it is absent, torn (created, not yet written) or whole
(`file`), with the execution marker (`observed`) and the recorded package lists
(`listed`) as values of their own. Each helper process has a command, a position,
a lock on the lifetime file and somebody who waits for it. The actions follow
`source_artifact_install_trusted_helper_state.cpp`:

    prepare            MakeStaging - WriteStage - PublishStage - ReproveStage - Answer
    every other one    Open - AcquireLease - ...
    execute            CheckUnclaimed - CreateClaim - WriteClaim - Reprove
                         - CreateClaim - WriteAuthorized - Exec | PublishRefusal
    execution-status   ReadStatus - Answer
    observe-execution  CheckHook - CreateMark - WriteMark - RecordBaseline
    record             CheckHook - [mark] - WritePartial - PublishReceipt
    record-install/-upgrade
                       CheckHook - ClaimRecord - JoinRecord - [mark]
                         - PublishRecord - RecordAnchor
    consume, consume-exact, abort
                       ReadForRetirement - Retire - CleanStage - CleanClaims
                         - CleanLifetime
    install-legacy     prepare - ForkExecute - WaitExecute - abort

`Stops` is a process that is killed or meets an error nothing handles, before
any of its steps; the errors that are handled are actions of their own
(`PrepareThrows`, `PublishedThrows`, `ExecuteThrows`, `ConsumeExactThrows`,
`LegacyAbortThrows`, `LosesChild`). pacman is external: it runs the hooks whose
trigger matches, goes on when one fails, may pull in packages besides the
requested ones (`Extra`), may fail or be killed at any point, and may leave a
descendant that keeps the inherited lock (`straggler`).

Abstractions: ownership, mode, digest and generation checks of the staged files
are the predicate `StageIntact`, since only trusted root can make them fail
otherwise; staged files, hooks, manifest and seal are one leaf, written before
publication and removed after retirement. The removal is three steps: the one
that matters to a late command is a cleanup killed after the claims are gone and
before the lifetime file is. Hooks started by hand are left out.

### TrustedInstallTransport

The client's position (`step`), what it heard of its current command (`heard`,
`answer`) and what it reports (`result`). `Call`, `NotStarted`, `Hear` and `Lose`
are `execute_explicit_process` and its wrappers: fork may fail, output may be
cut, storing it may throw, waiting may fail, sudo may be killed in front of a
command that lives on. A command whose output is captured cannot be lost before
it closes that output. The `...Returns` actions are the branches of
`execute_snapshot` (cleanup and exact routes) and of
`execute_prepared_package_base_artifact_install` (legacy route). Whether the
cleanup session accepts the completion is a choice. Not in the model: selecting
and sealing the artifacts before the first command, binding the installed
records after the last, a killed client, and allocation failures while a result
is built.

### Plans (DependencyPlan to UnifiedPlan)

`DependencyPlan` is `dependency_plan.cpp` with its call stack as a variable: one
step is one lookup, which may fail, and between two of them the AUR may change. The
answer about a dependency is carried in the request to collect it (`preloaded_package_info`);
only a root is queried when it is collected.
The first walk collects what the user has to choose between, the second uses the
answers. The plan then meets, as pure operators, the projection of artifact
targets (`BuildPlanTargets`), the guard of the build commands (`PlanReadiness`),
and, for updates, filter, preflight, preparation and completion
(`FilteredAurUpdate`, `AurUpdatePreflight`, `AurUpdatePreparation`,
`UpgradeAllPlan`). These stages compute targets, roots, order and cycles on their
own from the same edges and check each other; that they agree is not by
construction. `UnifiedPlan` has, for every command, the preparation
(`SyncPreparation`, `RemotePreparation` and so on) and the projection that a dry
run shows (`ProjectSync`, `ProjectRemote` and so on); an answer `<<>>` is an
exception. Abstractions: a constraint is a minimal version; relations between
packages are assessed kinds; an issue is its kind and what it is about.

### Upgrades

`SystemSourceUpgrade` and `AurUpdateExecution` keep the package database (`db`,
`changed`, `aurChanged`) apart from what is reported (`result`, `aur`): pacman and
the builds change packages whether or not they say so, and only snapshots and
receipts tell. Every step of the code that can fail has a failing alternative,
and the handlers that turn exceptions into results are part of the actions.
`UpgradeAll` runs them as upgrade-all or upgrade-aur does and reduces the results.
`SystemAurUpdate` is the system update of -Syu: each read of the local database,
the repositories and the AUR is a step of its own, so that other programs
act between observation, revalidation, removal, upgrade, build and verification.

### Cleanup and receipts

`CleanupAssessment` is the pure assessment of what an invocation brought,
`DependencyCleanup` the life of a build with `--rmdeps` around it. `AlpmReceipt`
is the transaction that installs the providers: client, helper, pacman and hook
are four processes on one directory without a lock.

### Directories

`DirectoryTree` gives a node an identity (`id`, what a file handle tells apart)
and an inode number that is used again once nobody holds it, so that checks by
number and checks by handle differ. `Foreign` is any other process of the same
user: it replaces, rewrites, adds, removes, chmods. The modules above it translate the order
of `openat`, `fstat`, `renameat2`, `unlinkat` and the comparisons between
them. `LocalSourceBuild` and the build of a development package
(`DevelBuildContext`, `DevelSourceBuild`) use trees too; `DevelAssessment` adds the
stores of provenance, reviews and installed packages. Contents are numbers; a
digest is the content; the archive of a build is a function of commit and version.
Copy, artifact workspace and patch series are detailed in `LocalSourceWorkspace`,
`ArtifactWorkspace` and `PatchAssociation` and single steps of `LocalSourceBuild`.
Its actions cover the plain build, a build with patches, the association of a
series and the saving of an edit as a patch.

### ProcessSupervision

The child, its descendants, the process group, the pipe, the two clocks and the
caller's signal state. Processes may do anything at any time; SIGKILL ends what it
reaches. `fork`, `setpgid`, `poll`, `waitid` and the restoration of the
caller's state may each fail as often as the scenario says.

## 3. The runs

| Run | Checks | Shows |
|---|---|---|
| `generation_store` | `NoDowngrade`, `ImplementsRegister`, `EveryOperationReturns` | two clients of two releases, failing calls, a crash: the store is a durable compare-and-append register, and every call returns |
| `store_interference` | `AnswersLinearize`, `OutcomeMatchesCommit` | one client and lock-free processes: a positive answer was true at some instant; a committed record is never reported as failed, nor the reverse |
| `reviewed_source_build` | `ReviewCoversGap`, `BuildsWhatWasReviewed`, `ReviewedBuildIsCurrent` | two invocations, two revisions, an edit, a kill, an interfering process, a newer release |
| `reviewed_build_liveness` | `EveryInvocationEnds`, `BoundedCallReturns`, `NothingLeftBehind`, `BoundedOutcomeTruthful` | every invocation ends even if the command of a killed one never does; by itself, a bounded call with descendants and failing system calls |
| `trusted_install_store` | `RunsPacmanOnce`, `StageHeldWhileUsed`, `EvidenceTruthful` | helper commands in any order, killed anywhere, around one pacman |
| `trusted_install_transport` | `OutcomeTruthful`, `CleanupTruthful` | one installation by each route over an unreliable command channel |
| `trusted_install_liveness` | `ClientEnds` | the client ends even if a descendant of pacman never does |
| `plans` | `PreparedIsBuildable`, `EachUpdatedOnce`, `PlannerAndPreflightAgree`, `DryRunIsHonest` | what is let through is buildable in order, built once, and what the dry run shows |
| `upgrade_all` | `ReportTruthful`, `ReplacedIsRebuilt`, `NothingAfterStop`, `AggregateTruthful`, `ReductionTruthful`, `ReadyPlanWorks`, `SystemReportTruthful` | a failure at every step of upgrade-all, upgrade-aur and -Syu: the report is true of the package database |
| `not_attempted` | `NotAttemptedIsTrue` (violated) | upgrade-all may report an AUR phase as not attempted although its first item was installed |
| `cleanup` | `OfferedIsComplete`, `RemovedIsOurs`, `ReadyIsLargestSafeSet`, `ReceiptTruthful` | removal after a build, and the receipts it rests on |
| `workspaces` | `LocalBuildIsReviewed`, `RemovesOnlyPlanned`, `SnapshotIsConsistent`, `InstalledIsInspected`, `AssessmentIsTruthful`, `NothingUnseenDestroyed`, `AcquiredSeriesExisted` | everything that lives in a directory next to other processes of the user |

What the properties say:

* `ImplementsRegister`: every behaviour of the store among its clients is a
  behaviour of `GenerationRegister`, with the records of the directory as the
  register's history.
* `NoDowngrade`: an older release never chains a record onto one that only a
  later release understands.
* `AnswersLinearize`: `Missing`, `Loaded` and `Published` name a record that was
  the newest of one complete chain at an instant of the operation, although the
  code never sees the directory at one instant.
* `OutcomeMatchesCommit`: `Published` or `PublishedUncertain` exactly if the
  record was linked.
* `ReviewCoversGap`: each record was accepted from a review of the full tree or
  of the difference from exactly the record it succeeds. The reviewed state is
  read before the lease is taken, so this rests on the store's compare.
* `BuildsWhatWasReviewed`: while `makepkg` runs for a reviewed build, even one
  whose invocation was killed, the checkout is the pinned revision with the
  sealed edits, unless a process without the lease changed it after the last
  proof.
* `ReviewedBuildIsCurrent`: the revision being built was the newest record at
  some time since the lease was taken, however stale the first observation.
* `RunsPacmanOnce`, `StageHeldWhileUsed`: one token executes pacman at most once,
  and nothing retires or removes what pacman or a descendant may still read.
* `EvidenceTruthful`: in an active transaction a refusal stands only where pacman
  never ran, a marker only where it did, and a receipt lists exactly what was
  committed.
* `OutcomeTruthful`: NotAttempted, Succeeded, Failed and a Complete receipt are so
  and stay so, whatever lost processes do later. Failed claims only that pacman
  ran: when sudo is killed after the first hook, pacman may still commit. A
  Complete receipt of the exact route covers the requested packages; one that
  pacman pulled in makes the record hook fail, unless that hook could not start
  at all.
* `CleanupTruthful`: with an unknown outcome nothing is aborted or consumed; on the
  exact route Complete means everything is gone, Retained that the stage is still
  there.
* `PreparedIsBuildable`: every dependency of what is let through is satisfied, in
  each of its roles, by something that is there or is built no later, from the
  provider the user chose. `EachUpdatedOnce`: registered sources and AUR updates
  divide the packages without overlap and without a gap, and install reasons
  stay. `PlannerAndPreflightAgree`: the stages that recompute one another's
  facts find the same. `DryRunIsHonest`: a dry run shows the units, artifacts and
  reasons the command prepares; its exceptions are listed in section 5.
* `ReportTruthful`, `ReplacedIsRebuilt`, `NothingAfterStop`, `AggregateTruthful`,
  `ReductionTruthful`: what upgrade-all and upgrade-aur report of every phase,
  source, item and target, and in total, is so; a source replaced by pacman is
  built again; nothing changes after a step that did not end well.
* `ReadyPlanWorks`, `SystemReportTruthful`: a coordinated transition is confirmed
  only for a world in which it works, is reported as complete only when the
  confirmed replacement is in place, and -Syu never hides a removal.
* `OfferedIsComplete`, `RemovedIsOurs`, `ReadyIsLargestSafeSet`: the offer rests on a
  complete picture, what goes was brought by this invocation and is unchanged
  since it was shown, and the last look keeps the largest set nothing else needs.
  `ReceiptTruthful`: a complete receipt names what this transaction installed.
* `RemovesOnlyPlanned`, `SnapshotIsConsistent`, `InstalledIsInspected`: removals of the
  cache unlink only recorded objects, a copied source is what the source held at
  one moment, pacman gets the bytes whose identity was read.
* `AssessmentIsTruthful`: up to date and update available were so at the moment
  the remote answered, for the installed package and the recipe reviewed then.
* `NothingUnseenDestroyed`, `AcquiredSeriesExisted`: no edit of the user is lost
  between a comparison and a rename, and a patch series is never mixed from two.
* `LocalBuildIsReviewed`: what makepkg runs is the PKGBUILD that was accepted, after
  its dependencies, and what is left behind is named.
* `NothingLeftBehind`, `BoundedOutcomeTruthful`, `BoundedCallReturns`: a bounded call
  returns, with no member of its group left and the caller's signals restored,
  and its result is what happened.

The run `not_attempted` documents a disagreement. `docs/compatibility.md:322`
says that upgrade-all tells the phases that succeeded from those that were
`NotAttempted`. A cache that is replaced between two AUR work items
(`upgrade_all_operation.cpp:1757`), or a question of a later item answered by
stopping (`:1776`), ends the phase as `NotAttempted` or `BlockedBeforeExecution`
although the first item is installed. The same phase is then shown as
`NotObserved`.

### Bounds

* `generation_store`: two clients are needed for a conflict, the second being
  of a later release for a downgrade; three operations each let a client read,
  publish and publish again; `MaxGen` 3 with `MaxEntries` 4 lets the chain reach
  the end of its numbers; one crash, of one process or of all.
* `store_interference`: one client, since the lock already excludes the others
  (previous run); two changes are the least that can defeat a single collect
  (change and change back); two directories for an exchange; stores of no and
  of two records. Every change advances the ctime. With a coarse clock (`Ticks`
  containing 0) changes of one tick can restore what was seen; at least six such
  changes are needed to defeat both rounds, a case the code documents as outside
  its guarantee.
* `reviewed_source_build`: two invocations, one of which may be killed and leave
  a command; two revisions suffice to tell the shown, the recorded and the
  built one apart, since each property compares two; one edit distinguishes an
  edited from a clean work tree; a directory for the existing checkout and one
  for each clone that may follow it. Invocations and revisions are symmetric.
* `reviewed_build_liveness`: no symmetry; one revision and no edit, because
  progress does not depend on which revision is built.
* `trusted_install_store`: three processes and four commands: prepare, an execute,
  an abort killed half way, and a second execute that opened the directory before
  the retirement. One package, since what the evidence says of one does not
  depend on another here; hooks are not counted as commands. Processes are
  symmetric.
* `trusted_install_transport`: two requested packages, so that one can be installed
  and the other upgraded or skipped, and one besides; three processes suffice for
  install-legacy, its child and a hook, or for a lost execute that became pacman,
  its hook and the next command. The client alone invokes commands.
* `trusted_install_liveness`: one package and no symmetry.
* `reviewed_build_liveness`, the bounded call: two descendants are what a race
  between the root and a grandchild needs; the output limit is one write, so that
  two exceed it; scenarios combine descendants, writes and failing calls two at a
  time.
* `plans`: names a, b, c with shared bases and every small cycle between them, and v
  that only others provide (the worlds with providers start without registered
  sources, whose effect on a plan is checked in the other worlds); one failed query or change of the AUR, at any of the
  lookups; a depth limit of 2, so that `MAX_RECURSIVE_DEP_DEPTH` is reached. Two
  update targets are the least for which order, attribution and overlap matter.
  The routes get the roots of the plan and maybe a repository package.
* `upgrade_all`: two sources and two items of two packages, enough for something to
  be done before, in and after the step that fails. The worlds of -Syu differ in at
  most two respects from one in which a transition is possible (pins of both
  packages, dependents, providers, the AUR recipe, install reason, versions in
  the local database and on the mirror), with one failing read or one change by
  another program.
* `cleanup`: eight plans around an AUR tool, two libraries that need each other and a
  provider; two steps of other users of the database. The receipt: two packages, two
  failing steps.
* `workspaces`: one component per behaviour. Two foreign steps for the caches and the
  artifact workspace (replace, and put back), one for the user stores, the local
  and the development build, whose every stage it may meet; the paths it touches
  (`CacheTouch`, `ArtifactTouch`, `BuildTouch`, `UserTouch`, `LocalForeign`) are those
  the component relies on at that moment. Upstream has two commits; the assessment
  runs before the build or during installation and publication, the only times at
  which both touch the same stores. Pairs of user operations start with their
  directories prepared, single ones start from nothing. A copy of a flat source
  tree (`FlatSource`) meets two foreign steps, that of one with a child directory
  one. The recipes of the local
  build are one that can be planned and one for each way in which planning
  refuses.

Deadlock is checked in `upgrade_all`, `cleanup` and `workspaces`, where an operation
that is over stutters explicitly: no stage is without a next step. The other
configurations do not check it: invocations, clients and commands are finite in
number, and all of them end.

### Fairness

Weak fairness of each client's and each invocation's own steps: a live process
is scheduled, its commands end, and its user answers. In the store the step
that takes the lock is included: a lock that stays free is granted. Nothing
else is fair: failing calls, kills, upstream pushes, interfering processes and
the commands of killed invocations may or may not happen, and such a command
may run for ever. In the installation the client, each helper process and pacman
are weakly fair; a descendant of pacman is not. For a bounded call the caller is
scheduled and both deadlines pass; its processes owe nothing, not even to end.

## 4. The proofs

`TypeCorrect` (`Spec => []TypeOK` of the store, with interference). `TypeOK` is
not inductive: that a successor's number stays within `MaxGen` needs what a
publication compared two stages earlier, and that a lookup returns a record
needs the proof it has concluded. `TypeInv` adds `LocalOK`, what a client's own
variables say at each stage: which task it can be, that a publication holds an
observation and a document its release may write, that a predecessor that passed
the compare is below `MaxGen`, that the record to link exists, and that what a
lookup is about to answer from is a chain.

`NeverDowngraded` and `StoreImplementsRegister` (`CoopSpec`). The inductive
invariant `IInv` is `TypeInv` with

* `AtHome`: path and open descriptors lead to one directory;
* `LockOK`: shared and exclusive holders exclude each other, and every stage
  inside the store holds its lock;
* `DirOK`: names are unique, no record has a second link, and every acknowledged
  record is there and on disk;
* `ViewOK`: what a client has collected agrees with the directory, since
  nobody who writes can run meanwhile;
* `PublishOK`: after the compare the directory is the chain that was proved and
  the caller's observation is its tip; after the link the new record is the
  newest; before the acknowledgement it is on disk;
* `NoDowngrade` itself.

The refinement maps the directory to the register's history. `Link` is the
append, `FinishPublish` the acknowledgement, the answers of a lookup the read,
every way of failing is `Forget`, a power failure loses at most unacknowledged
records (`DirOK`), and all other steps stutter.

`ReviewsLeaveNoGap` (`Spec => []ReviewCoversGap` of the build). The invariant
says something only about records; the strengthening `ReviewInv` follows every
invocation from its read to its append (`Followed`): until it has accepted,
its observation is not a later release's record; once it has, the revision the
review was shown against is the one in its observation, or the review was
full; and it publishes only with a reviewed authority. `Append` then needs the
observation to be the tip. The rest of the proof is that no other step touches
an invocation's view (`ViewFrame`).

`PacmanRunsOnce` and `StageStaysWhileUsed` (`Spec` of the helper). `RunInv` adds to
`starts <= 1` why it holds: an exclusive holder of the lifetime lock is alone
(`LocksOK`); before publication there is one prepare and no other lock
(`UnpublishedOK`); while the transaction is active the claim, once made, stays and
only its maker goes on, and after the retirement no execute passes the final
reproof (`ClaimOK`). The last part is what a cleanup killed half way needs: the
claim is gone, a late execute makes a new one, and only the reproof of the name
below active/ stops it. `HeldInv` adds that pacman keeps the shared lock of the
execute it was, and that stage and lease are there for whoever passed the
reproof; nobody can then hold the exclusive lock (`NoExclusive`), so none of the
removing steps is possible. A frame lemma for each invariant covers the steps
that only move one process.

`EvidenceIsTrue` (`EvidenceTruthful` of the helper). The property speaks of files
only: an observed marker means that pacman ran, a whole record or receipt that it
committed and for which packages, a refusal that it did not run and never will.
`EvidenceInv` adds to `HeldInv` what every process is, by where it is (`ProcOK`,
with what it has read and how it ended), how far pacman is (`PhaseOK`), what each
file means (`FilesOK`), and three arguments: only the maker of the claim writes
the refusal, and it has not become pacman (`RefusalOK`); claim and authorization
are whole before pacman is executed (`ClaimWhole`); what the exclusive holder has
removed stays removed (`GoneOK`). TLC checked it on 791,272 states before it was proved.

`ReportIsTrue` and `CleanupIsTrue` (`OutcomeTruthful` and `CleanupTruthful` of the
transport). The client hears at most what a command ended with, and may lose even
that. `ClientInv` adds to `EvidenceInv` what it may conclude: until prepare has
answered there is nobody else (`PrepareOK`); while it has not heard of an execute
there is none, and while it may still run one the stage is whole and nobody would
retire it (`RunOK`); what it heard is so and stays so (`HeardOK`), and so do the
outcome it carries through the abort (`PendingOK`) and the one it reports
(`ResultOK`). That these last needs `Refused`, `Vanished` and `exit = "ok"` to be
stable, which is where `EvidenceInv` is used. TLC checked it on 379,948 states.

`LeaseDiscipline`, `BuiltAsReviewed` and `BuiltIsCurrent` (`Spec` of the build).
Neither `BuildsWhatWasReviewed` nor `ReviewedBuildIsCurrent` is inductive. The
first needs `LeaseInv`: an invocation past the acquisition holds the lease of the
directory it has open (`Holds`, `HeldBack`), no orphaned command runs there, a
running command still finds what it was started over (`Building`, `Orphaned`), and
a directory made for a clone is one that nobody uses. The last is a counting
argument: every orphan was paid for by a kill (`Paid`), and there are at least as
many directories as invocations and kills (`ConstantsAssumption`; a file system
does not run out of inodes to give a clone), so one that neither occupies is left. The second needs `RecordInv`: records are
only added on top, and a reviewed target that is being built is a record at least
as new as the tip was when the lease was taken (`Recorded`).

`CommitIsReported` and `AnswersAreInstants` (`MCSpec` of `MCStoreInterference`: the
store with processes that take no lock, and history variables for what was linked
and for the tips the directory had during an operation). For the first,
`CommitInv` relates the history to the stage at which an operation fails. The second
is the argument of the double collect. `LinearInv` says that no file is younger
than the clock (`ClockOK`), that names are unique (`NamesOK`), and of each client
what its second round can still become: as long as the round can end with what
the first proof found, the tip of that proof was the tip of the directory at some
instant of the operation (`ScanOK`); a publication keeps a proven chain, its tip
as predecessor and, after the link, its record as the newest (`ChainOK`). The step
lemma is that a file that is gone never appears again with the status it had
(`OnlyNew`). This needs a clock that advances with every change, the hypothesis
`FineClock` (0 is not in `Ticks`; the run has `Ticks = {1}`); without it the
property is false, see the bounds of `store_interference`. TLC checked the
invariant on 278,151 states.

`ReceiptIsTrue` (`ReceiptTruthful` of `AlpmReceipt`, for any number of failures).
There is no lock between hook and helper, so the argument is one about order.
A hook publishes only a partial receipt that is still there, and looks at the name
of its directory after it has created it; a helper that succeeds has found in the
directory it retired exactly what it saw while it was active, and has emptied it.
A hook that looked before the retirement has then lost its partial receipt, one
that looks later finds the directory retired (`Emptied`). `ReceiptInv` adds the
order of pacman and its hook (`HookOK`), that what is recorded is what was
installed (`RecordOK`), how far everybody is (`StageOK`), and what helper and
client may say (`HelperOK`, `ClientOK`). TLC checked it on 6,902 states with six
failures.

`OffersAreComplete` and `RemovesOnlyOurs` (`OfferedIsComplete` and `RemovedIsOurs` of
`DependencyCleanup`, for every plan, every package database and any number of
steps of others). The inductive part is short: nothing is approved before the
offer, nothing removed before the second look, and after the assessment the
evidence is not touched, so that what was found of a package (`Ours`) stays true
while the database changes (`OthersKeep`). The work is in the assessment itself.
`SharedRequirement` counts roles only over the edges of the candidate's own source,
and `CHOOSE`s that source from its origins; a package needed at run time from the
AUR could so pass as a build dependency from a repository. It does not: every
verified correlation stands for an edge that the invocation can have installed the
package for (`OriginEdge`), origins without a conflict have one source (`OneSource`),
and completeness of the whole evidence covers every edge of the name with the same
identity (`Covered`), so that the edges that were counted are all there are
(`EligibleIsOurs`). In the other direction, an exact edge of a complete plan leads
to a repository origin or to a receipt, or the assessment is incomplete
(`EveryOrigin`). TLC checked the invariant on 1,120,621 states.

`NothingIsLeft` and `BoundedOutcomeIsTrue` (`NothingLeftBehind` and
`BoundedOutcomeTruthful` of `ProcessSupervision`, for any number of descendants,
writes and failing calls). Both speak of the moment a call returns; `ProcessInv`
says why they hold then. The loop is left when the root is reaped and the group
is empty, one step before the return, and processes go on meanwhile: nobody can
enter the group any more, since a descendant is born in the group of its parent
and only the root enters it from outside (`Deaths`, `KidsFrame`). A failed
`setpgid` of the parent means that the child is not in a group and has not called
exec, so that it had no descendant (`RootOK`, `NobodyThere`). Until an outcome is
forced, what was written is what was read and what is unread, and the pipe is
closed only when it is empty (`OutputOK`); an I/O failure may replace any
other outcome, so that nothing is claimed after it. `KnownOK` follows each outcome from
where it is forced, `HostOK` keeps the list of what is to be put back. TLC checked
the invariant on 407,118 states.

`UpgradeReportIsTrue`, `ReplacedAreRebuilt`, `NothingFollowsAStop`, `ReductionIsTrue` and
`AggregateIsTrue` (`UpgradeSpec`: upgrade-all and upgrade-aur for any number of
registered sources, versions, work items and packages of an item). `UpInv` has one
part per module. Of the system and the sources, `SourceInv` says what is true
between any two phases: nothing is reported or changed before pacman
(`BeforeSystem`); versions only grow, so that the snapshot of the preparation
equals the one afterwards exactly when nothing happened (`AtObserve`); behind
the position every source is `Settled`, before it none is touched, and a
registered package that pacman replaced differs from its baseline, which is what
makes `CheckUpdateVersion` ask for a build (`AmongSources`); at the end every phase
is reported as it was (`AtEnd`). Of the work items, `AurInv` says that each result
is consistent in itself (`ItemOK`) and honest about what its item did (`Honest`,
where an exit status alone proves nothing), which items a decision gives up
(`Deciding`, `Working`), and lists the four ways in which the runner ends. The
lemmas about the reducer follow from it: none of the four ends is a contradiction
to its checks (`InvocationConsistent`, `SnapshotsConsistent`; a provider transaction
that was blocked before it began is the exception, and the property states it),
the fold returns one of the contributions and nothing that outranks it is among
them (`FoldFacts`), and an item is skipped only if each of its targets was given up
by its own decision (`SkippedTarget`). `UpInv` adds when the AUR part may run at all
(`FirstPartSucceeded`) and what the aggregate keeps of it: nothing, a result that was
never executed, or what the runner returned (`Aggregated`). TLC checked `UpInv` on
851,603 states.

`SystemReportIsTrue` (`SystemReportTruthful`; `SysSpec`: -Syu, its dry runs and its second
use, over any packages, repositories and recipes, while other programs change them
and any call fails). `SysInv` ties the stage of the operation to what has really been done.
On the route of a transition the phase it is in says whether the removal and the
upgrade happened (`TransFacts`, `PhaseOfStage`); on the ordinary route the fields of
the result do (`OffRoute`), and every result that reaches the reducer is one of seven
kinds (`Reducible`), for each of which the reduced result is true and is left as it is by a second
reduction (`ReducedIsTrue`, `FilteredIsTrue`, `TransitionIsTrue`). That the replacement pins
the installed version takes a fact from the beginning and one from the end: a
plan is ready only when the one requirement of the recipe on the repository package is exact
(`ReadyIsPinned`), and the requirements are read a step after the versions, which is sound
because nobody changes the requirements of an installed package without installing
another (`FinalRead`, `TouchInst`). TLC checked `SysInv` on 455,436 states.

`RemovalsArePlanned` (`RemovesOnlyPlanned`; `WorkspaceSpec`: one cleaning, creation, copy or
disposal from any tree, while other processes replace, remove, edit and add whatever
they like, any number of times; the run lets them touch the paths that matter). The
first lemmas are about the tree: every step leaves objects of different identities
and inode numbers, each an object the tree had or one that is new, and a new object
gets an old inode number only if no descriptor pins it (`TreeInv`, `Evolves`,
`NextTree`). `WorkspaceInv` adds what the walks rely on. A plan holds recorded objects, and
an unlink compares the file handle with the plan (`PlanInv`). The tasks on the stack of a
cleaning lie below the entry it has under its lease, and the plan of that entry is of
the object under the lease; since the lineage is verified once more before each
unlink, the entry the object lies in is not locked by another Moguet (`EntryInv`,
`UnlinkUnleased`). A rollback compares inode numbers only: it is right because the
guard's descriptor keeps the number from being used again (`GuardInv`, `GuardStays`),
and because nothing is planned after the comparison (`RollbackInv`). What a walk
pushes on its stack is in `WalkPushes`. TLC checked the invariant on the run `workspaces`.

`InstallsWhatWasRead` (`InstalledIsInspected`; `UnitSpec`: one build unit of any plan, over any
archives, tree and package database, while other processes rewrite the artifacts and
install other versions). The tree plays no part in the argument, and that is the
point: from the sealing on, every identity is that of a sealed copy (`SealedInv`), the
packages that were chosen fulfil what was wanted of them (`ChosenInv`), and what the
helper is given is what `create_install_input` made of the sealed copies (`UnitInv`).

`NothingUnseenIsDestroyed` and `SeriesExisted` (`NothingUnseenDestroyed` and
`AcquiredSeriesExisted`; `StoresSpec`: any number of invocations with any operation on the
preferences, the patch associations or the log, in any environment, killed anywhere,
while other processes change any name in the tree). Two facts carry the proofs. A status
includes a time, and every change gives a new one (`Stamped`): a name that no longer
shows the status that was read will never show it again (`Lost`, `LostStays`). And the
descriptor of a file keeps its inode number from being used again (`Pinned`, `PinStays`),
so that a temporary with our number is our temporary (`TempIsOurs`). `StoresInv` says for
each invocation what it knows at its stage. The content that was read is that of the
entry, or the entry is lost and the next comparison fails (`ReadInv`); what a removal moves
aside is the entry it had judged (`RemovalInv`); what an editor's result replaces is what
the draft was made from, and what is published is the draft (`ReplaceInv`); a record is replaced
or forgotten as it was loaded, which is compared under the exclusive lock a second time
(`RecordInv`). The comparison after an exchange looks at the file and not at the name, so
that the content found under the temporary's name is the content that was read
(`ArrivedFacts`). The series of patches was whole when its last file was read, unless a
file or the record is lost (`SeriesInv`), and the second look at every name excludes that. None of this
uses the lock: two invocations that both hold it, after one directory has been replaced,
still destroy nothing they have not read. TLC checked `StoresInv` on the user's part of
the run `workspaces` (297,283 states).

Assumptions are those named in the modules. `ConstantsAssumption`,
`MarkersAssumption` and `StoreAssumption` separate markers from values and give
bounds their types; in addition there is a directory (`Dirs # {}`) in the build and
a requested package (`Packages # {}`) in the installation, whose empty selection
the code rejects (`source_artifact_install_trusted_transport.cpp:280`, `:717`,
`:1539`). `HistoryAssumption` asks for a document and for numbers up to 2, which
the initial stores of `MCStoreInterference` contain. `BoundsAssumption` gives the
scenarios of a bounded call natural numbers and separates the processes from each
other and from the names of their parents; `UpgradeAssumption` and
`ExecutionAssumption` ask for a version, for a work item and for a package in it;
`AlpmReceipt` needs no assumption. `SysAssumption` says that a package of a world is absent or
installed with a version, requirements, what it provides and a reason. `CacheAssumption` makes the cache root a path and
the two leaves names, `ArtifactAssumption` makes the leaves of the artifacts paths, and
`PatchAssumption` says that the files of a patch series are a sequence of names.
`CleanupAssumption` gives plans, databases and authorities their types: an edge has
a dependency role and one of the five resolved kinds (a plan with an ambiguous or
unknown dependency is not ready and is not built), and a provider is from a
repository or from the AUR, the two alternatives of `ProviderOrigin`
(`dependency_provider.hpp:27`). TLC evaluates them in every run.

`TypeOK` of the store is no longer an invariant of a run, because the theorem covers
it for every instance; it is the place where the wrap of a generation number
is excluded.

Only model-checked: liveness (`EveryOperationReturns`, `EveryInvocationEnds`,
`ClientEnds`, `BoundedCallReturns`), which is beyond the prover; the properties
of the plans, whose walks are RECURSIVE operators, which the prover does not take;
`ReadyIsLargestSafeSet` of the cleanup, where a repeated pass reaches a fixed point, and
`SnapshotIsConsistent`, which needs that every path of the copy was visited: inductions
over data; `ReadyPlanWorks` of -Syu, which holds for the worlds of the run, where only foreign
packages pin a version exactly, and not for every world; and `LocalBuildIsReviewed` and
`AssessmentIsTruthful` of the directories, where the invariant would have to follow every
field of a build or an assessment through some thirty steps each.

## 5. Not modelled, and what the models show beside the properties

Not modelled:

* Of the store: the digest computation. Of the reviewed build: selected upgrade
  patches, the bootstrap route, the contents of reviews, the parsing of Git output,
  individual Git subcommands.
* Of the plans: conflicts between constraints (dependencies have only a minimum),
  the recursive display of dependencies, the renderer apart from its validity
  check, the search and information commands.
* Of the upgrades: wording, and handlers that only an exception thrown inside another handler
  reaches (`make_unavailable_system_source_result`). The correlation failure of a
  completed AUR build (`aur_update_execution_runner.cpp:954`, `:967`) would report an
  installed package as unchanged, but cannot occur: the result consists of the
  prepared children in their order, with the reasons of the request, and artifacts of
  one name are refused before the installation.
* Of the directories: adoption of an existing cache root, export of PKGBUILDs, the
  text of log entries, the codecs of records.
* The components with status `not_modelled` in `PROJECT.json`: parsing,
  comparison of strings, rendering and wording without protocol state.

The following is in the models, or met while they were written. The properties
above state it as their exceptions or do not speak of it.

Store and reviewed build. `AnswersLinearize` speaks of the directory that the client
opened; that it is still the named one is the last check of the code, and an exchange
after it is not noticed. Record state is compared by inode, ctime, size and
links: on a coarse clock an in-place rewrite and its reversal go unnoticed
(`xdg_generation_store.cpp:332`). An invocation killed during a clone leaves a
directory that later builds refuse until it is removed by hand
(`source_build.cpp:1547`, policy #575). A fetch may take the lease of a directory
a build has just created (`checkout_fetch.cpp:62`), which stays empty.

Installation. A record hook claims its record by its partial name first, so that a second run
would spoil it (`source_artifact_install_trusted_helper_state.cpp:982`); pacman runs each
hook once, and the model has no second run. A prepare killed before publication leaves its directory
(`source_artifact_install_trusted_helper_state.cpp:1365`). When sudo is killed after the first
hook, the outcome is Failed although pacman may still commit
(`source_artifact_install_trusted_transport.cpp:1257`).

Receipts. A prepare that exits non-zero is PrepareFailed without an abort, though its
directory may be there (`trusted_alpm_receipt_transport.cpp:392`). A hook that
outlives what the client sees of pacman may leave a partial file in the used
directory. A missing receipt does not mean that nothing was installed. A killed
client leaves the active directory. An abort call that throws is repeated, and may
report AbortFailed although the first one succeeded (`:273`).

Dry run. A package that is one of several of its base is shown as Blocked, while the command
proceeds (`unified_plan_projection.cpp:176`; compare `docs/compatibility.md:155`).
It ends with an error, where it could show why, when a planned update is not
executable (`:1159`), when a root moved or vanished between search and planning,
when of two chosen roots one depends on the other in a plan that failed
(both `:702`), and for upgrade-all whenever a registered source excludes an
installed AUR package, since query and preflight then differ in length (`:1084`,
called at `:3714`). For upgrade-all it shows units that a registered source satisfies as AUR units too
(`:3785`). `-S` regroups its work items by the first name that wants them
(`commands_sync.cpp:278-298`): with a base that yields several packages a unit may
come before its dependency. Each dependent asks the AUR anew, so a package
that moves during the walk is planned in two bases: the readiness guard does not
notice it; the projection to work items (`source_install.cpp:1697`) and the preflight do.

System update. After the foreign package is removed, a failing repository upgrade
or build leaves it uninstalled, reported as partial
(`system_aur_update_operation.cpp:755-838`). A bound such as `lib<2` of another foreign package is not a
candidate, so pacman refuses after the removal
(`cross_source_version_lock_observation.cpp:463`). The plan uses the local sync
database, `-Syu` refreshes it: a newer version on the mirror fails the final check
(`:773`). An interrupted `pacman -R` that exits non-zero is not reported as
partial. The install reason is checked, not restored (`:852`).

Cleanup. With a candidate present, an AUR package needed at run time makes attributed
and expected edges differ, so that `--rmdeps` is Blocked
(`invocation_owned_cleanup_adapter.cpp:2966`). The second look reads hold patterns, a
snapshot, policies and consumers one after another
(`dependency_cleanup_execution.cpp:104-121`), in the model in one step: a change between
these reads is left out. Between the second look and
`pacman -R` others may act; pacman itself refuses a removal that breaks a
dependency.

Caches and workspaces. The rollback of a staged directory compares device and inode
numbers only (`trusted_cache.cpp:563`), and so does the guard of a new directory
(`:2278`); contents rewritten in place after the user's
confirmation are removed; check and unlink are one step of the model. The
artifact workspace knows its files by device and inode at cleanup
(`artifact_workspace.cpp:596`), and the single form hands pacman a path instead of
sealed bytes.

Development packages. A change of HEAD and back between two proof points goes
unnoticed. A change of the working PKGBUILD before its first seal is taken for an
update of pkgver (`evaluated_devel_source_build.cpp:941`); an archive of the same
name and version exchanged before it is hashed is not noticed (`:2044`). A child
directory replaced between `mkdirat` and `openat` is adopted
(`invocation_owned_source_build_context.cpp:1076`).

Local builds. Files other than PKGBUILD and .SRCINFO edited between review and
copy are not compared with what was reviewed. A wrong .SRCINFO that is newer than
its PKGBUILD is trusted until the selection of artifacts fails. The private copy is not
compared again before makepkg, nor before the evaluation for a registration; the
foreign steps leave it alone in these two cases. The last check of a directory and what
makepkg then reads of it are one step of the model. An edit between the end of the
editor and the reopening of the file is taken as reviewed. A failing installation
keeps the artifact workspace without naming it. A child may need its sibling to be
built, and the plan is accepted.

User stores. A killed invocation leaves a temporary preference that blocks listing and
snapshots until it is removed (`source_preference.cpp:804`). A failure after the
rename of a patch record is reported as uncertain
(`local_patch_association.cpp:694`). A component of the directory chain that is
replaced between its creation and its first observation is adopted
(`xdg_directory_safety.cpp:1091`).

Processes. A zombie in the group whose parent has left it, or a member that may not be
killed, keeps a bounded call waiting past its deadline (`process.cpp:1362`; the
exception of `BoundedCallReturns`). A child killed before exec counts as started
(`:1253`). An I/O failure replaces an earlier outcome. A descendant in a session
of its own that keeps the output open holds the call until the deadline.

## 6. Plan

1. Proofs about components without one so far: `LocalBuildIsReviewed`, from the lemmas on
   times and inode numbers in `DirectoryProofs`.
2. An abstract specification of one privileged transaction with a truthful outcome,
   refined by `TrustedInstallTransport` and `AlpmReceipt`.
3. Selected upgrade patches and the bootstrap of provenance; constraints with upper
   bounds and their conflicts in the planner.
