-------------------------- MODULE LocalSourceBuild --------------------------
(***************************************************************************)
(* `moguet build <directory>`: the recipe of the user's own directory is   *)
(* opened, reviewed, evaluated, planned, copied into a private workspace,  *)
(* built there and installed (commands_source_maintenance.cpp,             *)
(* local_source_root.cpp, local_source_build.cpp, local_source_install.cpp,*)
(* local_dependency_plan_projection.cpp); with patches, a private copy is  *)
(* patched, reviewed again and built (local_recipe_candidate.cpp); and an  *)
(* edit made during a review is saved as a patch                           *)
(* (review_recipe_patch_save.cpp).  The user and other programs edit the   *)
(* directory at any time.                                                  *)
(*                                                                         *)
(* The copy itself is LocalSourceWorkspace, the artifact workspace and the *)
(* installation are ArtifactWorkspace, the saved series is                 *)
(* PatchAssociation: here each of them is one step that succeeds or fails. *)
(***************************************************************************)
EXTENDS DirectoryTree

CONSTANTS
    LocalRoot,       \* the path of the directory
    CopyRoot,        \* the path of the private copy
    Architecture,    \* the effective architecture
    RecipeOf(_),     \* what makepkg --printsrcinfo makes of a PKGBUILD: <<>> or <<metadata>>
    SrcinfoOf(_),    \* what the parser makes of a .SRCINFO
    Remote,          \* name -> what the repositories and the AUR offer under it
    Applied(_, _),   \* a patch applied to a PKGBUILD: <<>> or <<content>>
    Editing          \* what the user's editor may leave in the PKGBUILD

VARIABLE l           \* the invocation

(***************************************************************************)
(* Metadata is [base, version, arch, children, relations].  A child is     *)
(* [name, arch], its own architectures or none; a relation is              *)
(* [of, kind, on, unset, name, soname, min]: the child it belongs to (or   *)
(* none: the base), its architecture qualifier (or none), a name, and the  *)
(* least version a dependency asks for or the version a capability has, 0  *)
(* for none.                                                               *)
(***************************************************************************)
architecture_matches(arch) == "any" \in arch \/ Architecture \in arch

child_supports_architecture(m, c) ==
    architecture_matches(IF c.arch = <<>> THEN m.arch ELSE c.arch[1])

same_relation_key(r, s) == r.kind = s.kind /\ r.on = s.on

child_overrides_relation_key(m, name, r) ==
    \E s \in Range(m.relations) : s.of = <<name>> /\ same_relation_key(s, r)

effective_relations(m, name) ==
    {r \in Range(m.relations) :
       /\ r.on \in {<<>>, <<Architecture>>} /\ ~r.unset
       /\ IF r.of = <<>> THEN ~child_overrides_relation_key(m, name, r) ELSE r.of = <<name>>}

collect_effective_children(m) ==
    {[name |-> c.name, supported |-> child_supports_architecture(m, c),
      relations |-> effective_relations(m, c.name)] : c \in Range(m.children)}

ChildNames(m) == {c.name : c \in Range(m.children)}

\* Nothing is resolved while a child does not support the architecture.
collect_root_packages(children) ==
    IF \E c \in children : ~c.supported THEN {}
    ELSE UNION {{[parent |-> c.name, local |-> TRUE, dep |-> r] :
                    r \in {s \in c.relations : s.kind \in {"depends", "makedepends", "checkdepends"}}} :
                c \in children}

(***************************************************************************)
(* A dependency is looked for among the children first: by name, else by   *)
(* what they provide.                                                      *)
(***************************************************************************)
exact_candidate(m, children, d) ==
    {[name |-> c.name, ver |-> m.version, supported |-> c.supported] :
        c \in {x \in children : ~d.soname /\ x.name = d.name}}

add_provided_candidates(children, d) ==
    UNION {{[name |-> c.name, ver |-> r.min, supported |-> c.supported] :
               r \in {s \in c.relations : s.kind = "provides" /\ s.name = d.name /\ s.soname = d.soname}} :
           c \in children}

evaluate_requirement(d, ver) ==
    CASE d.soname -> "Unknown"
      [] ~d.soname /\ d.min = 0 -> "Satisfied"
      [] OTHER -> IF ver = 0 THEN "Unknown" ELSE IF ver >= d.min THEN "Satisfied" ELSE "Unsatisfied"

Handled(edges, failures) == [handled |-> TRUE, edges |-> edges, failures |-> failures]

\* A dependency of a remote package on a child, and of a child on itself, is
\* a cycle at once.
resolve_local_candidate(m, children, need) ==
    LET d == need.dep
        exact == exact_candidate(m, children, d)
        usable == {c \in IF exact # {} THEN exact ELSE add_provided_candidates(children, d) : c.supported}
        one == CHOOSE c \in usable : TRUE
        verdict == evaluate_requirement(d, one.ver)
    IN IF usable = {} THEN [handled |-> FALSE, edges |-> {}, failures |-> {}]
       ELSE IF Cardinality({c.name : c \in usable}) > 1 THEN Handled({}, {"AmbiguousLocalProvider"})
       ELSE Handled({[from |-> need.parent, to |-> one.name, back |-> ~need.local \/ need.parent = one.name]},
                    IF ~d.soname /\ verdict \in {"Unsatisfied", "Unknown"} THEN {"ConstraintMismatch"} ELSE {})

(***************************************************************************)
(* Otherwise it is looked for outside.  Remote[n] is [kind, name, base,    *)
(* ver, needs]: "repository", "aur", or "provided" by the AUR package      *)
(* name.  The answer leads to a package that is visited, or stops the plan.*)
(***************************************************************************)
RemoteAnswer(m, d) ==
    LET r == Remote[d.name] IN
    IF d.soname \/ d.name \notin DOMAIN Remote THEN [leads |-> <<>>, stops |-> {"Unresolved"}]
    ELSE LET verdict == IF evaluate_requirement(d, r.ver) = "Satisfied" THEN {} ELSE {"Constraint"}
             returns == r.kind # "repository" /\ r.base = m.base
         IN IF returns THEN [leads |-> <<>>, stops |-> verdict \cup {"Cycle"}]
            ELSE IF r.kind = "provided" /\ r.name \in ChildNames(m)
            THEN [leads |-> <<>>, stops |-> {"RemoteProviderIdentityConflict"}]
            ELSE [leads |-> IF r.kind = "repository" THEN <<>> ELSE <<r.name>>, stops |-> verdict]

\* Everything asked for, by the children and by what they lead to.
NeedsAfter(m, children) ==
    LET outside(need) == ~resolve_local_candidate(m, children, need).handled
        led(needs) == UNION {Range(RemoteAnswer(m, n.dep).leads) : n \in {x \in needs : outside(x)}}
        walk[k \in Nat] ==
            IF k = 0 THEN collect_root_packages(children)
            ELSE walk[k - 1] \cup
                 UNION {{[parent |-> p, local |-> FALSE, dep |-> d] : d \in Remote[p].needs} : p \in led(walk[k - 1])}
    IN walk[Cardinality(DOMAIN Remote)]

\* has_dependency_path: over the edges inside and the ones between packages.
has_dependency_path(edges, from, to) ==
    LET reach[k \in Nat] ==
            IF k = 0 THEN {from} ELSE reach[k - 1] \cup {e.to : e \in {f \in edges : f.from \in reach[k - 1]}}
    IN to \in reach[Cardinality(edges)]

classify_local_cycles(inner, outer) ==
    \E e \in inner \cup outer : has_dependency_path(inner \cup outer, e.to, e.from)

\* Packages in an order in which each comes after what it needs.
InBuildOrder(packages, edges) ==
    CHOOSE s \in SetToSeqs(packages) :
       \A i, j \in DOMAIN s : i < j => ~has_dependency_path(edges, s[i], s[j])

add_unsupported_architecture_failures(children) ==
    {"UnsupportedArchitecture" : c \in {x \in children : ~x.supported}}

\* What an AUR package provides is not taken under the name of a child.
add_remote_identity_conflict_failures(m, elsewhere) ==
    {"RemoteProviderIdentityConflict" :
        n \in {x \in elsewhere : "RemoteProviderIdentityConflict" \in RemoteAnswer(m, x.dep).stops}}

resolve_local_build_plan(m) ==
    LET children == collect_effective_children(m)
        needs == NeedsAfter(m, children)
        inside(n) == resolve_local_candidate(m, children, n)
        elsewhere == {n \in needs : ~inside(n).handled}
        inner == UNION {inside(n).edges : n \in needs}
        outer == UNION {{[from |-> n.parent, to |-> p] : p \in Range(RemoteAnswer(m, n.dep).leads)} : n \in elsewhere}
        plain == {[from |-> e.from, to |-> e.to] : e \in inner}
        cyclic == (\E e \in inner : e.back) \/ classify_local_cycles(plain, outer)
    IN [failures |-> UNION {inside(n).failures : n \in needs}
                       \cup add_unsupported_architecture_failures(children)
                       \cup add_remote_identity_conflict_failures(m, elsewhere),
        blocked |-> UNION {RemoteAnswer(m, n.dep).stops : n \in elsewhere},
        cyclic |-> cyclic,
        units |-> IF cyclic THEN <<>> ELSE InBuildOrder({e.to : e \in outer}, outer),
        targets |-> ChildNames(m)]

require_complete_local_build_plan(p) == p.failures = {} /\ p.blocked = {} /\ ~p.cyclic

(***************************************************************************)
(* The directory, opened.  Every descriptor stays open, so an inode number *)
(* that was seen is not used again.  A root is [dir, pkgbuild, file,       *)
(* state]: the identity of the directory, of the PKGBUILD and of the       *)
(* .SRCINFO with their contents, and what the .SRCINFO is worth.           *)
(***************************************************************************)
PKGBUILD_LEAF == 1
SRCINFO_LEAF == 2
INSTALL_LEAF == 3

validate_root_status(n) == n.kind = "dir" /\ n.own /\ n.mode # "shared"

validate_file_status(n) == n.kind = "file" /\ n.own /\ n.mode # "shared"

\* The times of a directory are not part of its identity.
make_directory_identity(n) == [ino |-> n.ino, kind |-> n.kind, own |-> n.own, mode |-> n.mode]

make_file_identity(n) ==
    [ino |-> n.ino, kind |-> n.kind, own |-> n.own, mode |-> n.mode, stamp |-> n.stamp, data |-> n.data]

validate_root_path_binding(on, dir) ==
    Exists(on) /\ validate_root_status(tree[on]) /\ make_directory_identity(tree[on]) = dir

inspect_local_source_file(on, leaf) == Exists(Append(on, leaf)) /\ validate_file_status(tree[Append(on, leaf)])

FileIdentity(on, leaf) == make_file_identity(tree[Append(on, leaf)])

revalidate_retained_and_named_file(on, leaf, expected) ==
    inspect_local_source_file(on, leaf) /\ FileIdentity(on, leaf) = expected

modification_time_is_newer(n, o) == n.stamp > o.stamp

inspect_local_source_metadata(on, oneoff) ==
    LET n == FileIdentity(on, SRCINFO_LEAF) IN
    IF ~Exists(Append(on, SRCINFO_LEAF)) THEN [file |-> <<>>, state |-> "Missing"]
    ELSE IF ~inspect_local_source_file(on, SRCINFO_LEAF) THEN [file |-> <<>>, state |-> "Unsafe"]
    ELSE [file |-> <<n>>,
          state |-> IF SrcinfoOf(n.data) = <<>> THEN "Invalid"
                    ELSE IF modification_time_is_newer(FileIdentity(on, PKGBUILD_LEAF), n) \/ oneoff
                    THEN "KnownStale" ELSE "UsableUnverified"]

\* It can be opened, and what is seen then.  The end of the opening repeats
\* every check of its start, so that it shows one moment.
MayOpen(on) == Exists(on) /\ validate_root_status(tree[on]) /\ inspect_local_source_file(on, PKGBUILD_LEAF)

open_local_source_root(on, oneoff) ==
    LET m == inspect_local_source_metadata(on, oneoff) IN
    [dir |-> make_directory_identity(tree[on]), pkgbuild |-> FileIdentity(on, PKGBUILD_LEAF),
     file |-> m.file, state |-> m.state]

require_srcinfo_still_missing(on) == ~Exists(Append(on, SRCINFO_LEAF))

\* Mutant: the directory is the same and its files exist, whatever they hold.
Mutant_root_require_unchanged_identity(on, r) ==
    /\ validate_root_path_binding(on, r.dir) /\ r.state # "Unsafe"
    /\ inspect_local_source_file(on, PKGBUILD_LEAF)

root_require_unchanged_identity(on, r) ==
    /\ validate_root_path_binding(on, r.dir)
    /\ revalidate_retained_and_named_file(on, PKGBUILD_LEAF, r.pkgbuild)
    /\ CASE r.state = "Missing" -> require_srcinfo_still_missing(on)
         [] r.state = "Unsafe" -> FALSE
         [] OTHER -> revalidate_retained_and_named_file(on, SRCINFO_LEAF, r.file[1])

\* The PKGBUILD and the install scripts: what patches may change.
snapshot_supported_recipe_files(on) ==
    [leaf \in {PKGBUILD_LEAF, INSTALL_LEAF} \cap NamesOf(tree, on) |-> FileIdentity(on, leaf)]

same_supported_recipe_content_and_mode(s, t) ==
    /\ DOMAIN s = DOMAIN t
    /\ \A leaf \in DOMAIN s : s[leaf].data = t[leaf].data /\ s[leaf].mode = t[leaf].mode

(***************************************************************************)
(* The invocation                                                          *)
(***************************************************************************)
Told == [phase |-> "", arts |-> FALSE, space |-> FALSE, result |-> FALSE, retained |-> FALSE,
         registered |-> FALSE, exit |-> 9]

LocalInvocation(op, oneoff, series) ==
    [op |-> op, oneoff |-> oneoff, st |-> IF op = "save" THEN "ask" ELSE "open",
     root |-> <<>>,        \* the directory as it was opened last
     other |-> <<>>,       \* the same directory opened by another part of the code
     inner |-> <<>>,       \* the copy as it was opened last
     changed |-> FALSE, read |-> 0, meta |-> <<>>, plan |-> <<>>, todo |-> <<>>, ready |-> <<>>,
     series |-> series, expected |-> <<>>,
     approved |-> <<>>,    \* the contents the user accepted last
     copy |-> <<>>,        \* the directory of the private copy
     space |-> "none", arts |-> "none", built |-> <<>>, got |-> {},
     accepted |-> <<>>, published |-> FALSE, registered |-> FALSE, told |-> Told]

\* A failure keeps the artifact workspace and names it, except after the
\* installation has begun; then what is still held is let go.
Stopped(phase) ==
    [l EXCEPT !.st = "unwind", !.told.phase = phase, !.told.exit = 1,
              !.arts = IF @ = "held" THEN "kept" ELSE @,
              !.told.arts = l.arts = "held" /\ phase # "install",
              !.told.retained = l.published, !.told.registered = l.registered /\ phase = "final"]

\* A step of the invocation whose checks are holds: it may fail for other
\* reasons as well (a tool, the file system, an answer of the user).
Try(at, holds, next) ==
    l.st = at /\ \E fine \in BOOLEAN : l' = IF fine /\ holds THEN next ELSE Stopped(at)

Goes_to(at) == [l EXCEPT !.st = at]

LocalHolds == root_require_unchanged_identity(LocalRoot, l.root)
CopyHeld == /\ Exists(CopyRoot) /\ tree[CopyRoot].ino = l.copy.ino /\ tree[CopyRoot].kind = "dir"
            /\ tree[CopyRoot].own /\ tree[CopyRoot].mode = "private"
InnerHolds == root_require_unchanged_identity(CopyRoot, l.inner)

\* The copy of LocalSourceWorkspace: made while the source did not change.
MayCopy == \A p \in ChildrenOf(tree, LocalRoot) : tree[p].own /\ tree[p].mode # "shared" /\ tree[p].kind = "file"

Copying(next) ==
    LET dir == Made("dir", "private", 0)
        files == [p \in {Append(CopyRoot, x) : x \in NamesOf(tree, LocalRoot)} |->
                     [tree[Append(LocalRoot, Last(p))] EXCEPT !.id = fresh + Last(p), !.ino = fresh + Last(p),
                                                              !.stamp = fresh]]
    IN /\ tree' = Without(tree, CopyRoot) @@ (CopyRoot :> dir) @@ files
       /\ fresh' = fresh + 10 /\ UNCHANGED moves
       /\ l' = [next EXCEPT !.space = "held", !.copy = dir]

TryCopy(at, holds, next) ==
    l.st = at /\ (\/ holds /\ MayCopy /\ Copying(next)
                  \/ l' = Stopped(at) /\ Untouched)

\* One attempt to remove the copy; what it leaves is always named, by the
\* failure or by the destructor.
Disposing(next, failed) ==
    \/ /\ CopyHeld /\ tree' = Without(tree, CopyRoot) /\ fresh' = fresh /\ moves' = moves
       /\ l' = [next EXCEPT !.space = "gone"]
    \/ Untouched /\ l' = [failed EXCEPT !.space = "left", !.told.space = TRUE]

Unwind ==
    /\ l.st = "unwind"
    /\ IF l.space = "held" THEN Disposing(Goes_to("end"), Goes_to("end"))
       ELSE l' = Goes_to("end") /\ Untouched

(***************************************************************************)
(* The plain route: opening, review, metadata, plan                        *)
(***************************************************************************)
\* A .SRCINFO that cannot be trusted at all ends a build at once.
prepare_local_source_build_route ==
    LET r == open_local_source_root(LocalRoot, l.oneoff) IN
    /\ Try("open", MayOpen(LocalRoot) /\ (r.state # "Unsafe" \/ l.op = "associate"),
           [l EXCEPT !.st = IF l.op = "plain" THEN "review" ELSE "confirm", !.root = r])
    /\ Untouched

\* No editor is wanted.
SkipReview ==
    /\ Try("review", LocalHolds, [l EXCEPT !.st = "metadata", !.approved = <<l.root.pkgbuild.data>>])
    /\ Untouched

\* The editor writes the PKGBUILD, or leaves it alone, or fails.
EditReview ==
    /\ l.st = "review"
    /\ LET p == Append(LocalRoot, PKGBUILD_LEAF) IN
       tree' \in {tree} \cup {Changed(tree, p, [tree[p] EXCEPT !.data = c]) : c \in {d \in Editing : Exists(p)}}
    /\ fresh' = fresh + 1 /\ UNCHANGED moves
    /\ l' \in {Goes_to("reopen"), Stopped("review")}

ReopenAfterEdit ==
    LET r == open_local_source_root(LocalRoot, l.oneoff) IN
    /\ Try("reopen", MayOpen(LocalRoot) /\ r.dir = l.root.dir,
           [l EXCEPT !.st = "continue", !.root = r, !.changed = r.pkgbuild # l.root.pkgbuild])
    /\ Untouched

review_local_source_root ==
    \/ SkipReview \/ EditReview \/ ReopenAfterEdit
    \/ Try("continue", TRUE, [l EXCEPT !.st = "metadata", !.approved = <<l.root.pkgbuild.data>>]) /\ Untouched

\* An existing .SRCINFO is used, or the user allows the PKGBUILD to be run.
bind_existing_local_source_metadata ==
    /\ l.st = "metadata" /\ l.root.state = "UsableUnverified" /\ ~l.changed
    /\ Try("metadata", LocalHolds, [l EXCEPT !.st = "plan", !.meta = SrcinfoOf(l.root.file[1].data)])
    /\ Untouched

accept_local_source_build_metadata ==
    /\ l.st = "metadata" /\ (l.root.state # "UsableUnverified" \/ l.changed)
    /\ Try("metadata", l.root.state # "Unsafe", Goes_to("evaluate"))
    /\ Untouched

\* The PKGBUILD of the directory, or of the copy, is run between two checks.
EvaluateHolds(on, r) == root_require_unchanged_identity(on, r)

evaluate_recipe_metadata(at, on, r, next) ==
    Try(at, EvaluateHolds(on, r), [l EXCEPT !.st = next, !.read = tree[Append(on, PKGBUILD_LEAF)].data]) /\ Untouched

bind_evaluated_local_source_metadata ==
    /\ Try("evaluated", LocalHolds /\ RecipeOf(l.read) # <<>>, [l EXCEPT !.st = "plan", !.meta = RecipeOf(l.read)])
    /\ Untouched

\* The plan stands, and what is to be built and installed is its children.
ResolvePlan ==
    /\ l.st = "plan"
    /\ LET p == resolve_local_build_plan(l.meta[1]) IN
       Try("plan", require_complete_local_build_plan(p),
           [l EXCEPT !.st = IF l.op = "plain" THEN "prepare" ELSE "proceed", !.plan = <<p>>, !.todo = p.units])
    /\ Untouched

\* Of what was planned, exactly the children are built for the user.
require_local_build_unit(p, m) == require_complete_local_build_plan(p) /\ p.targets = ChildNames(m)

prepare_local_source_build ==
    /\ Try("prepare", LocalHolds /\ require_local_build_unit(l.plan[1], l.meta[1]), Goes_to("dependencies"))
    /\ Untouched

(***************************************************************************)
(* The packages it needs from the AUR are built and installed first; then  *)
(* the recipe itself.                                                      *)
(***************************************************************************)
BuildDependency ==
    /\ l.todo # <<>>
    /\ Try("dependencies", TRUE, [l EXCEPT !.todo = Tail(@), !.ready = Append(@, Head(l.todo))])
    /\ Untouched

DependenciesReady ==
    /\ l.st = "dependencies" /\ l.todo = <<>>
    /\ l' = Goes_to(IF l.op = "plain" THEN "copy" ELSE "execute") /\ Untouched

execute_prepared_local_source_build == TryCopy("copy", LocalHolds, Goes_to("artifacts"))

\* What is checked before each command: the directory it was opened from (the
\* copy itself, when it was patched) and the copy.
require_source_command_precondition ==
    (IF l.op = "plain" THEN LocalHolds ELSE InnerHolds) /\ CopyHeld

\* A failure to prepare makepkg's context keeps the workspace just made.
CreateArtifacts ==
    /\ \/ Try("artifacts", TRUE, [l EXCEPT !.st = "list", !.arts = "held"])
       \/ /\ l.st = "artifacts"
          /\ l' = [Stopped("context") EXCEPT !.arts = "kept", !.told.arts = TRUE]
    /\ Untouched

ListPackages == Try("list", require_source_command_precondition, Goes_to("build")) /\ Untouched

build_and_validate_local_artifacts ==
    LET recipe == tree[Append(CopyRoot, PKGBUILD_LEAF)].data IN
    /\ Try("build", require_source_command_precondition /\ Exists(Append(CopyRoot, PKGBUILD_LEAF)) /\ RecipeOf(recipe) # <<>>,
           [l EXCEPT !.st = "select", !.built = <<recipe>>])
    /\ Untouched

\* Every child that was planned is among the packages.
select_local_artifacts ==
    LET made_ == RecipeOf(l.built[1])[1] IN
    /\ Try("select", made_.base = l.meta[1].base /\ l.plan[1].targets \subseteq ChildNames(made_), Goes_to("dispose"))
    /\ Untouched

SourceCleanup == l.st = "dispose" /\ Disposing(Goes_to("install"), Stopped("dispose"))

execute_local_source_install ==
    /\ Try("install", TRUE, [l EXCEPT !.st = "discard", !.got = l.plan[1].targets]) /\ Untouched

\* The artifacts are removed at the end; the result is shown even if that
\* fails.
DiscardArtifacts ==
    /\ l.st = "discard"
    /\ l' \in {[l EXCEPT !.st = "end", !.arts = "gone", !.told.result = TRUE, !.told.exit = 0],
               [l EXCEPT !.st = "end", !.arts = "left", !.told.result = TRUE, !.told.arts = TRUE, !.told.exit = 1]}
    /\ Untouched

(***************************************************************************)
(* The route with patches.  A first copy shows which package the directory *)
(* holds; the series saved for it is applied to a second copy, which is    *)
(* reviewed and built.                                                     *)
(***************************************************************************)
confirm_patch_evaluation ==
    /\ Try("confirm", LocalHolds, [l EXCEPT !.st = "observe", !.approved = <<l.root.pkgbuild.data>>])
    /\ Untouched

\* A build opens the directory once more for observe_local_patch_source; a
\* registration hands it the directory the user has accepted.
observe_local_patch_source ==
    \/ /\ l.op = "patches"
       /\ TryCopy("observe", MayOpen(LocalRoot) /\ open_local_source_root(LocalRoot, FALSE).state # "Unsafe",
                  [l EXCEPT !.st = "candidate", !.other = open_local_source_root(LocalRoot, FALSE)])
    \/ /\ l.op = "associate"
       /\ TryCopy("observe", LocalHolds, [l EXCEPT !.st = "candidate", !.other = l.root])

OpenCandidate(at, next) ==
    Try(at, MayOpen(CopyRoot), [l EXCEPT !.st = next, !.inner = open_local_source_root(CopyRoot, TRUE)]) /\ Untouched

\* The name under which the series is looked up.
IdentityOf == RecipeOf(l.read)[1].base

ObservedSource ==
    /\ l.st = "observed"
    /\ IF InnerHolds /\ RecipeOf(l.read) # <<>> /\ root_require_unchanged_identity(LocalRoot, l.other)
       THEN Disposing([l EXCEPT !.st = IF l.op = "patches" THEN "acquire" ELSE "associate", !.expected = <<IdentityOf>>],
                      Stopped("observed"))
       ELSE l' = Stopped("observed") /\ Untouched

\* `add-patch` and `edit-patch`: the series is saved under that name while the
\* directory has not changed; a failure may come after the record is there.
cmd_patch_association ==
    /\ l.st = "associate"
    /\ \/ /\ root_require_unchanged_identity(LocalRoot, l.other)
          /\ l' \in {[l EXCEPT !.st = "end", !.registered = TRUE, !.told.exit = 0],
                     [Stopped("associate") EXCEPT !.registered = TRUE]}
       \/ l' = Stopped("associate")
    /\ Untouched

AcquireSeries == Try("acquire", LocalHolds /\ l.series # <<>>, Goes_to("again")) /\ Untouched

prepare_local_recipe_build == TryCopy("again", LocalHolds, Goes_to("before"))

Baseline ==
    /\ Try("baseline", InnerHolds /\ RecipeOf(l.read) # <<>> /\ l.expected = <<IdentityOf>> /\ CopyHeld,
           [l EXCEPT !.st = "patch", !.meta = RecipeOf(l.read), !.todo = l.series,
                     !.expected = snapshot_supported_recipe_files(CopyRoot)])
    /\ Untouched

\* git apply replaces the file; then everything but its content is as before.
apply_patch ==
    /\ l.st = "patch" /\ l.todo # <<>>
    /\ LET p == Append(CopyRoot, PKGBUILD_LEAF)
           result == Applied(Head(l.todo), tree[p].data)
       IN \/ /\ MayOpen(CopyRoot) /\ make_directory_identity(tree[CopyRoot]) = l.inner.dir
             /\ snapshot_supported_recipe_files(CopyRoot) = l.expected /\ result # <<>>
             /\ tree' = Put(tree, p, [tree[p] EXCEPT !.id = fresh, !.ino = fresh, !.stamp = fresh, !.data = result[1]])
             /\ fresh' = fresh + 1 /\ UNCHANGED moves
             /\ l' = Goes_to("patched")
          \/ l' = Stopped("patch") /\ Untouched

PatchApplied ==
    LET now == snapshot_supported_recipe_files(CopyRoot) IN
    /\ Try("patched",
           /\ MayOpen(CopyRoot) /\ make_directory_identity(tree[CopyRoot]) = l.inner.dir
           /\ DOMAIN now = DOMAIN l.expected
           /\ \A leaf \in DOMAIN now : /\ now[leaf].mode = l.expected[leaf].mode /\ now[leaf].own
                                       /\ leaf # PKGBUILD_LEAF => now[leaf] = l.expected[leaf],
           [l EXCEPT !.st = "patch", !.todo = Tail(@), !.expected = now])
    /\ Untouched

apply_recipe_patch_series ==
    \/ apply_patch \/ PatchApplied
    \/ /\ l.st = "patch" /\ l.todo = <<>>
       /\ Try("patch", MayOpen(CopyRoot) /\ snapshot_supported_recipe_files(CopyRoot) = l.expected /\ CopyHeld,
              [l EXCEPT !.st = "second", !.inner = open_local_source_root(CopyRoot, TRUE)])
       /\ Untouched

\* The user reads the modified recipe and accepts it.
ReviewModified ==
    Try("second", InnerHolds, [l EXCEPT !.st = "postpatch", !.approved = <<l.inner.pkgbuild.data>>]) /\ Untouched

require_same_children(m, n) == m.base = n.base /\ ChildNames(m) = ChildNames(n)

Postpatch ==
    /\ Try("modified", /\ InnerHolds /\ RecipeOf(l.read) # <<>> /\ require_same_children(l.meta[1], RecipeOf(l.read)[1])
                       /\ LocalHolds /\ CopyHeld,
           [l EXCEPT !.st = "plan", !.meta = RecipeOf(l.read)])
    /\ Untouched

PreparedHolds == LocalHolds /\ CopyHeld /\ InnerHolds

ProceedPatched == Try("proceed", PreparedHolds, Goes_to("dependencies")) /\ Untouched

ExecutePatched == Try("execute", PreparedHolds, Goes_to("artifacts")) /\ Untouched

build_local_with_patches ==
    \/ confirm_patch_evaluation \/ observe_local_patch_source
    \/ OpenCandidate("candidate", "evaluating")
    \/ evaluate_recipe_metadata("evaluating", CopyRoot, l.inner, "observed")
    \/ ObservedSource \/ cmd_patch_association \/ AcquireSeries \/ prepare_local_recipe_build
    \/ OpenCandidate("before", "prepatch")
    \/ evaluate_recipe_metadata("prepatch", CopyRoot, l.inner, "baseline")
    \/ Baseline \/ apply_recipe_patch_series \/ ReviewModified
    \/ evaluate_recipe_metadata("postpatch", CopyRoot, l.inner, "modified")
    \/ Postpatch \/ ProceedPatched \/ ExecutePatched

(***************************************************************************)
(* An edit made while a checkout was reviewed is saved as a patch: the     *)
(* checkout must stay the accepted recipe until the patch is registered.   *)
(***************************************************************************)
require_accepted_recipe ==
    MayOpen(LocalRoot) /\ snapshot_supported_recipe_files(LocalRoot) = l.accepted

\* The user is asked; a development package cannot be saved.
AskToSave ==
    /\ l.st = "ask"
    /\ \/ l' = [l EXCEPT !.st = "end", !.told.exit = 0]
       \/ l' = IF require_accepted_recipe THEN Goes_to("destination") ELSE Stopped("ask")
       \/ l' = Stopped("ask")
    /\ Untouched

\* A destination, no association yet, and a patch can be generated.
Destination == Try("destination", TRUE, Goes_to("consent")) /\ Untouched

ConsentAndCopy ==
    TryCopy("consent", require_accepted_recipe,
            [l EXCEPT !.st = "saving", !.root = open_local_source_root(LocalRoot, TRUE)])

CandidateToSave ==
    /\ Try("saving", MayOpen(CopyRoot) /\ same_supported_recipe_content_and_mode(snapshot_supported_recipe_files(CopyRoot), l.accepted),
           [l EXCEPT !.st = "measure", !.inner = open_local_source_root(CopyRoot, TRUE),
                     !.expected = snapshot_supported_recipe_files(CopyRoot)])
    /\ Untouched

\* The package base and the children that were asked for; l.series names them.
CandidateMeasured ==
    /\ l.st = "measured"
    /\ IF /\ InnerHolds /\ RecipeOf(l.read) # <<>> /\ IdentityOf = l.series.base
          /\ l.series.required \subseteq ChildNames(RecipeOf(l.read)[1])
          /\ snapshot_supported_recipe_files(CopyRoot) = l.expected /\ LocalHolds
       THEN Disposing(IF require_accepted_recipe THEN Goes_to("publish") ELSE Stopped("measured"), Stopped("measured"))
       ELSE l' = Stopped("measured") /\ Untouched

\* Publication may fail after the material is in place.
PublishPatch ==
    /\ l.st = "publish"
    /\ l' \in {[l EXCEPT !.st = "register", !.published = TRUE], Stopped("publish"),
               [Stopped("publish") EXCEPT !.published = TRUE, !.told.retained = TRUE]}
    /\ Untouched

\* So may the registration.
RegisterPatch ==
    /\ l.st = "register"
    /\ l' \in {[l EXCEPT !.st = "final", !.registered = TRUE], Stopped("register"),
               [Stopped("register") EXCEPT !.registered = TRUE]}
    /\ Untouched

Saved ==
    /\ l.st = "final"
    /\ l' = IF require_accepted_recipe THEN [l EXCEPT !.st = "end", !.told.exit = 0] ELSE Stopped("final")
    /\ Untouched

save_review_recipe_edit ==
    \/ AskToSave \/ Destination \/ ConsentAndCopy \/ CandidateToSave
    \/ evaluate_recipe_metadata("measure", CopyRoot, l.inner, "measured")
    \/ CandidateMeasured \/ PublishPatch \/ RegisterPatch \/ Saved

LocalStep ==
    \/ Unwind \/ prepare_local_source_build_route \/ review_local_source_root
    \/ bind_existing_local_source_metadata \/ accept_local_source_build_metadata
    \/ evaluate_recipe_metadata("evaluate", LocalRoot, l.root, "evaluated")
    \/ bind_evaluated_local_source_metadata \/ ResolvePlan \/ prepare_local_source_build
    \/ BuildDependency \/ DependenciesReady \/ execute_prepared_local_source_build
    \/ CreateArtifacts \/ ListPackages \/ build_and_validate_local_artifacts
    \/ select_local_artifacts \/ SourceCleanup \/ execute_local_source_install \/ DiscardArtifacts
    \/ build_local_with_patches \/ save_review_recipe_edit

\* The user and other programs reach the directory, the directory of the
\* copy, and the files of a copy that is checked again (with patches).
LocalTouch ==
    {LocalRoot} \cup {Append(LocalRoot, leaf) : leaf \in {PKGBUILD_LEAF, SRCINFO_LEAF, INSTALL_LEAF}}
      \cup (IF l.space = "held" THEN {CopyRoot} ELSE {})
      \cup (IF l.op = "patches" THEN {Append(CopyRoot, PKGBUILD_LEAF)} ELSE {})

LocalForeign == Foreign(LocalTouch, {tree[p].ino : p \in DOMAIN tree}) /\ UNCHANGED l

(***************************************************************************)
(* Property                                                                *)
(***************************************************************************)
\* What the recipe depends on and does not hold itself is there before it.
DependenciesInstalled(m) ==
    LET children == collect_effective_children(m)
        outside(needs) == {n \in needs : ~resolve_local_candidate(m, children, n).handled}
        aur(d) == IF Remote[d.name].kind = "repository" THEN {} ELSE {Remote[d.name].name}
    IN /\ \A n \in outside(collect_root_packages(children)) : aur(n.dep) \subseteq Range(l.ready)
       /\ \A i \in DOMAIN l.ready : \A d \in Remote[l.ready[i]].needs :
             aur(d) \subseteq {l.ready[j] : j \in 1..(i - 1)}

\* `moguet build <directory>` builds the very PKGBUILD the user accepted, not
\* one edited between the review, the evaluation, the dependency builds, the
\* copy and makepkg; it installs what that recipe holds, after what it needs
\* from the AUR; and it says what it left behind.  A saved patch comes from
\* the accepted recipe, evaluated to the package it is registered for; so does
\* the name under which a series is registered.
LocalBuildIsReviewed ==
    /\ l.built # <<>> => l.built = l.approved
    /\ l.got # {} => /\ l.got \subseteq ChildNames(RecipeOf(l.approved[1])[1])
                     /\ DependenciesInstalled(l.meta[1])
    /\ l.st = "end" => /\ l.told.space = (l.space = "left") /\ l.space # "held"
                       /\ l.told.arts = (l.arts \in {"kept", "left"} /\ l.told.phase # "install")
                       /\ l.told.result = (l.got # {})
                       /\ l.op \in {"plain", "patches"} => (l.told.exit = 0) = (l.got # {} /\ l.arts = "gone" /\ l.space = "gone")
    /\ (l.op = "associate" /\ l.registered) => l.approved = <<l.read>> /\ l.expected = <<IdentityOf>>
    /\ (l.op = "save" /\ l.registered) =>
                       /\ l.published /\ l.read = l.accepted[PKGBUILD_LEAF].data
                       /\ l.series.required \subseteq ChildNames(RecipeOf(l.read)[1])
    /\ (l.op = "save" /\ l.st = "end") => /\ l.told.retained = (l.published /\ l.told.exit # 0)
                                          /\ l.told.registered => l.registered
                                          /\ (l.told.exit = 0) => l.published = l.registered
=============================================================================
