---------------------------- MODULE MCWorkspaces ----------------------------
(***************************************************************************)
(* The directories moguet works in, one component per behaviour: cache     *)
(* cleaning and creation, the copy of a local source, the artifact         *)
(* workspace, the tracked build of a development package with its          *)
(* assessment, the stores of the user, and the build of a directory of the *)
(* user's.  The others stay idle.                                          *)
(***************************************************************************)
EXTENDS LocalSourceWorkspace, ArtifactWorkspace, DevelAssessment, SourcePreference, PatchAssociation,
        LocalSourceBuild

Node(id, kind, mode) ==
    [id |-> id, ino |-> id, kind |-> kind, own |-> TRUE, mode |-> mode, here |-> TRUE,
     data |-> 1, stamp |-> 0]

MCCacheRoot == <<2>>
MCSourceRoot == <<1>>
MCArtifactRoot == <<3>>
MCBuildRoot == <<5, 1>>

CacheDir == MCCacheRoot :> Node(1, "dir", "private")
Kept == <<2, 3>> :> Node(5, "file", "plain")
Cached == (<<2, 1>> :> Node(2, "dir", "plain")) @@ (<<2, 1, 1>> :> Node(3, "file", "plain"))
SourceDir == MCSourceRoot :> Node(2, "dir", "plain")
Source == SourceDir @@ (<<1, 1>> :> Node(3, "dir", "plain")) @@ (<<1, 1, 1>> :> Node(4, "file", "plain"))
            @@ (<<1, 2>> :> Node(6, "file", "plain"))
FlatSource == SourceDir @@ (<<1, 1>> :> Node(3, "file", "plain")) @@ (<<1, 3>> :> Node(6, "file", "plain"))
LinkSource == SourceDir @@ (<<1, 1>> :> Node(3, "link", "plain"))
Copied == (<<2, 2>> :> Node(7, "dir", "private")) @@ (<<2, 2, 1>> :> Node(3, "dir", "closed"))
            @@ (<<2, 2, 1, 1>> :> Node(4, "file", "plain"))

MCLeaves == {<<1>>, <<1, 2>>, <<0>>, <<1, 1>>, <<1, 5>>}
MCArchives == (1 :> [name |-> "a", version |-> 1]) @@ (2 :> [name |-> "a", version |-> 2])
                @@ (3 :> [name |-> "b", version |-> 1])

File(content) == [kind |-> "file", data |-> content]
MCSnapshots == 1 :> (1 :> File(1) @@ 2 :> File(1)) @@ 2 :> (1 :> File(5) @@ 2 :> File(5))
                 @@ 3 :> (1 :> File(5))
MCMetadata ==
    [c \in {1, 2} |-> [sources |-> <<"git", "local">>, children |-> {"p"}, version |-> c]]
      @@ 5 :> [sources |-> <<"git", "other">>, children |-> {"p"}, version |-> 1]
MCPkgverUpdate(content, commit) == IF content \in {1, 2} THEN commit ELSE content
MCSubmodules == 1 :> {4} @@ 2 :> {5} @@ 4 :> {} @@ 5 :> {2}

FirstDoc == [name |-> "p", recipe |-> 1, revgen |-> 1, revision |-> 1, instgen |-> 1,
             mtree |-> Archived(1, 1), version |-> 1]

\* A component that is not the one of this behaviour.
CacheRests == cacheOp = "none" /\ stage = "done" /\ rootSeen = Node(1, "dir", "private")
                /\ made = <<>> /\ sourceSeen = Node(2, "dir", "plain") /\ CopyIdle
CacheEmpty == /\ targets = <<>> /\ entries = <<>> /\ todo = <<>> /\ plan = <<>> /\ lease = <<>>
              /\ theirs = {} /\ recorded = {} /\ removed = {}
ArtifactRests == w = [Unit(TRUE, <<>>) EXCEPT !.stage = "done"]
                   /\ rootId = Node(1, "dir", "private") /\ db = <<>>
DevelRests == b = [NoContext EXCEPT !.stage = "failed"] /\ reviewed = [gen |-> 1, recipe |-> 1]
                /\ e = NoBuild /\ upstream = 1 /\ installed = <<>> /\ child = <<>> /\ legacy = <<>>
                /\ x = NoInstall /\ a = NoAssessment

UserRests == u = [i \in Invokers |-> [Invocation("none", "log", [xdg |-> "unset", home |-> "set"])
                                          EXCEPT !.st = "end"]]
               /\ records = <<>> /\ destroyed = {}

CacheInit ==
    /\ fresh = 10
    /\ \/ cacheOp = "clean" /\ tree = CacheDir @@ Cached @@ Kept /\ made = <<>>
       \/ cacheOp = "create" /\ tree = CacheDir @@ Kept /\ made = <<>>
       \/ cacheOp = "copy" /\ tree \in {CacheDir @@ Source, CacheDir @@ FlatSource, CacheDir @@ LinkSource} /\ made = <<>>
       \/ cacheOp = "dispose" /\ tree = CacheDir @@ Copied @@ SourceDir
            /\ made = <<Node(7, "dir", "private")>>
    /\ moves = IF cacheOp = "copy" /\ <<1, 2>> \in DOMAIN tree THEN MaxForeign - 1 ELSE 0
    /\ stage = "start" /\ rootSeen = tree[CacheRoot] /\ CacheEmpty
    /\ sourceSeen = Node(2, "dir", "plain") /\ CopyIdle
    /\ ArtifactRests /\ DevelRests /\ UserRests

Want(name, version, reason, rpc, had) ==
    [name |-> name, version |-> version, reason |-> reason, rpc |-> rpc, had |-> had]

ArtifactInit ==
    /\ tree = MCArtifactRoot :> Node(1, "dir", "private") /\ fresh = 10 /\ moves = 0
    /\ rootId = Node(1, "dir", "private")
    /\ w \in {Unit(TRUE, <<Want("a", 0, "explicit", 0, 0)>>),
              Unit(FALSE, <<Want("a", 0, "explicit", 2, 1)>>),
              Unit(FALSE, <<Want("a", 1, "dependency", 0, 0), Want("b", 0, "explicit", 0, 0)>>)}
    /\ db \in [{"a", "b"} -> {<<>>, <<[version |-> 1, reason |-> "dependency"]>>}]
    /\ CacheRests /\ CacheEmpty /\ DevelRests /\ UserRests

DevelInit ==
    /\ tree = <<5>> :> Node(1, "dir", "plain") /\ fresh = 100
    /\ b = NoContext /\ e = NoBuild /\ upstream = 1 /\ x = NoInstall /\ a = NoAssessment
    /\ reviewed \in [gen : {1}, recipe : DOMAIN MCSnapshots]
    /\ child = <<>>
    /\ \/ installed = <<>> /\ legacy = <<>>
       \/ /\ installed = <<InstalledRecord(1, 1, Archived(1, 1), 1, 1)>>
          /\ legacy \in {<<>>, <<[gen |-> 1, valid |-> TRUE, doc |-> FirstDoc]>>}
    /\ moves = IF installed # <<>> /\ legacy = <<>> THEN MaxForeign ELSE MaxForeign - 1
    /\ CacheRests /\ CacheEmpty /\ ArtifactRests /\ UserRests

\* The user's directories, and what lies in them.
MCHome == <<4>>
MCMaterial == <<6>>
MCDrafts == <<8>>
MCPatchNames == <<1, 2>>
HomeDirs == (<<4>> :> Node(1, "dir", "plain")) @@ (<<4, 5>> :> Node(2, "dir", "plain"))
AppDirs == HomeDirs @@ (<<4, 5, 1>> :> Node(3, "dir", "private"))
UserDirs == AppDirs @@ (<<4, 5, 1, 1>> :> Node(4, "dir", "private"))
              @@ (<<4, 5, 1, 2>> :> Node(5, "dir", "private")) @@ (<<8>> :> Node(12, "dir", "plain"))
Preferred == <<4, 5, 1, 1, 1>> :> Node(6, "file", "private")
Recorded == <<4, 5, 1, 2, 1>> :> Node(7, "file", "private")
MaterialDir == <<6>> :> Node(8, "dir", "plain")
Patches == MaterialDir @@ (<<6, 1>> :> Node(9, "file", "plain")) @@ (<<6, 2>> :> Node(10, "file", "plain"))

\* An invocation that already holds its directory and asks for its lock.
Prepared(r) ==
    [r EXCEPT !.st = "lock",
              !.held = [k \in 1..4 |-> RetainedDirectory(SubSeq(StoreDirectory(r.store), 1, k), k = 4)]]

Plain == [xdg |-> "unset", home |-> "set"]
Environments == {Plain, [Plain EXCEPT !.xdg = "set"], [Plain EXCEPT !.xdg = "malformed"],
                 [Plain EXCEPT !.home = "empty"]}
Resting == [Invocation("none", "log", Plain) EXCEPT !.st = "end"]

UserInit ==
    /\ fresh = 30 /\ moves = MaxForeign - 1 /\ destroyed = {} /\ records = 1 :> <<1, 1>>
    /\ CacheRests /\ CacheEmpty /\ ArtifactRests /\ DevelRests
    /\ \/ /\ tree \in {HomeDirs, AppDirs, UserDirs @@ Preferred}
          /\ \E env \in Environments, op \in {"add", "read", "snapshot", "revert"} :
                u = <<Preference(op, env), Resting>>
       \/ /\ tree \in {HomeDirs, AppDirs}
          /\ u = <<Invocation("log", "log", Plain), Resting>>
       \/ /\ tree \in {UserDirs, UserDirs @@ Preferred}
          /\ \E ops \in {<<"append", "append">>, <<"append", "edit">>, <<"edit", "remove">>,
                         <<"create", "promote">>, <<"list", "append">>} :
                u = [i \in Invokers |-> Prepared(Preference(ops[i], Plain))]
       \/ /\ tree \in {UserDirs @@ Patches, UserDirs @@ Patches @@ Recorded}
          /\ \/ \E ops \in {<<"update", "forget">>, <<"acquire", "update">>, <<"acquire", "forget">>} :
                   u = [i \in Invokers |-> Prepared(Association(ops[i], Plain))]
             \/ \E ops \in {<<"register", "list">>} :
                   u = <<Association("register", Plain), Prepared(Association("list", Plain))>>
       \/ /\ tree = UserDirs @@ MaterialDir
          /\ u = <<Association("generate", Plain), Resting>>

\* A directory of the user's with recipes of every sort: 1 has two children,
\* one of which needs the other, a repository package and an AUR package that
\* needs another one; the others cannot be planned, 0 cannot be evaluated.
MCLocalRoot == <<11>>
MCCopyRoot == <<12>>
Relation(of, kind, name, min) ==
    [of |-> of, kind |-> kind, on |-> <<>>, unset |-> FALSE, name |-> name, soname |-> FALSE, min |-> min]
Recipe(children, relations) ==
    [base |-> "base", version |-> 2, arch |-> {"x86_64"}, children |-> children, relations |-> relations]
Child(name) == [name |-> name, arch |-> <<>>]
Common == <<Relation(<<>>, "depends", "repo", 1), Relation(<<"c1">>, "depends", "c2", 2),
            Relation(<<"c2">>, "depends", "a", 0),
            [Relation(<<"c2">>, "depends", "nowhere", 0) EXCEPT !.on = <<"arm">>],
            [Relation(<<>>, "makedepends", "tool", 0) EXCEPT !.on = <<"x86_64">>],
            [Relation(<<"c1">>, "makedepends", "", 0) EXCEPT !.on = <<"x86_64">>, !.unset = TRUE],
            [Relation(<<"c2">>, "makedepends", "tool", 0) EXCEPT !.on = <<"x86_64">>]>>
TwoChildren == <<Child("c1"), Child("c2")>>
Recipes ==
    (2 :> Recipe(TwoChildren, <<Relation(<<>>, "depends", "b", 0)>>))
      @@ (3 :> Recipe(TwoChildren, <<Relation(<<"c1">>, "depends", "back", 0)>>))
      @@ (4 :> Recipe(TwoChildren, <<Relation(<<>>, "provides", "feature", 1), Relation(<<"c1">>, "depends", "feature", 0)>>))
      @@ (5 :> Recipe(<<Child("c1"), [name |-> "c2", arch |-> <<{"arm"}>>]>>, <<>>))
      @@ (6 :> Recipe(TwoChildren, <<Relation(<<"c1">>, "depends", "twin", 0)>>))
      @@ (7 :> Recipe(TwoChildren, <<Relation(<<"c1">>, "depends", "c2", 9), Relation(<<"c2">>, "depends", "repo", 9)>>))
      @@ (8 :> Recipe(TwoChildren, <<[Relation(<<"c1">>, "depends", "libx.so", 0) EXCEPT !.soname = TRUE],
                                    Relation(<<"c2">>, "depends", "again", 0)>>))
      @@ (41 :> Recipe(<<Child("c1"), Child("c3")>>, <<>>))
MCRecipeOf(c) ==
    IF c = 0 THEN <<>> ELSE <<IF c \in DOMAIN Recipes THEN Recipes[c] ELSE Recipe(TwoChildren, Common)>>
Offer(kind, name, base, needs) == [kind |-> kind, name |-> name, base |-> base, ver |-> 3, needs |-> needs]
MCRemote ==
    [repo |-> Offer("repository", "repo", "", {}), tool |-> Offer("repository", "tool", "", {}),
     a |-> Offer("aur", "a", "a", {Relation(<<>>, "depends", "b", 3)}), b |-> Offer("aur", "b", "b", {}),
     back |-> Offer("aur", "back", "back", {Relation(<<>>, "depends", "c1", 0)}),
     twin |-> Offer("provided", "c2", "other", {}), again |-> Offer("aur", "again", "base", {})]
MCApplied(p, c) == IF c \in 1..39 /\ p # 5 THEN <<c + 10 * p>> ELSE <<>>

LocalDir(recipe, info) ==
    (MCLocalRoot :> Node(1, "dir", "plain")) @@ (<<11, 1>> :> [Node(2, "file", "plain") EXCEPT !.data = recipe, !.stamp = 1])
      @@ (IF info = <<>> THEN <<>> ELSE <<11, 2>> :> [Node(3, "file", "plain") EXCEPT !.data = info[1], !.stamp = info[2]])
WithInstall == <<11, 3>> :> Node(4, "file", "plain")

LocalInit ==
    /\ fresh = 60 /\ CacheRests /\ CacheEmpty /\ ArtifactRests /\ DevelRests /\ UserRests
    /\ \/ /\ tree \in {LocalDir(1, <<>>), LocalDir(1, <<1, 1>>), LocalDir(1, <<1, 0>>), LocalDir(1, <<0, 1>>)}
          /\ l \in {LocalInvocation("plain", oneoff, <<>>) : oneoff \in BOOLEAN} /\ moves = MaxForeign - 1
       \/ /\ tree \in {LocalDir(c, <<>>) : c \in {0} \cup 3..8} /\ moves = MaxForeign
          /\ l = LocalInvocation("plain", FALSE, <<>>)
       \/ /\ tree \in {LocalDir(1, <<>>), LocalDir(1, <<1, 0>>)} /\ moves = MaxForeign - 1
          /\ l \in {LocalInvocation("patches", FALSE, series) : series \in {<<>>, <<1, 2>>, <<4>>, <<5>>}}
                     \cup {LocalInvocation("associate", FALSE, <<>>)}
       \/ /\ tree \in {LocalDir(1, <<>>) @@ WithInstall, LocalDir(41, <<>>)} /\ moves = MaxForeign - 1
          /\ l = [LocalInvocation("save", FALSE, [base |-> "base", required |-> {"c2"}])
                    EXCEPT !.accepted = [leaf \in NamesOf(tree, MCLocalRoot) |-> make_file_identity(tree[Append(MCLocalRoot, leaf)])]]

LocalRests == l = [LocalInvocation("none", FALSE, <<>>) EXCEPT !.st = "end", !.told.exit = 1]
LocalOver == l.st = "end"

Init == ((CacheInit \/ ArtifactInit \/ DevelInit \/ UserInit) /\ LocalRests) \/ LocalInit

(***************************************************************************)
(* Next steps.  Where other processes act is bounded to the paths a        *)
(* component relies on while it relies on them.                            *)
(***************************************************************************)
treeVars == <<tree, fresh, moves>>
vars == <<treeVars, cacheVars, copyVars, artifactVars, b, reviewed, e, upstream,
          installed, child, legacy, x, a, userVars, l>>
developing == <<b, reviewed, e, upstream, installed, child, legacy, x, a>>

CacheOver == stage \in {"done", "failed", "rolled back", "held"}

CacheTouch ==
    CASE cacheOp \in {"clean", "create"} -> DOMAIN tree
      [] cacheOp = "dispose" -> {p \in DOMAIN tree : IsPrefix(Final, p)} \cup {CacheRoot}
      [] OTHER -> IF stage \in {"copying", "validating"} THEN DOMAIN tree \ {CacheRoot} ELSE {}

Caching ==
    /\ cacheOp # "none"
    /\ \/ CacheNext /\ UNCHANGED copyVars
       \/ WorkspaceStep
       \/ /\ cacheOp \in {"clean", "create"} /\ ~CacheOver /\ UNCHANGED copyVars
          /\ \/ CacheForeign(CacheTouch) \/ TheirRelease
             \/ \E p \in ChildrenOf(tree, CacheRoot) : TheirLease(p)
       \/ cacheOp \in {"copy", "dispose"} /\ ~CacheOver /\ SourceForeign(CacheTouch)
    /\ UNCHANGED artifactVars /\ UNCHANGED developing /\ UNCHANGED userVars /\ UNCHANGED l

ArtifactOver == w.stage \in {"done", "failed"}

ArtifactTouch ==
    {<<3, 1>>, <<3, 1, 1>>, <<3, 1, 5>>} \cup (IF w.stage = "start" THEN {ArtifactRoot} ELSE {})

Artifacts ==
    /\ ~ArtifactOver
    /\ \/ ArtifactStep
       \/ Foreign(ArtifactTouch, ArtifactPins) /\ UNCHANGED artifactVars
       \/ \E c \in Rewrites : RewriteArtifact(<<3, 1, 1>>, c)
       \/ OtherTransaction("a", 2)
    /\ UNCHANGED cacheVars /\ UNCHANGED copyVars /\ UNCHANGED developing /\ UNCHANGED userVars /\ UNCHANGED l

\* An assessment runs before the build starts or while its package is
\* installed and published, and ends the behaviour.
Assessing == b.stage = "start" \/ (x.stage # "idle" /\ b.clean \in {"no", "wanted"})
Settled == UNCHANGED <<installed, child, legacy, x, a>>
DevelOver == \/ b.stage = "failed" \/ CleanupOver
             \/ a.stage = "done" /\ (b.stage = "start" \/ b.clean # "no")

BuildTouch ==
    {BuildRoot, PartAt(PkgdestPart), RecipeFile(PKGBUILD), WorkingFile(PKGBUILD), Workspace, Mirror,
     ArchivePath, PinnedLeaf}

Developing ==
    /\ ~DevelOver
    /\ \/ /\ a.stage = "idle" /\ (ContextCreation \/ ContextCleanup)
          /\ UNCHANGED <<e, upstream>> /\ Settled
       \/ b.clean = "no" /\ BuildStep /\ Settled
       \/ b.clean = "no" /\ InstallAndPublish
       \/ Assessing /\ Assessment
       \/ Assessing /\ a.stage # "done" /\ DevelForeign
       \/ /\ b.stage \notin {"start", "ready"} /\ b.clean = "no" /\ Settled
          /\ BuildForeign(Beneath(tree, BuildRoot))
       \/ /\ b.stage = "ready" /\ b.clean = "no" /\ Settled
          /\ \/ UpstreamMoves \/ Retarget \/ SwapArchive
             \/ x.stage \in {"idle", "permitted"} /\ BuildForeign(BuildTouch)
       \/ b.clean = "planned" /\ Settled /\ BuildForeign({BuildRoot, PartAt(SrcdestPart)})
    /\ UNCHANGED cacheVars /\ UNCHANGED copyVars /\ UNCHANGED artifactVars /\ UNCHANGED userVars /\ UNCHANGED l

UserOver == \A i \in Invokers : u[i].st = "end"

UserTouch ==
    {p \in DOMAIN tree : Len(p) = 5 \/ (p[1] \in {6, 8} /\ Len(p) = 2)}
      \cup (IF u[2].op = "none" THEN {<<4, 5>>, <<4, 5, 1>>, <<4, 5, 1, 1>>, <<4, 5, 1, 9>>} ELSE {})

UserStores ==
    /\ ~UserOver
    /\ \/ \E i \in Invokers : PreferenceStep(i) \/ AssociationStep(i) \/ Kill(i)
       \/ \E i \in Invokers : u[i].store = "log" /\ (PrepareDirectory(i) \/ StateLog(i))
       \/ Foreign(UserTouch, UserPins) /\ UNCHANGED userVars
    /\ UNCHANGED cacheVars /\ UNCHANGED copyVars /\ UNCHANGED artifactVars /\ UNCHANGED developing /\ UNCHANGED l

LocalBuilding ==
    /\ ~LocalOver
    /\ LocalStep \/ LocalForeign
    /\ UNCHANGED cacheVars /\ UNCHANGED copyVars /\ UNCHANGED artifactVars /\ UNCHANGED developing
    /\ UNCHANGED userVars

Quiet == CacheOver /\ ArtifactOver /\ DevelOver /\ UserOver /\ LocalOver /\ UNCHANGED vars

Next == Caching \/ Artifacts \/ Developing \/ UserStores \/ LocalBuilding \/ Quiet

Spec == Init /\ [][Next]_vars
=============================================================================
