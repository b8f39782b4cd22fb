------------------------ MODULE MCDependencyCleanup ------------------------
(***************************************************************************)
(* An AUR package app that is built with an AUR tool, two repository       *)
(* libraries that need each other and a provider; another package ext      *)
(* needs one of the libraries.  Eight plans differ in the roles, in how    *)
(* the provider was found and in what is inexact.  By itself, the          *)
(* transaction with a receipt that installs the provider.                  *)
(***************************************************************************)
EXTENDS DependencyCleanup, AlpmReceipt

Edge(parent, kind, origin, selected, role, name) ==
    [parent |-> parent, kind |-> kind, origin |-> origin, selected |-> selected,
     role |-> role, name |-> name, exact |-> TRUE]

Target(name, roles) == [name |-> name, roles |-> roles]

MainPlan ==
    [edges |-> <<Edge("app", "Aur", "none", FALSE, "Build", "tool"),
                 Edge("tool", "Repo", "none", FALSE, "Check", "lib"),
                 Edge("app", "Repo", "none", FALSE, "Build", "lib2"),
                 Edge("app", "Provided", "repo", TRUE, "Build", "prov")>>,
     targets |-> {Target("app", {"Root"}), Target("tool", {"Build"})},
     order |-> <<"tool", "app">>]

WithEdge(i, e) == [MainPlan EXCEPT !.edges[i] = e]

SmallPlans ==
    {MainPlan,
     \* the tool, or a library, is needed at run time
     [WithEdge(1, [MainPlan.edges[1] EXCEPT !.role = "Runtime"]) EXCEPT
        !.targets = {Target("app", {"Root"}), Target("tool", {"Runtime"})}],
     WithEdge(2, [MainPlan.edges[2] EXCEPT !.role = "Runtime"]),
     \* the only provider; one without its package base
     WithEdge(4, [MainPlan.edges[4] EXCEPT !.selected = FALSE]),
     WithEdge(4, [MainPlan.edges[4] EXCEPT !.exact = FALSE]),
     \* a tool from the AUR as a provider; also one from a repository
     WithEdge(1, Edge("app", "Provided", "aur", FALSE, "Check", "tool")) ,
     WithEdge(4, Edge("app", "Provided", "repo", FALSE, "Build", "tool")),
     \* libraries that are installed already, and nothing from the AUR
     [edges |-> <<Edge("app", "Installed", "none", FALSE, "Build", "lib"),
                  Edge("app", "Repo", "none", FALSE, "Check", "prov")>>,
      targets |-> {Target("app", {"Root"})}, order |-> <<"app">>]}

SmallPkgs == {"app", "tool", "lib", "lib2", "prov", "ext"}
SmallNeeds == {<<"lib", "lib2">>, <<"lib2", "lib">>, <<"ext", "lib2">>}

With(S) == [p \in SmallPkgs |-> IF p \in S THEN <<[ver |-> "v1", reason |-> "Dep"]>> ELSE <<>>]
SmallDbs == {With({}), With({"lib", "lib2"})}

SmallWorlds ==
    {[installed |-> "present", sync |-> "present", group |-> "absent"],
     [installed |-> "absent", sync |-> "partial", group |-> "absent"],
     [installed |-> "absent", sync |-> "absent", group |-> "present"]}

SmallRequests == {<<>>, <<"prov">>, <<"prov", "prov">>, <<"prov", "lib">>, <<"lib2">>}

\* A plan calls a package Installed when it is.
CleanupInit ==
    /\ Init
    /\ \A i \in DOMAIN plan.edges :
          plan.edges[i].kind = "Installed" <=> plan.edges[i].name \in Present(db)

NoTransaction ==
    /\ client = [pc |-> "off"] /\ tdir = [place |-> "none"] /\ helper = Idle
    /\ recorder = "off" /\ pacman = [state |-> "off"] /\ faults = 0

NoCleanup ==
    /\ plan = MainPlan /\ world \in {w \in SmallWorlds : w.installed = "present"} /\ db = With({})
    /\ stage = "none" /\ item = 1 /\ succeeded = {}
    /\ baseline = <<>> /\ current = <<>> /\ evidence = NoEvidence
    /\ collection = <<>> /\ approved = <<>> /\ revalidation = <<>>
    /\ removed = {} /\ exit = "none" /\ others = 0

SmallInit == (CleanupInit /\ NoTransaction) \/ (ReceiptInit /\ NoCleanup)

SmallNext ==
    \/ /\ client.pc = "off" /\ Next /\ UNCHANGED receiptVars
    \/ /\ client.pc # "off" /\ ReceiptNext /\ UNCHANGED vars

SmallSpec == SmallInit /\ [][SmallNext]_<<vars, receiptVars>>

(***************************************************************************)
(* Properties                                                              *)
(***************************************************************************)
\* Those of the approved that are, by themselves, as they were when shown.
StillSafe(n) ==
    /\ db[n] = current[1][n]
    /\ n \notin Held /\ PolicyProtection(n) = "NotProtected"

\* The second look keeps the largest set that can go: packages unchanged
\* since they were shown, none of which anything outside the set needs.
\* Libraries that need only each other go together; one that a remaining
\* package needs stays with all it needs itself.
ReadyIsLargestSafeSet ==
    [][stage = "revalidate" /\ stage' = "remove" /\ revalidation' # <<>> =>
          {n \in DOMAIN revalidation'[1] : revalidation'[1][n] = "Ready"}
             = UNION {S \in SUBSET {n \in approved[1] : StillSafe(n)} : Removable(db, S)}]_vars
=============================================================================
