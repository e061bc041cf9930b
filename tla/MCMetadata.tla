------------------------------ MODULE MCMetadata ------------------------------
(* The way of the metadata, on three instances of which the initial state      *)
(* picks one: the start of the process (WatchedResources), one reconcile       *)
(* (WorkloadFetch), and a scrape over the cache that reconciles fill           *)
(* (ScrapeEmission).  The parts that are not picked stay as they are.          *)
EXTENDS ScrapeEmission, WorkloadFetch, WatchedResources, TLC

CONSTANTS t1, t2, r1, d1, d2

VARIABLE part

-------------------------------------------------------------------------------
(* The cache: two tags that can share a digest, and a digest reference.      *)

MCRefs == {t1, t2, r1}
MCDigests == {d1, d2}
MCDigestOf == r1 :> d1

-------------------------------------------------------------------------------
(* The start: two resources of one group and one of another.                 *)

MCGroupOf == ("Task" :> "tekton.dev") @@ ("Workflow" :> "argoproj.io")
             @@ ("CronWorkflow" :> "argoproj.io")
MCBuiltin == {"Pod"}
MCAdditional == DOMAIN MCGroupOf

-------------------------------------------------------------------------------
(* The objects of the reconcile.  A tree is a function from positions to      *)
(* nodes, and a tree can be put at a position of another.                     *)

Leaf(node) == << >> :> node
At(pos, tree) == [p \in {pos \o q : q \in DOMAIN tree} |->
                    tree[CHOOSE q \in DOMAIN tree : pos \o q = p]]
Missing == [p \in {} |-> "null"]

Map(fields) == Leaf("map") @@ fields
ListOf(items) ==
  IF items = << >> THEN Leaf("list")
  ELSE IF Len(items) = 1 THEN Leaf("list") @@ At(<<"0">>, items[1])
  ELSE Leaf("list") @@ At(<<"0">>, items[1]) @@ At(<<"1">>, items[2])

Container(image) == Map(At(<<"image">>, Leaf(image)))

\* A container, and what else an element can be.
Elements == {Container("a"), Container("b"), Container("number"), Map(Missing), Leaf("null")}

\* What can be in the place of a list.
Lists == {Missing, Leaf("null"), Container("a"), ListOf(<< >>)}
         \cup {ListOf(<<x>>) : x \in Elements}
         \cup {ListOf(<<x, y>>) : x \in Elements, y \in Elements}

Secret(name) == Map(At(<<"name">>, Leaf(name)))
PullSecrets ==
  {Missing, ListOf(<<Secret("secret")>>), ListOf(<<Leaf("null"), Secret("secret")>>)}

Pods ==
  {Map(At(<<"spec">>, Map(At(<<"containers">>, list) @@ At(<<"imagePullSecrets">>, s)
                          @@ At(<<"initContainers">>, ListOf(<<Container("a")>>))))) :
     list \in Lists, s \in PullSecrets}

\* An Argo template has a container and sidecars.
Templated(container, sidecars) ==
  Map(At(<<"container">>, container) @@ At(<<"sidecars">>, sidecars))
Items2 ==
  {Leaf("null")} \cup
  {Templated(c, s) : c \in {Missing, Container("a"), Leaf("null")},
                     s \in {Missing, ListOf(<<Leaf("null"), Container("b")>>), Leaf("a")}}

Workflows ==
  {Map(At(<<"spec">>, Map(At(<<"templates">>, ListOf(<<x, y>>))
                          @@ At(<<"serviceAccountName">>, account)))) :
     x \in Items2, y \in Items2, account \in {Missing, Leaf("robot")}}

MCObjects == [kind : {"Pod"}, content : Pods] \cup [kind : {"Workflow"}, content : Workflows]
MCTexts == {"a", "b", "secret", "robot"}
MCAccountSecrets == ("default" :> {}) @@ ("robot" :> {"robot-secret"})

-------------------------------------------------------------------------------

MCInit ==
  /\ Init /\ FetchInit /\ StartInit
  /\ part \in {"start", "reconcile", "scrape"}
  /\ part # "start" => access = [r \in Additional |-> "absent"]

MCNext ==
  /\ UNCHANGED part
  /\ \/ part = "scrape" /\ Next /\ UNCHANGED <<fetch, startVars>>
     \/ part = "reconcile" /\ FetchNext /\ UNCHANGED <<vars, startVars>>
     \/ part = "start" /\ StartNext /\ UNCHANGED <<vars, fetch>>

MCSpec == MCInit /\ [][MCNext]_<<vars, fetch, startVars, part>>

===============================================================================
