--------------------------- MODULE WatchedResources ---------------------------
(***************************************************************************)
(* Which resources the cluster exporter watches (setup.go:                  *)
(* discoverAdditionalResources, SetupControllers).  They are found, and     *)
(* their lists tried, once for each start of the process, while resources   *)
(* are installed and permissions are granted at any time.                   *)
(***************************************************************************)
CONSTANTS
  Builtin,     \* the resources that are always watched; they can always be listed
  Additional,  \* knownAdditionalResources
  GroupOf      \* the API group of each of those

Groups == {GroupOf[r] : r \in Additional}

ASSUME ResourcesAssumption ==
  /\ Builtin \cap Additional = {}
  /\ DOMAIN GroupOf = Additional

VARIABLES
  access,   \* for each known resource: "absent", "forbidden" or "listable"
  startup,  \* the start of the process, and the resources it watches
  steady,   \* those that were installed and listable ever since the start
  unlisted, \* those that could not be listed at any time since the start
  missed    \* those that a failure of this start has hidden

history == <<steady, unlisted, missed>>
startVars == <<access, startup, history>>

Stopped == [pc |-> "discover", found |-> {}, watched |-> {}]
Listable(r) == access[r] = "listable"
Ready == {r \in Additional : Listable(r)}

\* A fresh process.
FreshStart ==
  /\ startup' = Stopped
  /\ steady' = Ready /\ unlisted' = Additional \ Ready /\ missed' = {}

StartInit ==
  /\ access \in [Additional -> {"absent", "forbidden", "listable"}]
  /\ startup = Stopped
  /\ steady = Ready /\ unlisted = Additional \ Ready /\ missed = {}

-------------------------------------------------------------------------------
(* The cluster.                                                             *)

\* A resource is installed or uninstalled, a permission granted or revoked.
ChangeAccess(r, to) ==
  /\ access[r] # to
  /\ access' = [access EXCEPT ![r] = to]
  /\ steady' = IF to = "listable" THEN steady ELSE steady \ {r}
  /\ unlisted' = IF to = "listable" THEN unlisted \ {r} ELSE unlisted
  /\ UNCHANGED <<startup, missed>>

\* The process exits and is started again.
Restart == FreshStart /\ UNCHANGED access

-------------------------------------------------------------------------------
(* The start.                                                               *)

\* ServerPreferredResources, with a failure of some groups.
Discover(failed) ==
  /\ startup.pc = "discover"
  /\ startup' = [startup EXCEPT !.pc = "check",
                   !.found = {r \in Additional : access[r] # "absent" /\ GroupOf[r] \notin failed}]
  /\ missed' = missed \cup {r \in Additional : GroupOf[r] \in failed}
  /\ UNCHANGED <<access, steady, unlisted>>

\* With no group at all the start fails, and the process is started again.
DiscoverFails == startup.pc = "discover" /\ Restart

\* A resource that is watched because it is installed.
CheckNothing(r) ==
  /\ startup.pc = "check" /\ r \in startup.found
  /\ startup' = [startup EXCEPT !.found = @ \ {r}, !.watched = @ \cup {r}]
  /\ UNCHANGED <<access, history>>

\* The test list of a resource succeeds.
Check(r) ==
  /\ startup.pc = "check" /\ r \in startup.found
  /\ Listable(r)
  /\ startup' = [startup EXCEPT !.found = @ \ {r}, !.watched = @ \cup {r}]
  /\ UNCHANGED <<access, history>>

\* A failed test list ends the discovery.
CheckFailsForAll(r) ==
  /\ startup.pc = "check" /\ r \in startup.found
  /\ startup' = [startup EXCEPT !.found = {}]
  /\ missed' = missed \cup {r}
  /\ UNCHANGED <<access, steady, unlisted>>

\* It is denied, the resource is gone, or the API server does not answer: the
\* resource is skipped.
CheckFails(r) ==
  /\ startup.pc = "check" /\ r \in startup.found
  /\ startup' = [startup EXCEPT !.found = @ \ {r}]
  /\ missed' = missed \cup {r}
  /\ UNCHANGED <<access, steady, unlisted>>

\* The controllers and the collector are registered.
Run ==
  /\ startup.pc = "check" /\ startup.found = {}
  /\ startup' = [startup EXCEPT !.pc = "run", !.watched = @ \cup Builtin]
  /\ UNCHANGED <<access, history>>

-------------------------------------------------------------------------------

StartNext ==
  \/ \E r \in Additional, to \in {"absent", "forbidden", "listable"} : ChangeAccess(r, to)
  \/ Restart \/ DiscoverFails \/ Run
  \/ \E failed \in SUBSET Groups : Discover(failed)
  \/ \E r \in Additional : Check(r) \/ CheckFails(r)

StartSpec == StartInit /\ [][StartNext]_startVars

-------------------------------------------------------------------------------
(* Properties.                                                              *)

\* Nothing is watched that could not be listed at any time since the start, so
\* that no scrape fails for it as long as nothing changes (setup.go: "skip it so
\* that missing RBAC for a CRD type doesn't poison every scrape with up=0").
MissingAccessIsHarmless == startup.watched \cap unlisted = {}

\* A failure costs the resources it is about and no others: what was installed
\* and could be listed all the while is watched, unless its own group failed or
\* its own list (setup.go: "Partial failures ... do not abort discovery").
FailuresCostTheirOwn ==
  startup.pc = "run" => steady \ missed \subseteq startup.watched

===============================================================================
