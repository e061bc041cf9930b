-------------------------- MODULE PullSecretKeychain --------------------------
(***************************************************************************)
(* The keychain that holds the credentials of --image-pull-secret          *)
(* (keychain.go, setup.go).  A controller watches the Secrets of the       *)
(* install namespace; an event of a named one makes its worker read every  *)
(* named Secret, one after the other, from the informer's store and swap   *)
(* the keychain that the image reconcilers resolve credentials with.       *)
(*                                                                         *)
(* The store runs behind the API server, and the events run behind the     *)
(* store.  Times are left out: a request in the queue, new or retried, is  *)
(* one that the worker may take at any moment.                             *)
(***************************************************************************)
CONSTANTS
  Secrets,    \* Secrets that can exist in the install namespace
  Names,      \* those given as --image-pull-secret
  Usable,     \* contents that NewFromPullSecrets accepts
  Malformed,  \* contents that it rejects
  Missing     \* the value of a Secret that does not exist

Contents == Usable \cup Malformed

ASSUME KeychainAssumption ==
  /\ Names \subseteq Secrets
  /\ Names # {}
  /\ Missing \notin Contents
  /\ Usable \cap Malformed = {}

VARIABLES
  secrets,   \* the Secrets on the API server
  store,     \* the Secrets in the informer's store
  notify,    \* Secrets whose change in the store no handler has seen yet
  queue,     \* requests of the controller: names of Secrets
  rebuild,   \* the state of the controller's worker
  keychain   \* name -> the content that the published keychain was built from

vars == <<secrets, store, notify, queue, rebuild, keychain>>

\* Anonymous: newPullSecretKeychain seeds the keychain with no Secret at all.
Empty == [n \in Names |-> Missing]

\* Any request makes the worker read all names: request is only what is retried.
Waiting == [busy |-> FALSE, request |-> {}, todo |-> {}, read |-> Empty]

\* The controller starts on a synced store, with a create event for each Secret.
Init ==
  /\ secrets \in [Secrets -> Contents \cup {Missing}]
  /\ store = secrets
  /\ notify = {n \in Secrets : secrets[n] # Missing}
  /\ queue = {}
  /\ rebuild = Waiting
  /\ keychain = Empty

-------------------------------------------------------------------------------
(* The API server and the informer.                                         *)

Write(n, content) ==
  /\ content # secrets[n]
  /\ secrets' = [secrets EXCEPT ![n] = content]
  /\ UNCHANGED <<store, notify, queue, rebuild, keychain>>

\* The store is updated before the handlers hear of it.
Observe(n) ==
  /\ store[n] # secrets[n]
  /\ store' = [store EXCEPT ![n] = secrets[n]]
  /\ notify' = notify \cup {n}
  /\ UNCHANGED <<secrets, queue, rebuild, keychain>>

\* The predicate lets the named Secrets through.
Deliver(n) ==
  /\ n \in notify
  /\ notify' = notify \ {n}
  /\ queue' = IF n \in Names THEN queue \cup {n} ELSE queue
  /\ UNCHANGED <<secrets, store, rebuild, keychain>>

-------------------------------------------------------------------------------
(* pullSecretReconciler.Reconcile.                                          *)

Start(n) ==
  /\ rebuild = Waiting
  /\ n \in queue
  /\ queue' = queue \ {n}
  /\ rebuild' = [busy |-> TRUE, request |-> {n}, todo |-> Names, read |-> Empty]
  /\ UNCHANGED <<secrets, store, notify, keychain>>

\* A rebuild from the Secret that the request names alone.
ReadRequested(n) ==
  /\ n \in rebuild.todo
  /\ rebuild' = [rebuild EXCEPT !.todo = @ \ {n},
                   !.read[n] = IF n \in rebuild.request THEN store[n] ELSE @]
  /\ UNCHANGED <<secrets, store, notify, queue, keychain>>

\* One named Secret is read; one that is not found is left out.
ReadSecret(n) ==
  /\ n \in rebuild.todo
  /\ rebuild' = [rebuild EXCEPT !.todo = @ \ {n}, !.read[n] = store[n]]
  /\ UNCHANGED <<secrets, store, notify, queue, keychain>>

\* The error goes back to the controller, which queues the request again.
Retry ==
  /\ rebuild' = Waiting
  /\ queue' = queue \cup rebuild.request
  /\ UNCHANGED <<secrets, store, notify, keychain>>

\* A failed read that is not tried again.
ReadFailsForGood ==
  /\ rebuild.todo # {}
  /\ rebuild' = Waiting
  /\ UNCHANGED <<secrets, store, notify, queue, keychain>>

ReadFails == rebuild.todo # {} /\ Retry

AllUsable == \A n \in Names : rebuild.read[n] \in Usable \cup {Missing}

\* NewFromPullSecrets rejects one of the Secrets.
BuildFails ==
  /\ rebuild.busy /\ rebuild.todo = {}
  /\ ~AllUsable
  /\ Retry

\* A publish that does not look at the error.
PublishUnchecked ==
  /\ rebuild.busy /\ rebuild.todo = {}
  /\ keychain' = rebuild.read
  /\ rebuild' = Waiting
  /\ UNCHANGED <<secrets, store, notify, queue>>

Publish ==
  /\ rebuild.busy /\ rebuild.todo = {}
  /\ AllUsable
  /\ keychain' = rebuild.read
  /\ rebuild' = Waiting
  /\ UNCHANGED <<secrets, store, notify, queue>>

-------------------------------------------------------------------------------

RebuildStep == (\E n \in Names : ReadSecret(n)) \/ ReadFails \/ BuildFails \/ Publish

Next ==
  \/ \E n \in Secrets :
       \/ \E content \in Contents \cup {Missing} : Write(n, content)
       \/ Observe(n) \/ Deliver(n)
  \/ \E n \in Names : Start(n)
  \/ RebuildStep

Spec == Init /\ [][Next]_vars

\* The informer keeps up, the worker runs, and the store can be read.
Propagates ==
  /\ \A n \in Secrets : WF_vars(Observe(n)) /\ WF_vars(Deliver(n))
  /\ WF_vars(\E n \in Names : Start(n))
  /\ WF_vars(RebuildStep)
  /\ \A todo \in SUBSET Names :
       SF_vars(rebuild.todo = todo /\ \E n \in Names : ReadSecret(n))

FairSpec == Spec /\ Propagates

-------------------------------------------------------------------------------

Rebuilds ==
  [busy : BOOLEAN, request : SUBSET Names, todo : SUBSET Names,
   read : [Names -> Contents \cup {Missing}]]

\* The state is well typed, and the published keychain is built from usable
\* Secrets alone, whatever failed before it.
TypeOK ==
  /\ secrets \in [Secrets -> Contents \cup {Missing}]
  /\ store \in [Secrets -> Contents \cup {Missing}]
  /\ notify \subseteq Secrets
  /\ queue \subseteq Names
  /\ rebuild \in Rebuilds
  /\ keychain \in [Names -> Usable \cup {Missing}]

\* No change of a named Secret is on its way to the keychain.
Quiet ==
  /\ \A n \in Names : n \notin notify /\ store[n] = secrets[n]
  /\ queue = {}
  /\ ~rebuild.busy

\* When nothing is on its way, the keychain is that of the named Secrets as they
\* are: a Secret that changes between the reads of a rebuild, or during it, is
\* never lost (keychain.go: "rebuilding wholesale keeps the keychain trivially
\* consistent with the live Secret state").
QuietIsCurrent ==
  Quiet => \A n \in Names : keychain[n] = secrets[n]

\* The named Secrets as they are.
named == [n \in Names |-> secrets[n]]

\* Once the named Secrets stop changing, and all are usable, the keychain becomes
\* theirs, whatever failed reads or malformed contents came before (setup.go:
\* "so rotations propagate without a pod restart").
RotationsPropagate ==
  /\ <>[][FALSE]_named
  /\ <>[](\A n \in Names : secrets[n] \in Usable \cup {Missing})
  => <>[](keychain = named)

===============================================================================
