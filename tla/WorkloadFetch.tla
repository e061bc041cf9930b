----------------------------- MODULE WorkloadFetch -----------------------------
(***************************************************************************)
(* One reconcile of the cluster exporter in detail (reconciler.go): which   *)
(* images and pull secrets it finds in the object, what becomes of each     *)
(* image, and which image of an index it takes the metadata from.           *)
(*                                                                         *)
(* ClusterExporter has the same reconcile with the images of a workload     *)
(* given; the cache and the coalescing, which it has, are left out here.    *)
(* RegistryCredentials has the credentials that its requests present.       *)
(***************************************************************************)
EXTENDS ContainerPaths, FiniteSets

CONSTANTS
  Objects,       \* objects, each with its kind and its content
  ParsedImages,  \* the image strings that name.ParseReference accepts
  AccountSecrets,\* the pull secrets of each service account that exists
  Platforms,     \* the platforms of an index
  Platform,      \* the platform that is resolved: --platform
  NoPlatform,    \* an index entry without platform
  MaxEntries     \* bound: the entries of an index

\* A descriptor is that of an index, as the platforms of its entries in their
\* order, or of a single image, as the index of a single entry would be.
Indexes == UNION {[1..n -> Platforms \cup {NoPlatform}] : n \in 0..MaxEntries}

ASSUME FetchAssumption ==
  /\ NoPlatform \notin Platforms
  /\ Platform \in Platforms
  /\ MaxEntries \in Nat
  /\ \A object \in Objects : object.kind \in ResourceKinds /\ IsTree(object.content)

VARIABLE fetch  \* the reconcile

NoFetch ==
  [pc |-> "idle", object |-> << >>, images |-> {}, todo |-> {}, stored |-> {}, failed |-> {},
   image |-> "", index |-> << >>, entry |-> 0]

FetchInit == fetch = NoFetch

-------------------------------------------------------------------------------
(* Reconcile and newKeychain.                                               *)

Read(object) ==
  /\ fetch.pc = "idle"
  /\ fetch' = [NoFetch EXCEPT !.pc = "read", !.object = object]

\* k8schain.New cannot read a Secret or a service account.
AssembleFails ==
  /\ fetch.pc = "read"
  /\ fetch' = NoFetch

\* The containers of the object.
SpecsOf(object) == ContainerSpecs(object.content, ResourceOf(object.kind).containers)

\* The Secrets that the object and its service account name; one without a name
\* of its own has the account "default".
AttachedSecrets(object) ==
  LET resource == ResourceOf(object.kind)
      named == ServiceAccountNames(object.content, resource.serviceAccounts)
      accounts == (IF named = {} THEN {"default"} ELSE named) \cap DOMAIN AccountSecrets
  IN ImagePullSecrets(object.content, resource.pullSecrets)
       \cup UNION {AccountSecrets[a] : a \in accounts}

\* The keychain is there.  An image that several containers have is fetched once.
Assemble ==
  /\ fetch.pc = "read"
  /\ LET images == {spec.image : spec \in SpecsOf(fetch.object)}
     IN fetch' = [NoFetch EXCEPT !.pc = "next", !.images = images, !.todo = images]

-------------------------------------------------------------------------------
(* fetchImage for one image after the other.                                *)

\* The error of one image is noted, and the next image follows.
Failed(image) ==
  [fetch EXCEPT !.pc = "next", !.todo = @ \ {image}, !.failed = @ \cup {image},
                !.image = "", !.index = << >>, !.entry = 0]

\* An error that ends the reconcile.
GetFailsForAll(image) ==
  /\ fetch.pc = "next" /\ image \in fetch.todo
  /\ fetch' = [Failed(image) EXCEPT !.todo = {}]

\* The string is no reference, the registry refuses the credential or does not
\* know the image, or it does not answer in time.
GetFails(image) ==
  /\ fetch.pc = "next" /\ image \in fetch.todo
  /\ fetch' = Failed(image)

Get(image, index) ==
  /\ fetch.pc = "next" /\ image \in fetch.todo \cap ParsedImages
  /\ fetch' = [fetch EXCEPT !.pc = "resolve", !.image = image, !.index = index]

\* The entry at i is reached without a match: manifest.Platform.Equals is called.
Reached(i) == \A j \in 1..(i - 1) : fetch.index[j] # Platform

\* An index without entries is not looked at.
IndexEmptyResolved ==
  /\ fetch.pc = "resolve" /\ fetch.index = << >>
  /\ fetch' = [fetch EXCEPT !.pc = "resolved", !.entry = 1]

\* resolveImageFromDescriptor: no manifests in index.
IndexEmpty ==
  /\ fetch.pc = "resolve" /\ fetch.index = << >>
  /\ fetch' = Failed(fetch.image)

\* Equals has a value receiver: on an entry without platform the nil pointer
\* panics.  The controller recovers, and the reconcile ends with an error.
PlatformPanics ==
  /\ fetch.pc = "resolve"
  /\ \E i \in DOMAIN fetch.index : fetch.index[i] = NoPlatform /\ Reached(i)
  /\ fetch' = NoFetch

\* The first entry unless it is the last that has the platform.
ResolveLast ==
  /\ fetch.pc = "resolve" /\ fetch.index # << >>
  /\ \A i \in DOMAIN fetch.index : fetch.index[i] = NoPlatform => ~Reached(i)
  /\ fetch' = [fetch EXCEPT !.pc = "resolved",
                 !.entry = IF fetch.index[Len(fetch.index)] = Platform
                           THEN Len(fetch.index) ELSE 1]

\* The first entry with the platform, or the first of all.
Resolve ==
  /\ fetch.pc = "resolve" /\ fetch.index # << >>
  /\ \A i \in DOMAIN fetch.index : fetch.index[i] = NoPlatform => ~Reached(i)
  /\ LET matches == {i \in DOMAIN fetch.index : fetch.index[i] = Platform /\ Reached(i)}
     IN fetch' = [fetch EXCEPT !.pc = "resolved",
                    !.entry = CHOOSE i \in DOMAIN fetch.index :
                                IF matches = {} THEN i = 1 ELSE i \in matches]

\* The manifest or the configuration of the entry cannot be fetched.
EntryFails ==
  /\ fetch.pc = "resolved"
  /\ fetch' = Failed(fetch.image)

\* The metadata goes into the cache under the digest of the index.
Store ==
  /\ fetch.pc = "resolved"
  /\ fetch' = [fetch EXCEPT !.pc = "next", !.todo = @ \ {fetch.image},
                 !.stored = @ \cup {fetch.image}, !.image = "", !.index = << >>, !.entry = 0]

EndReconcile ==
  /\ fetch.pc = "next" /\ fetch.todo = {}
  /\ fetch' = NoFetch

-------------------------------------------------------------------------------

FetchNext ==
  \/ \E object \in Objects : Read(object)
  \/ AssembleFails \/ Assemble
  \/ \E image \in Texts : GetFails(image) \/ \E index \in Indexes : Get(image, index)
  \/ IndexEmpty \/ PlatformPanics \/ Resolve \/ EntryFails \/ Store \/ EndReconcile

FetchSpec == FetchInit /\ [][FetchNext]_fetch

-------------------------------------------------------------------------------
(* Properties.                                                              *)

\* The state is well typed, and an index entry is chosen within the index.
FetchTypeOK ==
  /\ fetch.pc \in {"idle", "read", "next", "resolve", "resolved"}
  /\ fetch.todo \cup fetch.stored \cup fetch.failed \subseteq Texts
  /\ fetch.stored \subseteq ParsedImages
  /\ fetch.pc = "resolved" => fetch.entry \in DOMAIN fetch.index

\* A reconcile looks at the containers that the documentation says it looks at,
\* each with its own position, and at no others, whatever the shape of what is
\* around them: an element that is no container costs itself only.  It uses the
\* pull secrets of the same object (docs/cluster-exporter.md: "The exporter
\* watches the following resource types and extracts container image references
\* from each"; "in the same way the kubelet does").
FoundWhereDocumented ==
  fetch.pc = "read" =>
    LET resource == ResourceOf(fetch.object.kind)
        doc == fetch.object.content
    IN /\ SpecsOf(fetch.object) = DocumentedSpecs(doc, resource.containers)
       /\ DocumentedPullSecrets(doc, resource.pullSecrets) \subseteq AttachedSecrets(fetch.object)

\* An error costs the image that it is about and no other: every image of the
\* object is fetched, failed or still to come, and none is fetched twice
\* (reconciler_test.go: TestReconciler_PerImageErrorIsolation).  A panic
\* (PlatformPanics) is no error: it ends the reconcile with images still to come.
ErrorsIsolated ==
  fetch.pc \in {"next", "resolve", "resolved"} =>
    /\ fetch.images = fetch.todo \cup fetch.stored \cup fetch.failed
    /\ fetch.todo \cap (fetch.stored \cup fetch.failed) = {}

\* The metadata is that of the first entry with the platform, "or if that platform
\* is absent, the first image in the index" (docs/cluster-exporter.md).
ResolvedAsDocumented ==
  fetch.pc = "resolved" =>
    LET has == {i \in DOMAIN fetch.index : fetch.index[i] = Platform}
    IN IF has = {} THEN fetch.entry = 1
       ELSE fetch.entry \in has /\ \A i \in has : fetch.entry <= i

===============================================================================
