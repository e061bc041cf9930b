---------------------------- MODULE ClusterExporter ----------------------------
(***************************************************************************)
(* The running cluster exporter: one controller per watched kind           *)
(* (reconciler.go), the singleflight group and the image cache they share, *)
(* and the Prometheus collector that reads and evicts the cache            *)
(* (metrics.go).                                                           *)
(*                                                                         *)
(* A controller has a work queue and one worker.  A watch event queues an  *)
(* object at once; a reconcile that succeeds queues it again after the     *)
(* cache duration, one that fails after a back-off.  The worker reads the  *)
(* object, then looks up its images one by one, fetching from the registry *)
(* those the cache does not hold.  A scrape notes the time, lists every    *)
(* kind, and evicts what no listed object refers to.                       *)
(*                                                                         *)
(* Workers, scrapes, the clock and the cluster interleave.  A worker step  *)
(* ends where the code takes a lock, calls the registry or calls the API   *)
(* server.                                                                 *)
(***************************************************************************)
EXTENDS ImageCache

CONSTANTS
  Kinds,          \* watched kinds: one controller, with one worker, for each
  Objects,        \* names of workloads
  KindOf,         \* the kind of each workload
  BadImages,      \* image strings that name.ParseReference rejects
  Specs,          \* the sets of images a workload can have
  CanPull,        \* <<object, reference>> that the object's credentials can pull
  Scrapes,        \* scrapes that can be under way at once
  Absent,         \* the value of a workload that does not exist
  NoObject, NoRef,
  CacheDuration,  \* ticks an entry is fresh
  MaxJitter,      \* bound: ticks that addJitter adds at most
  MaxBackoff,     \* bound: ticks that the rate limiter delays a retry at most
  MaxScrape       \* bound: ticks that a scrape lasts at most

Images == Refs \cup BadImages

MaxDelay == CacheDuration + MaxJitter + MaxBackoff

ASSUME ExporterAssumption ==
  /\ KindOf \in [Objects -> Kinds]
  /\ Refs \cap BadImages = {}
  /\ Specs \subseteq SUBSET Images
  /\ Absent \notin Specs
  /\ NoObject \notin Objects
  /\ NoRef \notin Images
  /\ CacheDuration \in 1..MaxAge
  /\ MaxJitter \in Nat /\ MaxBackoff \in Nat
  /\ MaxScrape \in 0..(MaxAge - 1)

VARIABLES
  workloads,  \* what the API server holds: object -> set of images, or Absent
  notify,     \* objects with a watch event that has not reached its queue
  queue,      \* queued objects -> ticks until they are ready
  worker,     \* kind -> the state of its worker
  inflight,   \* keys of the singleflight group's map
  registry,   \* tag -> digest the registry holds for it
  scrape      \* scrape -> the state of its Collect call

clusterVars == <<workloads, notify>>
vars == <<digestMap, imageMap, workloads, notify, queue, worker, inflight, registry, scrape>>

-------------------------------------------------------------------------------

Idle == [pc |-> "idle", obj |-> NoObject, todo |-> {}, failed |-> FALSE,
         ref |-> NoRef, digest |-> NoDigest]

NoScrape == [pc |-> "idle", epoch |-> 0, pending |-> {}, refs |-> {}]

Live == {o \in Objects : workloads[o] # Absent}

\* The references that the objects of kind k in the cluster use.
RefsOfKind(k) ==
  {r \in Refs : \E o \in Live : KindOf[o] = k /\ r \in workloads[o]}

\* The exporter starts, or starts again, on a cluster in any state: all its
\* own state is in memory, and the initial list of each watch is a series of
\* create events.
Init ==
  /\ CacheInit
  /\ workloads \in [Objects -> Specs \cup {Absent}]
  /\ notify = Live
  /\ queue = << >>
  /\ worker = [k \in Kinds |-> Idle]
  /\ inflight = {}
  /\ registry \in [Tags -> Digests]
  /\ scrape = [s \in Scrapes |-> NoScrape]

-------------------------------------------------------------------------------
(* The cluster, the registry and the clock.                                 *)

Change(o, images) ==
  /\ images # workloads[o]
  /\ workloads' = [workloads EXCEPT ![o] = images]
  /\ notify' = notify \cup {o}
  /\ UNCHANGED <<cacheVars, queue, worker, inflight, registry, scrape>>

Delete(o) ==
  /\ o \in Live
  /\ workloads' = [workloads EXCEPT ![o] = Absent]
  /\ notify' = notify \cup {o}
  /\ UNCHANGED <<cacheVars, queue, worker, inflight, registry, scrape>>

\* An update that leaves the images alone (a status change, a resync): the
\* controllers are built without predicates, so it is an event like any other.
Touch(o) ==
  /\ o \in Live
  /\ notify' = notify \cup {o}
  /\ UNCHANGED <<cacheVars, workloads, queue, worker, inflight, registry, scrape>>

\* A watch event reaches its controller: the object is ready now, even if it
\* was queued for later.
Deliver(o) ==
  /\ o \in notify
  /\ notify' = notify \ {o}
  /\ queue' = With(queue, o, 0)
  /\ UNCHANGED <<cacheVars, workloads, worker, inflight, registry, scrape>>

TagMoves(tag, digest) ==
  /\ registry' = [registry EXCEPT ![tag] = digest]
  /\ UNCHANGED <<cacheVars, clusterVars, queue, worker, inflight, scrape>>

\* A scrape under way keeps the clock from running past MaxScrape after its
\* epoch: Collect runs under a 30 second timeout.
Tick ==
  /\ \A s \in Scrapes : scrape[s].pc = "list" => scrape[s].epoch < MaxScrape
  /\ GrowOlder
  /\ queue' = [o \in DOMAIN queue |-> IF queue[o] > 0 THEN queue[o] - 1 ELSE 0]
  /\ scrape' = [s \in Scrapes |->
                  IF scrape[s].pc = "list" THEN [scrape[s] EXCEPT !.epoch = @ + 1]
                  ELSE scrape[s]]
  /\ UNCHANGED <<clusterVars, worker, inflight, registry>>

-------------------------------------------------------------------------------
(* The controller around Reconcile.                                         *)

\* The worker of the object's kind takes it off the queue.
Pop(o) ==
  LET k == KindOf[o]
  IN /\ worker[k] = Idle
     /\ o \in DOMAIN queue /\ queue[o] = 0
     /\ queue' = Restrict(queue, DOMAIN queue \ {o})
     /\ worker' = [worker EXCEPT ![k] = [Idle EXCEPT !.pc = "read", !.obj = o]]
     /\ UNCHANGED <<cacheVars, clusterVars, inflight, registry, scrape>>

\* AddAfter on a queue that holds the object already keeps the earlier time.
AddAfter(o, delay) ==
  queue' = With(queue, o,
             IF o \in DOMAIN queue /\ queue[o] < delay THEN queue[o] ELSE delay)

\* Reconcile returned an error: AddRateLimited.
Retry(o) == \E delay \in 0..MaxBackoff : AddAfter(o, delay)

\* addJitter: the cache duration and up to a sixth more.
Delays == CacheDuration..(CacheDuration + MaxJitter)

-------------------------------------------------------------------------------
(* Reconcile: the object and its keychain.                                  *)

\* The API server no longer has the object: IgnoreNotFound.
ReadAbsent(k) ==
  /\ worker[k].pc = "read"
  /\ worker[k].obj \notin Live
  /\ worker' = [worker EXCEPT ![k] = Idle]
  /\ UNCHANGED <<cacheVars, clusterVars, queue, inflight, registry, scrape>>

\* Reconcile that comes back from such a failure with the ordinary requeue.
ReadFailsQuietly(k) ==
  /\ worker[k].pc = "read"
  /\ worker' = [worker EXCEPT ![k] = Idle]
  /\ \E delay \in Delays : AddAfter(worker[k].obj, delay)
  /\ UNCHANGED <<cacheVars, clusterVars, inflight, registry, scrape>>

\* Getting the object, or constructing its keychain, fails.
ReadFails(k) ==
  /\ worker[k].pc = "read"
  /\ worker' = [worker EXCEPT ![k] = Idle]
  /\ Retry(worker[k].obj)
  /\ UNCHANGED <<cacheVars, clusterVars, inflight, registry, scrape>>

Read(k) ==
  /\ worker[k].pc = "read"
  /\ worker[k].obj \in Live
  /\ worker' = [worker EXCEPT ![k].pc = "next", ![k].todo = workloads[worker[k].obj]]
  /\ UNCHANGED <<cacheVars, clusterVars, queue, inflight, registry, scrape>>

-------------------------------------------------------------------------------
(* Reconcile: getImage for each distinct image of the object.               *)

\* w after its current image is dealt with.
Done(w, image, ok) ==
  [w EXCEPT !.pc = "next", !.todo = @ \ {image}, !.failed = IF ok THEN @ ELSE TRUE,
            !.ref = NoRef, !.digest = NoDigest]

\* getImage that goes on with what ParseReference returned next to its error.
UnparseableFetched(k, image) ==
  /\ worker[k].pc = "next"
  /\ image \in worker[k].todo \cap BadImages
  /\ worker' = [worker EXCEPT ![k].pc = "miss", ![k].ref = image]
  /\ UNCHANGED <<cacheVars, clusterVars, queue, inflight, registry, scrape>>

Unparseable(k, image) ==
  /\ worker[k].pc = "next"
  /\ image \in worker[k].todo \cap BadImages
  /\ worker' = [worker EXCEPT ![k] = Done(@, image, FALSE)]
  /\ UNCHANGED <<cacheVars, clusterVars, queue, inflight, registry, scrape>>

CacheHit(k, ref) ==
  /\ worker[k].pc = "next"
  /\ ref \in worker[k].todo \cap Refs
  /\ Cached(ref)
  /\ AgeOf(ref) < CacheDuration
  /\ worker' = [worker EXCEPT ![k] = Done(@, ref, TRUE)]
  /\ UNCHANGED <<cacheVars, clusterVars, queue, inflight, registry, scrape>>

\* Get returned an entry and no error, the entry has expired, and a nil error
\* is not ErrContainerImageNotFound: getImage returns an error.
CacheExpired(k, ref) ==
  /\ worker[k].pc = "next"
  /\ ref \in worker[k].todo \cap Refs
  /\ Cached(ref)
  /\ AgeOf(ref) >= CacheDuration
  /\ worker' = [worker EXCEPT ![k] = Done(@, ref, FALSE)]
  /\ UNCHANGED <<cacheVars, clusterVars, queue, inflight, registry, scrape>>

CacheMiss(k, ref) ==
  /\ worker[k].pc = "next"
  /\ ref \in worker[k].todo \cap Refs
  /\ ~Cached(ref)
  /\ worker' = [worker EXCEPT ![k].pc = "miss", ![k].ref = ref]
  /\ UNCHANGED <<cacheVars, clusterVars, queue, inflight, registry, scrape>>

-------------------------------------------------------------------------------
(* Reconcile: the fetch, one at a time for each reference.                  *)

\* Inflight.Do finds a call under way for the reference and waits for it.
Join(k) ==
  /\ worker[k].pc = "miss"
  /\ worker[k].ref \in inflight
  /\ worker' = [worker EXCEPT ![k].pc = "wait"]
  /\ UNCHANGED <<cacheVars, clusterVars, queue, inflight, registry, scrape>>

\* A Do that never looks for a call under way.
LeadAlways(k) ==
  /\ worker[k].pc = "miss"
  /\ inflight' = inflight \cup {worker[k].ref}
  /\ worker' = [worker EXCEPT ![k].pc = "fetch"]
  /\ UNCHANGED <<cacheVars, clusterVars, queue, registry, scrape>>

\* Inflight.Do finds none and calls fetchImage.
Lead(k) ==
  /\ worker[k].pc = "miss"
  /\ worker[k].ref \notin inflight
  /\ inflight' = inflight \cup {worker[k].ref}
  /\ worker' = [worker EXCEPT ![k].pc = "fetch"]
  /\ UNCHANGED <<cacheVars, clusterVars, queue, registry, scrape>>

RegistryAnswer(ref) == IF ref \in DigestRefs THEN DigestOf[ref] ELSE registry[ref]

\* remote.Get returns the descriptor.
Resolve(k) ==
  /\ worker[k].pc = "fetch"
  /\ <<worker[k].obj, worker[k].ref>> \in CanPull
  /\ worker' = [worker EXCEPT ![k].pc = "store", ![k].digest = RegistryAnswer(worker[k].ref)]
  /\ UNCHANGED <<cacheVars, clusterVars, queue, inflight, registry, scrape>>

\* The workers whose getImage ends with the call for ref: the one that made it
\* and those that joined.
InCall(ref) ==
  {k \in Kinds : worker[k].pc \in {"fetch", "store", "wait"} /\ worker[k].ref = ref}

\* A call whose end wakes only the worker that made it.
CompleteLeaderOnly(ref, ok) ==
  /\ inflight' = inflight \ {ref}
  /\ worker' = [k \in Kinds |-> IF k \in InCall(ref) /\ worker[k].pc # "wait"
                                THEN Done(worker[k], ref, ok) ELSE worker[k]]

\* The call ends: every worker in it gets its result, or its error.
Complete(ref, ok) ==
  /\ inflight' = inflight \ {ref}
  /\ worker' = [k \in Kinds |-> IF k \in InCall(ref) THEN Done(worker[k], ref, ok)
                                ELSE worker[k]]

\* The manifest and the config arrive, the image goes into the cache and the
\* call ends.
StoreImage(k) ==
  /\ worker[k].pc = "store"
  /\ Put(worker[k].ref, worker[k].digest)
  /\ Complete(worker[k].ref, TRUE)
  /\ UNCHANGED <<clusterVars, queue, registry, scrape>>

\* A request to the registry is refused, fails or times out.
FetchFails(k) ==
  /\ worker[k].pc \in {"fetch", "store"}
  /\ Complete(worker[k].ref, FALSE)
  /\ UNCHANGED <<cacheVars, clusterVars, queue, registry, scrape>>

\* Reconcile that logs the errors of its images and returns no error.
FinishSwallowingErrors(k) ==
  /\ worker[k].pc = "next" /\ worker[k].todo = {}
  /\ worker' = [worker EXCEPT ![k] = Idle]
  /\ IF worker[k].failed THEN UNCHANGED queue
     ELSE \E delay \in Delays : AddAfter(worker[k].obj, delay)
  /\ UNCHANGED <<cacheVars, clusterVars, inflight, registry, scrape>>

\* Every image is dealt with: retry if one of them failed, otherwise come back
\* when the cache duration has passed.
Finish(k) ==
  /\ worker[k].pc = "next" /\ worker[k].todo = {}
  /\ worker' = [worker EXCEPT ![k] = Idle]
  /\ \/ worker[k].failed /\ Retry(worker[k].obj)
     \/ ~worker[k].failed /\ \E delay \in Delays : AddAfter(worker[k].obj, delay)
  /\ UNCHANGED <<cacheVars, clusterVars, inflight, registry, scrape>>

-------------------------------------------------------------------------------
(* Collect.                                                                 *)

BeginScrape(s) ==
  /\ scrape[s] = NoScrape
  /\ scrape' = [scrape EXCEPT ![s].pc = "list", ![s].pending = Kinds]
  /\ UNCHANGED <<cacheVars, clusterVars, queue, worker, inflight, registry>>

\* A list that forgets the references of the kinds listed before.
ListOverwriting(s, k) ==
  /\ scrape[s].pc = "list"
  /\ k \in scrape[s].pending
  /\ scrape' = [scrape EXCEPT ![s].pending = @ \ {k}, ![s].refs = RefsOfKind(k)]
  /\ UNCHANGED <<cacheVars, clusterVars, queue, worker, inflight, registry>>

\* A list that takes the time of the pass anew.
ListResettingEpoch(s, k) ==
  /\ scrape[s].pc = "list"
  /\ k \in scrape[s].pending
  /\ scrape' = [scrape EXCEPT ![s].pending = @ \ {k}, ![s].refs = @ \cup RefsOfKind(k),
                              ![s].epoch = 0]
  /\ UNCHANGED <<cacheVars, clusterVars, queue, worker, inflight, registry>>

\* The objects of one kind are listed.
List(s, k) ==
  /\ scrape[s].pc = "list"
  /\ k \in scrape[s].pending
  /\ scrape' = [scrape EXCEPT ![s].pending = @ \ {k}, ![s].refs = @ \cup RefsOfKind(k)]
  /\ UNCHANGED <<cacheVars, clusterVars, queue, worker, inflight, registry>>

\* A list fails: the scrape reports up = 0 and evicts nothing.
ListFails(s) ==
  /\ scrape[s].pc = "list"
  /\ scrape[s].pending # {}
  /\ scrape' = [scrape EXCEPT ![s] = NoScrape]
  /\ UNCHANGED <<cacheVars, clusterVars, queue, worker, inflight, registry>>

\* A scrape that evicts only when some workload is active.
FinishScrapeIfActive(s) ==
  /\ scrape[s].pc = "list"
  /\ scrape[s].pending = {}
  /\ IF scrape[s].refs = {} THEN UNCHANGED cacheVars
     ELSE Evict(scrape[s].refs, scrape[s].epoch)
  /\ scrape' = [scrape EXCEPT ![s] = NoScrape]
  /\ UNCHANGED <<clusterVars, queue, worker, inflight, registry>>

\* Every kind is listed: the metrics are emitted from what the cache holds, and
\* what is neither active nor newer than the epoch is evicted.
FinishScrape(s) ==
  /\ scrape[s].pc = "list"
  /\ scrape[s].pending = {}
  /\ Evict(scrape[s].refs, scrape[s].epoch)
  /\ scrape' = [scrape EXCEPT ![s] = NoScrape]
  /\ UNCHANGED <<clusterVars, queue, worker, inflight, registry>>

-------------------------------------------------------------------------------

ClusterStep ==
  \/ \E o \in Objects : \/ \E images \in Specs : Change(o, images)
                        \/ Delete(o) \/ Touch(o) \/ Deliver(o)
  \/ \E tag \in Tags, digest \in Digests : TagMoves(tag, digest)

WorkerStep(k) ==
  \/ ReadAbsent(k) \/ ReadFails(k) \/ Read(k)
  \/ \E image \in BadImages : Unparseable(k, image)
  \/ \E ref \in Refs : CacheHit(k, ref) \/ CacheExpired(k, ref) \/ CacheMiss(k, ref)
  \/ Join(k) \/ Lead(k) \/ Resolve(k) \/ StoreImage(k) \/ FetchFails(k) \/ Finish(k)

ScrapeStep(s) ==
  \/ \E k \in Kinds : List(s, k)
  \/ ListFails(s) \/ FinishScrape(s)

Next ==
  \/ ClusterStep
  \/ Tick
  \/ \E o \in Objects : Pop(o)
  \/ \E k \in Kinds : WorkerStep(k)
  \/ \E s \in Scrapes : BeginScrape(s) \/ ScrapeStep(s)

Spec == Init /\ [][Next]_vars

\* Watch events arrive, queues are first come first served, goroutines and the
\* clock run, and the API server does not refuse an object for ever.
RunsOn ==
  /\ WF_vars(Tick)
  /\ \A o \in Objects : WF_vars(Deliver(o)) /\ SF_vars(Pop(o))
  /\ \A k \in Kinds : WF_vars(WorkerStep(k))
  /\ \A o \in Objects : SF_vars(worker[KindOf[o]].obj = o /\ Read(KindOf[o]))
  /\ \A s \in Scrapes : WF_vars(ScrapeStep(s))

\* The registry does not refuse for ever a reference it is asked for again and
\* again by a worker with the credentials for it.
RegistryAnswers ==
  \A k \in Kinds, ref \in Refs :
    /\ SF_vars(worker[k].ref = ref /\ Resolve(k))
    /\ SF_vars(worker[k].ref = ref /\ StoreImage(k))

\* Prometheus keeps scraping, and the API server does not for ever refuse the
\* list that a scrape has come to.
ScrapesSucceed ==
  \A s \in Scrapes :
    /\ WF_vars(BeginScrape(s))
    /\ \A pending \in SUBSET Kinds :
         SF_vars(scrape[s].pending = pending /\ \E k \in Kinds : List(s, k))

FairSpec == Spec /\ RunsOn /\ RegistryAnswers

ScrapedSpec == FairSpec /\ ScrapesSucceed

-------------------------------------------------------------------------------
(* Safety.                                                                  *)

Workers ==
  [pc : {"idle", "read", "next", "miss", "fetch", "store", "wait"},
   obj : Objects \cup {NoObject}, todo : SUBSET Images, failed : BOOLEAN,
   ref : Refs \cup {NoRef}, digest : Digests \cup {NoDigest}]

ScrapeStates ==
  [pc : {"idle", "list"}, epoch : 0..MaxScrape, pending : SUBSET Kinds, refs : SUBSET Refs]

\* The state is well typed; no timer runs longer than MaxDelay and no scrape
\* longer than MaxScrape.
TypeOK ==
  /\ CacheTypeOK
  /\ workloads \in [Objects -> Specs \cup {Absent}]
  /\ notify \subseteq Objects
  /\ DOMAIN queue \subseteq Objects
  /\ queue \in [DOMAIN queue -> 0..MaxDelay]
  /\ worker \in [Kinds -> Workers]
  /\ inflight \subseteq Refs
  /\ registry \in [Tags -> Digests]
  /\ scrape \in [Scrapes -> ScrapeStates]

\* No workload is ever forgotten: one that exists has an event on its way, an
\* entry in its queue or the worker of its kind, after every error path of
\* Reconcile (reconciler.go: "we should periodically check to see if the digest
\* of any of the container images has changed by requeueing the object").
NoLostWakeup ==
  \A o \in Live :
    o \in notify \/ o \in DOMAIN queue \/ worker[KindOf[o]].obj = o

Leads(k, ref) == worker[k].pc \in {"fetch", "store"} /\ worker[k].ref = ref

\* Concurrent fetches of a reference coalesce: each call under way is made by
\* one worker, and a worker waits only for a call that some worker will end
\* (reconciler.go: "Coalesce concurrent fetches for the same image reference").
CallsHaveOneLeader ==
  /\ \A ref \in inflight : \E k \in Kinds : Leads(k, ref)
  /\ \A k1, k2 \in Kinds, ref \in Refs : Leads(k1, ref) /\ Leads(k2, ref) => k1 = k2
  /\ \A k \in Kinds :
       worker[k].pc \in {"fetch", "store", "wait"} => worker[k].ref \in inflight

-------------------------------------------------------------------------------
(* Liveness.                                                                *)

Uses(o, ref) == o \in Live /\ ref \in workloads[o]

\* Every reconcile ends: no worker waits for ever for another's fetch.
ReconcileEnds ==
  \A k \in Kinds : (worker[k].pc # "idle") ~> (worker[k].pc = "idle")

\* An image that a workload uses and may pull gets into the cache, whatever
\* failures the reconciles on the way meet.
UsedImageGetsCached ==
  \A pull \in CanPull :
    Uses(pull[1], pull[2]) ~> (Cached(pull[2]) \/ ~Uses(pull[1], pull[2]))

\* A tag that no workload uses any more leaves the cache for good: fetches that
\* were under way do not bring it back (metrics.go: "Evict cache entries for
\* images no longer referenced by any active workload").
UnusedTagLeaves ==
  \A tag \in Tags :
    <>[](\A o \in Objects : ~Uses(o, tag)) => <>[](tag \notin DOMAIN digestMap)

-------------------------------------------------------------------------------
(* What the comments say, and the code does not do.                         *)

\* reconciler.go: "ensuring the requeue fires AFTER the cache entry has
\* expired, so the reconcile actually triggers a refresh".
ExpiredEntryIsRefreshed ==
  \A pull \in CanPull :
    (Uses(pull[1], pull[2]) /\ Cached(pull[2]) /\ AgeOf(pull[2]) >= CacheDuration)
      ~> (~Cached(pull[2]) \/ AgeOf(pull[2]) < CacheDuration \/ ~Uses(pull[1], pull[2]))

\* cache.go: "Evict removes cached entries not in refs AND cached before
\* olderThan", of the references that a scrape listed.
ListedEntriesKept ==
  [][\A s \in Scrapes : FinishScrape(s) =>
       \A ref \in scrape[s].refs : Cached(ref) => Cached(ref)']_vars

\* No event, retry or reconcile of o is due or under way: it was reconciled and
\* waits for its timer.
Settled(o) ==
  /\ o \notin notify
  /\ worker[KindOf[o]].obj # o
  /\ o \in DOMAIN queue /\ queue[o] > 0

\* metrics.go: "Evict cache entries for images no longer referenced by any
\* active workload. All lists succeeded so activeRefs is complete", of the tags
\* that workloads use when the cache is evicted, and that no reconcile is about
\* to fetch again.
SettledTagsKept ==
  [][\A s \in Scrapes : FinishScrape(s) =>
       \A o \in Objects, tag \in Tags :
         Uses(o, tag) /\ Settled(o) /\ Cached(tag) => Cached(tag)']_vars

===============================================================================
