------------------------- MODULE ClusterExporterProofs -------------------------
(* Proofs about ClusterExporter, for every set of workloads, kinds, images     *)
(* and scrapes and every cache duration, jitter, back-off and bound.           *)
EXTENDS ClusterExporter, ImageCacheProofs

-------------------------------------------------------------------------------
(* Types.  The cache's part comes from the lemmas of ImageCacheProofs.         *)

\* The variables of the controllers, the cluster and the scrapes.
ControlTypeOK ==
  /\ workloads \in [Objects -> Specs \cup {Absent}]
  /\ notify \subseteq Objects
  /\ DOMAIN queue \subseteq Objects
  /\ queue \in [DOMAIN queue -> 0..MaxDelay]
  /\ worker \in [Kinds -> Workers]
  /\ inflight \subseteq Refs
  /\ registry \in [Tags -> Digests]
  /\ scrape \in [Scrapes -> ScrapeStates]

\* A worker that has an object has one of its own kind.
WorkersOwnKind ==
  \A k \in Kinds :
    /\ worker[k].pc # "idle" => worker[k].obj \in Objects /\ KindOf[worker[k].obj] = k
    /\ worker[k].pc \in {"miss", "fetch", "store", "wait"} => worker[k].ref \in Refs
    /\ worker[k].pc = "store" => worker[k].digest \in Answers(worker[k].ref)

TypeInv == ControlTypeOK /\ CacheInv /\ WorkersOwnKind

\* Putting an object on the queue keeps the queue's type.
LEMMA AddAfterType ==
  ASSUME ControlTypeOK, NEW o \in Objects, NEW delay \in 0..MaxDelay, AddAfter(o, delay)
  PROVE  DOMAIN queue' \subseteq Objects /\ queue' \in [DOMAIN queue' -> 0..MaxDelay]
BY DEF ControlTypeOK, AddAfter, With

LEMMA DelaysInRange ==
  /\ 0..MaxBackoff \subseteq 0..MaxDelay
  /\ Delays \subseteq 0..MaxDelay
BY ExporterAssumption, CacheAssumption DEF MaxDelay, Delays, Ages

\* What the registry answers is an answer the cache expects.
LEMMA RegistryAnswerType ==
  ASSUME ControlTypeOK, NEW ref \in Refs
  PROVE  RegistryAnswer(ref) \in Answers(ref) /\ Answers(ref) \subseteq Digests
BY CacheAssumption DEF ControlTypeOK, RegistryAnswer, Answers, Tags, DigestRefs

\* Dealing with an image changes a worker's place, not its object.
LEMMA DoneType ==
  ASSUME NEW w \in Workers, NEW image, NEW ok \in BOOLEAN
  PROVE  /\ Done(w, image, ok) \in Workers
         /\ Done(w, image, ok).pc = "next"
         /\ Done(w, image, ok).obj = w.obj
BY DEF Workers, Done

\* The end of a fetch leaves every worker well typed and with its object.
LEMMA CompleteType ==
  ASSUME ControlTypeOK, WorkersOwnKind, NEW ref, NEW ok \in BOOLEAN, Complete(ref, ok)
  PROVE  /\ worker' \in [Kinds -> Workers]
         /\ inflight' \subseteq Refs
         /\ WorkersOwnKind'
<1>1. ASSUME NEW k \in Kinds
      PROVE  /\ worker'[k] \in Workers
             /\ worker'[k].obj = worker[k].obj
             /\ worker'[k] = worker[k] \/ (worker'[k].pc = "next" /\ worker[k].pc # "idle")
  <2>1. CASE k \in InCall(ref)
    BY <2>1, DoneType DEF ControlTypeOK, Complete, InCall
  <2>2. CASE k \notin InCall(ref)
    BY <2>2 DEF ControlTypeOK, Complete
  <2> QED BY <2>1, <2>2
<1>2. worker' \in [Kinds -> Workers]
  BY <1>1 DEF Complete
<1>3. WorkersOwnKind'
  BY <1>1 DEF WorkersOwnKind
<1> QED BY <1>2, <1>3 DEF ControlTypeOK, Complete

THEOREM InitType == Init => TypeInv
<1> SUFFICES ASSUME Init PROVE TypeInv
  OBVIOUS
<1>1. CacheInv
  BY DEF Init, CacheInit, CacheInv, CacheTypeOK, NoDanglingRef
<1>2. ControlTypeOK
  BY ExporterAssumption DEF Init, ControlTypeOK, Live, Idle, Workers, NoScrape, ScrapeStates
<1>3. WorkersOwnKind
  BY DEF Init, WorkersOwnKind, Idle
<1> QED BY <1>1, <1>2, <1>3 DEF TypeInv

\* Nothing that TypeInv speaks of depends on more than these three groups, so
\* each step below changes one of them and leaves the others.
LEMMA CacheUnchanged ==
  ASSUME CacheInv, UNCHANGED cacheVars
  PROVE  CacheInv'
BY DEF CacheInv, CacheTypeOK, NoDanglingRef, cacheVars

\* Steps of the cluster, the clock and the scrapes leave the workers alone.
LEMMA ClusterStepType ==
  ASSUME TypeInv, ClusterStep
  PROVE  TypeInv'
<1>1. UNCHANGED cacheVars /\ UNCHANGED worker
  BY DEF ClusterStep, Change, Delete, Touch, Deliver, TagMoves
<1>2. CacheInv' /\ WorkersOwnKind'
  BY <1>1, CacheUnchanged DEF TypeInv, WorkersOwnKind
<1>3. CASE \E o \in Objects : \E images \in Specs : Change(o, images)
  BY <1>2, <1>3 DEF TypeInv, ControlTypeOK, Change, clusterVars
<1>4. CASE \E o \in Objects : Delete(o)
  BY <1>2, <1>4 DEF TypeInv, ControlTypeOK, Delete
<1>5. CASE \E o \in Objects : Touch(o)
  BY <1>2, <1>5 DEF TypeInv, ControlTypeOK, Touch
<1>6. CASE \E o \in Objects : Deliver(o)
  <2>1. PICK o \in Objects : Deliver(o)
    BY <1>6
  <2>2. DOMAIN queue' \subseteq Objects /\ queue' \in [DOMAIN queue' -> 0..MaxDelay]
    BY <2>1, DelaysInRange, ExporterAssumption, CacheAssumption
       DEF TypeInv, ControlTypeOK, Deliver, With, MaxDelay, Ages
  <2> QED BY <1>2, <2>1, <2>2 DEF TypeInv, ControlTypeOK, Deliver
<1>7. CASE \E tag \in Tags, digest \in Digests : TagMoves(tag, digest)
  BY <1>2, <1>7 DEF TypeInv, ControlTypeOK, TagMoves, clusterVars
<1> QED BY <1>3, <1>4, <1>5, <1>6, <1>7 DEF ClusterStep

LEMMA TickType ==
  ASSUME TypeInv, Tick
  PROVE  TypeInv'
<1>1. CacheInv'
  BY GrowOlderPreserves DEF TypeInv, Tick
<1>2. DOMAIN queue' \subseteq Objects /\ queue' \in [DOMAIN queue' -> 0..MaxDelay]
  BY ExporterAssumption, CacheAssumption DEF TypeInv, ControlTypeOK, Tick, MaxDelay, Ages
<1>3. scrape' \in [Scrapes -> ScrapeStates]
  <2>1. ASSUME NEW s \in Scrapes PROVE scrape'[s] \in ScrapeStates
    BY ExporterAssumption, CacheAssumption DEF TypeInv, ControlTypeOK, Tick, ScrapeStates
  <2> QED BY <2>1 DEF Tick
<1> QED BY <1>1, <1>2, <1>3 DEF TypeInv, ControlTypeOK, WorkersOwnKind, Tick, clusterVars

LEMMA PopType ==
  ASSUME TypeInv, NEW o \in Objects, Pop(o)
  PROVE  TypeInv'
<1>1. CacheInv'
  BY CacheUnchanged DEF TypeInv, Pop
<1>2. worker' \in [Kinds -> Workers]
  BY ExporterAssumption DEF TypeInv, ControlTypeOK, Pop, Idle, Workers
<1>3. WorkersOwnKind'
  BY ExporterAssumption DEF TypeInv, ControlTypeOK, WorkersOwnKind, Pop, Idle
<1>4. DOMAIN queue' \subseteq Objects /\ queue' \in [DOMAIN queue' -> 0..MaxDelay]
  BY DEF TypeInv, ControlTypeOK, Pop, Restrict
<1> QED BY <1>1, <1>2, <1>3, <1>4 DEF TypeInv, ControlTypeOK, Pop, clusterVars

\* A scrape touches the cache only when it ends.
LEMMA ScrapeStepType ==
  ASSUME TypeInv, NEW s \in Scrapes, BeginScrape(s) \/ ScrapeStep(s)
  PROVE  TypeInv'
<1>1. UNCHANGED <<clusterVars, queue, worker, inflight, registry>>
  BY DEF BeginScrape, ScrapeStep, List, ListFails, FinishScrape
<1>2. CacheInv'
  <2>1. CASE FinishScrape(s)
    BY <2>1, EvictPreserves DEF TypeInv, FinishScrape
  <2>2. CASE ~FinishScrape(s)
    BY <2>2, CacheUnchanged DEF TypeInv, BeginScrape, ScrapeStep, List, ListFails
  <2> QED BY <2>1, <2>2
<1>3. scrape' \in [Scrapes -> ScrapeStates]
  <2>1. CASE BeginScrape(s)
    <3>1. [scrape[s] EXCEPT !.pc = "list", !.pending = Kinds] \in ScrapeStates
      BY DEF TypeInv, ControlTypeOK, ScrapeStates
    <3> QED BY <2>1, <3>1 DEF TypeInv, ControlTypeOK, BeginScrape
  <2>2. CASE \E k \in Kinds : List(s, k)
    <3>1. PICK k \in Kinds : List(s, k)
      BY <2>2
    <3>2. RefsOfKind(k) \subseteq Refs
      BY DEF RefsOfKind
    <3> QED BY <3>1, <3>2 DEF TypeInv, ControlTypeOK, List, ScrapeStates
  <2>3. CASE ListFails(s) \/ FinishScrape(s)
    BY <2>3, ExporterAssumption, CacheAssumption
       DEF TypeInv, ControlTypeOK, ListFails, FinishScrape, NoScrape, ScrapeStates
  <2> QED BY <2>1, <2>2, <2>3 DEF ScrapeStep
<1> QED BY <1>1, <1>2, <1>3 DEF TypeInv, ControlTypeOK, WorkersOwnKind, clusterVars

\* A step of a worker that changes its own record only, to a record of the
\* right type that keeps its object.
LEMMA OwnRecordType ==
  ASSUME TypeInv, NEW k \in Kinds, NEW w \in Workers,
         worker' = [worker EXCEPT ![k] = w],
         w.pc # "idle" => w.obj = worker[k].obj /\ worker[k].pc # "idle",
         w.pc \in {"miss", "fetch", "store", "wait"} => w.ref \in Refs,
         w.pc = "store" => w.digest \in Answers(w.ref)
  PROVE  worker' \in [Kinds -> Workers] /\ WorkersOwnKind'
<1>1. worker' \in [Kinds -> Workers]
  BY DEF TypeInv, ControlTypeOK
<1>2. ASSUME NEW j \in Kinds
      PROVE  /\ worker'[j].pc # "idle" => worker'[j].obj \in Objects /\ KindOf[worker'[j].obj] = j
             /\ worker'[j].pc \in {"miss", "fetch", "store", "wait"} => worker'[j].ref \in Refs
             /\ worker'[j].pc = "store" => worker'[j].digest \in Answers(worker'[j].ref)
  <2>1. worker'[j] = IF j = k THEN w ELSE worker[j]
    BY DEF TypeInv, ControlTypeOK
  <2>2. CASE j = k
    BY <2>1, <2>2 DEF TypeInv, WorkersOwnKind
  <2>3. CASE j # k
    BY <2>1, <2>3 DEF TypeInv, WorkersOwnKind
  <2> QED BY <2>2, <2>3
<1> QED BY <1>1, <1>2 DEF WorkersOwnKind

LEMMA IdleType == Idle \in Workers /\ Idle.pc = "idle"
BY DEF Idle, Workers

\* Every step of a worker keeps the types.
LEMMA WorkerStepType ==
  ASSUME TypeInv, NEW k \in Kinds, WorkerStep(k)
  PROVE  TypeInv'
<1> DEFINE w == worker[k]
<1>0. w \in Workers /\ UNCHANGED <<clusterVars, registry, scrape>>
  BY DEF TypeInv, ControlTypeOK, WorkerStep, ReadAbsent, ReadFails, Read, Unparseable,
         CacheHit, CacheExpired, CacheMiss, Join, Lead, Resolve, StoreImage, FetchFails, Finish
<1>1. CASE ReadAbsent(k)
  <2>1. worker' \in [Kinds -> Workers] /\ WorkersOwnKind'
    BY <1>1, OwnRecordType, IdleType DEF ReadAbsent
  <2> QED BY <1>1, <2>1, CacheUnchanged DEF TypeInv, ControlTypeOK, ReadAbsent, clusterVars
<1>2. CASE ReadFails(k)
  <2>1. worker' \in [Kinds -> Workers] /\ WorkersOwnKind'
    BY <1>2, OwnRecordType, IdleType DEF ReadFails
  <2>2. w.obj \in Objects
    BY <1>2 DEF ReadFails, TypeInv, WorkersOwnKind
  <2>3. DOMAIN queue' \subseteq Objects /\ queue' \in [DOMAIN queue' -> 0..MaxDelay]
    BY <1>2, <2>2, AddAfterType, DelaysInRange DEF ReadFails, Retry, TypeInv
  <2> QED BY <1>2, <2>1, <2>3, CacheUnchanged DEF TypeInv, ControlTypeOK, ReadFails, clusterVars
<1>3. CASE Read(k)
  <2>1. workloads[w.obj] \in SUBSET Images
    BY <1>3, ExporterAssumption DEF Read, Live, TypeInv, ControlTypeOK
  <2>2. [w EXCEPT !.pc = "next", !.todo = workloads[w.obj]] \in Workers
    BY <1>0, <2>1 DEF Workers
  <2>3. worker' = [worker EXCEPT ![k] = [w EXCEPT !.pc = "next", !.todo = workloads[w.obj]]]
    BY <1>3 DEF Read
  <2>4. worker' \in [Kinds -> Workers] /\ WorkersOwnKind'
    <3> DEFINE v == [w EXCEPT !.pc = "next", !.todo = workloads[w.obj]]
    <3>1. v \in Workers /\ v.pc = "next" /\ v.obj = w.obj /\ w.pc = "read"
      BY <1>0, <1>3, <2>2 DEF Read, Workers
    <3> HIDE DEF v
    <3> QED BY <2>3, <3>1, OwnRecordType DEF v
  <2> QED BY <1>3, <2>4, CacheUnchanged DEF TypeInv, ControlTypeOK, Read, clusterVars
<1>4. ASSUME NEW image, NEW ok \in BOOLEAN, w.pc = "next",
             worker' = [worker EXCEPT ![k] = Done(w, image, ok)]
      PROVE  worker' \in [Kinds -> Workers] /\ WorkersOwnKind'
  <2>1. /\ Done(w, image, ok) \in Workers
        /\ Done(w, image, ok).pc = "next"
        /\ Done(w, image, ok).obj = w.obj
    BY <1>0, DoneType
  <2> QED BY <1>4, <2>1, OwnRecordType
<1>5. CASE \E image \in BadImages : Unparseable(k, image)
  <2>1. worker' \in [Kinds -> Workers] /\ WorkersOwnKind'
    BY <1>4, <1>5 DEF Unparseable
  <2> QED BY <1>5, <2>1, CacheUnchanged DEF TypeInv, ControlTypeOK, Unparseable, clusterVars
<1>6. CASE \E ref \in Refs : CacheHit(k, ref) \/ CacheExpired(k, ref)
  <2>1. worker' \in [Kinds -> Workers] /\ WorkersOwnKind'
    BY <1>4, <1>6 DEF CacheHit, CacheExpired
  <2> QED BY <1>6, <2>1, CacheUnchanged
          DEF TypeInv, ControlTypeOK, CacheHit, CacheExpired, clusterVars
<1>7. CASE \E ref \in Refs : CacheMiss(k, ref)
  <2>1. PICK ref \in Refs : CacheMiss(k, ref)
    BY <1>7
  <2>2. worker' \in [Kinds -> Workers] /\ WorkersOwnKind'
    <3> DEFINE v == [w EXCEPT !.pc = "miss", !.ref = ref]
    <3>1. v \in Workers /\ v.pc = "miss" /\ v.obj = w.obj /\ v.ref = ref /\ w.pc = "next"
      BY <1>0, <2>1 DEF CacheMiss, Workers
    <3>2. worker' = [worker EXCEPT ![k] = v]
      BY <2>1 DEF CacheMiss
    <3> HIDE DEF v
    <3> QED BY <3>1, <3>2, OwnRecordType
  <2> QED BY <2>1, <2>2, CacheUnchanged DEF TypeInv, ControlTypeOK, CacheMiss, clusterVars
<1>8. CASE Join(k)
  <2>1. worker' \in [Kinds -> Workers] /\ WorkersOwnKind'
    <3> DEFINE v == [w EXCEPT !.pc = "wait"]
    <3>1. v \in Workers /\ v.pc = "wait" /\ v.obj = w.obj /\ v.ref = w.ref /\ w.pc = "miss"
      BY <1>0, <1>8 DEF Join, Workers
    <3>2. worker' = [worker EXCEPT ![k] = v] /\ w.ref \in Refs
      BY <1>8 DEF Join, TypeInv, WorkersOwnKind
    <3> HIDE DEF v
    <3> QED BY <3>1, <3>2, OwnRecordType
  <2> QED BY <1>8, <2>1, CacheUnchanged DEF TypeInv, ControlTypeOK, Join, clusterVars
<1>9. CASE Lead(k)
  <2>1. w.pc = "miss" /\ w.ref \in Refs
    BY <1>9 DEF Lead, TypeInv, WorkersOwnKind
  <2>2. worker' \in [Kinds -> Workers] /\ WorkersOwnKind'
    <3> DEFINE v == [w EXCEPT !.pc = "fetch"]
    <3>1. v \in Workers /\ v.pc = "fetch" /\ v.obj = w.obj /\ v.ref = w.ref
      BY <1>0 DEF Workers
    <3>2. worker' = [worker EXCEPT ![k] = v]
      BY <1>9 DEF Lead
    <3> HIDE DEF v
    <3> QED BY <2>1, <3>1, <3>2, OwnRecordType
  <2> QED BY <1>9, <2>1, <2>2, CacheUnchanged DEF TypeInv, ControlTypeOK, Lead, clusterVars
<1>10. CASE Resolve(k)
  <2>1. w.pc = "fetch" /\ w.ref \in Refs
    BY <1>10 DEF Resolve, TypeInv, WorkersOwnKind
  <2>2. RegistryAnswer(w.ref) \in Answers(w.ref) /\ RegistryAnswer(w.ref) \in Digests
    BY <2>1, RegistryAnswerType DEF TypeInv
  <2>3. worker' \in [Kinds -> Workers] /\ WorkersOwnKind'
    <3> DEFINE v == [w EXCEPT !.pc = "store", !.digest = RegistryAnswer(w.ref)]
    <3>1. /\ v \in Workers /\ v.pc = "store" /\ v.obj = w.obj /\ v.ref = w.ref
          /\ v.digest = RegistryAnswer(w.ref)
      BY <1>0, <2>2 DEF Workers
    <3>2. worker' = [worker EXCEPT ![k] = v]
      BY <1>10 DEF Resolve
    <3> HIDE DEF v
    <3> QED BY <2>1, <2>2, <3>1, <3>2, OwnRecordType
  <2> QED BY <1>10, <2>3, CacheUnchanged DEF TypeInv, ControlTypeOK, Resolve, clusterVars
<1>11. CASE StoreImage(k)
  <2>1. w.ref \in Refs /\ w.digest \in Digests
    BY <1>11, RegistryAnswerType DEF StoreImage, TypeInv, WorkersOwnKind
  <2>2. CacheInv'
    BY <1>11, <2>1, PutPreserves DEF StoreImage, TypeInv
  <2>3. /\ worker' \in [Kinds -> Workers]
        /\ inflight' \subseteq Refs
        /\ WorkersOwnKind'
    BY <1>11, CompleteType DEF StoreImage, TypeInv
  <2> QED BY <1>11, <2>2, <2>3 DEF TypeInv, ControlTypeOK, StoreImage, clusterVars
<1>12. CASE FetchFails(k)
  <2>1. /\ worker' \in [Kinds -> Workers]
        /\ inflight' \subseteq Refs
        /\ WorkersOwnKind'
    BY <1>12, CompleteType DEF FetchFails, TypeInv
  <2> QED BY <1>12, <2>1, CacheUnchanged DEF TypeInv, ControlTypeOK, FetchFails, clusterVars
<1>13. CASE Finish(k)
  <2>1. worker' \in [Kinds -> Workers] /\ WorkersOwnKind'
    BY <1>13, OwnRecordType, IdleType DEF Finish
  <2>2. w.obj \in Objects
    BY <1>13 DEF Finish, TypeInv, WorkersOwnKind
  <2>3. DOMAIN queue' \subseteq Objects /\ queue' \in [DOMAIN queue' -> 0..MaxDelay]
    BY <1>13, <2>2, AddAfterType, DelaysInRange DEF Finish, Retry, TypeInv
  <2> QED BY <1>13, <2>1, <2>3, CacheUnchanged DEF TypeInv, ControlTypeOK, Finish, clusterVars
<1> QED BY <1>1, <1>2, <1>3, <1>5, <1>6, <1>7, <1>8, <1>9, <1>10, <1>11, <1>12, <1>13
        DEF WorkerStep

\* Every reachable state is well typed, the cache's two maps agree in it, and a
\* worker deals with objects of its own kind only.
THEOREM TypeInvariant == Spec => []TypeInv
<1>1. TypeInv /\ [Next]_vars => TypeInv'
  <2> SUFFICES ASSUME TypeInv, [Next]_vars PROVE TypeInv'
    OBVIOUS
  <2>1. CASE UNCHANGED vars
    BY <2>1, CacheUnchanged DEF TypeInv, ControlTypeOK, WorkersOwnKind, vars, cacheVars
  <2> QED BY <2>1, ClusterStepType, TickType, PopType, WorkerStepType, ScrapeStepType DEF Next
<1> QED BY InitType, <1>1, PTL DEF Spec

THEOREM TypeCorrect == Spec => []TypeOK
<1>1. TypeInv => TypeOK
  BY DEF TypeInv, CacheInv, ControlTypeOK, TypeOK
<1> QED BY TypeInvariant, <1>1, PTL

-------------------------------------------------------------------------------
(* No workload is forgotten.                                                   *)

\* The object a worker has, of the steps that keep it.
LEMMA KeepsObjects ==
  ASSUME TypeInv, NEW k \in Kinds,
         WorkerStep(k), ~ReadAbsent(k), ~ReadFails(k), ~Finish(k)
  PROVE  /\ \A j \in Kinds : worker'[j].obj = worker[j].obj
         /\ UNCHANGED <<clusterVars, queue>>
<1>1. ASSUME StoreImage(k) \/ FetchFails(k)
      PROVE  /\ \A j \in Kinds : worker'[j].obj = worker[j].obj
             /\ UNCHANGED <<clusterVars, queue>>
  <2>1. PICK ok \in BOOLEAN : Complete(worker[k].ref, ok)
    BY <1>1 DEF StoreImage, FetchFails
  <2>2. ASSUME NEW j \in Kinds PROVE worker'[j].obj = worker[j].obj
    BY <2>1, DoneType DEF Complete, TypeInv, ControlTypeOK
  <2> QED BY <1>1, <2>2 DEF StoreImage, FetchFails
<1>2. ASSUME ~StoreImage(k), ~FetchFails(k)
      PROVE  /\ \A j \in Kinds : worker'[j].obj = worker[j].obj
             /\ UNCHANGED <<clusterVars, queue>>
  <2>0. worker[k] \in Workers
    BY DEF TypeInv, ControlTypeOK
  <2>1. CASE \/ \E image \in BadImages : Unparseable(k, image)
             \/ \E ref \in Refs : CacheHit(k, ref) \/ CacheExpired(k, ref)
    <3>1. ASSUME NEW image, NEW ok \in BOOLEAN,
                 worker' = [worker EXCEPT ![k] = Done(worker[k], image, ok)]
          PROVE  \A j \in Kinds : worker'[j].obj = worker[j].obj
      <4>1. Done(worker[k], image, ok).obj = worker[k].obj
        BY <2>0, DoneType
      <4> QED BY <3>1, <4>1 DEF TypeInv, ControlTypeOK
    <3> QED BY <2>1, <3>1 DEF Unparseable, CacheHit, CacheExpired
  <2>2. CASE Read(k) \/ Join(k) \/ Lead(k) \/ Resolve(k) \/ \E ref \in Refs : CacheMiss(k, ref)
    BY <2>0, <2>2 DEF Read, CacheMiss, Join, Lead, Resolve, TypeInv, ControlTypeOK, Workers
  <2> QED BY <1>2, <2>1, <2>2 DEF WorkerStep
<1> QED BY <1>1, <1>2

LEMMA AddAfterQueues ==
  ASSUME NEW o, NEW delay, AddAfter(o, delay)
  PROVE  DOMAIN queue' = DOMAIN queue \cup {o}
BY DEF AddAfter, With

LEMMA WakeupStep ==
  ASSUME TypeInv, NoLostWakeup, [Next]_vars
  PROVE  NoLostWakeup'
<1> USE DEF Live
<1>1. CASE ClusterStep
  BY <1>1 DEF NoLostWakeup, TypeInv, ControlTypeOK, ClusterStep, Change, Delete, Touch, Deliver,
              TagMoves, With, clusterVars
<1>2. CASE Tick
  BY <1>2 DEF NoLostWakeup, Tick, clusterVars
<1>3. CASE \E o \in Objects : Pop(o)
  <2>1. PICK o \in Objects : Pop(o)
    BY <1>3
  <2>2. KindOf[o] \in Kinds /\ worker[KindOf[o]] = Idle /\ NoObject \notin Objects
    BY <2>1, ExporterAssumption DEF Pop
  <2>3. /\ worker'[KindOf[o]].obj = o
        /\ \A j \in Kinds \ {KindOf[o]} : worker'[j] = worker[j]
        /\ DOMAIN queue' = DOMAIN queue \ {o}
        /\ UNCHANGED clusterVars
    BY <2>1, <2>2 DEF Pop, Idle, Restrict, TypeInv, ControlTypeOK
  <2>4. ASSUME NEW q \in Live'
        PROVE  q \in notify' \/ q \in DOMAIN queue' \/ worker'[KindOf[q]].obj = q
    <3>1. q \in Live /\ KindOf[q] \in Kinds
      BY <2>3, <2>4, ExporterAssumption DEF clusterVars
    <3>2. CASE q = o
      BY <2>3, <3>2
    <3>3. CASE q # o
      <4>1. worker[KindOf[q]].obj = q => KindOf[q] # KindOf[o]
        BY <2>2, <3>1 DEF Idle
      <4> QED BY <2>3, <3>1, <3>3, <4>1 DEF NoLostWakeup, clusterVars
    <3> QED BY <3>2, <3>3
  <2> QED BY <2>4 DEF NoLostWakeup
<1>4. ASSUME NEW k \in Kinds, WorkerStep(k) PROVE NoLostWakeup'
  <2>1. CASE ReadAbsent(k)
    <3>1. /\ worker[k].obj \notin Live
          /\ \A j \in Kinds \ {k} : worker'[j] = worker[j]
          /\ UNCHANGED <<clusterVars, queue>>
      BY <2>1 DEF ReadAbsent, TypeInv, ControlTypeOK
    <3> QED BY <3>1, ExporterAssumption DEF NoLostWakeup, clusterVars
  <2>2. CASE ReadFails(k) \/ Finish(k)
    <3>1. /\ \A j \in Kinds \ {k} : worker'[j] = worker[j]
          /\ UNCHANGED clusterVars
      BY <2>2 DEF ReadFails, Finish, TypeInv, ControlTypeOK
    <3>2. DOMAIN queue' = DOMAIN queue \cup {worker[k].obj}
      BY <2>2, AddAfterQueues DEF ReadFails, Finish, Retry
    <3> QED BY <3>1, <3>2, ExporterAssumption DEF NoLostWakeup, clusterVars
  <2>3. CASE ~ReadAbsent(k) /\ ~ReadFails(k) /\ ~Finish(k)
    BY <1>4, <2>3, KeepsObjects, ExporterAssumption DEF NoLostWakeup, clusterVars
  <2> QED BY <2>1, <2>2, <2>3
<1>5. ASSUME NEW s \in Scrapes, BeginScrape(s) \/ ScrapeStep(s) PROVE NoLostWakeup'
  BY <1>5 DEF NoLostWakeup, BeginScrape, ScrapeStep, List, ListFails, FinishScrape, clusterVars
<1>6. CASE UNCHANGED vars
  BY <1>6 DEF NoLostWakeup, vars
<1> QED BY <1>1, <1>2, <1>3, <1>4, <1>5, <1>6 DEF Next

\* No interleaving of events, retries, periodic requeues and reconciles loses a
\* workload: it is always on its way to another reconcile.
THEOREM NoWorkloadForgotten == Spec => []NoLostWakeup
<1>1. Init => NoLostWakeup
  BY DEF Init, NoLostWakeup
<1> QED BY <1>1, TypeInvariant, WakeupStep, PTL DEF Spec

-------------------------------------------------------------------------------
(* One fetch at a time for each reference.                                     *)

Calling == {"fetch", "store", "wait"}

\* A step of a worker that is in no call before it and after it.
LEMMA OutsideCalls ==
  ASSUME CallsHaveOneLeader, NEW k \in Kinds, UNCHANGED inflight,
         worker[k].pc \notin Calling, worker'[k].pc \notin Calling,
         \A j \in Kinds \ {k} : worker'[j] = worker[j]
  PROVE  CallsHaveOneLeader'
BY DEF CallsHaveOneLeader, Leads, Calling

\* The end of a call takes every worker in it out of it, and nobody else.
LEMMA CompleteCalls ==
  ASSUME TypeInv, CallsHaveOneLeader, NEW ref \in Refs, NEW ok \in BOOLEAN, Complete(ref, ok)
  PROVE  CallsHaveOneLeader'
<1>1. ASSUME NEW k \in Kinds, k \in InCall(ref) PROVE worker'[k].pc = "next"
  BY <1>1, DoneType DEF Complete, TypeInv, ControlTypeOK
<1>2. ASSUME NEW k \in Kinds, k \notin InCall(ref) PROVE worker'[k] = worker[k]
  BY <1>2 DEF Complete
<1>3. inflight' = inflight \ {ref}
  BY DEF Complete
<1>4. ASSUME NEW k \in Kinds, NEW r, Leads(k, r)'
      PROVE  Leads(k, r) /\ k \notin InCall(ref) /\ r # ref
  BY <1>1, <1>2, <1>4 DEF Leads, InCall
<1>5. ASSUME NEW k \in Kinds, NEW r, Leads(k, r), r # ref PROVE Leads(k, r)'
  BY <1>2, <1>5 DEF Leads, InCall
<1>6. ASSUME NEW k \in Kinds, worker'[k].pc \in Calling PROVE worker'[k].ref \in inflight'
  BY <1>1, <1>2, <1>3, <1>6 DEF CallsHaveOneLeader, Calling, InCall
<1>7. \A r \in inflight' : \E k \in Kinds : Leads(k, r)'
  BY <1>3, <1>5 DEF CallsHaveOneLeader
<1>8. \A k1, k2 \in Kinds, r \in Refs : Leads(k1, r)' /\ Leads(k2, r)' => k1 = k2
  BY <1>4 DEF CallsHaveOneLeader
<1> QED BY <1>6, <1>7, <1>8 DEF CallsHaveOneLeader, Calling

LEMMA CallsStep ==
  ASSUME TypeInv, CallsHaveOneLeader, [Next]_vars
  PROVE  CallsHaveOneLeader'
<1>1. CASE UNCHANGED <<worker, inflight>>
  BY <1>1 DEF CallsHaveOneLeader, Leads
<1>2. ASSUME NEW o \in Objects, Pop(o) PROVE CallsHaveOneLeader'
  <2>1. KindOf[o] \in Kinds
    BY ExporterAssumption
  <2>2. /\ worker[KindOf[o]].pc = "idle" /\ worker'[KindOf[o]].pc = "read"
        /\ \A j \in Kinds \ {KindOf[o]} : worker'[j] = worker[j]
        /\ UNCHANGED inflight
    BY <1>2, <2>1 DEF Pop, Idle, TypeInv, ControlTypeOK
  <2> QED BY <2>1, <2>2, OutsideCalls DEF Calling
<1>3. ASSUME NEW k \in Kinds, WorkerStep(k) PROVE CallsHaveOneLeader'
  <2> DEFINE w == worker[k]
  <2>0. w \in Workers
    BY DEF TypeInv, ControlTypeOK
  <2>1. CASE ReadAbsent(k) \/ ReadFails(k) \/ Finish(k)
    <3>1. /\ w.pc \in {"read", "next"} /\ worker'[k].pc = "idle" /\ UNCHANGED inflight
          /\ \A j \in Kinds \ {k} : worker'[j] = worker[j]
      BY <2>1 DEF ReadAbsent, ReadFails, Finish, Idle, TypeInv, ControlTypeOK
    <3> QED BY <3>1, OutsideCalls DEF Calling
  <2>2. CASE Read(k) \/ \E ref \in Refs : CacheMiss(k, ref)
    <3>1. /\ w.pc \in {"read", "next"} /\ worker'[k].pc \in {"next", "miss"}
          /\ UNCHANGED inflight
          /\ \A j \in Kinds \ {k} : worker'[j] = worker[j]
      BY <2>0, <2>2 DEF Read, CacheMiss, TypeInv, ControlTypeOK, Workers
    <3> QED BY <3>1, OutsideCalls DEF Calling
  <2>3. CASE \/ \E image \in BadImages : Unparseable(k, image)
             \/ \E ref \in Refs : CacheHit(k, ref) \/ CacheExpired(k, ref)
    <3>1. ASSUME NEW image, NEW ok \in BOOLEAN, w.pc = "next", UNCHANGED inflight,
                 worker' = [worker EXCEPT ![k] = Done(w, image, ok)]
          PROVE  CallsHaveOneLeader'
      <4>1. Done(w, image, ok).pc = "next"
        BY <2>0, DoneType
      <4>2. worker'[k].pc = "next" /\ \A j \in Kinds \ {k} : worker'[j] = worker[j]
        BY <3>1, <4>1 DEF TypeInv, ControlTypeOK
      <4> QED BY <3>1, <4>2, OutsideCalls DEF Calling
    <3> QED BY <2>3, <3>1 DEF Unparseable, CacheHit, CacheExpired
  <2>4. CASE Join(k)
    <3>1. /\ w.pc = "miss" /\ worker'[k].pc = "wait" /\ worker'[k].ref = w.ref
          /\ w.ref \in inflight /\ UNCHANGED inflight
          /\ \A j \in Kinds \ {k} : worker'[j] = worker[j]
      BY <2>0, <2>4 DEF Join, TypeInv, ControlTypeOK, Workers
    <3> QED BY <3>1 DEF CallsHaveOneLeader, Leads
  <2>5. CASE Lead(k)
    <3>1. /\ w.pc = "miss" /\ worker'[k].pc = "fetch" /\ worker'[k].ref = w.ref
          /\ w.ref \notin inflight /\ inflight' = inflight \cup {w.ref}
          /\ \A j \in Kinds \ {k} : worker'[j] = worker[j]
      BY <2>0, <2>5 DEF Lead, TypeInv, ControlTypeOK, Workers
    <3>2. ASSUME NEW j \in Kinds PROVE ~Leads(j, w.ref)
      BY <3>1 DEF CallsHaveOneLeader, Leads
    <3> QED BY <3>1, <3>2 DEF CallsHaveOneLeader, Leads
  <2>6. CASE Resolve(k)
    <3>1. /\ w.pc = "fetch" /\ worker'[k].pc = "store" /\ worker'[k].ref = w.ref
          /\ UNCHANGED inflight
          /\ \A j \in Kinds \ {k} : worker'[j] = worker[j]
      BY <2>0, <2>6 DEF Resolve, TypeInv, ControlTypeOK, Workers
    <3> QED BY <3>1 DEF CallsHaveOneLeader, Leads
  <2>7. CASE StoreImage(k) \/ FetchFails(k)
    <3>1. w.ref \in Refs
      BY <2>7 DEF StoreImage, FetchFails, TypeInv, WorkersOwnKind
    <3> QED BY <2>7, <3>1, CompleteCalls DEF StoreImage, FetchFails
  <2> QED BY <1>3, <2>1, <2>2, <2>3, <2>4, <2>5, <2>6, <2>7 DEF WorkerStep
<1>4. CASE ClusterStep \/ Tick \/ \E s \in Scrapes : BeginScrape(s) \/ ScrapeStep(s)
  BY <1>1, <1>4 DEF ClusterStep, Change, Delete, Touch, Deliver, TagMoves, Tick, BeginScrape,
                    ScrapeStep, List, ListFails, FinishScrape
<1> QED BY <1>1, <1>2, <1>3, <1>4 DEF Next, vars

\* However many controllers miss the cache at once, each reference is fetched by
\* one of them, and whoever waits waits for a call that somebody will end.
THEOREM OneFetchPerReference == Spec => []CallsHaveOneLeader
<1>1. Init => CallsHaveOneLeader
  BY DEF Init, CallsHaveOneLeader, Leads, Idle
<1> QED BY <1>1, TypeInvariant, CallsStep, PTL DEF Spec

-------------------------------------------------------------------------------
(* The cache inside the exporter.                                              *)

\* Whatever its controllers and scrapes do, the exporter uses the cache in the
\* ways that ImageCache allows: a digest is stored for a reference that can have
\* it, and no eviction is older than the cache can tell.
THEOREM ExporterUsesCache == Spec => CacheSpec
<1>1. Init => CacheInit
  BY DEF Init
<1>2. TypeInv /\ [Next]_vars => [CacheNext]_cacheVars
  <2> SUFFICES ASSUME TypeInv, [Next]_vars PROVE CacheNext \/ UNCHANGED cacheVars
    OBVIOUS
  <2>1. CASE Tick
    BY <2>1 DEF Tick, CacheNext
  <2>2. ASSUME NEW k \in Kinds, WorkerStep(k) PROVE CacheNext \/ UNCHANGED cacheVars
    <3>1. CASE StoreImage(k)
      <4>1. worker[k].ref \in Refs /\ worker[k].digest \in Answers(worker[k].ref)
        BY <3>1 DEF StoreImage, TypeInv, WorkersOwnKind
      <4> QED BY <3>1, <4>1 DEF StoreImage, CacheNext
    <3>2. CASE ~StoreImage(k)
      BY <2>2, <3>2
      DEF WorkerStep, ReadAbsent, ReadFails, Read, Unparseable, CacheHit, CacheExpired,
          CacheMiss, Join, Lead, Resolve, FetchFails, Finish
    <3> QED BY <3>1, <3>2
  <2>3. ASSUME NEW s \in Scrapes, BeginScrape(s) \/ ScrapeStep(s)
        PROVE  CacheNext \/ UNCHANGED cacheVars
    <3>1. CASE FinishScrape(s)
      <4>1. scrape[s].refs \in SUBSET Refs /\ scrape[s].epoch \in 0..MaxScrape
        BY DEF TypeInv, ControlTypeOK, ScrapeStates
      <4>2. scrape[s].epoch \in 0..(MaxAge - 1)
        BY <4>1, ExporterAssumption, CacheAssumption
      <4> QED BY <3>1, <4>1, <4>2 DEF FinishScrape, CacheNext
    <3>2. CASE ~FinishScrape(s)
      BY <2>3, <3>2 DEF BeginScrape, ScrapeStep, List, ListFails
    <3> QED BY <3>1, <3>2
  <2>4. CASE ClusterStep \/ (\E o \in Objects : Pop(o)) \/ UNCHANGED vars
    BY <2>4 DEF ClusterStep, Change, Delete, Touch, Deliver, TagMoves, Pop, vars, cacheVars
  <2> QED BY <2>1, <2>2, <2>3, <2>4 DEF Next
<1> QED BY <1>1, <1>2, TypeInvariant, PTL DEF Spec, CacheSpec

\* The exporter keeps the contract of the cache's interface: under every
\* interleaving of reconciles and scrapes, seen through tags, an entry goes only
\* in an eviction that finds it inactive and old.
THEOREM ExporterKeepsContract == Spec => ImplementsContract
BY ExporterUsesCache, CacheRefinement, PTL

===============================================================================
