------------------------- MODULE ReconcileHistoryProofs -------------------------
(* Proofs about ReconcileHistory: no interleaving of changes, retries and       *)
(* reconciles leaves a change for the next periodic requeue.                    *)
EXTENDS ReconcileHistory, ClusterExporterProofs

\* A behaviour with history is one of ClusterExporter by its definition, so that
\* what is proved of ClusterExporter can be cited.
LEMMA HistoryIsExporter == HistorySpec => Spec
<1>1. HistoryInit => Init
  BY DEF HistoryInit
<1>2. [HistoryNext]_allVars => [Next]_vars
  BY DEF HistoryNext, allVars
<1> QED BY <1>1, <1>2, PTL DEF HistorySpec, Spec

-------------------------------------------------------------------------------
(* What a step does to one workload.                                           *)

\* o is due again within the back-off.
DueSoon(o) == o \in DOMAIN queue /\ queue[o] <= MaxBackoff

\* The worker of o is about to read it.
AboutToRead(o) == worker[KindOf[o]].obj = o /\ worker[KindOf[o]].pc = "read"

\* A change of o that no reconcile has seen is one that some reconcile will.
ActedOn(o) ==
  o \in Live /\ acted[o] # workloads[o] => o \in notify \/ DueSoon(o) \/ AboutToRead(o)

LEMMA ActedOnEverywhere == ChangesActedOn <=> \A o \in Objects : ActedOn(o)
BY DEF ChangesActedOn, ActedOn, DueSoon, AboutToRead, Live

\* Putting an object on the queue makes no object due later than it was.
LEMMA AddAfterKeepsDue ==
  ASSUME TypeInv, NEW o \in Objects, NEW q \in Objects, NEW delay \in 0..MaxDelay,
         AddAfter(q, delay)
  PROVE  /\ DueSoon(o) => DueSoon(o)'
         /\ delay <= MaxBackoff => DueSoon(q)'
BY ExporterAssumption, DelaysInRange DEF AddAfter, With, DueSoon, TypeInv, ControlTypeOK

\* A worker that goes on with its object leaves those about to read alone.
LEMMA OthersStillRead ==
  ASSUME TypeInv, NEW k \in Kinds, NEW o \in Objects, WorkerStep(k), AboutToRead(o)
  PROVE  AboutToRead(o)' \/ KindOf[o] = k
<1> SUFFICES ASSUME KindOf[o] # k PROVE worker'[KindOf[o]] = worker[KindOf[o]]
  BY DEF AboutToRead
<1>0. KindOf[o] \in Kinds
  BY ExporterAssumption
<1>1. CASE StoreImage(k) \/ FetchFails(k)
  BY <1>0, <1>1 DEF StoreImage, FetchFails, Complete, InCall, AboutToRead
<1>2. CASE ~StoreImage(k) /\ ~FetchFails(k)
  BY <1>0, <1>2 DEF WorkerStep, ReadAbsent, ReadFails, Read, Unparseable, CacheHit, CacheExpired,
         CacheMiss, Join, Lead, Resolve, Finish, TypeInv, ControlTypeOK
<1> QED BY <1>1, <1>2

-------------------------------------------------------------------------------
(* Each action.                                                                *)

\* acted changes only for an object that has just been read, and to what the
\* reconcile saw.
LEMMA ActedStep ==
  ASSUME HistoryNext, NEW o \in Objects
  PROVE  \/ acted'[o] = acted[o]
         \/ ReadBy(KindOf[o]) /\ worker[KindOf[o]].obj = o /\ acted'[o] = workloads[o]
BY DEF HistoryNext

\* The cluster: a change is an event, and an event that is delivered is an
\* object that is ready.
LEMMA ClusterActedOn ==
  ASSUME TypeInv, NEW o \in Objects, ActedOn(o), ClusterStep, acted'[o] = acted[o]
  PROVE  ActedOn(o)'
<1>1. worker' = worker
  BY DEF ClusterStep, Change, Delete, Touch, Deliver, TagMoves
<1>2. CASE \E q \in Objects : \E images \in Specs : Change(q, images)
  BY <1>1, <1>2 DEF ActedOn, DueSoon, AboutToRead, Live, Change, TypeInv, ControlTypeOK
<1>3. CASE \E q \in Objects : Delete(q)
  BY <1>1, <1>3 DEF ActedOn, DueSoon, AboutToRead, Live, Delete, TypeInv, ControlTypeOK
<1>4. CASE \E q \in Objects : Touch(q)
  BY <1>1, <1>4 DEF ActedOn, DueSoon, AboutToRead, Live, Touch
<1>5. CASE \E q \in Objects : Deliver(q)
  <2>1. PICK q \in Objects : Deliver(q)
    BY <1>5
  <2>2. CASE q = o
    BY <2>1, <2>2, ExporterAssumption
    DEF ActedOn, DueSoon, Deliver, With, TypeInv, ControlTypeOK
  <2>3. CASE q # o
    BY <1>1, <2>1, <2>3 DEF ActedOn, DueSoon, AboutToRead, Live, Deliver, With
  <2> QED BY <2>2, <2>3
<1>6. CASE \E tag \in Tags, digest \in Digests : TagMoves(tag, digest)
  BY <1>1, <1>6 DEF ActedOn, DueSoon, AboutToRead, Live, TagMoves, clusterVars
<1> QED BY <1>2, <1>3, <1>4, <1>5, <1>6 DEF ClusterStep

\* The clock: what was due soon is due sooner.
LEMMA TickActedOn ==
  ASSUME TypeInv, NEW o \in Objects, ActedOn(o), Tick, acted'[o] = acted[o]
  PROVE  ActedOn(o)'
<1>1. DueSoon(o) => DueSoon(o)'
  BY ExporterAssumption, CacheAssumption
  DEF DueSoon, Tick, TypeInv, ControlTypeOK, MaxDelay, Ages
<1> QED BY <1>1 DEF ActedOn, AboutToRead, Live, Tick, clusterVars

\* The object that leaves the queue is the one its worker is about to read.
LEMMA PopActedOn ==
  ASSUME TypeInv, NEW o \in Objects, NEW q \in Objects, ActedOn(o), Pop(q), acted'[o] = acted[o]
  PROVE  ActedOn(o)'
<1>1. KindOf[q] \in Kinds /\ worker[KindOf[q]] = Idle
  BY ExporterAssumption DEF Pop
<1>2. CASE q = o
  BY <1>1, <1>2 DEF ActedOn, AboutToRead, Pop, Idle, TypeInv, ControlTypeOK
<1>3. CASE q # o
  <2>1. DueSoon(o) => DueSoon(o)'
    BY <1>3 DEF DueSoon, Pop, Restrict
  <2>2. AboutToRead(o) => AboutToRead(o)'
    BY <1>1, ExporterAssumption DEF AboutToRead, Pop, Idle, TypeInv, ControlTypeOK
  <2> QED BY <2>1, <2>2 DEF ActedOn, Live, Pop, clusterVars
<1> QED BY <1>2, <1>3

\* A worker: an object it was about to read is read, gone or retried, and a
\* requeue for later leaves an earlier retry in place.
LEMMA WorkerActedOn ==
  ASSUME TypeInv, NEW o \in Objects, NEW k \in Kinds, ActedOn(o), WorkerStep(k), HistoryNext
  PROVE  ActedOn(o)'
<1>0. UNCHANGED clusterVars /\ KindOf[o] \in Kinds
  BY ExporterAssumption
  DEF WorkerStep, ReadAbsent, ReadFails, Read, Unparseable, CacheHit, CacheExpired,
      CacheMiss, Join, Lead, Resolve, StoreImage, FetchFails, Finish
<1>1. CASE acted'[o] # acted[o]
  BY <1>0, <1>1, ActedStep DEF ActedOn, clusterVars
<1>2. CASE acted'[o] = acted[o]
  <2>1. DueSoon(o) => DueSoon(o)'
    <3>1. CASE ReadFails(k) \/ Finish(k)
      <4>1. worker[k].obj \in Objects
        BY <3>1 DEF ReadFails, Finish, TypeInv, WorkersOwnKind
      <4>2. PICK delay \in 0..MaxDelay : AddAfter(worker[k].obj, delay)
        BY <3>1, DelaysInRange DEF ReadFails, Finish, Retry
      <4> QED BY <4>1, <4>2, AddAfterKeepsDue
    <3>2. CASE ~ReadFails(k) /\ ~Finish(k)
      BY <3>2 DEF DueSoon, WorkerStep, ReadAbsent, Read, Unparseable, CacheHit, CacheExpired,
                  CacheMiss, Join, Lead, Resolve, StoreImage, FetchFails
    <3> QED BY <3>1, <3>2
  <2>2. ASSUME AboutToRead(o), KindOf[o] = k, o \in Live, acted[o] # workloads[o]
        PROVE  DueSoon(o)'
    <3>1. worker[k].pc = "read" /\ worker[k].obj = o
      BY <2>2 DEF AboutToRead
    <3>2. ~Read(k)
      BY <1>2, <2>2, <3>1 DEF Read, ReadBy, HistoryNext, TypeInv, ControlTypeOK, Workers
    <3>3. ReadFails(k)
      BY <2>2, <3>1, <3>2 DEF WorkerStep, ReadAbsent, Unparseable, CacheHit, CacheExpired,
                  CacheMiss, Join, Lead, Resolve, StoreImage, FetchFails, Finish
    <3>4. PICK delay \in 0..MaxBackoff : AddAfter(o, delay)
      BY <3>1, <3>3 DEF ReadFails, Retry
    <3> QED BY <3>4, DelaysInRange, ExporterAssumption, AddAfterKeepsDue
  <2>3. AboutToRead(o) => AboutToRead(o)' \/ KindOf[o] = k
    BY OthersStillRead
  <2> QED BY <1>0, <1>2, <2>1, <2>2, <2>3 DEF ActedOn, Live, clusterVars
<1> QED BY <1>1, <1>2

\* A scrape touches neither the queue nor a worker.
LEMMA ScrapeActedOn ==
  ASSUME NEW o \in Objects, NEW s \in Scrapes, ActedOn(o), BeginScrape(s) \/ ScrapeStep(s),
         acted'[o] = acted[o]
  PROVE  ActedOn(o)'
BY DEF ActedOn, DueSoon, AboutToRead, Live, BeginScrape, ScrapeStep, List, ListFails,
       FinishScrape, clusterVars

-------------------------------------------------------------------------------

\* Every change of a workload that no reconcile has read yet has an event on its
\* way, a retry within the back-off or a worker about to read it, whatever
\* changes, failures and periodic requeues come in between (Reconcile: an error
\* is returned, and AddRateLimited never postpones an entry of the queue).
THEOREM ChangesAreActedOn == HistorySpec => []ChangesActedOn
<1>1. HistoryInit => ChangesActedOn
  BY DEF HistoryInit, Init, ChangesActedOn
<1>2. TypeInv /\ ChangesActedOn /\ [HistoryNext]_allVars => ChangesActedOn'
  <2> SUFFICES ASSUME TypeInv, ChangesActedOn, [HistoryNext]_allVars, NEW o \in Objects
               PROVE  ActedOn(o)'
    BY ActedOnEverywhere DEF ChangesActedOn, ActedOn, DueSoon, AboutToRead, Live
  <2>0. ActedOn(o)
    BY ActedOnEverywhere
  <2>1. CASE UNCHANGED allVars
    BY <2>0, <2>1 DEF ActedOn, DueSoon, AboutToRead, Live, allVars, vars
  <2>2. CASE HistoryNext
    <3>1. ASSUME NEW k \in Kinds, WorkerStep(k) PROVE ActedOn(o)'
      BY <2>0, <2>2, <3>1, WorkerActedOn
    <3>2. ASSUME worker' = worker \/ \E q \in Objects : Pop(q) PROVE acted'[o] = acted[o]
      <4>1. CASE worker' = worker
        BY <4>1, <2>2, ActedStep DEF ReadBy
      <4>2. ASSUME NEW q \in Objects, Pop(q) PROVE ~ReadBy(KindOf[o])
        <5>1. KindOf[o] \in Kinds /\ KindOf[q] \in Kinds
          BY ExporterAssumption
        <5> QED BY <4>2, <5>1 DEF ReadBy, Pop, Idle, TypeInv, ControlTypeOK
      <4> QED BY <3>2, <4>1, <4>2, <2>2, ActedStep
    <3>3. CASE ClusterStep
      BY <2>0, <3>2, <3>3, ClusterActedOn
      DEF ClusterStep, Change, Delete, Touch, Deliver, TagMoves
    <3>4. CASE Tick
      BY <2>0, <3>2, <3>4, TickActedOn DEF Tick
    <3>5. ASSUME NEW q \in Objects, Pop(q) PROVE ActedOn(o)'
      BY <2>0, <3>2, <3>5, PopActedOn
    <3>6. ASSUME NEW s \in Scrapes, BeginScrape(s) \/ ScrapeStep(s) PROVE ActedOn(o)'
      <4>1. worker' = worker
        BY <3>6 DEF BeginScrape, ScrapeStep, List, ListFails, FinishScrape
      <4> QED BY <2>0, <3>2, <3>6, <4>1, ScrapeActedOn
    <3> QED BY <2>2, <3>1, <3>3, <3>4, <3>5, <3>6 DEF HistoryNext, Next
  <2> QED BY <2>1, <2>2
<1> QED BY <1>1, <1>2, HistoryIsExporter, TypeInvariant, PTL DEF HistorySpec

===============================================================================
