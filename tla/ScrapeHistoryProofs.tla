-------------------------- MODULE ScrapeHistoryProofs --------------------------
(* Proofs about ScrapeHistory: what an eviction spares, for every number of    *)
(* workloads, kinds and concurrent scrapes.                                    *)
EXTENDS ScrapeHistory, ClusterExporterProofs

\* A behaviour with history is one of ClusterExporter by its definition, so that
\* what is proved of ClusterExporter can be cited.
LEMMA HistoryIsExporter == HistorySpec => Spec
<1>1. HistoryInit => Init
  BY DEF HistoryInit
<1>2. [HistoryNext]_allVars => [Next]_vars
  BY DEF HistoryNext, allVars
<1> QED BY <1>1, <1>2, PTL DEF HistorySpec, Spec

-------------------------------------------------------------------------------
(* Why they hold: what is true of a scrape while it lists.                     *)

\* Once the kind of a steady object is listed, its references are active.
SteadyListed ==
  \A s \in Scrapes : \A o \in steady[s] :
    /\ o \in Live /\ scrape[s].pc = "list"
    /\ KindOf[o] \notin scrape[s].pending => workloads[o] \cap Refs \subseteq scrape[s].refs

\* What was written since the epoch is no older than the epoch.
WrittenIsNew ==
  \A s \in Scrapes : \A ref \in written[s] \cap DOMAIN digestMap :
    /\ scrape[s].pc = "list"
    /\ imageMap[digestMap[ref]] <= scrape[s].epoch

-------------------------------------------------------------------------------
(* How a step changes a scrape that goes on.                                   *)

\* A scrape that is under way before and after a step has listed one more kind
\* or grown older, or is as it was.
LEMMA ScrapeGoesOn ==
  ASSUME TypeInv, Next, NEW s \in Scrapes, scrape[s].pc = "list", ~Ends(s)
  PROVE  /\ scrape'[s].pc = "list"
         /\ \/ scrape'[s] = scrape[s]
            \/ Tick /\ scrape'[s] = [scrape[s] EXCEPT !.epoch = @ + 1]
            \/ \E k \in Kinds : List(s, k)
<1>1. scrape[s] \in ScrapeStates
  BY DEF TypeInv, ControlTypeOK
<1>2. CASE ClusterStep \/ (\E o \in Objects : Pop(o)) \/ (\E k \in Kinds : WorkerStep(k))
  BY <1>2 DEF ClusterStep, Change, Delete, Touch, Deliver, TagMoves, Pop, WorkerStep, ReadAbsent,
              ReadFails, Read, Unparseable, CacheHit, CacheExpired, CacheMiss, Join, Lead, Resolve,
              StoreImage, FetchFails, Finish
<1>3. CASE Tick
  BY <1>1, <1>3 DEF Tick, ScrapeStates
<1>4. ASSUME NEW r \in Scrapes, r # s, BeginScrape(r) \/ ScrapeStep(r)
      PROVE  scrape'[s] = scrape[s]
  BY <1>4 DEF BeginScrape, ScrapeStep, List, ListFails, FinishScrape, TypeInv, ControlTypeOK
<1>5. ~BeginScrape(s) /\ ~ListFails(s) /\ ~FinishScrape(s)
  BY DEF BeginScrape, ListFails, FinishScrape, NoScrape, Ends, TypeInv, ControlTypeOK
<1>6. CASE \E k \in Kinds : List(s, k)
  <2>1. PICK k \in Kinds : List(s, k)
    BY <1>6
  <2>2. scrape' = [scrape EXCEPT ![s].pending = @ \ {k}, ![s].refs = @ \cup RefsOfKind(k)]
    BY <2>1 DEF List
  <2>3. scrape'[s].pc = scrape[s].pc
    BY <1>1, <2>2 DEF TypeInv, ControlTypeOK, ScrapeStates
  <2> QED BY <1>6, <2>3
<1> QED BY <1>2, <1>3, <1>4, <1>5, <1>6 DEF Next, ScrapeStep

\* The facts about one List step that the invariants need.
LEMMA ListAdds ==
  ASSUME TypeInv, NEW s \in Scrapes, NEW k \in Kinds, List(s, k)
  PROVE  /\ scrape'[s].pending = scrape[s].pending \ {k}
         /\ scrape'[s].refs = scrape[s].refs \cup RefsOfKind(k)
         /\ scrape'[s].epoch = scrape[s].epoch
         /\ UNCHANGED <<cacheVars, clusterVars>>
<1>1. scrape[s] \in ScrapeStates
  BY DEF TypeInv, ControlTypeOK
<1>2. scrape' = [scrape EXCEPT ![s].pending = @ \ {k}, ![s].refs = @ \cup RefsOfKind(k)]
  BY DEF List
<1> QED BY <1>1, <1>2 DEF List, TypeInv, ControlTypeOK, ScrapeStates

-------------------------------------------------------------------------------
(* What steady workloads use is active.                                        *)

LEMMA SteadyStep ==
  ASSUME TypeInv, SteadyListed, [HistoryNext]_allVars
  PROVE  SteadyListed'
<1>1. CASE UNCHANGED allVars
  BY <1>1 DEF SteadyListed, Live, allVars, vars, historyVars
<1>2. CASE HistoryNext
  <2> SUFFICES ASSUME NEW s \in Scrapes, NEW o \in steady'[s]
               PROVE  /\ o \in Live' /\ scrape'[s].pc = "list"
                      /\ KindOf[o] \notin scrape'[s].pending =>
                           workloads'[o] \cap Refs \subseteq scrape'[s].refs
    BY DEF SteadyListed
  <2>1. CASE Begins(s)
    <3>1. o \in Live
      BY <1>2, <2>1 DEF HistoryNext
    <3>2. BeginScrape(s)
      <4>1. ASSUME NEW r \in Scrapes, r # s, BeginScrape(r) \/ ScrapeStep(r)
            PROVE  scrape'[s] = scrape[s]
        BY <4>1 DEF BeginScrape, ScrapeStep, List, ListFails, FinishScrape, TypeInv, ControlTypeOK
      <4>2. scrape[s].pc = "idle" /\ scrape'[s].pc = "list"
        BY <2>1 DEF Begins
      <4>3. ~ScrapeStep(s)
        BY <4>2 DEF ScrapeStep, List, ListFails, FinishScrape
      <4>4. ~ClusterStep /\ ~Tick /\ (\A q \in Objects : ~Pop(q)) /\ (\A k \in Kinds : ~WorkerStep(k))
        BY <4>2 DEF ClusterStep, Change, Delete, Touch, Deliver, TagMoves, Tick, Pop, WorkerStep,
               ReadAbsent, ReadFails, Read, Unparseable, CacheHit, CacheExpired, CacheMiss, Join,
               Lead, Resolve, StoreImage, FetchFails, Finish
      <4> QED BY <1>2, <4>1, <4>2, <4>3, <4>4 DEF HistoryNext, Next
    <3>3. scrape'[s].pending = Kinds /\ UNCHANGED workloads
      BY <3>2 DEF BeginScrape, NoScrape, clusterVars, TypeInv, ControlTypeOK
    <3>4. KindOf[o] \in Kinds
      BY <3>1, ExporterAssumption DEF Live
    <3> QED BY <2>1, <3>1, <3>3, <3>4 DEF Begins, Live
  <2>2. CASE ~Begins(s)
    <3>1. ~Ends(s) /\ o \in steady[s] /\ workloads'[o] = workloads[o]
      BY <1>2, <2>2 DEF HistoryNext
    <3>2. /\ o \in Live /\ scrape[s].pc = "list"
          /\ KindOf[o] \notin scrape[s].pending => workloads[o] \cap Refs \subseteq scrape[s].refs
      BY <3>1 DEF SteadyListed
    <3>3. o \in Live' /\ scrape[s] \in ScrapeStates
      BY <3>1, <3>2 DEF Live, TypeInv, ControlTypeOK
    <3>4. CASE \E k \in Kinds : List(s, k)
      <4>1. PICK k \in Kinds : List(s, k)
        BY <3>4
      <4>2. KindOf[o] = k => workloads[o] \cap Refs \subseteq RefsOfKind(k)
        BY <3>2 DEF RefsOfKind
      <4>3. /\ scrape'[s].pending = scrape[s].pending \ {k}
            /\ scrape'[s].refs = scrape[s].refs \cup RefsOfKind(k)
        BY <4>1, ListAdds
      <4>4. scrape'[s].pc = "list"
        BY <1>2, <3>1, <3>2, ScrapeGoesOn DEF HistoryNext
      <4> QED BY <3>1, <3>2, <3>3, <4>2, <4>3, <4>4
    <3>5. CASE scrape'[s] = scrape[s]
      BY <3>1, <3>2, <3>3, <3>5
    <3>6. CASE scrape'[s] = [scrape[s] EXCEPT !.epoch = @ + 1]
      BY <3>1, <3>2, <3>3, <3>6 DEF ScrapeStates
    <3> QED BY <1>2, <3>1, <3>2, <3>4, <3>5, <3>6, ScrapeGoesOn DEF HistoryNext
  <2> QED BY <2>1, <2>2
<1> QED BY <1>1, <1>2

\* An eviction after a complete list keeps the entries of active tags.
LEMMA EvictKeepsActive ==
  ASSUME CacheInv, NEW refs, NEW olderThan, Evict(refs, olderThan),
         NEW tag \in Tags \cap refs, Cached(tag)
  PROVE  Cached(tag)' /\ DigestFor(tag)' = DigestFor(tag)
<1>1. tag \in DOMAIN digestMap /\ DigestFor(tag) = digestMap[tag] /\ tag \notin DigestRefs
  BY CacheAssumption DEF Cached, DigestFor, Tags, CacheInv, CacheTypeOK
<1>2. tag \in KeptRefs(refs, olderThan) /\ digestMap[tag] \in DOMAIN imageMap
  BY <1>1 DEF KeptRefs, Cached
<1>3. tag \in DOMAIN digestMap' /\ digestMap'[tag] = digestMap[tag]
  BY <1>2 DEF Evict, Restrict
<1>4. digestMap[tag] \in DOMAIN imageMap'
  BY <1>2 DEF Evict, Restrict
<1>5. DigestFor(tag)' = digestMap[tag]
  BY <1>1, <1>3 DEF DigestFor, DigestRefs
<1> QED BY <1>1, <1>4, <1>5 DEF Cached

\* No scrape ever drops a tag that some workload used all the while it ran.
THEOREM SteadyTagsAreKept == HistorySpec => SteadyTagsKept
<1>1. HistoryInit => SteadyListed
  BY DEF HistoryInit, SteadyListed
<1>2. HistorySpec => [](TypeInv /\ SteadyListed)
  BY <1>1, SteadyStep, HistoryIsExporter, TypeInvariant, PTL DEF HistorySpec
<1>3. TypeInv /\ SteadyListed /\ [HistoryNext]_allVars =>
        [\A s \in Scrapes : FinishScrape(s) =>
           \A o \in steady[s] : \A tag \in workloads[o] \cap Tags :
             Cached(tag) => Cached(tag)' /\ DigestFor(tag)' = DigestFor(tag)]_allVars
  <2> SUFFICES ASSUME TypeInv, SteadyListed, NEW s \in Scrapes, FinishScrape(s),
                      NEW o \in steady[s], NEW tag \in workloads[o] \cap Tags, Cached(tag)
               PROVE  Cached(tag)' /\ DigestFor(tag)' = DigestFor(tag)
    OBVIOUS
  <2>1. scrape[s].pending = {} /\ Evict(scrape[s].refs, scrape[s].epoch)
    BY DEF FinishScrape
  <2>2. tag \in scrape[s].refs
    BY <2>1 DEF SteadyListed, Tags
  <2> QED BY <2>1, <2>2, EvictKeepsActive DEF TypeInv
<1> QED BY <1>2, <1>3, PTL DEF HistorySpec, SteadyTagsKept

-------------------------------------------------------------------------------
(* What was written while a scrape ran is newer than its epoch.                *)

\* The ways a step can change the cache.
LEMMA CacheChanges ==
  ASSUME TypeInv, Next
  PROVE  \/ UNCHANGED cacheVars /\ ~Tick
         \/ \E ref \in Refs, digest \in Digests : Put(ref, digest) /\ UNCHANGED scrape
         \/ \E r \in Scrapes : FinishScrape(r)
         \/ Tick
<1>1. CASE ClusterStep
  BY <1>1 DEF ClusterStep, Change, Delete, Touch, Deliver, TagMoves
<1>2. CASE \E o \in Objects : Pop(o)
  BY <1>2 DEF Pop
<1>3. ASSUME NEW k \in Kinds, WorkerStep(k), ~StoreImage(k) PROVE UNCHANGED cacheVars
  BY <1>3 DEF WorkerStep, ReadAbsent, ReadFails, Read, Unparseable, CacheHit, CacheExpired,
              CacheMiss, Join, Lead, Resolve, FetchFails, Finish
<1>4. ASSUME NEW k \in Kinds, StoreImage(k)
      PROVE  \E ref \in Refs, digest \in Digests : Put(ref, digest) /\ UNCHANGED scrape
  <2>1. worker[k].ref \in Refs /\ worker[k].digest \in Digests
    BY <1>4, RegistryAnswerType DEF StoreImage, TypeInv, WorkersOwnKind
  <2> QED BY <1>4, <2>1 DEF StoreImage
<1>5. ASSUME NEW r \in Scrapes, BeginScrape(r) \/ ScrapeStep(r), ~FinishScrape(r)
      PROVE  UNCHANGED cacheVars
  BY <1>5 DEF BeginScrape, ScrapeStep, List, ListFails
<1> QED BY <1>1, <1>2, <1>3, <1>4, <1>5 DEF Next

LEMMA WrittenStep ==
  ASSUME TypeInv, WrittenIsNew, [HistoryNext]_allVars
  PROVE  WrittenIsNew'
<1>1. CASE UNCHANGED allVars
  BY <1>1 DEF WrittenIsNew, allVars, vars, cacheVars, historyVars
<1>2. CASE HistoryNext
  <2> SUFFICES ASSUME NEW s \in Scrapes, NEW ref \in written'[s] \cap DOMAIN digestMap'
               PROVE  /\ scrape'[s].pc = "list"
                      /\ imageMap'[digestMap'[ref]] <= scrape'[s].epoch
    BY DEF WrittenIsNew
  <2>1. ~Begins(s) /\ ~Ends(s) /\ ref \in written[s] \cup StoredRefs
    BY <1>2 DEF HistoryNext
  <2>2. TypeInv' /\ Next
    BY <1>2, ClusterStepType, TickType, PopType, WorkerStepType, ScrapeStepType DEF HistoryNext, Next
  <2>3. /\ scrape[s] \in ScrapeStates /\ scrape'[s] \in ScrapeStates
        /\ scrape[s].pc = "list" /\ scrape'[s].pc = "list"
    BY <2>1, <2>2 DEF Begins, Ends, TypeInv, ControlTypeOK, ScrapeStates
  <2>4. scrape[s].epoch \in Nat /\ scrape'[s].epoch \in Nat
    BY <2>3, ExporterAssumption, CacheAssumption DEF ScrapeStates
  <2>5. CASE ref \in StoredRefs
    <3>1. PICK digest : Put(ref, digest)
      BY <2>5 DEF StoredRefs
    <3>2. imageMap'[digestMap'[ref]] = 0
      BY <3>1 DEF Put, With
    <3> QED BY <2>3, <2>4, <3>2
  <2>6. CASE ref \in written[s]
    <3>1. ref \in DOMAIN digestMap => imageMap[digestMap[ref]] <= scrape[s].epoch
      BY <2>6 DEF WrittenIsNew
    <3>2. CASE Tick
      <4>1. /\ ref \in DOMAIN digestMap /\ digestMap'[ref] = digestMap[ref]
            /\ digestMap[ref] \in DOMAIN imageMap
            /\ imageMap[digestMap[ref]] \in Ages
        BY <3>2 DEF Tick, GrowOlder, TypeInv, CacheInv, NoDanglingRef, CacheTypeOK
      <4>2. scrape[s].epoch < MaxScrape /\ scrape'[s].epoch = scrape[s].epoch + 1
        BY <2>3, <3>2 DEF Tick, ScrapeStates
      <4>3. imageMap'[digestMap[ref]] = imageMap[digestMap[ref]] + 1
        BY <2>4, <3>1, <3>2, <4>1, <4>2, ExporterAssumption, CacheAssumption DEF Tick, GrowOlder, Ages
      <4> QED BY <2>3, <2>4, <3>1, <4>1, <4>2, <4>3, CacheAssumption DEF Ages
    <3>3. CASE ~Tick
      <4>1. scrape'[s].epoch = scrape[s].epoch
        BY <2>1, <2>2, <2>3, <3>3, ListAdds, ScrapeGoesOn
      <4>2. CASE UNCHANGED cacheVars
        BY <2>3, <3>1, <4>1, <4>2 DEF cacheVars
      <4>3. CASE \E r \in Refs, digest \in Digests : Put(r, digest)
        <5>1. PICK r \in Refs, digest \in Digests : Put(r, digest)
          BY <4>3
        <5>2. CASE digestMap'[ref] = digest
          BY <2>3, <2>4, <5>1, <5>2 DEF Put, With
        <5>3. CASE digestMap'[ref] # digest
          BY <2>3, <3>1, <4>1, <5>1, <5>3 DEF Put, With, TypeInv, CacheInv, NoDanglingRef
        <5> QED BY <5>2, <5>3
      <4>4. CASE \E r \in Scrapes : FinishScrape(r)
        <5>1. PICK r \in Scrapes : FinishScrape(r)
          BY <4>4
        <5>2. ref \in KeptRefs(scrape[r].refs, scrape[r].epoch)
          BY <5>1 DEF FinishScrape, Evict, Restrict
        <5>3. ref \in DOMAIN digestMap /\ digestMap[ref] \in DOMAIN imageMap
          BY <5>2 DEF KeptRefs, TypeInv, CacheInv, NoDanglingRef
        <5>4. digestMap'[ref] = digestMap[ref] /\ imageMap'[digestMap[ref]] = imageMap[digestMap[ref]]
          BY <5>1, <5>2, <5>3 DEF FinishScrape, Evict, Restrict
        <5> QED BY <2>3, <3>1, <4>1, <5>3, <5>4
      <4> QED BY <2>2, <3>3, <4>2, <4>3, <4>4, CacheChanges
    <3> QED BY <3>2, <3>3
  <2> QED BY <2>1, <2>5, <2>6
<1> QED BY <1>1, <1>2

\* No scrape ever drops an entry that a reconcile wrote while it ran, however
\* the writes, the lists and other scrapes interleave.
THEOREM ConcurrentWritesAreKept == HistorySpec => ConcurrentWritesKept
<1>1. HistoryInit => WrittenIsNew
  BY DEF HistoryInit, WrittenIsNew
<1>2. HistorySpec => [](TypeInv /\ WrittenIsNew)
  BY <1>1, WrittenStep, HistoryIsExporter, TypeInvariant, PTL DEF HistorySpec
<1>3. TypeInv /\ WrittenIsNew /\ [HistoryNext]_allVars =>
        [\A s \in Scrapes : FinishScrape(s) =>
           \A ref \in written[s] \cap DOMAIN digestMap :
             ref \in DOMAIN digestMap' /\ digestMap'[ref] \in DOMAIN imageMap']_allVars
  <2> SUFFICES ASSUME TypeInv, WrittenIsNew, NEW s \in Scrapes, FinishScrape(s),
                      NEW ref \in written[s] \cap DOMAIN digestMap
               PROVE  ref \in DOMAIN digestMap' /\ digestMap'[ref] \in DOMAIN imageMap'
    OBVIOUS
  <2>1. Evict(scrape[s].refs, scrape[s].epoch)
    BY DEF FinishScrape
  <2>2. ref \in KeptRefs(scrape[s].refs, scrape[s].epoch)
    BY DEF KeptRefs, Protected, WrittenIsNew, TypeInv, CacheInv, NoDanglingRef
  <2>3. digestMap[ref] \in DOMAIN imageMap
    BY DEF TypeInv, CacheInv, NoDanglingRef
  <2> QED BY <2>1, <2>2, <2>3 DEF Evict, Restrict
<1> QED BY <1>2, <1>3, PTL DEF HistorySpec, ConcurrentWritesKept

===============================================================================
