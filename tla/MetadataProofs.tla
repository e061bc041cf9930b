---------------------------- MODULE MetadataProofs ----------------------------
(* Proofs about the way of the metadata: WatchedResources, ScrapeEmission and   *)
(* WorkloadFetch, for every set of resources, objects, containers and images.   *)
EXTENDS WatchedResources, WorkloadFetch, ScrapeEmission, ImageCacheProofs, WellFoundedInduction,
        SequenceTheorems

-------------------------------------------------------------------------------
(* WatchedResources.                                                           *)

StartTypeOK ==
  /\ access \in [Additional -> {"absent", "forbidden", "listable"}]
  /\ startup \in [pc : {"discover", "check", "run"}, found : SUBSET Additional,
                  watched : SUBSET (Additional \cup Builtin)]
  /\ steady \subseteq Additional /\ unlisted \subseteq Additional /\ missed \subseteq Additional

\* What was listable ever since the start is so now, and what never was is not.
HistoryMatches ==
  /\ \A r \in steady : access[r] = "listable"
  /\ \A r \in unlisted : access[r] # "listable"

\* Until all lists are tried, what is not missed is still to be tried or watched.
NothingDropped ==
  startup.pc = "check" => steady \ missed \subseteq startup.found \cup startup.watched

StartInv ==
  /\ StartTypeOK /\ HistoryMatches /\ NothingDropped
  /\ MissingAccessIsHarmless /\ FailuresCostTheirOwn

\* A fresh start has the invariant.
LEMMA FreshStartInv ==
  ASSUME access' \in [Additional -> {"absent", "forbidden", "listable"}],
         FreshStart, access' = access
  PROVE  StartInv'
BY DEF FreshStart, StartInv, StartTypeOK, HistoryMatches, NothingDropped, Ready, Listable,
       Stopped, MissingAccessIsHarmless, FailuresCostTheirOwn

\* The invariant survives every step.
LEMMA StartInvStep == StartInv /\ [StartNext]_startVars => StartInv'
<1> SUFFICES ASSUME StartInv, [StartNext]_startVars PROVE StartInv'
  OBVIOUS
<1> USE ResourcesAssumption DEF StartInv, StartTypeOK, HistoryMatches, NothingDropped,
      MissingAccessIsHarmless, FailuresCostTheirOwn, history
<1>1. ASSUME NEW r \in Additional, NEW to \in {"absent", "forbidden", "listable"},
             ChangeAccess(r, to)
      PROVE  StartInv'
  BY <1>1 DEF ChangeAccess
<1>2. CASE Restart
  BY <1>2, FreshStartInv DEF Restart
<1>3. CASE DiscoverFails
  BY <1>3, FreshStartInv DEF DiscoverFails, Restart
<1>4. CASE Run
  BY <1>4 DEF Run
<1>5. ASSUME NEW failed \in SUBSET Groups, Discover(failed) PROVE StartInv'
  BY <1>5 DEF Discover
<1>6. ASSUME NEW r \in Additional, Check(r) PROVE StartInv'
  BY <1>6 DEF Check, Listable
<1>7. ASSUME NEW r \in Additional, CheckFails(r) PROVE StartInv'
  BY <1>7 DEF CheckFails
<1>8. CASE UNCHANGED startVars
  BY <1>8 DEF startVars
<1> QED BY <1>1, <1>2, <1>3, <1>4, <1>5, <1>6, <1>7, <1>8 DEF StartNext

\* Whatever is installed, permitted and failing when, no resource is watched that
\* could not be listed at any time since the start.
THEOREM MissingAccessHarmsNoScrape == StartSpec => []MissingAccessIsHarmless
<1>1. StartInit => StartInv
  BY ResourcesAssumption DEF StartInit, StartInv, StartTypeOK, HistoryMatches, NothingDropped,
     Ready, Listable, Stopped, MissingAccessIsHarmless, FailuresCostTheirOwn
<1>2. StartInv => MissingAccessIsHarmless
  BY DEF StartInv
<1> QED BY <1>1, <1>2, StartInvStep, PTL DEF StartSpec

\* Whatever fails, what was installed and could be listed all the while is watched
\* unless its own group or list failed.
THEOREM FailuresCostOnlyTheirOwn == StartSpec => []FailuresCostTheirOwn
<1>1. StartInit => StartInv
  BY ResourcesAssumption DEF StartInit, StartInv, StartTypeOK, HistoryMatches, NothingDropped,
     Ready, Listable, Stopped, MissingAccessIsHarmless, FailuresCostTheirOwn
<1>2. StartInv => FailuresCostTheirOwn
  BY DEF StartInv
<1> QED BY <1>1, <1>2, StartInvStep, PTL DEF StartSpec

-------------------------------------------------------------------------------
(* ScrapeEmission.                                                             *)

Images == UNION {[P -> Refs \cup {BadImage}] : P \in SUBSET Containers}

Scrapes ==
  [pc : {"idle", "list", "emit"}, epoch : 0..(MaxAge - 1), image : Images, todo : SUBSET Containers,
   active : SUBSET Refs, info : SUBSET (Containers \X (Digests \cup {NoDigest})),
   series : [Digests -> Nat], oldest : Ages \cup {NoEntry}]

\* The references of the containers that are done with are active.
DoneIsActive ==
  /\ scrape.todo \subseteq DOMAIN scrape.image
  /\ \A c \in DOMAIN scrape.image \ scrape.todo :
       scrape.image[c] \in Refs => scrape.image[c] \in scrape.active

EmissionInv ==
  /\ CacheInv /\ scrape \in Scrapes /\ DoneIsActive
  /\ DigestSeriesJoinInfo /\ OldestIsOldest

\* A fresh scrape has the invariant.
LEMMA NoScrapeInv ==
  ASSUME CacheInv', scrape' = NoScrape \/ scrape' = [NoScrape EXCEPT !.pc = "list"]
  PROVE  EmissionInv'
<1>1. << >> \in Images
  <2>1. << >> \in [{} -> Refs \cup {BadImage}] /\ {} \in SUBSET Containers
    OBVIOUS
  <2> QED BY <2>1 DEF Images
<1>2. scrape' \in Scrapes
  BY <1>1, EmissionAssumption, CacheAssumption DEF NoScrape, Scrapes, Ages
<1>3. DoneIsActive' /\ DigestSeriesJoinInfo' /\ OldestIsOldest'
  BY DEF NoScrape, DoneIsActive, DigestSeriesJoinInfo, OldestIsOldest
<1> QED BY <1>2, <1>3 DEF EmissionInv

\* What reconciles and other scrapes do to the cache leaves the scrape's series
\* right: a new entry is younger, and a removed one is older than nothing.
LEMMA CacheStepInv ==
  ASSUME EmissionInv, CacheInv', UNCHANGED scrape,
         \A d \in DOMAIN imageMap' :
           imageMap'[d] = 0 \/ (d \in DOMAIN imageMap /\ imageMap'[d] = imageMap[d])
  PROVE  EmissionInv'
<1>1. ASSUME NEW entry \in scrape.info, entry[2] # NoDigest, entry[2] \in DOMAIN imageMap'
      PROVE  imageMap'[entry[2]] <= scrape.oldest
  <2>2. scrape.oldest \in Ages
    BY <1>1 DEF EmissionInv, OldestIsOldest, Scrapes
  <2> QED BY <1>1, <2>2 DEF EmissionInv, OldestIsOldest, Ages
<1> QED BY <1>1 DEF EmissionInv, DoneIsActive, DigestSeriesJoinInfo, OldestIsOldest

\* Put and Evict are such steps.
LEMMA PutIsYounger ==
  ASSUME NEW ref, NEW digest, Put(ref, digest)
  PROVE  \A d \in DOMAIN imageMap' :
           imageMap'[d] = 0 \/ (d \in DOMAIN imageMap /\ imageMap'[d] = imageMap[d])
BY DEF Put, With

LEMMA EvictRenewsNothing ==
  ASSUME NEW refs, NEW olderThan, Evict(refs, olderThan)
  PROVE  \A d \in DOMAIN imageMap' :
           imageMap'[d] = 0 \/ (d \in DOMAIN imageMap /\ imageMap'[d] = imageMap[d])
BY DEF Evict, Restrict

\* All entries and the oldest of them grow older together.
LEMMA TickInv == ASSUME EmissionInv, Tick PROVE EmissionInv'
<1> USE CacheAssumption, EmissionAssumption DEF Tick, GrowOlder, Older, Ages
<1>1. CacheInv'
  BY GrowOlderPreserves DEF EmissionInv
<1>2. scrape' \in Scrapes
  <2>1. (IF scrape.pc = "idle" THEN 0 ELSE scrape.epoch + 1) \in 0..(MaxAge - 1)
    BY DEF EmissionInv, Scrapes
  <2>2. (IF scrape.oldest = NoEntry THEN NoEntry ELSE Older(scrape.oldest))
          \in Ages \cup {NoEntry}
    BY DEF EmissionInv, Scrapes
  <2> QED BY ONLY <2>1, <2>2, EmissionInv, Tick DEF EmissionInv, Scrapes, Tick
<1>3. DoneIsActive' /\ DigestSeriesJoinInfo'
  BY DEF EmissionInv, DoneIsActive, DigestSeriesJoinInfo, Scrapes
<1>4. OldestIsOldest'
  <2>1. scrape'.info = scrape.info
    BY DEF EmissionInv, Scrapes
  <2>2. scrape'.oldest = IF scrape.oldest = NoEntry THEN NoEntry ELSE Older(scrape.oldest)
    BY DEF EmissionInv, Scrapes
  <2>3. (scrape'.oldest = NoEntry) <=> (scrape.oldest = NoEntry)
    BY <2>2 DEF EmissionInv, Scrapes
  <2>4. ASSUME NEW entry \in scrape.info, entry[2] # NoDigest, entry[2] \in DOMAIN imageMap
        PROVE  imageMap'[entry[2]] <= scrape'.oldest
    <3>2. scrape.oldest \in Ages /\ scrape.oldest # NoEntry
      BY <2>4 DEF EmissionInv, OldestIsOldest, Scrapes
    <3>3. imageMap[entry[2]] <= scrape.oldest /\ imageMap[entry[2]] \in Ages
      BY <2>4 DEF EmissionInv, OldestIsOldest, CacheInv, CacheTypeOK
    <3> QED BY <2>2, <2>4, <3>2, <3>3
  <2> QED BY <2>1, <2>3, <2>4 DEF EmissionInv, OldestIsOldest
<1> QED BY <1>1, <1>2, <1>3, <1>4 DEF EmissionInv

\* What the lists return.
LEMMA ListInv ==
  ASSUME EmissionInv, NEW present \in SUBSET Containers,
         NEW image \in [present -> Refs \cup {BadImage}], List(present, image)
  PROVE  EmissionInv'
<1>1. image \in Images
  BY DEF Images
<1>2. scrape' \in Scrapes
  BY <1>1 DEF EmissionInv, List, Scrapes
<1>3. DoneIsActive' /\ DigestSeriesJoinInfo' /\ OldestIsOldest' /\ CacheInv'
  BY DEF EmissionInv, List, Scrapes, DoneIsActive, DigestSeriesJoinInfo, OldestIsOldest,
         CacheInv, CacheTypeOK, NoDanglingRef, cacheVars
<1> QED BY <1>2, <1>3 DEF EmissionInv

\* A container without an image in the cache.
LEMMA UnresolvedInv ==
  ASSUME EmissionInv, NEW c \in Containers, EmitUnresolved(c)
  PROVE  EmissionInv'
<1> USE CacheAssumption DEF EmitUnresolved
<1>1. CacheInv'
  BY DEF EmissionInv, CacheInv, CacheTypeOK, NoDanglingRef, cacheVars
<1>2. scrape' \in Scrapes
  <2>1. /\ scrape.todo \ {c} \in SUBSET Containers
        /\ scrape.info \cup {<<c, NoDigest>>}
             \in SUBSET (Containers \X (Digests \cup {NoDigest}))
        /\ scrape.active \cup ({scrape.image[c]} \cap Refs) \in SUBSET Refs
    BY DEF EmissionInv, Scrapes
  <2> QED BY <2>1 DEF EmissionInv, Scrapes
<1>3. scrape'.info = scrape.info \cup {<<c, NoDigest>>}
  BY DEF EmissionInv, Scrapes
<1>4. scrape'.series = scrape.series /\ scrape'.oldest = scrape.oldest
      /\ imageMap' = imageMap
  BY DEF EmissionInv, Scrapes, cacheVars
<1>5. DoneIsActive'
  BY DEF EmissionInv, Scrapes, DoneIsActive
<1>6. DigestSeriesJoinInfo'
  BY <1>3, <1>4 DEF EmissionInv, DigestSeriesJoinInfo
<1>7. OldestIsOldest'
  BY <1>3, <1>4 DEF EmissionInv, OldestIsOldest, CacheInv, CacheTypeOK
<1> QED BY <1>1, <1>2, <1>5, <1>6, <1>7 DEF EmissionInv

\* A container with an image in the cache: the digest gets its series unless it
\* has them, and the oldest entry is at least as old as this one.
LEMMA ResolvedInv ==
  ASSUME EmissionInv, NEW c \in Containers, EmitResolved(c)
  PROVE  EmissionInv'
<1> DEFINE ref == scrape.image[c]
           digest == DigestFor(ref)
           first == \A entry \in scrape.info : entry[2] # digest
<1>1. /\ c \in scrape.todo /\ ref \in Refs /\ digest \in Digests
      /\ digest \in DOMAIN imageMap /\ imageMap[digest] \in Ages
  BY DEF EmitResolved, Found, Cached, EmissionInv, CacheInv, CacheTypeOK
<1>2. imageMap' = imageMap /\ CacheInv'
  BY DEF EmitResolved, EmissionInv, CacheInv, CacheTypeOK, NoDanglingRef, cacheVars
<1>3. scrape' = Emit(c, digest, first) /\ AgeOf(ref) = imageMap[digest]
  BY DEF EmitResolved, AgeOf
<1> HIDE DEF digest, ref, first
<1>4. /\ scrape'.info = scrape.info \cup {<<c, digest>>}
      /\ scrape'.series =
           [scrape.series EXCEPT ![digest] = IF first THEN @ + 1 ELSE @]
      /\ scrape'.oldest =
           IF first THEN OlderOf(scrape.oldest, imageMap[digest]) ELSE scrape.oldest
      /\ scrape'.todo = scrape.todo \ {c} /\ scrape'.image = scrape.image
      /\ scrape'.active = scrape.active \cup {ref}
      /\ scrape'.pc = scrape.pc /\ scrape'.epoch = scrape.epoch
  BY <1>3 DEF Emit, EmissionInv, Scrapes, ref
<1>5. OlderOf(scrape.oldest, imageMap[digest]) \in Ages
  BY <1>1 DEF OlderOf, EmissionInv, Scrapes
<1>6. scrape' \in Scrapes
  <2>1. scrape'.series \in [Digests -> Nat] /\ scrape'.oldest \in Ages \cup {NoEntry}
    BY <1>1, <1>4, <1>5 DEF EmissionInv, Scrapes
  <2>2. /\ scrape'.info \in SUBSET (Containers \X (Digests \cup {NoDigest}))
        /\ scrape'.todo \subseteq Containers /\ scrape'.active \subseteq Refs
    BY <1>1, <1>4 DEF EmissionInv, Scrapes
  <2>3. scrape' = [scrape EXCEPT !.todo = scrape'.todo, !.active = scrape'.active,
                     !.info = scrape'.info, !.series = scrape'.series,
                     !.oldest = scrape'.oldest]
    BY <1>3, <1>4 DEF Emit, EmissionInv, Scrapes
  <2> QED BY <2>1, <2>2, <2>3 DEF EmissionInv, Scrapes
<1>7. DoneIsActive'
  BY <1>1, <1>4 DEF EmissionInv, DoneIsActive, ref
<1>8. DigestSeriesJoinInfo'
  <2> SUFFICES ASSUME NEW d \in Digests
               PROVE  scrape'.series[d] =
                        IF \E entry \in scrape'.info : entry[2] = d THEN 1 ELSE 0
    BY DEF DigestSeriesJoinInfo
  <2>1. scrape.series[d] = IF \E entry \in scrape.info : entry[2] = d THEN 1 ELSE 0
    BY DEF EmissionInv, DigestSeriesJoinInfo
  <2>2. scrape'.series[d] =
          IF d = digest /\ first THEN scrape.series[d] + 1 ELSE scrape.series[d]
    BY <1>1, <1>4 DEF EmissionInv, Scrapes
  <2>3. (\E entry \in scrape'.info : entry[2] = d)
          <=> d = digest \/ \E entry \in scrape.info : entry[2] = d
    <3>1. scrape'.info = scrape.info \cup {<<c, digest>>}
      BY <1>4
    <3>2. <<c, digest>> \in scrape'.info /\ <<c, digest>>[2] = digest
      BY <3>1
    <3>3. ASSUME NEW entry \in scrape'.info, entry[2] = d
          PROVE  d = digest \/ \E other \in scrape.info : other[2] = d
      BY <3>1, <3>3
    <3> QED BY <3>1, <3>2, <3>3
  <2>4. first <=> ~ \E entry \in scrape.info : entry[2] = digest
    BY DEF first
  <2> HIDE DEF first
  <2>5. CASE d = digest
    BY <2>1, <2>2, <2>3, <2>4, <2>5
  <2>6. CASE d # digest
    BY <2>1, <2>2, <2>3, <2>6
  <2> QED BY <2>5, <2>6
<1>9. OldestIsOldest'
  <2>1. digest # NoDigest /\ (first \/ scrape.oldest # NoEntry)
    BY <1>1, CacheAssumption DEF EmissionInv, OldestIsOldest, first
  <2>2. scrape'.oldest # NoEntry
    BY <1>4, <1>5, <2>1, EmissionAssumption
  <2>3. scrape'.oldest \in Ages
    BY <1>6, <2>2 DEF Scrapes
  <2>4. ASSUME NEW entry \in scrape.info, entry[2] # NoDigest, entry[2] \in DOMAIN imageMap
        PROVE  imageMap[entry[2]] <= scrape'.oldest
    <3>2. scrape.oldest \in Ages /\ scrape.oldest # NoEntry
          /\ imageMap[entry[2]] <= scrape.oldest /\ imageMap[entry[2]] \in Ages
      BY <2>4 DEF EmissionInv, OldestIsOldest, Scrapes, CacheInv, CacheTypeOK
    <3> QED BY <1>1, <1>4, <3>2, CacheAssumption DEF OlderOf, Ages
  <2>5. imageMap[digest] <= scrape'.oldest
    <3>1. CASE first
      BY <1>1, <1>4, <3>1, CacheAssumption
         DEF OlderOf, EmissionInv, Scrapes, Ages
    <3>2. CASE ~first
      BY <1>1, <2>1, <2>4, <3>2 DEF first
    <3> QED BY <3>1, <3>2
  <2>6. ASSUME NEW entry \in scrape'.info, entry[2] # NoDigest, entry[2] \in DOMAIN imageMap'
        PROVE  imageMap'[entry[2]] <= scrape'.oldest
    <3>1. CASE entry \in scrape.info
      BY <1>2, <2>4, <2>6, <3>1
    <3>2. CASE entry = <<c, digest>>
      BY <1>2, <2>5, <3>2
    <3> QED BY <1>4, <2>6, <3>1, <3>2
  <2> QED BY <2>2, <2>6 DEF OldestIsOldest
<1> QED BY <1>2, <1>6, <1>7, <1>8, <1>9 DEF EmissionInv

\* The invariant survives every step.
LEMMA EmissionInvStep == EmissionInv /\ [Next]_vars => EmissionInv'
<1> SUFFICES ASSUME EmissionInv, [Next]_vars PROVE EmissionInv'
  OBVIOUS
<1>1. ASSUME NEW ref \in Refs, NEW digest \in Answers(ref), Reconciled(ref, digest)
      PROVE  EmissionInv'
  BY <1>1, PutPreserves, AnswersAreDigests, PutIsYounger, CacheStepInv
     DEF Reconciled, EmissionInv
<1>2. ASSUME NEW refs \in SUBSET Refs, NEW olderThan \in 0..(MaxAge - 1),
             OtherScrape(refs, olderThan)
      PROVE  EmissionInv'
  BY <1>2, EvictPreserves, EvictRenewsNothing, CacheStepInv DEF OtherScrape, EmissionInv
<1>3. CASE Tick
  BY <1>3, TickInv
<1>4. CASE Begin \/ ListFails
  <2>1. CacheInv'
    BY <1>4 DEF Begin, ListFails, EmissionInv, CacheInv, CacheTypeOK, NoDanglingRef, cacheVars
  <2> QED BY <1>4, <2>1, NoScrapeInv DEF Begin, ListFails
<1>5. CASE Finish
  BY <1>5, EvictPreserves, NoScrapeInv DEF Finish, EmissionInv
<1>6. ASSUME NEW present \in SUBSET Containers,
             NEW image \in [present -> Refs \cup {BadImage}], List(present, image)
      PROVE  EmissionInv'
  BY <1>6, ListInv
<1>7. ASSUME NEW c \in Containers, EmitUnresolved(c) \/ EmitResolved(c)
      PROVE  EmissionInv'
  BY <1>7, UnresolvedInv, ResolvedInv
<1>8. CASE UNCHANGED vars
  BY <1>8 DEF vars, cacheVars, EmissionInv, CacheInv, CacheTypeOK, NoDanglingRef,
       DoneIsActive, DigestSeriesJoinInfo, OldestIsOldest
<1> QED BY <1>1, <1>2, <1>3, <1>4, <1>5, <1>6, <1>7, <1>8 DEF Next

\* The initial states have it.
LEMMA EmissionInitInv == Init => EmissionInv
<1> SUFFICES ASSUME Init PROVE EmissionInv
  OBVIOUS
<1>1. CacheInv
  BY DEF Init, CacheInit, CacheInv, CacheTypeOK, NoDanglingRef
<1>2. << >> \in Images
  <2>1. << >> \in [{} -> Refs \cup {BadImage}] /\ {} \in SUBSET Containers
    OBVIOUS
  <2> QED BY <2>1 DEF Images
<1>3. scrape \in Scrapes
  BY <1>2, EmissionAssumption, CacheAssumption DEF Init, NoScrape, Scrapes, Ages
<1> QED BY <1>1, <1>3 DEF EmissionInv, Init, NoScrape, DoneIsActive, DigestSeriesJoinInfo,
                          OldestIsOldest

\* However tags move and entries go between the looks of a scrape into the
\* cache, each digest it names has its own series exactly once.
THEOREM DigestSeriesOnce == Spec => []DigestSeriesJoinInfo
<1>1. EmissionInv => DigestSeriesJoinInfo
  BY DEF EmissionInv
<1> QED BY <1>1, EmissionInitInv, EmissionInvStep, PTL DEF Spec

\* Whatever is renewed or replaced while a scrape looks, the timestamp it reports
\* is there if it named an image, and is no newer than the entry of any.
THEOREM OldestReported == Spec => []OldestIsOldest
<1>1. EmissionInv => OldestIsOldest
  BY DEF EmissionInv
<1> QED BY <1>1, EmissionInitInv, EmissionInvStep, PTL DEF Spec

\* What a step that ends a scrape may not do to the listed tags.
ListedTagsStay ==
  scrape.pc = "emit" /\ scrape'.pc = "idle" =>
    \A c \in DOMAIN scrape.image :
      scrape.image[c] \in Tags \cap DOMAIN digestMap => scrape.image[c] \in DOMAIN digestMap'

\* No scrape evicts the tag of a container it listed, for every set of containers
\* and everything the lists return.
THEOREM ListedTagsNeverEvicted == Spec => ListedTagsKept
<1>1. EmissionInv /\ [Next]_vars => [ListedTagsStay]_vars
  <2> SUFFICES ASSUME EmissionInv, Next PROVE ListedTagsStay
    OBVIOUS
  <2>1. CASE Finish
    <3> SUFFICES ASSUME NEW c \in DOMAIN scrape.image,
                        scrape.image[c] \in Tags \cap DOMAIN digestMap
                 PROVE  scrape.image[c] \in DOMAIN digestMap'
      BY DEF ListedTagsStay
    <3>1. scrape.image[c] \in scrape.active
      BY <2>1 DEF Finish, EmissionInv, DoneIsActive, Tags
    <3> QED BY <2>1, <3>1 DEF Finish, Evict, KeptRefs, Restrict
  <2>2. CASE ~Finish
    <3>1. ASSUME scrape.pc = "emit" PROVE scrape'.pc = "emit"
      BY <2>2, <3>1 DEF Next, Reconciled, OtherScrape, Tick, Begin, ListFails, List,
           EmitUnresolved, EmitResolved, Emit, EmissionInv, Scrapes
    <3> QED BY <3>1 DEF ListedTagsStay
  <2> QED BY <2>1, <2>2
<1> QED BY <1>1, EmissionInitInv, EmissionInvStep, PTL DEF Spec, ListedTagsKept, ListedTagsStay

\* The collector and what goes on beside it use the cache as ImageCache allows, so
\* its contract holds here as well.
THEOREM EmissionUsesCache == Spec => CacheSpec
<1>1. Init => CacheInit
  BY DEF Init
<1>2. EmissionInv /\ [Next]_vars => [CacheNext]_cacheVars
  <2> SUFFICES ASSUME EmissionInv, [Next]_vars PROVE CacheNext \/ UNCHANGED cacheVars
    OBVIOUS
  <2>1. CASE Finish
    <3>1. scrape.active \in SUBSET Refs /\ scrape.epoch \in 0..(MaxAge - 1)
      BY DEF EmissionInv, Scrapes
    <3> QED BY <2>1, <3>1 DEF Finish, CacheNext
  <2>2. CASE ~Finish
    BY <2>2 DEF Next, Reconciled, OtherScrape, Tick, Begin, ListFails, List, EmitUnresolved,
         EmitResolved, CacheNext, vars, cacheVars
  <2> QED BY <2>1, <2>2
<1> QED BY <1>1, <1>2, EmissionInitInv, EmissionInvStep, PTL DEF Spec, CacheSpec

-------------------------------------------------------------------------------
(* WorkloadFetch.                                                              *)

\* The reconcile has the fields it starts with.
FetchShape ==
  fetch = [pc |-> fetch.pc, object |-> fetch.object, images |-> fetch.images,
           todo |-> fetch.todo, stored |-> fetch.stored, failed |-> fetch.failed,
           image |-> fetch.image, index |-> fetch.index,
           entry |-> fetch.entry]

\* The image under way is still to come, and what the registry answered is an index.
UnderWay ==
  /\ fetch.index \in Indexes
  /\ fetch.pc \in {"resolve", "resolved"} => fetch.image \in fetch.todo

FetchInv == FetchShape /\ UnderWay /\ ErrorsIsolated /\ ResolvedAsDocumented

\* There is an index without entries.
LEMMA EmptyIsIndex == << >> \in Indexes
<1>1. << >> \in [1..0 -> Platforms \cup {NoPlatform}] /\ 0 \in 0..MaxEntries
  BY FetchAssumption
<1> QED BY <1>1 DEF Indexes

\* The first entry with the platform is reached, if there is one.
LEMMA FirstIsReached ==
  ASSUME fetch.index \in Indexes, NEW i \in DOMAIN fetch.index, fetch.index[i] = Platform
  PROVE  \E m \in DOMAIN fetch.index : fetch.index[m] = Platform /\ Reached(m)
<1> DEFINE has == {j \in DOMAIN fetch.index : fetch.index[j] = Platform}
<1>1. PICK n \in Nat : DOMAIN fetch.index = 1..n
  BY FetchAssumption DEF Indexes
<1>2. has \subseteq Nat /\ has # {}
  BY <1>1
<1>3. PICK m \in has : \A j \in has : <<j, m>> \notin OpToRel(<, Nat)
  BY <1>2, NatLessThanWellFounded, WFMin
<1>4. ASSUME NEW j \in 1..(m - 1) PROVE fetch.index[j] # Platform
  <2>1. j \in DOMAIN fetch.index /\ j \in Nat /\ m \in Nat /\ j < m
    <3>1. m \in 1..n
      BY <1>1, <1>3
    <3>2. j \in 1..(m - 1)
      BY <1>4
    <3>3. j \in Nat /\ m \in Nat /\ j < m /\ j \in 1..n
      BY <3>1, <3>2
    <3> QED BY <1>1, <3>3
  <2>2. <<j, m>> \in OpToRel(<, Nat)
    BY <2>1 DEF OpToRel
  <2> QED BY <1>3, <2>1, <2>2
<1> QED BY <1>3, <1>4 DEF Reached

\* The choice of the entry is that of the documentation.
LEMMA ResolveChooses ==
  ASSUME FetchInv, Resolve
  PROVE  FetchInv'
<1> DEFINE matches == {i \in DOMAIN fetch.index : fetch.index[i] = Platform /\ Reached(i)}
           entry == CHOOSE i \in DOMAIN fetch.index :
                      IF matches = {} THEN i = 1 ELSE i \in matches
<1>1. PICK n \in Nat : DOMAIN fetch.index = 1..n
  BY FetchAssumption DEF FetchInv, UnderWay, Indexes
<1>2. fetch' = [fetch EXCEPT !.pc = "resolved", !.entry = entry] /\ fetch.index # << >>
      /\ fetch.pc = "resolve"
  BY DEF Resolve
<1>3. 1 \in DOMAIN fetch.index
  <2>1. n # 0
    BY <1>1, <1>2 DEF FetchInv, UnderWay, Indexes
  <2> QED BY <1>1, <2>1
<1>4. entry \in DOMAIN fetch.index /\ IF matches = {} THEN entry = 1 ELSE entry \in matches
  <2>1. \E i \in DOMAIN fetch.index : IF matches = {} THEN i = 1 ELSE i \in matches
    BY <1>3
  <2> QED BY <2>1
<1> HIDE DEF entry
<1>5. /\ fetch'.index = fetch.index /\ fetch'.entry = entry /\ fetch'.pc = "resolved"
      /\ fetch'.images = fetch.images /\ fetch'.todo = fetch.todo
      /\ fetch'.stored = fetch.stored /\ fetch'.failed = fetch.failed
      /\ fetch'.image = fetch.image /\ FetchShape'
  BY <1>2 DEF FetchInv, FetchShape
<1>6. ResolvedAsDocumented'
  <2> DEFINE has == {i \in DOMAIN fetch.index : fetch.index[i] = Platform}
  <2>1. CASE has = {}
    BY <1>4, <1>5, <2>1 DEF ResolvedAsDocumented
  <2>2. CASE has # {}
    <3>1. matches # {}
      BY <2>2, FirstIsReached DEF FetchInv, UnderWay
    <3>2. entry \in has /\ \A j \in 1..(entry - 1) : fetch.index[j] # Platform
      BY <1>4, <3>1 DEF Reached
    <3>3. \A i \in has : entry <= i
      BY <1>1, <3>2
    <3> QED BY <1>5, <3>2, <3>3 DEF ResolvedAsDocumented
  <2> QED BY <2>1, <2>2
<1> QED BY <1>2, <1>5, <1>6 DEF FetchInv, UnderWay, ErrorsIsolated

\* An image that fails leaves what is to come and what is done.
LEMMA FailedIsNoted ==
  ASSUME FetchInv, NEW image \in fetch.todo, fetch.pc \in {"next", "resolve", "resolved"},
         fetch' = Failed(image)
  PROVE  FetchInv'
<1>1. << >> \in Indexes
  BY EmptyIsIndex
<1>2. FetchShape' /\ UnderWay' /\ ResolvedAsDocumented'
  BY <1>1 DEF Failed, FetchInv, FetchShape, UnderWay, ResolvedAsDocumented
<1>3. ErrorsIsolated'
  BY DEF Failed, FetchInv, FetchShape, ErrorsIsolated
<1> QED BY <1>2, <1>3 DEF FetchInv

\* No reconcile is under way.
LEMMA NoFetchInv ==
  ASSUME \/ fetch' = NoFetch
         \/ \E object : fetch' = [NoFetch EXCEPT !.pc = "read", !.object = object]
         \/ \E images :
              fetch' = [NoFetch EXCEPT !.pc = "next", !.images = images, !.todo = images]
  PROVE  FetchInv'
<1>1. << >> \in Indexes
  BY EmptyIsIndex
<1>2. CASE fetch' = NoFetch
  BY <1>1, <1>2 DEF NoFetch, FetchInv, FetchShape, UnderWay, ErrorsIsolated, ResolvedAsDocumented
<1>3. ASSUME NEW object, fetch' = [NoFetch EXCEPT !.pc = "read", !.object = object]
      PROVE  FetchInv'
  BY <1>1, <1>3 DEF NoFetch, FetchInv, FetchShape, UnderWay, ErrorsIsolated, ResolvedAsDocumented
<1>4. ASSUME NEW images,
             fetch' = [NoFetch EXCEPT !.pc = "next", !.images = images, !.todo = images]
      PROVE  FetchInv'
  <2>1. FetchShape' /\ UnderWay' /\ ResolvedAsDocumented'
    BY <1>1, <1>4 DEF NoFetch, FetchShape, UnderWay, ResolvedAsDocumented
  <2>2. ErrorsIsolated'
    BY <1>4 DEF NoFetch, ErrorsIsolated
  <2> QED BY <2>1, <2>2 DEF FetchInv
<1> QED BY <1>2, <1>3, <1>4

\* The invariant survives every step.
LEMMA FetchInvStep == FetchInv /\ [FetchNext]_fetch => FetchInv'
<1> SUFFICES ASSUME FetchInv, [FetchNext]_fetch PROVE FetchInv'
  OBVIOUS
<1>1. CASE UNCHANGED fetch
  BY <1>1 DEF FetchInv, FetchShape, UnderWay, ErrorsIsolated, ResolvedAsDocumented
<1>2. CASE Assemble
  BY <1>2, NoFetchInv DEF Assemble
<1>3. ASSUME NEW object, Read(object) PROVE FetchInv'
  BY <1>3, NoFetchInv DEF Read
<1>4. CASE AssembleFails \/ PlatformPanics \/ EndReconcile
  BY <1>4, NoFetchInv DEF AssembleFails, PlatformPanics, EndReconcile
<1>5. ASSUME NEW image, GetFails(image) PROVE FetchInv'
  BY <1>5, FailedIsNoted DEF GetFails
<1>6. CASE IndexEmpty \/ EntryFails
  BY <1>6, FailedIsNoted DEF IndexEmpty, EntryFails, FetchInv, UnderWay
<1>7. ASSUME NEW image, NEW index \in Indexes, Get(image, index) PROVE FetchInv'
  BY <1>7 DEF Get, FetchInv, FetchShape, UnderWay, ErrorsIsolated, ResolvedAsDocumented
<1>8. CASE Resolve
  BY <1>8, ResolveChooses
<1>9. CASE Store
  <2>1. FetchShape' /\ UnderWay' /\ ResolvedAsDocumented'
    BY <1>9, EmptyIsIndex DEF Store, FetchInv, FetchShape, UnderWay, ResolvedAsDocumented
  <2>2. ErrorsIsolated'
    BY <1>9 DEF Store, FetchInv, FetchShape, UnderWay, ErrorsIsolated
  <2> QED BY <2>1, <2>2 DEF FetchInv
<1> QED BY <1>1, <1>2, <1>3, <1>4, <1>5, <1>6, <1>7, <1>8, <1>9 DEF FetchNext

\* The state before the first reconcile has it.
LEMMA FetchInitInv == FetchInit => FetchInv
<1>1. << >> \in Indexes
  BY EmptyIsIndex
<1> SUFFICES ASSUME fetch = NoFetch PROVE FetchInv
  BY DEF FetchInit
<1>2. FetchShape /\ fetch.pc = "idle" /\ fetch.index = << >>
  BY DEF NoFetch, FetchShape
<1> QED BY <1>1, <1>2 DEF FetchInv, UnderWay, ErrorsIsolated, ResolvedAsDocumented

\* Whatever images fail with an error, at whatever point, each image of an object
\* is fetched, failed or still to come, and none is fetched twice.
THEOREM EveryImageAccounted == FetchSpec => []ErrorsIsolated
<1>1. FetchInv => ErrorsIsolated
  BY DEF FetchInv
<1> QED BY <1>1, FetchInitInv, FetchInvStep, PTL DEF FetchSpec

\* Of an index of any length the first entry with the platform is taken, and the
\* first of all only if none has it.
THEOREM FirstMatchResolved == FetchSpec => []ResolvedAsDocumented
<1>1. FetchInv => ResolvedAsDocumented
  BY DEF FetchInv
<1> QED BY <1>1, FetchInitInv, FetchInvStep, PTL DEF FetchSpec

-------------------------------------------------------------------------------
(* ContainerPaths: what is found in an object.                                 *)
\* The segments of the positions: every string.  The provers do not know of a
\* string that it is in STRING, so those of the tables are named.
Names ==
  STRING \cup
  {"*", "name", "spec", "template", "jobTemplate", "workflowSpec", "taskSpec", "podTemplate",
   "templates", "containers", "initContainers", "ephemeralContainers", "container", "sidecars",
   "script", "steps", "imagePullSecrets"}

LEMMA NamesAreSegments == "*" \in Names /\ "name" \in Names /\ Indices \subseteq Names
BY PathsAssumption DEF Names

LEMMA PositionsInTree ==
  ASSUME NEW doc, IsTree(doc)
  PROVE  DOMAIN doc \subseteq Seq(Names)
<1>1. STRING \subseteq Names
  BY DEF Names
<1>2. DOMAIN doc \subseteq Seq(STRING)
  BY DEF IsTree
<1> QED BY <1>1, <1>2, SeqMonotonic

\* A sequence of one element.
LEMMA OneElement ==
  ASSUME NEW S, NEW s \in S
  PROVE  <<s>> \in Seq(S) /\ Len(<<s>>) = 1 /\ <<s>>[1] = s
OBVIOUS

LEMMA TwoElements ==
  ASSUME NEW S, NEW s \in S, NEW t \in S
  PROVE  <<s>> \o <<t>> = <<s, t>>
<1>1. /\ <<s>> \in Seq(S) /\ Len(<<s>>) = 1 /\ <<s>>[1] = s
      /\ <<t>> \in Seq(S) /\ Len(<<t>>) = 1 /\ <<t>>[1] = t
  BY OneElement
<1>2. /\ <<s>> \o <<t>> \in Seq(S)
      /\ Len(<<s>> \o <<t>>) = 2
      /\ (<<s>> \o <<t>>)[1] = s
      /\ (<<s>> \o <<t>>)[2] = t
  <2>1. /\ <<s>> \o <<t>> \in Seq(S)
        /\ Len(<<s>> \o <<t>>) = Len(<<s>>) + Len(<<t>>)
        /\ \A i \in 1..(Len(<<s>>) + Len(<<t>>)) :
             (<<s>> \o <<t>>)[i] = IF i <= Len(<<s>>) THEN <<s>>[i] ELSE <<t>>[i - Len(<<s>>)]
    BY <1>1, ConcatProperties
  <2> QED BY <1>1, <2>1
<1>3. <<s, t>> \in Seq(S) /\ Len(<<s, t>>) = 2 /\ <<s, t>>[1] = s /\ <<s, t>>[2] = t
  OBVIOUS
<1>4. \A i \in 1..2 : (<<s>> \o <<t>>)[i] = <<s, t>>[i]
  <2>1. \A i \in 1..2 : i = 1 \/ i = 2
    OBVIOUS
  <2> QED BY <1>2, <1>3, <2>1
<1> QED BY <1>2, <1>3, <1>4, SeqEqual

LEMMA ThreeElements ==
  ASSUME NEW S, NEW s \in S, NEW t \in S, NEW u \in S
  PROVE  <<s, t, u>> = (<<s>> \o <<t>>) \o <<u>>
<1> DEFINE q == <<s, t>>
           r == q \o <<u>>
<1>1. <<s>> \o <<t>> = q
  BY TwoElements
<1>2. /\ q \in Seq(S) /\ Len(q) = 2 /\ q[1] = s /\ q[2] = t
      /\ <<u>> \in Seq(S) /\ Len(<<u>>) = 1 /\ <<u>>[1] = u
  OBVIOUS
<1> HIDE DEF q
<1>3. /\ r \in Seq(S)
      /\ Len(r) = Len(q) + Len(<<u>>)
      /\ \A i \in 1..(Len(q) + Len(<<u>>)) :
           r[i] = IF i <= Len(q) THEN q[i] ELSE <<u>>[i - Len(q)]
  BY <1>2, ConcatProperties
<1>4. r \in Seq(S) /\ Len(r) = 3 /\ r[1] = s /\ r[2] = t /\ r[3] = u
  BY <1>2, <1>3
<1> HIDE DEF r
<1>5. /\ <<s, t, u>> \in Seq(S) /\ Len(<<s, t, u>>) = 3
      /\ <<s, t, u>>[1] = s /\ <<s, t, u>>[2] = t /\ <<s, t, u>>[3] = u
  OBVIOUS
<1>6. \A i \in 1..3 : r[i] = <<s, t, u>>[i]
  <2>1. \A i \in 1..3 : i = 1 \/ i = 2 \/ i = 3
    OBVIOUS
  <2> QED BY <1>4, <1>5, <2>1
<1>7. r = <<s, t, u>>
  BY <1>4, <1>5, <1>6, SeqEqual
<1> QED BY <1>1, <1>7 DEF r

\* A segment more at the end of a position.
LEMMA LastSegment ==
  ASSUME NEW p \in Seq(Names), NEW s \in Names
  PROVE  /\ p \o <<s>> \in Seq(Names) /\ p \o <<s>> # << >>
         /\ Len(p \o <<s>>) = Len(p) + 1
         /\ DOMAIN (p \o <<s>>) = 1..(Len(p) + 1)
         /\ \A i \in 1..Len(p) : (p \o <<s>>)[i] = p[i]
         /\ (p \o <<s>>)[Len(p) + 1] = s
         /\ SubSeq(p \o <<s>>, 1, Len(p)) = p
<1>1. /\ <<s>> \in Seq(Names)
      /\ Len(<<s>>) = 1
      /\ <<s>>[1] = s
      /\ Len(p) \in Nat
  BY OneElement, LenProperties
<1>2. /\ p \o <<s>> \in Seq(Names)
      /\ Len(p \o <<s>>) = Len(p) + 1
      /\ \A i \in 1..(Len(p) + 1) :
           (p \o <<s>>)[i] = IF i <= Len(p) THEN p[i] ELSE <<s>>[i - Len(p)]
  BY <1>1, ConcatProperties
<1>3. /\ \A i \in 1..Len(p) : (p \o <<s>>)[i] = p[i]
      /\ (p \o <<s>>)[Len(p) + 1] = s
  <2>1. ASSUME NEW i \in 1..Len(p) PROVE (p \o <<s>>)[i] = p[i]
    <3>1. i \in 1..(Len(p) + 1) /\ i <= Len(p)
      BY <1>1
    <3> QED BY <1>2, <3>1
  <2>2. (p \o <<s>>)[Len(p) + 1] = s
    <3>1. Len(p) + 1 \in 1..(Len(p) + 1) /\ ~(Len(p) + 1 <= Len(p)) /\ Len(p) + 1 - Len(p) = 1
      BY <1>1
    <3> QED BY <1>1, <1>2, <3>1
  <2> QED BY <2>1, <2>2
<1>4. DOMAIN (p \o <<s>>) = 1..(Len(p) + 1) /\ p \o <<s>> # << >>
  BY <1>1, <1>2, LenProperties
<1>5. SubSeq(p \o <<s>>, 1, Len(p)) = p
  <2> DEFINE q == SubSeq(p \o <<s>>, 1, Len(p))
  <2>1. \A i \in 1..Len(p) : (p \o <<s>>)[i] \in Names
    BY <1>3
  <2>2. /\ q \in Seq(Names)
        /\ Len(q) = IF 1 <= Len(p) THEN Len(p) - 1 + 1 ELSE 0
        /\ \A i \in 1..(Len(p) - 1 + 1) : q[i] = (p \o <<s>>)[1 + i - 1]
    BY <1>1, <2>1, SubSeqProperties
  <2>3. Len(q) = Len(p) /\ \A i \in 1..Len(q) : q[i] = p[i]
    BY <1>1, <1>3, <2>2
  <2> QED BY <2>2, <2>3, SeqEqual
<1> QED BY <1>2, <1>3, <1>4, <1>5

LEMMA FieldIsSegment ==
  ASSUME NEW p \in Seq(Names), NEW s \in Names
  PROVE  s \in Segments(p \o <<s>>)
<1>1. Len(p) + 1 \in DOMAIN (p \o <<s>>) /\ (p \o <<s>>)[Len(p) + 1] = s
  <2>1. Len(p) \in Nat
    BY LenProperties
  <2> QED BY <2>1, LastSegment
<1> QED BY <1>1 DEF Segments

\* In a tree an index is in a list, and a field in a map.
LEMMA ParentInTree ==
  ASSUME NEW doc, IsTree(doc), NEW p \in Seq(Names), NEW s \in Names,
         p \o <<s>> \in DOMAIN doc
  PROVE  p \in DOMAIN doc /\ doc[p] = IF s \in Indices THEN "list" ELSE "map"
<1>1. p \o <<s>> \in DOMAIN doc \ {<< >>}
  BY LastSegment
<1>2. /\ Len(p \o <<s>>) - 1 = Len(p)
      /\ (p \o <<s>>)[Len(p \o <<s>>)] = s
      /\ SubSeq(p \o <<s>>, 1, Len(p \o <<s>>) - 1) = p
  <2>1. /\ Len(p) \in Nat
        /\ Len(p \o <<s>>) = Len(p) + 1
        /\ (p \o <<s>>)[Len(p) + 1] = s
        /\ SubSeq(p \o <<s>>, 1, Len(p)) = p
    BY LastSegment, LenProperties
  <2>2. ASSUME NEW pos, Len(pos) = Len(p) + 1, pos[Len(p) + 1] = s, SubSeq(pos, 1, Len(p)) = p
        PROVE  /\ Len(pos) - 1 = Len(p)
               /\ pos[Len(pos)] = s
               /\ SubSeq(pos, 1, Len(pos) - 1) = p
    <3>1. Len(pos) - 1 = Len(p)
      BY <2>1, <2>2
    <3> QED BY <2>2, <3>1
  <2> QED BY <2>1, <2>2
<1>3. ASSUME NEW pos \in DOMAIN doc \ {<< >>}
      PROVE  /\ SubSeq(pos, 1, Len(pos) - 1) \in DOMAIN doc
             /\ doc[SubSeq(pos, 1, Len(pos) - 1)] =
                  IF pos[Len(pos)] \in Indices THEN "list" ELSE "map"
  BY DEF IsTree
<1> QED BY <1>1, <1>2, <1>3

\* What is below a position with an index is what the list there holds.
LEMMA ItemsInTree ==
  ASSUME NEW doc, IsTree(doc), NEW p \in Seq(Names)
  PROVE  \A pos : pos \in Items(doc, p) <=>
                   pos \in DOMAIN doc /\ \E i \in Indices : pos = p \o <<i>>
<1>1. ASSUME NEW i \in Indices, p \o <<i>> \in DOMAIN doc
      PROVE  p \in DOMAIN doc /\ doc[p] = "list"
  BY <1>1, ParentInTree, NamesAreSegments
<1> QED BY <1>1 DEF Items

-------------------------------------------------------------------------------
(* Which positions fit a path, and which the code finds for it.                *)

\* The positions that fit a path with a wildcard at its end.
LEMMA WildcardFits ==
  ASSUME NEW p \in Seq(Names), NEW pos \in Seq(Names)
  PROVE  Fits(pos, p \o <<"*">>) <=>
           \E q \in Seq(Names), i \in Indices : Fits(q, p) /\ pos = q \o <<i>>
<1>0. Len(p) \in Nat /\ DOMAIN p = 1..Len(p)
  OBVIOUS
<1>1. ASSUME NEW q \in Seq(Names), NEW i \in Indices, Fits(q, p), pos = q \o <<i>>
      PROVE  Fits(pos, p \o <<"*">>)
  BY <1>0, <1>1, LastSegment, PathsAssumption DEF Fits
<1>2. ASSUME Fits(pos, p \o <<"*">>)
      PROVE  \E q \in Seq(Names), i \in Indices : Fits(q, p) /\ pos = q \o <<i>>
  <2>1. Len(pos) = Len(p) + 1 /\ pos # << >>
    BY <1>0, <1>2, LastSegment DEF Fits
  <2>2. PICK q \in Seq(Names), i \in Names : pos = Append(q, i)
    BY <2>1, SequenceEmptyOrAppend
  <2>3. pos = q \o <<i>>
    BY <2>2, AppendIsConcat
  <2>4. Len(q) = Len(p) /\ \A j \in 1..Len(p) : pos[j] = q[j]
    BY <2>1, <2>3, <1>0, LastSegment
  <2>5. pos[Len(p) + 1] = i
    BY <2>3, <2>4, LastSegment
  <2>6. i \in Indices
    BY <1>0, <1>2, <2>5, LastSegment DEF Fits
  <2>7. Fits(q, p)
    BY <1>0, <1>2, <2>4, LastSegment DEF Fits
  <2> QED BY <2>3, <2>6, <2>7
<1> QED BY <1>1, <1>2

\* The positions that fit a path with a field at its end.
LEMMA FieldFits ==
  ASSUME NEW p \in Seq(Names), NEW f \in Names, f # "*", NEW pos \in Seq(Names)
  PROVE  Fits(pos, p \o <<f>>) <=> \E q \in Seq(Names) : Fits(q, p) /\ pos = q \o <<f>>
<1>0. Len(p) \in Nat /\ DOMAIN p = 1..Len(p)
  OBVIOUS
<1>1. ASSUME NEW q \in Seq(Names), Fits(q, p), pos = q \o <<f>>
      PROVE  Fits(pos, p \o <<f>>)
  BY <1>0, <1>1, LastSegment DEF Fits
<1>2. ASSUME Fits(pos, p \o <<f>>)
      PROVE  \E q \in Seq(Names) : Fits(q, p) /\ pos = q \o <<f>>
  <2>1. Len(pos) = Len(p) + 1 /\ pos # << >>
    BY <1>0, <1>2, LastSegment DEF Fits
  <2>2. PICK q \in Seq(Names), s \in Names : pos = Append(q, s)
    BY <2>1, SequenceEmptyOrAppend
  <2>3. pos = q \o <<s>>
    BY <2>2, AppendIsConcat
  <2>4. Len(q) = Len(p) /\ \A j \in 1..Len(p) : pos[j] = q[j]
    BY <2>1, <2>3, <1>0, LastSegment
  <2>5. s = f
    BY <1>0, <1>2, <2>3, <2>4, LastSegment DEF Fits
  <2>6. Fits(q, p)
    BY <1>0, <1>2, <2>4, LastSegment DEF Fits
  <2> QED BY <2>3, <2>5, <2>6
<1> QED BY <1>1, <1>2

\* A path without wildcards fits itself.
LEMMA PlainFits ==
  ASSUME NEW p \in Seq(Names), "*" \notin Segments(p), NEW pos \in Seq(Names)
  PROVE  Fits(pos, p) <=> pos = p
<1>1. \A i \in DOMAIN p : p[i] # "*"
  BY DEF Segments
<1>2. ASSUME Fits(pos, p) PROVE pos = p
  BY <1>1, <1>2, SeqEqual DEF Fits
<1> QED BY <1>1, <1>2 DEF Fits

\* Without a wildcard: an element of the list at the path.
LEMMA PlainPathFound ==
  ASSUME NEW doc, IsTree(doc), NEW p \in Seq(Names), "*" \notin Segments(p)
  PROVE  Items(doc, p) = {pos \in DOMAIN doc : Fits(pos, p \o <<"*">>)}
<1>1. DOMAIN doc \subseteq Seq(Names)
  BY PositionsInTree
<1>2. ASSUME NEW pos \in DOMAIN doc
      PROVE  Fits(pos, p \o <<"*">>) <=> \E i \in Indices : pos = p \o <<i>>
  <2>1. Fits(pos, p \o <<"*">>) <=>
          \E q \in Seq(Names), i \in Indices : Fits(q, p) /\ pos = q \o <<i>>
    BY <1>1, WildcardFits
  <2>2. \A q \in Seq(Names) : Fits(q, p) <=> q = p
    BY PlainFits
  <2> QED BY <2>1, <2>2
<1>3. \A pos : pos \in Items(doc, p) <=>
                pos \in DOMAIN doc /\ \E i \in Indices : pos = p \o <<i>>
  BY ItemsInTree
<1> QED BY <1>2, <1>3

\* The positions of a field in the elements of a list that are maps.
Fields(doc, p, f) == {item \o <<f>> : item \in {i \in Items(doc, p) : IsMap(doc, i)}}

\* With a wildcard before the last field: the field of an element, or an element
\* of the list that the field is.
LEMMA WildcardPathFound ==
  ASSUME NEW doc, IsTree(doc), NEW p \in Seq(Names), "*" \notin Segments(p),
         NEW f \in Names, f \notin Indices, f # "*"
  PROVE  LET path == (p \o <<"*">>) \o <<f>>
         IN /\ {pos \in DOMAIN doc : Fits(pos, path)} = Fields(doc, p, f) \cap DOMAIN doc
            /\ {pos \in DOMAIN doc : Fits(pos, path \o <<"*">>)}
                 = UNION {Items(doc, pos) : pos \in Fields(doc, p, f)}
<1> DEFINE path == (p \o <<"*">>) \o <<f>>
<1>0. DOMAIN doc \subseteq Seq(Names) /\ Indices \subseteq Names /\ "*" \in Names
  BY PositionsInTree, NamesAreSegments
<1>1. p \o <<"*">> \in Seq(Names)
  BY <1>0, LastSegment
<1>2. path \in Seq(Names)
  BY <1>1, LastSegment
<1>3. ASSUME NEW pos \in DOMAIN doc
      PROVE  Fits(pos, path) <=> pos \in Fields(doc, p, f)
  <2>1. Fits(pos, path) <=> \E q \in Seq(Names) : Fits(q, p \o <<"*">>) /\ pos = q \o <<f>>
    BY <1>0, <1>1, FieldFits
  <2>2. \A q \in Seq(Names) :
          q \o <<f>> \in DOMAIN doc => q \in DOMAIN doc /\ IsMap(doc, q)
    BY ParentInTree DEF IsMap
  <2>3. Items(doc, p) = {q \in DOMAIN doc : Fits(q, p \o <<"*">>)}
    BY PlainPathFound
  <2> QED BY <1>0, <2>1, <2>2, <2>3 DEF Fields
<1> HIDE DEF path
<1>4. ASSUME NEW pos \in DOMAIN doc
      PROVE  Fits(pos, path \o <<"*">>) <=> \E q \in Fields(doc, p, f) : pos \in Items(doc, q)
  <2>1. Fits(pos, path \o <<"*">>) <=>
          \E q \in Seq(Names), i \in Indices : Fits(q, path) /\ pos = q \o <<i>>
    BY <1>0, <1>2, WildcardFits
  <2>2. ASSUME NEW q \in Seq(Names), NEW i \in Indices, Fits(q, path), pos = q \o <<i>>
        PROVE  q \in Fields(doc, p, f) /\ pos \in Items(doc, q)
    <3>1. q \in DOMAIN doc
      BY <1>0, <2>2, ParentInTree
    <3>2. pos \in Items(doc, q)
      BY <2>2, ItemsInTree
    <3> QED BY <1>3, <2>2, <3>1, <3>2
  <2>3. ASSUME NEW q \in Fields(doc, p, f), pos \in Items(doc, q)
        PROVE  \E i \in Indices : q \in Seq(Names) /\ Fits(q, path) /\ pos = q \o <<i>>
    <3>1. q \in DOMAIN doc /\ \E i \in Indices : pos = q \o <<i>>
      BY <2>3 DEF Items
    <3> QED BY <1>0, <1>3, <3>1
  <2> QED BY <2>1, <2>2, <2>3
<1>5. \A q : Items(doc, q) \subseteq DOMAIN doc
  BY DEF Items
<1> QED BY <1>3, <1>4, <1>5 DEF path

FirstOf(path) == CHOOSE i \in DOMAIN path : path[i] = "*" /\ \A j \in 1..(i - 1) : path[j] # "*"

\* The first wildcard splits such a path.
LEMMA FirstWildcard ==
  ASSUME NEW p \in Seq(Names), "*" \notin Segments(p), NEW f \in Names,
         NEW path, path = (p \o <<"*">>) \o <<f>>
  PROVE  /\ "*" \in Segments(path)
         /\ SubSeq(path, 1, FirstOf(path) - 1) = p
         /\ SubSeq(path, FirstOf(path) + 1, Len(path)) = <<f>>
<1> DEFINE pre == p \o <<"*">>
           n == Len(p)
<1>0. n \in Nat /\ "*" \in Names
  BY NamesAreSegments, LenProperties
<1>1. /\ pre \in Seq(Names) /\ Len(pre) = n + 1
      /\ \A i \in 1..n : pre[i] = p[i]
      /\ pre[n + 1] = "*"
  BY <1>0, LastSegment
<1>p. path = pre \o <<f>>
  OBVIOUS
<1> HIDE DEF pre
<1>2. /\ path \in Seq(Names) /\ Len(path) = n + 2 /\ DOMAIN path = 1..(n + 2)
      /\ \A i \in 1..(n + 1) : path[i] = pre[i]
      /\ path[n + 2] = f
      /\ SubSeq(path, 1, n + 1) = pre
  <2>1. Len(pre) + 1 = n + 2
    BY <1>0, <1>1
  <2> QED BY <1>p, <1>1, <2>1, LastSegment
<1>3. /\ \A i \in 1..n : path[i] = p[i] /\ path[i] # "*"
      /\ path[n + 1] = "*"
  <2>1. \A i \in 1..n : p[i] # "*"
    <3>1. DOMAIN p = 1..n
      BY LenProperties
    <3> QED BY <3>1 DEF Segments
  <2> QED BY <1>0, <1>1, <1>2, <2>1
<1>4. FirstOf(path) = n + 1
  <2>1. n + 1 \in DOMAIN path /\ \A j \in 1..((n + 1) - 1) : path[j] # "*"
    BY <1>0, <1>2, <1>3
  <2>2. ASSUME NEW i \in DOMAIN path, path[i] = "*", \A j \in 1..(i - 1) : path[j] # "*"
        PROVE  i = n + 1
    BY <1>0, <1>2, <1>3, <2>2
  <2> QED BY <1>3, <2>1, <2>2 DEF FirstOf
<1>5. SubSeq(path, 1, n) = p
  <2>1. \A i \in 1..n : path[i] \in Names
    BY <1>0, <1>2, ElementOfSeq
  <2>2. /\ SubSeq(path, 1, n) \in Seq(Names)
        /\ Len(SubSeq(path, 1, n)) = IF 1 <= n THEN n - 1 + 1 ELSE 0
        /\ \A i \in 1..(n - 1 + 1) : SubSeq(path, 1, n)[i] = path[1 + i - 1]
    BY <1>0, <2>1, SubSeqProperties
  <2>3. Len(SubSeq(path, 1, n)) = n /\ \A i \in 1..n : SubSeq(path, 1, n)[i] = p[i]
    BY <1>0, <1>3, <2>2
  <2> QED BY <2>2, <2>3, SeqEqual
<1>6. SubSeq(path, n + 2, n + 2) = <<f>>
  <2>1. \A i \in (n + 2)..(n + 2) : path[i] \in Names
    BY <1>0, <1>2, ElementOfSeq
  <2> DEFINE q == SubSeq(path, n + 2, n + 2)
  <2>2. /\ q \in Seq(Names)
        /\ Len(q) = IF n + 2 <= n + 2 THEN (n + 2) - (n + 2) + 1 ELSE 0
        /\ \A i \in 1..((n + 2) - (n + 2) + 1) : q[i] = path[(n + 2) + i - 1]
    BY <1>0, <2>1, SubSeqProperties
  <2> HIDE DEF q
  <2>3. Len(q) = 1 /\ q[1] = f
    BY <1>0, <1>2, <2>2
  <2>4. <<f>> \in Seq(Names) /\ Len(<<f>>) = 1 /\ <<f>>[1] = f
    BY OneElement
  <2>5. q = <<f>>
    BY <2>2, <2>3, <2>4, SeqEqual
  <2> QED BY <2>5 DEF q
<1>7. FirstOf(path) - 1 = n /\ FirstOf(path) + 1 = n + 2 /\ Len(path) = n + 2
  BY <1>0, <1>2, <1>4
<1>8. "*" \in Segments(path)
  BY <1>0, <1>2, <1>3 DEF Segments
<1> QED BY <1>5, <1>6, <1>7, <1>8

-------------------------------------------------------------------------------
(* One path, several paths, and pull secrets.                                  *)

\* Positions that the object does not have are no containers.
LEMMA SpecsAreThere ==
  ASSUME NEW doc, NEW A, NEW B, A \cap DOMAIN doc = B \cap DOMAIN doc
  PROVE  SpecsAt(doc, A) = SpecsAt(doc, B)
<1>1. {p \in A : IsMap(doc, p) /\ IsText(doc, p \o <<"image">>)} =
      {p \in B : IsMap(doc, p) /\ IsText(doc, p \o <<"image">>)}
  BY DEF IsMap
<1> QED BY <1>1 DEF SpecsAt

\* The positions that the documentation means by one path.
Documented(doc, path) ==
  {pos \in DOMAIN doc :
     \/ Fits(pos, path \o <<"*">>)
     \/ "*" \in Segments(path) /\ Fits(pos, path)}

\* A path of the tables: without a wildcard, or with one before its last field.
IsTablePath(path) ==
  /\ path \in Seq(Names)
  /\ \/ "*" \notin Segments(path)
     \/ \E p \in Seq(Names), f \in Names \ Indices :
          f # "*" /\ "*" \notin Segments(p) /\ path = (p \o <<"*">>) \o <<f>>

\* What is found for one path is what the documentation says.
LEMMA PathFound ==
  ASSUME NEW doc, IsTree(doc), NEW path, IsTablePath(path)
  PROVE  SpecsForPath(doc, path) = SpecsAt(doc, Documented(doc, path))
<1>1. CASE "*" \notin Segments(path)
  <2>1. SpecsForPath(doc, path) = SpecsAt(doc, Items(doc, path))
    BY <1>1 DEF SpecsForPath, ListedSpecs
  <2>2. Items(doc, path) = Documented(doc, path)
    <3>1. Items(doc, path) = {pos \in DOMAIN doc : Fits(pos, path \o <<"*">>)}
      BY <1>1, PlainPathFound DEF IsTablePath
    <3>2. ASSUME NEW pos
          PROVE  (Fits(pos, path \o <<"*">>) \/ ("*" \in Segments(path) /\ Fits(pos, path)))
                   <=> Fits(pos, path \o <<"*">>)
      BY <1>1
    <3>3. Documented(doc, path) = {pos \in DOMAIN doc : Fits(pos, path \o <<"*">>)}
      BY <3>2 DEF Documented
    <3> QED BY <3>1, <3>3
  <2> QED BY <2>1, <2>2
<1>2. ASSUME NEW p \in Seq(Names), NEW f \in Names \ Indices,
             f # "*", "*" \notin Segments(p), path = (p \o <<"*">>) \o <<f>>
      PROVE  SpecsForPath(doc, path) = SpecsAt(doc, Documented(doc, path))
  <2> DEFINE first == FirstOf(path)
             found == Fields(doc, p, f)
             below == UNION {Items(doc, pos) : pos \in found}
  <2>1. /\ "*" \in Segments(path)
        /\ SubSeq(path, 1, first - 1) = p
        /\ SubSeq(path, first + 1, Len(path)) = <<f>>
    BY <1>2, FirstWildcard
  <2>2. SpecsForPath(doc, path) =
          WildcardSpecs(doc, SubSeq(path, 1, first - 1), SubSeq(path, first + 1, Len(path)))
    BY <2>1 DEF SpecsForPath, FirstOf
  <2>3. SpecsForPath(doc, path) = SpecsAt(doc, found \cup below)
    BY <2>1, <2>2 DEF WildcardSpecs, Fields
  <2>4. /\ {pos \in DOMAIN doc : Fits(pos, path)} = found \cap DOMAIN doc
        /\ {pos \in DOMAIN doc : Fits(pos, path \o <<"*">>)} = below
    BY <1>2, WildcardPathFound
  <2> HIDE DEF first, found, below
  <2>5. Documented(doc, path) \cap DOMAIN doc = (found \cup below) \cap DOMAIN doc
    <3>1. ASSUME NEW pos \in DOMAIN doc
          PROVE  pos \in Documented(doc, path) <=> pos \in found \cup below
      <4>1. pos \in Documented(doc, path) <=> Fits(pos, path \o <<"*">>) \/ Fits(pos, path)
        BY <2>1 DEF Documented
      <4>2. Fits(pos, path) <=> pos \in found
        BY <2>4
      <4>3. Fits(pos, path \o <<"*">>) <=> pos \in below
        BY <2>4
      <4> QED BY <4>1, <4>2, <4>3
    <3> QED BY <3>1
  <2> QED BY <2>3, <2>5, SpecsAreThere
<1> QED BY <1>1, <1>2 DEF IsTablePath

\* Several paths: the containers of each.
LEMMA ContainersFound ==
  ASSUME NEW doc, IsTree(doc), NEW paths, \A path \in paths : IsTablePath(path)
  PROVE  ContainerSpecs(doc, paths) = DocumentedSpecs(doc, paths)
<1>1. ContainerSpecs(doc, paths) = UNION {SpecsAt(doc, Documented(doc, path)) : path \in paths}
  <2>1. \A path \in paths : SpecsForPath(doc, path) = SpecsAt(doc, Documented(doc, path))
    BY PathFound
  <2> QED BY <2>1 DEF ContainerSpecs
<1>2. UNION {SpecsAt(doc, Documented(doc, path)) : path \in paths}
        = SpecsAt(doc, UNION {Documented(doc, path) : path \in paths})
  BY DEF SpecsAt
<1>3. UNION {Documented(doc, path) : path \in paths} =
        {pos \in DOMAIN doc : \E path \in paths :
           \/ Fits(pos, path \o <<"*">>)
           \/ "*" \in Segments(path) /\ Fits(pos, path)}
  <2>1. ASSUME NEW pos \in DOMAIN doc, NEW path \in paths
        PROVE  pos \in Documented(doc, path) <=>
                 \/ Fits(pos, path \o <<"*">>)
                 \/ "*" \in Segments(path) /\ Fits(pos, path)
    BY DEF Documented
  <2>2. \A path \in paths : Documented(doc, path) \subseteq DOMAIN doc
    BY DEF Documented
  <2> QED BY <2>1, <2>2
<1> QED BY <1>1, <1>2, <1>3 DEF DocumentedSpecs

\* The documented pull secrets are found.
LEMMA PullSecretsFound ==
  ASSUME NEW doc, IsTree(doc), NEW paths,
         \A path \in paths : path \in Seq(Names) /\ "*" \notin Segments(path)
  PROVE  DocumentedPullSecrets(doc, paths) \subseteq ImagePullSecrets(doc, paths)
<1>0. DOMAIN doc \subseteq Seq(Names) /\ "name" \in Names /\ "*" \in Names
  BY PositionsInTree, NamesAreSegments
<1>1. ASSUME NEW pos \in DOMAIN doc, NEW path \in paths,
             Fits(pos, path \o <<"*", "name">>), IsText(doc, pos)
      PROVE  \E item \in Items(doc, path) : IsMap(doc, item) /\ pos = item \o <<"name">>
  <2>1. path \o <<"*", "name">> = (path \o <<"*">>) \o <<"name">> /\ path \o <<"*">> \in Seq(Names)
    <3>1. <<"*">> \in Seq(Names) /\ <<"name">> \in Seq(Names)
      BY <1>0, OneElement
    <3>2. <<"*">> \o <<"name">> = <<"*", "name">>
      BY <1>0, TwoElements
    <3> QED BY <1>0, <3>1, <3>2, ConcatAssociative, LastSegment
  <2>2. PICK item \in Seq(Names) : Fits(item, path \o <<"*">>) /\ pos = item \o <<"name">>
    BY <1>0, <1>1, <2>1, FieldFits
  <2>3. item \in DOMAIN doc /\ doc[item] = IF "name" \in Indices THEN "list" ELSE "map"
    BY <1>0, <2>2, ParentInTree
  <2>4. IsMap(doc, item)
    BY <2>3, PathsAssumption DEF FieldNames, IsMap
  <2>5. item \in Items(doc, path)
    BY <2>2, <2>3, PlainPathFound
  <2> QED BY <2>2, <2>4, <2>5
<1> QED BY <1>1 DEF DocumentedPullSecrets, ImagePullSecrets

-------------------------------------------------------------------------------
(* The tables.                                                                 *)

PlainPaths == Seq(Names \ {"*"})

LEMMA PlainIsPlain ==
  ASSUME NEW p \in PlainPaths
  PROVE  p \in Seq(Names) /\ "*" \notin Segments(p)
<1>1. p \in Seq(Names)
  BY SeqMonotonic DEF PlainPaths
<1>2. \A i \in DOMAIN p : p[i] \in Names \ {"*"}
  BY LenProperties, ElementOfSeq DEF PlainPaths
<1> QED BY <1>1, <1>2 DEF Segments

\* Paths of a few segments, and paths put together.
LEMMA ShortPaths ==
  ASSUME NEW S, NEW a \in S, NEW b \in S, NEW c \in S, NEW d \in S, NEW e \in S
  PROVE  /\ <<a>> \in Seq(S) /\ <<a, b>> \in Seq(S) /\ <<a, b, c>> \in Seq(S)
         /\ <<a, b, c, d, e>> \in Seq(S)
OBVIOUS

LEMMA PlainConcat ==
  ASSUME NEW p \in PlainPaths, NEW q \in PlainPaths
  PROVE  p \o q \in PlainPaths
BY ConcatProperties DEF PlainPaths

WildcardPaths ==
  {path \in Seq(Names) :
     \E p \in PlainPaths, f \in Names \ {"*"} : path = (p \o <<"*">>) \o <<f>>}

\* What the table has of a resource.
IsTableEntry(resource) ==
  /\ resource.containers \subseteq PlainPaths \cup WildcardPaths
  /\ resource.pullSecrets \subseteq PlainPaths

LEMMA LiteralPaths ==
  /\ <<"spec">> \in PlainPaths
  /\ <<"spec", "template", "spec">> \in PlainPaths
  /\ <<"spec", "jobTemplate", "spec", "template", "spec">> \in PlainPaths
  /\ <<"spec", "workflowSpec">> \in PlainPaths
  /\ <<"initContainers">> \in PlainPaths
  /\ <<"containers">> \in PlainPaths
  /\ <<"templates">> \in PlainPaths
  /\ <<"imagePullSecrets">> \in PlainPaths
  /\ <<"spec", "ephemeralContainers">> \in PlainPaths
  /\ <<"spec", "steps">> \in PlainPaths
  /\ <<"spec", "sidecars">> \in PlainPaths
  /\ <<"spec", "taskSpec", "steps">> \in PlainPaths
  /\ <<"spec", "taskSpec", "sidecars">> \in PlainPaths
  /\ <<"spec", "podTemplate", "imagePullSecrets">> \in PlainPaths
<1> DEFINE S == Names \ {"*"}
<1>1. /\ "spec" \in S /\ "template" \in S /\ "jobTemplate" \in S /\ "workflowSpec" \in S
      /\ "taskSpec" \in S /\ "podTemplate" \in S /\ "templates" \in S /\ "containers" \in S
      /\ "initContainers" \in S /\ "ephemeralContainers" \in S /\ "sidecars" \in S
      /\ "steps" \in S /\ "imagePullSecrets" \in S
  BY DEF Names
<1> HIDE DEF S
<1>2. /\ \A a \in S : <<a>> \in Seq(S)
      /\ \A a, b \in S : <<a, b>> \in Seq(S)
      /\ \A a, b, c \in S : <<a, b, c>> \in Seq(S)
      /\ \A a, b, c, d, e \in S : <<a, b, c, d, e>> \in Seq(S)
  BY ShortPaths
<1>3. PlainPaths = Seq(S)
  BY DEF PlainPaths, S
<1> QED BY <1>1, <1>2, <1>3

\* A Pod spec at any place, and the templates of a workflow.
LEMMA PodSpecPaths ==
  ASSUME NEW at \in PlainPaths
  PROVE  PodSpec(at) \subseteq PlainPaths
BY PlainConcat, LiteralPaths DEF PodSpec

LEMMA TemplatePaths ==
  ASSUME NEW at \in PlainPaths
  PROVE  Templates(at) \subseteq WildcardPaths
<1> SUFFICES ASSUME NEW f \in {"container", "initContainers", "sidecars", "script"}
             PROVE  at \o <<"templates", "*", f>> \in WildcardPaths
  BY DEF Templates
<1>1. f \in Names \ {"*"} /\ "templates" \in Names /\ "*" \in Names
  BY DEF Names
<1>2. /\ <<"templates">> \in Seq(Names) /\ <<"*">> \in Seq(Names) /\ <<f>> \in Seq(Names)
      /\ at \in Seq(Names)
  BY <1>1, OneElement, PlainIsPlain
<1>3. at \o <<"templates">> \in PlainPaths
  BY PlainConcat, LiteralPaths
<1>4. <<"templates", "*", f>> = (<<"templates">> \o <<"*">>) \o <<f>>
  BY <1>1, ThreeElements
<1>5. at \o ((<<"templates">> \o <<"*">>) \o <<f>>) = ((at \o <<"templates">>) \o <<"*">>) \o <<f>>
  <2>1. <<"templates">> \o <<"*">> \in Seq(Names)
    BY <1>2, ConcatProperties
  <2>2. at \o ((<<"templates">> \o <<"*">>) \o <<f>>) = (at \o (<<"templates">> \o <<"*">>)) \o <<f>>
    BY <1>2, <2>1, ConcatAssociative
  <2>3. at \o (<<"templates">> \o <<"*">>) = (at \o <<"templates">>) \o <<"*">>
    BY <1>2, ConcatAssociative
  <2> QED BY <2>2, <2>3
<1>6. ((at \o <<"templates">>) \o <<"*">>) \o <<f>> \in Seq(Names)
  BY <1>1, <1>3, PlainIsPlain, LastSegment
<1> QED BY <1>1, <1>3, <1>4, <1>5, <1>6 DEF WildcardPaths

\* Every entry of the tables has paths of the two forms.
LEMMA ResourceEntry ==
  ASSUME NEW containers \in SUBSET (PlainPaths \cup WildcardPaths), NEW at \in PlainPaths
  PROVE  IsTableEntry(Resource(containers, at))
BY PlainConcat, LiteralPaths DEF IsTableEntry, Resource

LEMMA BuiltinEntries ==
  ASSUME NEW kind \in DOMAIN BuiltinResources
  PROVE  IsTableEntry(BuiltinResources[kind])
<1> DEFINE job == <<"spec", "jobTemplate", "spec", "template", "spec">>
<1>1. IsTableEntry(PodTemplate)
  BY LiteralPaths, PodSpecPaths, ResourceEntry DEF PodTemplate
<1>2. IsTableEntry(Resource(PodSpec(<<"spec">>) \cup {<<"spec", "ephemeralContainers">>}, <<"spec">>))
  BY LiteralPaths, PodSpecPaths, ResourceEntry
<1>3. IsTableEntry(Resource(PodSpec(job), job))
  BY LiteralPaths, PodSpecPaths, ResourceEntry
<1> QED BY <1>1, <1>2, <1>3 DEF BuiltinResources

LEMMA AdditionalEntries ==
  ASSUME NEW kind \in DOMAIN KnownAdditionalResources
  PROVE  IsTableEntry(KnownAdditionalResources[kind])
<1> DEFINE task == {<<"spec", "steps">>, <<"spec", "sidecars">>}
           run == {<<"spec", "taskSpec", "steps">>, <<"spec", "taskSpec", "sidecars">>}
           podSecrets == {<<"spec", "podTemplate", "imagePullSecrets">>}
           cron == <<"spec", "workflowSpec">>
<1>1. IsTableEntry(PodTemplate) /\ IsTableEntry(Workflow)
  BY LiteralPaths, PodSpecPaths, TemplatePaths, ResourceEntry DEF PodTemplate, Workflow
<1>2. IsTableEntry(Resource(PodSpec(<<"spec">>), <<"spec">>))
  BY LiteralPaths, PodSpecPaths, ResourceEntry
<1>3. IsTableEntry(Resource(Templates(cron), cron))
  BY LiteralPaths, TemplatePaths, ResourceEntry
<1>4. IsTableEntry([Resource(task, <<"spec">>) EXCEPT !.pullSecrets = {}])
  BY LiteralPaths DEF IsTableEntry, Resource
<1>5. IsTableEntry([Resource(run, <<"spec">>) EXCEPT !.pullSecrets = podSecrets])
  BY LiteralPaths DEF IsTableEntry, Resource
<1>6. /\ KnownAdditionalResources.Task = [Resource(task, <<"spec">>) EXCEPT !.pullSecrets = {}]
      /\ KnownAdditionalResources.TaskRun = [Resource(run, <<"spec">>) EXCEPT !.pullSecrets = podSecrets]
      /\ KnownAdditionalResources.Service = PodTemplate
      /\ KnownAdditionalResources.Revision = Resource(PodSpec(<<"spec">>), <<"spec">>)
      /\ KnownAdditionalResources.Workflow = Workflow
      /\ KnownAdditionalResources.WorkflowTemplate = Workflow
      /\ KnownAdditionalResources.ClusterWorkflowTemplate = Workflow
      /\ KnownAdditionalResources.CronWorkflow = Resource(Templates(cron), cron)
  BY DEF KnownAdditionalResources
<1>7. kind \in {"Task", "TaskRun", "Service", "Revision", "Workflow", "WorkflowTemplate",
                "ClusterWorkflowTemplate", "CronWorkflow"}
  BY DEF KnownAdditionalResources
<1> QED BY <1>1, <1>2, <1>3, <1>4, <1>5, <1>6, <1>7

\* What the exporter finds in any object of a kind of the tables.
LEMMA FoundInObjects ==
  ASSUME NEW object \in Objects
  PROVE  LET resource == ResourceOf(object.kind)
             doc == object.content
         IN /\ SpecsOf(object) = DocumentedSpecs(doc, resource.containers)
            /\ DocumentedPullSecrets(doc, resource.pullSecrets) \subseteq AttachedSecrets(object)
<1> DEFINE resource == ResourceOf(object.kind)
           doc == object.content
<1>1. object.kind \in ResourceKinds /\ IsTree(doc)
  BY FetchAssumption
<1>2. IsTableEntry(resource)
  BY <1>1, BuiltinEntries, AdditionalEntries DEF ResourceKinds, ResourceOf
<1>3. ASSUME NEW path \in resource.containers PROVE IsTablePath(path)
  <2>1. CASE path \in PlainPaths
    BY <2>1, PlainIsPlain DEF IsTablePath
  <2>2. CASE path \in WildcardPaths
    <3>1. PICK p \in PlainPaths, f \in Names \ {"*"} : path = (p \o <<"*">>) \o <<f>>
      BY <2>2 DEF WildcardPaths
    <3>2. /\ p \in Seq(Names) /\ "*" \notin Segments(p)
          /\ p \o <<"*">> \in Seq(Names)
          /\ path \in Seq(Names)
      BY <3>1, PlainIsPlain, NamesAreSegments, LastSegment
    <3>3. f \in Segments(path)
      BY <3>1, <3>2, FieldIsSegment
    <3>4. f \notin Indices
      BY <1>1, <3>3, PathsAssumption DEF FieldNames
    <3> QED BY <3>1, <3>2, <3>4 DEF IsTablePath
  <2> QED BY <1>2, <2>1, <2>2 DEF IsTableEntry
<1>4. SpecsOf(object) = DocumentedSpecs(doc, resource.containers)
  BY <1>1, <1>3, ContainersFound DEF SpecsOf
<1>5. \A path \in resource.pullSecrets : path \in Seq(Names) /\ "*" \notin Segments(path)
  BY <1>2, PlainIsPlain DEF IsTableEntry
<1>6. DocumentedPullSecrets(doc, resource.pullSecrets)
        \subseteq ImagePullSecrets(doc, resource.pullSecrets)
  BY <1>1, <1>5, PullSecretsFound
<1>7. ImagePullSecrets(doc, resource.pullSecrets) \subseteq AttachedSecrets(object)
  BY DEF AttachedSecrets
<1> QED BY <1>4, <1>6, <1>7

-------------------------------------------------------------------------------
(* WorkloadFetch: the types of a reconcile, and what it finds.                 *)

\* What is found in an object is a text.
LEMMA ImagesAreTexts ==
  ASSUME NEW object
  PROVE  {spec.image : spec \in SpecsOf(object)} \subseteq Texts
<1>1. \A doc, positions : \A spec \in SpecsAt(doc, positions) : spec.image \in Texts
  BY DEF SpecsAt, IsText
<1>2. \A doc, path : \A spec \in SpecsForPath(doc, path) : spec.image \in Texts
  BY <1>1 DEF SpecsForPath, ListedSpecs, WildcardSpecs
<1> QED BY <1>2 DEF SpecsOf, ContainerSpecs

\* The object that is read is one of the cluster, and the image under way parses.
FetchTyped ==
  /\ FetchTypeOK
  /\ fetch.pc = "read" => fetch.object \in Objects
  /\ fetch.pc \in {"resolve", "resolved"} => fetch.image \in ParsedImages

\* An image that fails was one of the object.
LEMMA FailedTyped ==
  ASSUME FetchShape, FetchTyped, NEW image \in fetch.todo, fetch' = Failed(image)
  PROVE  FetchTyped'
BY DEF FetchShape, FetchTyped, FetchTypeOK, Failed

LEMMA NoFetchTyped == ASSUME fetch' = NoFetch PROVE FetchTyped'
BY DEF NoFetch, FetchTyped, FetchTypeOK

LEMMA FetchStepTyped ==
  ASSUME FetchInv, FetchTyped, [FetchNext]_fetch
  PROVE  FetchTyped'
<1>0. FetchShape /\ UnderWay
  BY DEF FetchInv
<1>1. CASE UNCHANGED fetch
  BY <1>1 DEF FetchTyped, FetchTypeOK
<1>2. CASE Assemble
  <2> DEFINE images == {spec.image : spec \in SpecsOf(fetch.object)}
  <2>1. images \subseteq Texts
    BY ImagesAreTexts
  <2>2. fetch' = [NoFetch EXCEPT !.pc = "next", !.images = images, !.todo = images]
    BY <1>2 DEF Assemble
  <2> HIDE DEF images
  <2> QED BY <2>1, <2>2 DEF NoFetch, FetchTyped, FetchTypeOK
<1>3. ASSUME NEW object \in Objects, Read(object) PROVE FetchTyped'
  BY <1>3 DEF Read, NoFetch, FetchTyped, FetchTypeOK
<1>4. CASE AssembleFails \/ PlatformPanics \/ EndReconcile
  BY <1>4, NoFetchTyped DEF AssembleFails, PlatformPanics, EndReconcile
<1>5. ASSUME NEW image, GetFails(image) PROVE FetchTyped'
  BY <1>0, <1>5, FailedTyped DEF GetFails
<1>6. CASE IndexEmpty \/ EntryFails
  BY <1>0, <1>6, FailedTyped DEF IndexEmpty, EntryFails, UnderWay
<1>7. ASSUME NEW image, NEW index \in Indexes, Get(image, index) PROVE FetchTyped'
  BY <1>0, <1>7 DEF Get, FetchShape, FetchTyped, FetchTypeOK
<1>8. CASE Resolve
  <2>1. fetch.pc = "resolve" /\ fetch.index # << >>
    BY <1>8 DEF Resolve
  <2>2. PICK entry : fetch' = [fetch EXCEPT !.pc = "resolved", !.entry = entry]
    BY <1>8 DEF Resolve
  <2>3. fetch'.entry \in DOMAIN fetch'.index
    <3>1. FetchInv' /\ fetch'.pc = "resolved" /\ fetch'.index = fetch.index
      BY <1>0, <1>8, <2>2, ResolveChooses DEF FetchShape
    <3>2. 1 \in DOMAIN fetch.index
      <4>1. PICK n \in Nat : fetch.index \in [1..n -> Platforms \cup {NoPlatform}]
        BY <1>0, FetchAssumption DEF UnderWay, Indexes
      <4>2. n # 0
        BY <2>1, <4>1
      <4> QED BY <4>1, <4>2
    <3> QED BY <3>1, <3>2 DEF FetchInv, ResolvedAsDocumented
  <2> QED BY <1>0, <2>1, <2>2, <2>3 DEF FetchShape, FetchTyped, FetchTypeOK
<1>9. CASE Store
  BY <1>0, <1>9 DEF Store, FetchShape, UnderWay, FetchTyped, FetchTypeOK
<1> QED BY <1>1, <1>2, <1>3, <1>4, <1>5, <1>6, <1>7, <1>8, <1>9 DEF FetchNext

\* The invariant of the types.
LEMMA FetchTypedAlways == FetchSpec => []FetchTyped
<1>1. FetchInit => FetchTyped
  <2> SUFFICES ASSUME fetch = NoFetch PROVE FetchTyped
    BY DEF FetchInit
  <2>1. /\ fetch.pc = "idle" /\ fetch.todo = {} /\ fetch.stored = {} /\ fetch.failed = {}
    BY DEF NoFetch
  <2> QED BY <2>1 DEF FetchTyped, FetchTypeOK
<1>2. FetchInv /\ FetchTyped /\ [FetchNext]_fetch => FetchTyped'
  BY FetchStepTyped
<1> QED BY <1>1, <1>2, FetchInitInv, FetchInvStep, PTL DEF FetchSpec

\* In every reconcile the images are those of the
\* object, only what parses is stored, and the entry lies within the index.
THEOREM FetchTypeCorrect == FetchSpec => []FetchTypeOK
<1>1. FetchTyped => FetchTypeOK
  BY DEF FetchTyped
<1> QED BY <1>1, FetchTypedAlways, PTL

\* In every tree, and for every entry of the tables, the code finds the containers
\* that the documentation's paths name, with their positions, no others, and all
\* the pull secrets.
THEOREM FoundAsDocumented == FetchSpec => []FoundWhereDocumented
<1>1. FetchTyped => FoundWhereDocumented
  BY FoundInObjects DEF FetchTyped, FoundWhereDocumented
<1> QED BY <1>1, FetchTypedAlways, PTL

===============================================================================
