---------------------------- MODULE ScrapeEmission ----------------------------
(***************************************************************************)
(* A scrape of the cluster exporter in full (metrics.go: Collect): the      *)
(* series it emits for each container it listed, one look into the cache    *)
(* after the other, and the eviction that ends it.  Meanwhile reconciles    *)
(* put images into the cache and other scrapes evict from it.               *)
(*                                                                         *)
(* ClusterExporter has the same scrape with the emission as one step; here  *)
(* the workloads are left out instead, and a list can return anything.      *)
(***************************************************************************)
EXTENDS ImageCache

CONSTANTS
  Containers,  \* containers, each with its object and path
  BadImage,    \* an image string that name.ParseReference rejects
  NoEntry      \* the zero time: no entry seen yet

ASSUME EmissionAssumption == BadImage \notin Refs /\ NoEntry \notin Ages

VARIABLE scrape
vars == <<cacheVars, scrape>>

NoScrape ==
  [pc |-> "idle", epoch |-> 0, image |-> << >>, todo |-> {}, active |-> {},
   info |-> {}, series |-> [d \in Digests |-> 0], oldest |-> NoEntry]

Init == CacheInit /\ scrape = NoScrape

-------------------------------------------------------------------------------
(* The reconcilers, the other scrapes and the clock.                        *)

Reconciled(ref, digest) == Put(ref, digest) /\ UNCHANGED scrape

OtherScrape(refs, olderThan) == Evict(refs, olderThan) /\ UNCHANGED scrape

Older(age) == IF age < MaxAge THEN age + 1 ELSE MaxAge

\* Collect runs under a timeout: the clock does not run past MaxAge - 1 after
\* the epoch of a scrape under way.
Tick ==
  /\ scrape.pc # "idle" => scrape.epoch < MaxAge - 1
  /\ GrowOlder
  /\ scrape' = [scrape EXCEPT !.epoch = IF scrape.pc = "idle" THEN 0 ELSE @ + 1,
                              !.oldest = IF @ = NoEntry THEN NoEntry ELSE Older(@)]

-------------------------------------------------------------------------------
(* Collect.                                                                 *)

Begin ==
  /\ scrape.pc = "idle"
  /\ scrape' = [NoScrape EXCEPT !.pc = "list"]
  /\ UNCHANGED cacheVars

\* The lists return some of the containers, with any images.
List(present, image) ==
  /\ scrape.pc = "list"
  /\ scrape' = [scrape EXCEPT !.pc = "emit", !.image = image, !.todo = present]
  /\ UNCHANGED cacheVars

\* A list fails: up is 0, and nothing else is emitted or evicted.
ListFails ==
  /\ scrape.pc = "list"
  /\ scrape' = NoScrape
  /\ UNCHANGED cacheVars

\* Get for a container, unless its image does not parse.
Found(ref) == ref \in Refs /\ Cached(ref)

\* A container whose image is not in the cache, or does not parse, has an info
\* series with an empty digest.
EmitUnresolved(c) ==
  /\ scrape.pc = "emit" /\ c \in scrape.todo
  /\ ~Found(scrape.image[c])
  /\ scrape' = [scrape EXCEPT
       !.todo = @ \ {c}, !.info = @ \cup {<<c, NoDigest>>},
       !.active = @ \cup ({scrape.image[c]} \cap Refs)]
  /\ UNCHANGED cacheVars

\* The newer of the two.
NewerOf(oldest, age) == IF oldest = NoEntry \/ age < oldest THEN age ELSE oldest

\* The older of the oldest entry so far and one of this age.
OlderOf(oldest, age) == IF oldest = NoEntry \/ age > oldest THEN age ELSE oldest

\* What is emitted for a container whose image has this digest, where first
\* says whether the digest's own series go with it.
Emit(c, digest, first) ==
  [scrape EXCEPT
     !.todo = @ \ {c},
     !.active = @ \cup {scrape.image[c]},
     !.info = @ \cup {<<c, digest>>},
     !.series[digest] = IF first THEN @ + 1 ELSE @,
     !.oldest = IF first THEN OlderOf(@, AgeOf(scrape.image[c])) ELSE @]

\* The series of an image go with the first container of its reference.
EmitOncePerReference(c) ==
  /\ scrape.pc = "emit" /\ c \in scrape.todo
  /\ Found(scrape.image[c])
  /\ LET digest == DigestFor(scrape.image[c])
     IN scrape' = Emit(c, digest, scrape.image[c] \notin scrape.active)
  /\ UNCHANGED cacheVars

\* A digest that was seen before is skipped before the reference is noted.
EmitSkippingActive(c) ==
  /\ scrape.pc = "emit" /\ c \in scrape.todo
  /\ Found(scrape.image[c])
  /\ LET digest == DigestFor(scrape.image[c])
         first == \A entry \in scrape.info : entry[2] # digest
     IN scrape' = [Emit(c, digest, first) EXCEPT
                     !.active = IF first THEN @ ELSE scrape.active]
  /\ UNCHANGED cacheVars

\* A container whose image is in the cache: the series of its digest go with
\* the first container that has it.
EmitResolved(c) ==
  /\ scrape.pc = "emit" /\ c \in scrape.todo
  /\ Found(scrape.image[c])
  /\ LET digest == DigestFor(scrape.image[c])
     IN scrape' = Emit(c, digest, \A entry \in scrape.info : entry[2] # digest)
  /\ UNCHANGED cacheVars

\* The oldest entry is emitted, the cache evicted, and up is 1.
Finish ==
  /\ scrape.pc = "emit" /\ scrape.todo = {}
  /\ Evict(scrape.active, scrape.epoch)
  /\ scrape' = NoScrape

-------------------------------------------------------------------------------

Next ==
  \/ \E ref \in Refs : \E digest \in Answers(ref) : Reconciled(ref, digest)
  \/ \E refs \in SUBSET Refs, olderThan \in 0..(MaxAge - 1) : OtherScrape(refs, olderThan)
  \/ Tick
  \/ Begin \/ ListFails \/ Finish
  \/ \E present \in SUBSET Containers :
       \E image \in [present -> Refs \cup {BadImage}] : List(present, image)
  \/ \E c \in Containers : EmitUnresolved(c) \/ EmitResolved(c)

Spec == Init /\ [][Next]_vars

-------------------------------------------------------------------------------
(* Properties.                                                              *)

\* Every digest that an info series names has its size, created, annotation and
\* label series, exactly once, and no other digest has any: a duplicate would
\* fail the gathering of all metrics, and a missing one drops the container from
\* every join on the digest.  Tags move and entries go between the looks into
\* the cache (metrics.go: "Only process digest-specific metrics once").
DigestSeriesJoinInfo ==
  \A d \in Digests :
    scrape.series[d] = IF \E entry \in scrape.info : entry[2] = d THEN 1 ELSE 0

\* The reported timestamp is there as soon as the scrape resolved an image, and is
\* no newer than the entry of any image it resolved, however often reconciles
\* renew or replace entries meanwhile (metrics.go: "Track the oldest cache entry to
\* detect stuck reconcilers").  It says nothing of entries without a container:
\* the zero time, NoEntry, means that the scrape resolved nothing, not that the cache
\* is empty, as the metric's help has it.
OldestIsOldest ==
  \A entry \in scrape.info : entry[2] # NoDigest =>
    /\ scrape.oldest # NoEntry
    /\ entry[2] \in DOMAIN imageMap => imageMap[entry[2]] <= scrape.oldest

\* The eviction at the end of a scrape takes no tag of a container that the
\* scrape listed, resolved or not and alone with its digest or not (metrics.go:
\* "All lists succeeded so activeRefs is complete").
ListedTagsKept ==
  [][scrape.pc = "emit" /\ scrape'.pc = "idle" =>
       \A c \in DOMAIN scrape.image :
         scrape.image[c] \in Tags \cap DOMAIN digestMap =>
           scrape.image[c] \in DOMAIN digestMap']_vars

===============================================================================
