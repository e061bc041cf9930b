------------------------------ MODULE ImageCache ------------------------------
(***************************************************************************)
(* The in-memory image cache of the cluster exporter                       *)
(* (internal/clusterexporter/cache.go).  It is two Go maps under one       *)
(* mutex, so every operation is one atomic step:                           *)
(*                                                                         *)
(*   digestMap   image reference -> digest the registry answered for it    *)
(*   imageMap    digest -> CachedContainerImage                            *)
(*                                                                         *)
(* Both are partial functions: a key that is not in the DOMAIN is a key    *)
(* the Go map does not hold.  The fields of a ContainerImage are fixed by  *)
(* its digest (content addressing, one platform per process), so of a      *)
(* CachedContainerImage only Time is kept.  Times are kept as ages: the    *)
(* number of clock ticks since that time, saturating at MaxAge, which      *)
(* keeps the state finite with a clock that never stops.                   *)
(***************************************************************************)
EXTENDS Integers, Functions

CONSTANTS
  Refs,      \* image references that parse (the name.Reference values)
  Digests,   \* image digests
  DigestOf,  \* for each reference that is a name.Digest, its DigestStr()
  NoDigest,  \* the empty digest string
  MaxAge     \* bound: an age of MaxAge stands for every age from MaxAge on

DigestRefs == DOMAIN DigestOf
Tags == Refs \ DigestRefs
Ages == 0..MaxAge

ASSUME CacheAssumption ==
  /\ DigestRefs \subseteq Refs
  /\ DigestOf \in [DigestRefs -> Digests]
  /\ NoDigest \notin Digests
  /\ MaxAge \in Nat \ {0}

VARIABLES digestMap, imageMap
cacheVars == <<digestMap, imageMap>>

CacheInit ==
  /\ digestMap = << >>
  /\ imageMap = << >>

-------------------------------------------------------------------------------
(* Get: a digest reference is looked up in imageMap directly, a tag through *)
(* digestMap.  Get changes nothing, so it is the following three operators. *)

DigestFor(ref) ==
  IF ref \in DigestRefs THEN DigestOf[ref]
  ELSE IF ref \in DOMAIN digestMap THEN digestMap[ref] ELSE NoDigest

Cached(ref) == DigestFor(ref) \in DOMAIN imageMap

AgeOf(ref) == imageMap[DigestFor(ref)]

\* f with key mapped to value, as a Go map assignment does it.
With(f, key, value) ==
  [k \in DOMAIN f \cup {key} |-> IF k = key THEN value ELSE f[k]]

-------------------------------------------------------------------------------
(* Faulty forms of the operations, which the properties must tell apart     *)
(* from the real ones.                                                      *)

\* Put of an image whose Digest was never filled in.
PutWithoutDigest(ref, digest) ==
  /\ digestMap' = With(digestMap, ref, NoDigest)
  /\ imageMap' = With(imageMap, digest, 0)

\* Evict that drops old images whether or not a kept reference points to them.
EvictByImageAge(refs, olderThan) ==
  LET kept == {r \in DOMAIN digestMap :
                 r \in refs \/ imageMap[digestMap[r]] <= olderThan}
  IN /\ digestMap' = Restrict(digestMap, kept)
     /\ imageMap' = Restrict(imageMap,
                      {d \in DOMAIN imageMap : imageMap[d] <= olderThan})

\* Evict that looks only at the images of the references it removes.
EvictSparingOrphans(refs, olderThan) ==
  LET kept == {r \in DOMAIN digestMap :
                 r \in refs \/ imageMap[digestMap[r]] <= olderThan}
      removed == DOMAIN digestMap \ kept
  IN /\ digestMap' = Restrict(digestMap, kept)
     /\ imageMap' = Restrict(imageMap,
                      {d \in DOMAIN imageMap :
                         \/ \E r \in kept : digestMap[r] = d
                         \/ \A r \in removed : digestMap[r] # d})

\* Evict that compares with After(olderThan): it does not protect an entry
\* cached at olderThan itself.
EvictAtEpoch(refs, olderThan) ==
  LET kept == {r \in DOMAIN digestMap :
                 r \in refs \/ imageMap[digestMap[r]] < olderThan}
  IN /\ digestMap' = Restrict(digestMap, kept)
     /\ imageMap' = Restrict(imageMap,
                      {d \in DOMAIN imageMap : \E r \in kept : digestMap[r] = d})

-------------------------------------------------------------------------------
(* The operations that write.                                               *)

Put(ref, digest) ==
  /\ digestMap' = With(digestMap, ref, digest)
  /\ imageMap' = With(imageMap, digest, 0)

\* An entry cached at or after olderThan: !img.Time.Before(olderThan).
Protected(digest, olderThan) ==
  /\ digest \in DOMAIN imageMap
  /\ imageMap[digest] <= olderThan

KeptRefs(refs, olderThan) ==
  {r \in DOMAIN digestMap : r \in refs \/ Protected(digestMap[r], olderThan)}

Evict(refs, olderThan) ==
  LET kept == KeptRefs(refs, olderThan)
      activeDigests == {digestMap[r] : r \in kept}
  IN /\ digestMap' = Restrict(digestMap, kept)
     /\ imageMap' = Restrict(imageMap, DOMAIN imageMap \cap activeDigests)

\* One tick of the clock, as the cache sees it.
GrowOlder ==
  /\ imageMap' = [d \in DOMAIN imageMap |->
                    IF imageMap[d] < MaxAge THEN imageMap[d] + 1 ELSE MaxAge]
  /\ UNCHANGED digestMap

-------------------------------------------------------------------------------
(* The cache under every sequence of calls its callers can make.            *)

\* What the registry can answer: a digest reference names its own answer.
Answers(ref) == IF ref \in DigestRefs THEN {DigestOf[ref]} ELSE Digests

CacheNext ==
  \/ \E ref \in Refs : \E digest \in Answers(ref) : Put(ref, digest)
  \/ \E refs \in SUBSET Refs, olderThan \in 0..(MaxAge - 1) : Evict(refs, olderThan)
  \/ GrowOlder

CacheSpec == CacheInit /\ [][CacheNext]_cacheVars

-------------------------------------------------------------------------------
(* Properties.                                                              *)

\* The two maps map references to digests and digests to ages.
CacheTypeOK ==
  /\ DOMAIN digestMap \subseteq Refs
  /\ digestMap \in [DOMAIN digestMap -> Digests]
  /\ DOMAIN imageMap \subseteq Digests
  /\ imageMap \in [DOMAIN imageMap -> Ages]

\* A reference that Put stored and Evict has not removed always finds its
\* image: the two maps never disagree, whatever references share a digest
\* (cache.go: "A digest is only removed from the image map once all
\* references pointing to it have been evicted").
NoDanglingRef ==
  \A r \in DOMAIN digestMap : digestMap[r] \in DOMAIN imageMap

\* Evict leaves no image that no reference maps to, so images orphaned by a
\* moved tag do not pile up past the next successful scrape.
EvictLeavesNoOrphan ==
  [][\A refs \in SUBSET Refs, olderThan \in 0..(MaxAge - 1) :
       Evict(refs, olderThan) =>
         \A d \in DOMAIN imageMap' : \E r \in DOMAIN digestMap' : digestMap'[r] = d]_cacheVars

\* What the cache is to its callers: every tag an entry of its own
\* (CacheContract.tla), which goes only if it is inactive and old.
View ==
  [t \in DOMAIN digestMap \cap Tags |->
     [digest |-> digestMap[t], age |-> imageMap[digestMap[t]]]]

Contract == INSTANCE CacheContract WITH view <- View

\* Seen through tags the cache implements the comment of its interface.
ImplementsContract == Contract!ContractSpec

===============================================================================
