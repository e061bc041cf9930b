--------------------------- MODULE ImageCacheProofs ---------------------------
(* Proofs about ImageCache, for every set of references and digests and      *)
(* every MaxAge.                                                             *)
EXTENDS ImageCache, TLAPS

-------------------------------------------------------------------------------
(* What each operation does to the invariants.                               *)

CacheInv == CacheTypeOK /\ NoDanglingRef

\* Put keeps the maps well typed and in agreement: it writes the digest's
\* image in the same critical section as the reference's digest.
LEMMA PutPreserves ==
  ASSUME CacheInv, NEW ref \in Refs, NEW digest \in Digests, Put(ref, digest)
  PROVE  CacheInv'
BY CacheAssumption DEF CacheInv, CacheTypeOK, NoDanglingRef, Put, Ages, With

\* Evict keeps the maps well typed and in agreement, whatever refs it is given.
LEMMA EvictPreserves ==
  ASSUME CacheInv, NEW refs, NEW olderThan, Evict(refs, olderThan)
  PROVE  CacheInv'
BY CacheAssumption
   DEF CacheInv, CacheTypeOK, NoDanglingRef, Evict, KeptRefs, Protected, Ages, Restrict

\* The clock changes no key of either map.
LEMMA GrowOlderPreserves ==
  ASSUME CacheInv, GrowOlder
  PROVE  CacheInv'
BY CacheAssumption DEF CacheInv, CacheTypeOK, NoDanglingRef, GrowOlder, Ages

\* The answers of the registry are digests.
LEMMA AnswersAreDigests ==
  ASSUME NEW ref \in Refs
  PROVE  Answers(ref) \subseteq Digests
BY CacheAssumption DEF Answers, DigestRefs

\* Every call sequence keeps the two maps typed and in agreement.
THEOREM CacheInvariant == CacheSpec => [](CacheTypeOK /\ NoDanglingRef)
<1>1. CacheInit => CacheInv
  BY DEF CacheInit, CacheInv, CacheTypeOK, NoDanglingRef
<1>2. CacheInv /\ [CacheNext]_cacheVars => CacheInv'
  <2> SUFFICES ASSUME CacheInv, [CacheNext]_cacheVars PROVE CacheInv'
    OBVIOUS
  <2>1. CASE \E ref \in Refs : \E digest \in Answers(ref) : Put(ref, digest)
    BY <2>1, PutPreserves, AnswersAreDigests
  <2>2. CASE \E refs \in SUBSET Refs, olderThan \in 0..(MaxAge - 1) : Evict(refs, olderThan)
    BY <2>2, EvictPreserves
  <2>3. CASE GrowOlder
    BY <2>3, GrowOlderPreserves
  <2>4. CASE UNCHANGED cacheVars
    BY <2>4 DEF CacheInv, CacheTypeOK, NoDanglingRef, cacheVars
  <2> QED BY <2>1, <2>2, <2>3, <2>4 DEF CacheNext
<1> QED BY <1>1, <1>2, PTL DEF CacheSpec, CacheInv

\* Every call sequence keeps the two maps typed: references to digests, digests to
\* ages within the bound.
THEOREM CacheTyped == CacheSpec => []CacheTypeOK
BY CacheInvariant, PTL

\* Whatever is put and evicted in whatever order, a reference in the cache leads
\* to an image.
THEOREM ReferencesHaveImages == CacheSpec => []NoDanglingRef
BY CacheInvariant, PTL

\* What an eviction may not leave.
NoOrphanLeft ==
  \A refs \in SUBSET Refs, olderThan \in 0..(MaxAge - 1) :
    Evict(refs, olderThan) =>
      \A d \in DOMAIN imageMap' : \E r \in DOMAIN digestMap' : digestMap'[r] = d

\* An eviction with any references and any time leaves only images that a reference
\* it kept maps to.
THEOREM NoOrphanAfterEvict == CacheSpec => EvictLeavesNoOrphan
<1>1. ASSUME NEW refs \in SUBSET Refs, NEW olderThan \in 0..(MaxAge - 1),
             Evict(refs, olderThan), NEW d \in DOMAIN imageMap'
      PROVE  \E r \in DOMAIN digestMap' : digestMap'[r] = d
  <2>1. d \in {digestMap[r] : r \in KeptRefs(refs, olderThan)}
    BY <1>1 DEF Evict, Restrict
  <2>2. PICK r \in KeptRefs(refs, olderThan) : digestMap[r] = d
    BY <2>1
  <2>3. r \in DOMAIN digestMap' /\ digestMap'[r] = d
    BY <1>1, <2>2 DEF Evict, Restrict
  <2> QED BY <2>3
<1>2. [CacheNext]_cacheVars => [NoOrphanLeft]_cacheVars
  BY <1>1 DEF NoOrphanLeft
<1> QED BY <1>2, PTL DEF EvictLeavesNoOrphan, NoOrphanLeft, CacheSpec

-------------------------------------------------------------------------------
(* The refinement: each operation, seen through View, is one of the contract. *)

\* A Put for a tag writes that tag's entry and renews those of its digest.
LEMMA PutTagStored ==
  ASSUME CacheInv, NEW tag \in Tags, NEW digest \in Digests, Put(tag, digest)
  PROVE  Contract!Stored(tag, digest)
<1>1. /\ digestMap' = With(digestMap, tag, digest)
      /\ imageMap' = With(imageMap, digest, 0)
  BY DEF Put
<1>2. DOMAIN View' = DOMAIN View \cup {tag}
  BY <1>1 DEF View, With
<1>3. ASSUME NEW t \in DOMAIN View'
      PROVE  View'[t] = IF t = tag \/ View[t].digest = digest
                        THEN [digest |-> digest, age |-> 0] ELSE View[t]
  BY <1>1, <1>2 DEF View, With, CacheInv, NoDanglingRef
<1> QED BY <1>2, <1>3 DEF Contract!Stored, View

\* A Put for a digest reference only renews the entries of its digest.
LEMMA PutDigestRenewed ==
  ASSUME CacheInv, NEW ref \in DigestRefs, NEW digest \in Digests, Put(ref, digest)
  PROVE  Contract!Renewed(digest)
<1>1. /\ digestMap' = With(digestMap, ref, digest)
      /\ imageMap' = With(imageMap, digest, 0)
  BY DEF Put
<1>2. DOMAIN View' = DOMAIN View
  BY <1>1 DEF View, With, Tags
<1>3. ASSUME NEW t \in DOMAIN View'
      PROVE  View'[t] = IF View[t].digest = digest
                        THEN [View[t] EXCEPT !.age = 0] ELSE View[t]
  BY <1>1, <1>2 DEF View, With, Tags, CacheInv, NoDanglingRef
<1> QED BY <1>2, <1>3 DEF Contract!Renewed, View

\* Evict removes exactly the tags that are inactive and old.
LEMMA EvictEvicted ==
  ASSUME CacheInv, NEW refs \in SUBSET Refs, NEW olderThan \in 0..(MaxAge - 1),
         Evict(refs, olderThan)
  PROVE  Contract!Evicted(refs \cap Tags, olderThan)
<1> DEFINE spared == {t \in DOMAIN View : t \in refs \cap Tags \/ View[t].age <= olderThan}
<1>1. /\ digestMap' = Restrict(digestMap, KeptRefs(refs, olderThan))
      /\ imageMap' = Restrict(imageMap, DOMAIN imageMap \cap
                       {digestMap[r] : r \in KeptRefs(refs, olderThan)})
  BY DEF Evict
<1>2. DOMAIN digestMap' = KeptRefs(refs, olderThan)
  BY <1>1 DEF Restrict
<1>3. KeptRefs(refs, olderThan) \cap Tags = spared
  BY DEF KeptRefs, Protected, View, CacheInv, NoDanglingRef
<1>4. DOMAIN View' = spared
  BY <1>2, <1>3 DEF View
<1>5. ASSUME NEW t \in spared PROVE View'[t] = View[t]
  <2>1. t \in KeptRefs(refs, olderThan)
    BY <1>3
  <2>2. digestMap'[t] = digestMap[t]
    BY <1>1, <2>1 DEF Restrict
  <2>3. digestMap[t] \in DOMAIN imageMap
    BY <2>1 DEF KeptRefs, CacheInv, NoDanglingRef
  <2>4. imageMap'[digestMap[t]] = imageMap[digestMap[t]]
    BY <1>1, <2>1, <2>3 DEF Restrict
  <2> QED BY <1>4, <2>2, <2>4 DEF View
<1> HIDE DEF spared
<1>6. View' = [t \in spared |-> View[t]]
  BY <1>4, <1>5 DEF View
<1> QED BY <1>6 DEF Contract!Evicted, Contract!Restrict, spared

\* The clock ages every entry of the contract.
LEMMA GrowOlderAged ==
  ASSUME CacheInv, GrowOlder
  PROVE  Contract!Aged
<1>1. DOMAIN View' = DOMAIN View
  BY DEF GrowOlder, View
<1>2. ASSUME NEW t \in DOMAIN View'
      PROVE  View'[t] = [View[t] EXCEPT !.age = IF @ < MaxAge THEN @ + 1 ELSE MaxAge]
  BY <1>1 DEF GrowOlder, View, CacheInv, NoDanglingRef
<1> QED BY <1>1, <1>2 DEF Contract!Aged, View

\* Seen through tags, the two maps of the cache are the one map its interface
\* documents: no tag's entry is lost while it is active or new, none is left
\* when it is neither, and sharing an image between tags never shows.
THEOREM CacheRefinement == CacheSpec => ImplementsContract
<1>1. CacheInit => Contract!ContractInit
  <2> SUFFICES ASSUME CacheInit PROVE View = << >>
    BY DEF Contract!ContractInit
  <2>1. DOMAIN View = {}
    BY DEF CacheInit, View
  <2> QED BY <2>1 DEF View
<1>2. CacheInv /\ [CacheNext]_cacheVars => [Contract!ContractNext]_View
  <2> SUFFICES ASSUME CacheInv, [CacheNext]_cacheVars
               PROVE  Contract!ContractNext \/ UNCHANGED View
    OBVIOUS
  <2>1. CASE \E ref \in Refs : \E digest \in Answers(ref) : Put(ref, digest)
    <3>1. PICK ref \in Refs, digest \in Digests : Put(ref, digest)
      BY <2>1, AnswersAreDigests
    <3>2. CASE ref \in Tags
      BY <3>1, <3>2, PutTagStored DEF Contract!ContractNext
    <3>3. CASE ref \in DigestRefs
      BY <3>1, <3>3, PutDigestRenewed DEF Contract!ContractNext
    <3> QED BY <3>2, <3>3 DEF Tags
  <2>2. CASE \E refs \in SUBSET Refs, olderThan \in 0..(MaxAge - 1) : Evict(refs, olderThan)
    <3>1. PICK refs \in SUBSET Refs, olderThan \in 0..(MaxAge - 1) : Evict(refs, olderThan)
      BY <2>2
    <3>2. Contract!Evicted(refs \cap Tags, olderThan)
      BY <3>1, EvictEvicted
    <3> QED BY <3>2 DEF Contract!ContractNext
  <2>3. CASE GrowOlder
    BY <2>3, GrowOlderAged DEF Contract!ContractNext
  <2>4. CASE UNCHANGED cacheVars
    BY <2>4 DEF View, cacheVars
  <2> QED BY <2>1, <2>2, <2>3, <2>4 DEF CacheNext
<1>3. CacheSpec => []CacheInv
  BY CacheInvariant, PTL DEF CacheInv
<1> QED BY <1>1, <1>2, <1>3, PTL DEF CacheSpec, ImplementsContract, Contract!ContractSpec

===============================================================================
