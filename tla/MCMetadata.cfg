SPECIFICATION MCSpec
CONSTANTS
  t1 = t1
  t2 = t2
  r1 = r1
  d1 = d1
  d2 = d2
  NoDigest = NoDigest
  BadImage = BadImage
  NoEntry = NoEntry
  Containers = {c1, c2}
  Refs <- MCRefs
  Digests <- MCDigests
  DigestOf <- MCDigestOf
  MaxAge = 3
  Texts <- MCTexts
  Indices = {"0", "1"}
  Objects <- MCObjects
  ParsedImages = {"a"}
  AccountSecrets <- MCAccountSecrets
  Platforms = {here, there}
  Platform = here
  NoPlatform = NoPlatform
  MaxEntries = 3
  Builtin <- MCBuiltin
  Additional <- MCAdditional
  GroupOf <- MCGroupOf
INVARIANT CacheTypeOK
INVARIANT NoDanglingRef
INVARIANT DigestSeriesJoinInfo
INVARIANT OldestIsOldest
INVARIANT FetchTypeOK
INVARIANT ErrorsIsolated
INVARIANT ResolvedAsDocumented
INVARIANT MissingAccessIsHarmless
INVARIANT FailuresCostTheirOwn
PROPERTY ListedTagsKept
INVARIANT FoundWhereDocumented
PROPERTY EvictLeavesNoOrphan
PROPERTY ImplementsContract
