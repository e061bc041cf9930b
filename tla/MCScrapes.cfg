SPECIFICATION HistorySpec
CONSTANTS
  pod = pod
  deploy = deploy
  podKind = podKind
  deployKind = deployKind
  tag1 = tag1
  ref1 = ref1
  d1 = d1
  d2 = d2
  bad = bad
  Absent = Absent
  NoObject = NoObject
  NoRef = NoRef
  NoDigest = NoDigest
  Kinds <- TwoKinds
  Objects <- PodAndDeploy
  KindOf <- KindOfBoth
  Refs <- OneTag
  DigestOf <- NoDigestRefs
  Digests <- TwoDigests
  Specs <- TagOnly
  BadImages = {}
  CanPull <- AnyoneCanPull
  Scrapes = {s1}
  MaxAge = 2
  CacheDuration = 1
  MaxJitter = 0
  MaxBackoff = 1
  MaxScrape = 1
PROPERTY SteadyTagsKept
PROPERTY ConcurrentWritesKept
SYMMETRY DigestSymmetry
