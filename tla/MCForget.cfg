SPECIFICATION ScrapedSpec
CONSTANTS
  pod = pod
  deploy = deploy
  podKind = podKind
  deployKind = deployKind
  tag1 = tag1
  ref1 = ref1
  d1 = d1
  d2 = d2
  bad = bad
  Absent = Absent
  NoObject = NoObject
  NoRef = NoRef
  NoDigest = NoDigest
  Kinds <- TwoKinds
  Objects <- OnePod
  KindOf <- KindOfPod
  Refs <- OneTag
  DigestOf <- NoDigestRefs
  Digests <- OneDigest
  Specs <- TagOrNothing
  BadImages = {}
  CanPull <- AnyoneCanPull
  Scrapes = {s1}
  MaxAge = 2
  CacheDuration = 1
  MaxJitter = 0
  MaxBackoff = 0
  MaxScrape = 1
PROPERTY UnusedTagLeaves
