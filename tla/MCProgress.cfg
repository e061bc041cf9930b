SPECIFICATION FairSpec
CONSTANTS
  pod = pod
  deploy = deploy
  podKind = podKind
  deployKind = deployKind
  tag1 = tag1
  ref1 = ref1
  d1 = d1
  d2 = d2
  bad = bad
  Absent = Absent
  NoObject = NoObject
  NoRef = NoRef
  NoDigest = NoDigest
  Kinds <- TwoKinds
  Objects <- PodAndDeploy
  KindOf <- KindOfBoth
  Refs <- OneTag
  DigestOf <- NoDigestRefs
  Digests <- OneDigest
  Specs <- TagOnly
  BadImages = {}
  CanPull <- AnyoneCanPull
  Scrapes = {}
  MaxAge = 1
  CacheDuration = 1
  MaxJitter = 0
  MaxBackoff = 0
  MaxScrape = 0
PROPERTY ReconcileEnds
PROPERTY UsedImageGetsCached
