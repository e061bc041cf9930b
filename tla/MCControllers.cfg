SPECIFICATION HistorySpec
CONSTANTS
  pod = pod
  deploy = deploy
  podKind = podKind
  deployKind = deployKind
  tag1 = tag1
  ref1 = ref1
  d1 = d1
  d2 = d2
  bad = bad
  Absent = Absent
  NoObject = NoObject
  NoRef = NoRef
  NoDigest = NoDigest
  Kinds <- TwoKinds
  Objects <- PodAndDeploy
  KindOf <- KindOfBoth
  Refs <- TagAndRef
  DigestOf <- DigestOfRef1
  Digests <- OneDigest
  Specs <- TagWithBad
  BadImages = {bad}
  CanPull <- AnyoneCanPull
  Scrapes = {}
  MaxAge = 2
  CacheDuration = 2
  MaxJitter = 0
  MaxBackoff = 1
  MaxScrape = 0
INVARIANT TypeOK
INVARIANT NoLostWakeup
INVARIANT CallsHaveOneLeader
INVARIANT ChangesActedOn
