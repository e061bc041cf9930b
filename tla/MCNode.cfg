SPECIFICATION MCSpec
CONSTANTS
  app = app
  bare = bare
  locked = locked
  pause = pause
  img1 = img1
  img2 = img2
  repoA = repoA
  repoB = repoB
  Host = Host
  Nobody = Nobody
  NoPid = NoPid
  NoOS = NoOS
  NoId = NoId
  Pids = {1, 2}
  Containers <- Four
  Infra <- PauseOnly
  Distroless <- BareOnly
  Unreadable <- LockedOnly
  ImageIds <- TwoImages
  Identifiers <- IdsAndRepos
  ImageOf <- Resolution
  ImageRef <- RefIsId
  Image <- ImageIsRepo
  Answers <- MCAnswers
  NoImage = NoImage
  NoTime = 0
  Malformed = Malformed
  MaxLabelBytes = 8
  MarkerBytes = 3
  AllowLists <- MCAllowLists
  Characters <- MCCharacters
  Keys <- MCKeys
  Values <- MCValues
  Blank = " "
  Equals = "="
  Hash = "#"
  Quotes = {"q", "Q"}
  Unquoted = Unquoted
INVARIANT TypeOK
INVARIANT SteadyContainersReported
INVARIANT OneSeriesPerImage
INVARIANT InUseImagesReported
INVARIANT LabelValuesWhole
INVARIANT MetadataMerged
INVARIANT WrittenIsParsed
