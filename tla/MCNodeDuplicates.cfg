SPECIFICATION Spec
CONSTANTS
  app = app
  bare = bare
  locked = locked
  pause = pause
  img1 = img1
  img2 = img2
  repoA = repoA
  repoB = repoB
  Host = Host
  Nobody = Nobody
  NoPid = NoPid
  NoOS = NoOS
  NoId = NoId
  Pids = {1, 2}
  Containers <- Four
  Infra <- PauseOnly
  Distroless <- BareOnly
  Unreadable <- LockedOnly
  ImageIds <- TwoImages
  Identifiers <- IdsAndRepos
  ImageOf <- Resolution
  ImageRef <- RefIsRepo
  Image <- ImageIsRepo
INVARIANT OneSeriesPerImage
