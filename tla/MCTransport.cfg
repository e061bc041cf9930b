SPECIFICATION FairSpec
CONSTANTS
  r1 = r1
  r2 = r2
  r3 = r3
  r4 = r4
  ghcr = ghcr
  quay = quay
  Requests <- Four
  Hosts <- BothHosts
  HostOf <- ThreeToOne
  Settings <- MCSettings
INVARIANT TypeOK
INVARIANT SlotsMatchRequests
INVARIANT NoIdleSlot
PROPERTY RequestsEnd
