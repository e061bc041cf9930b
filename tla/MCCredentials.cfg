SPECIFICATION MCSpec
CONSTANTS
  s1 = s1
  s2 = s2
  old = old
  new = new
  bad = bad
  Secrets = {s1, s2}
  Names = {s1, s2}
  Usable = {old, new}
  Malformed = {bad}
  Missing = Missing
  Live = Live
  Ambient = old
INVARIANT TypeOK
INVARIANT QuietIsCurrent
PROPERTY RotationsPropagate
PROPERTY LiveCredentialsWin
 
