SPECIFICATION MCSpec
SYMMETRY Symmetric
CONSTANTS
  c1 = c1
  c2 = c2
  c3 = c3
  Calls <- MCCalls
  AccessLife = 2
  RefreshLife = 3
  Margin = 2
  LoginRefreshLives = {NoTime}
  Rotations = {TRUE, FALSE}
  MaxTime = 3
  MaxGrants = 3
  MaxLogins = 2
  MaxFaults = 1
  Providers = {github, gitlab}
  SessionIds = {s1, s2}
  Bodies <- MCBodies
  Kept = Kept
  NoUser = NoUser
  NoSession = NoSession
  NoCookie = NoCookie
  NoTime = NoTime
  NoToken = NoToken
  NoRow = NoRow
PROPERTY
  PatchKeepsTheLogin
CHECK_DEADLOCK FALSE
