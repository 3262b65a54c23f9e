SPECIFICATION MCSpec
CONSTANTS
  github = github
  tickets = tickets
  prs = prs
  again = again
  issues = issues
  ghost = ghost
  r1 = r1
  r2 = r2
  None = None
  Requests = {r1, r2}
  Tools <- MCTools
  Inputs <- MCInputs
  ToolOf <- MCToolOf
  Keys <- MCKeys
  KeyOf <- MCKeyOf
  TtlOf <- MCTtlOf
  SessionTools = {tickets}
  Unimplemented = {ghost}
  MaxSize = 1
  NoEntry = NoEntry
  Threshold = 2
  Timeout = 1
  MaxNow = 2
  MaxAttempts = 2
  WindowMs = 2
  MaxTime = 5
  LimitAnswers <- MCAnswers
  LimitRows <- MCRows
  LimitCalls = {"a", "b"}
  LimitTTL = 1
  LimitDay = 1
  LimitTime = 3
  SettingTools = {github}
  Patches <- MCPatches
  Flag <- MCFlag
  SettingFaults = 2
  BatchTimeouts = {1}
  DefaultTimeout = 2
  BatchLimit = 2
  MaxBatch = 3
  Paths = {"config", "github"}
  Rules <- MCRules
  Tags = {{"config"}, {"github"}}
  MaxWrites = 2
  RedisKeys = {github}
  Ttls = {1, 3}
  Second = 2
  RedisTime = 2
  RedisFaults = 1
  CacheConfigs <- MCConfigs
  Caches = {1, 2, 3}
  OAuthTools <- MCOAuthTools
  Environments <- MCEnvironments
  StateAge = 1
  OAuthHour = 1
  OAuthLives = {0}
  MaxStarts = 2
  OAuthTime = 1
  HttpAnswers <- MCHttpAnswers
  Tries = 2
  Many = 2
  Tenth = 2
  HttpRequests = 3
  MaxCleanups = 1
  StateKeys = {github}
  Values = {tickets, issues}
  StateFaults = 1
  Endpoints = {"general", "github"}
  LoginTools = {"github"}
  PageRequests = {1, 2}
  CacheTTL = 1
  MaxLogins = 1
  LoginTime = 1
  SessionValues = {0, 1}
  SessionUpdates <- MCUpdates
  MaxSessions = 2
  SessionFaults = 1
  PageKeys = {github, tickets}
  MaxFetches = 4
  Polled <- MCPolled
  PolledPlatforms = {"github", "jira"}
  Usages <- MCUsages
  MaxRenders = 3
  QueryTools <- MCQueryTools
  Messages = {tickets, issues}
  MaxReports = 3
PROPERTY SettingsPersist
SYMMETRY SymmetricRequests
