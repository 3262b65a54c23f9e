SPECIFICATION Spec
CONSTANTS
  github = github
  tickets = tickets
  prs = prs
  again = again
  issues = issues
  ghost = ghost
  r1 = r1
  r2 = r2
  Requests = {r1, r2}
  Tools <- MCTools
  Inputs <- MCInputs
  ToolOf <- MCToolOf
  Keys <- MCKeys
  KeyOf <- MCKeyOf
  TtlOf <- MCTtlOf
  SessionTools = {tickets}
  Unimplemented = {ghost}
  MaxSize = 1
  NoEntry = NoEntry
  Threshold = 2
  Timeout = 1
  MaxNow = 2
INVARIANT AnswersItsRequest
SYMMETRY SymmetricRequests
