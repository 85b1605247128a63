SPECIFICATION FairSpec
CONSTANTS
  Qty = 2
  MaxRetries = 0
  s1 = s1
  s2 = s2
  r1 = r1
  r2 = r2
  Submitters = {s1}
  Reconcilers = {r1}
  StreamWorker = stream
  MaxCrashes = 1
  MaxHandlerFails = 0
  MaxQueue = 0
  PromptPosts = TRUE
  FreshDecision = TRUE
  GatewayErrors = FALSE
PROPERTIES  ClosesReachTheRows KeepsRecovering
