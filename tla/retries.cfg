SPECIFICATION Spec
CONSTANTS
  Qty = 1
  MaxRetries = 1
  s1 = s1
  s2 = s2
  r1 = r1
  r2 = r2
  Submitters = {s1}
  Reconcilers = {r1}
  StreamWorker = stream
  MaxCrashes = 1
  MaxHandlerFails = 1
  MaxQueue = 0
  PromptPosts = TRUE
  FreshDecision = TRUE
  GatewayErrors = FALSE
VIEW View
INVARIANTS ClosedIsFinal SingleExposure 
