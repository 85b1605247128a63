SPECIFICATION Spec
CONSTANTS
  Qty = 1
  MaxRetries = 0
  s1 = s1
  s2 = s2
  r1 = r1
  r2 = r2
  Submitters = {s1,s2}
  Reconcilers = {r1}
  StreamWorker = stream
  MaxCrashes = 0
  MaxHandlerFails = 0
  MaxQueue = 0
  PromptPosts = FALSE
  FreshDecision = FALSE
  GatewayErrors = TRUE
VIEW View
SYMMETRY Symmetry
INVARIANTS BookedAtMostOnce
