SPECIFICATION Spec
CONSTANTS
  Qty = 2
  MaxRetries = 0
  s1 = s1
  s2 = s2
  r1 = r1
  r2 = r2
  Submitters = {s1}
  Reconcilers = {r1}
  StreamWorker = stream
  MaxCrashes = 0
  MaxHandlerFails = 0
  MaxQueue = 1
  PromptPosts = TRUE
  FreshDecision = TRUE
  GatewayErrors = FALSE
VIEW View
INVARIANTS TypeOK NoPhantomFill 
PROPERTIES RowsOnlyGrow AtMostOnce
