SPECIFICATION Spec
CONSTANTS
  Requests = {1, 2}
  None = 0
  Decisions = {"approved", "approved_half", "rejected", "resend"}
  PromptHandlers = TRUE
  GatewayErrors = FALSE
  MaxDays = 2
  MaxFaults = 2
CHECK_DEADLOCK FALSE
PROPERTIES OnlyItsOwn
