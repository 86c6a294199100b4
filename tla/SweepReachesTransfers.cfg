CONSTANTS
  Flows = {f1, f2}
  Tokens = {"a", "b"}
  ProviderKinds = {"anthropic", "openai", "chatgpt"}
  SendBound <- OneEvent
SPECIFICATION StreamSpec
CHECK_DEADLOCK FALSE
PROPERTIES SweepReachesTransfers
