CONSTANTS
  Backends = {"gemini", "browser_use", "mock"}
  Keep = 2
  MaxSteps = 6
  MaxRetries = 1
  FirstSteps = {0, 1}
  Fragments = {2}
  GeminiCalls <- MCGeminiCalls
  AgentCalls <- MCAgentCalls
  Script <- MCScript
SPECIFICATION Spec
INVARIANTS
  TypeOK
  RequestIsWellFormed
  AskedAboutTheCurrentPage
