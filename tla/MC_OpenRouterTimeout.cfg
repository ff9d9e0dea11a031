\* Whether every chat() call returns, over the calls of MC_OpenRouterClient.cfg.
CONSTANTS
  Prompts = {p1, p2}
  ToolPrompts = {tool, empty}
  EmptyPrompt = empty
  None = None
  MaxCalls = 4

SPECIFICATION Spec

PROPERTY ChatReturns
