\* Four chat() calls with two prompts; tool_call_prompt may be set to a
\* text, to "" or back to None between calls.
CONSTANTS
  Prompts = {p1, p2}
  ToolPrompts = {tool, empty}
  EmptyPrompt = empty
  None = None
  MaxCalls = 4

SPECIFICATION Spec

INVARIANT TypeOK
INVARIANT RepliesAnswerWhatPrecedes
INVARIANT UnansweredTurnsAreFailures
