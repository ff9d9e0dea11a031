-------------------------- MODULE OpenRouterClient --------------------------
(***************************************************************************)
(* OpenRouterClient (src/example/ref_code/example_openrouter.py): a chat  *)
(* client whose only state across calls is chat_history and the optional  *)
(* tool_call_prompt.  chat() appends the user turn, posts the system      *)
(* message plus the whole history, and appends the assistant turn only    *)
(* when the answer is a 200 with a parsable body.                        *)
(*                                                                         *)
(* The client is single-threaded and requests.post is synchronous, so one *)
(* call of chat() is one step; its outcome (the HTTP status, whether the   *)
(* post or the body parsing raises, whether content is null) is chosen by *)
(* the server and the network, hence nondeterministic.                    *)
(***************************************************************************)
EXTENDS Integers, FiniteSets, Sequences, SequencesExt

CONSTANTS
  Prompts,       \* user prompts a caller may pass to chat()
  ToolPrompts,   \* values a caller may assign to tool_call_prompt
  EmptyPrompt,   \* the empty string "" (falsy, like None)
  None,          \* Python None
  MaxCalls       \* bound on the number of chat() calls

ASSUME EmptyPrompt \in ToolPrompts
ASSUME None \notin ToolPrompts \cup Prompts
ASSUME MaxCalls \in Nat

VARIABLES
  chat_history,       \* self.chat_history
  tool_call_prompt,   \* self.tool_call_prompt
  in_flight,          \* the messages of the post chat() waits on, or None
  calls,              \* chat() calls made so far
  failures            \* calls that returned None or raised (history only)

vars == <<chat_history, tool_call_prompt, in_flight, calls, failures>>

(***************************************************************************)
(* The system message: the instruction, joined by a newline with the tool *)
(* prompt when that is truthy.  The join is kept as the pair it is built  *)
(* from; SystemInstruction stands for the fixed instruction text.          *)
(***************************************************************************)
SystemInstruction == "system_instruction"

FullSystemInstruction(tool) ==
  IF tool \in {None, EmptyPrompt} THEN <<SystemInstruction>>
  ELSE <<SystemInstruction, tool>>

Turn(role, content) == [role |-> role, content |-> content]

\* What the model answers to a request: its content names the messages it
\* was given.  Null content is JSON null in message['content'].
Reply(messages) == [null |-> FALSE, answers |-> messages]
NullContent == [null |-> TRUE, answers |-> <<>>]

\* The request body of chat(): the system turn, then the history with the
\* new user turn already appended.
Request(tool, history) ==
  <<Turn("system", FullSystemInstruction(tool))>> \o history

Init ==
  /\ chat_history = <<>>
  /\ tool_call_prompt = None
  /\ in_flight = None
  /\ calls = 0
  /\ failures = 0

\* Mutant: the request is built before the user turn is appended.
ChatSendStaleRequest(p) ==
  /\ chat_history' = Append(chat_history, Turn("user", p))
  /\ in_flight' = Request(tool_call_prompt, chat_history)

(***************************************************************************)
(* chat(p) up to the post (lines 33-61): the system message, the user     *)
(* turn appended to the history, the request of the system turn plus the  *)
(* whole history, and requests.post, which blocks until the server        *)
(* answers or the connection fails.  It has no timeout.                   *)
(***************************************************************************)
ChatSend(p) ==
  /\ chat_history' = Append(chat_history, Turn("user", p))
  /\ in_flight' = Request(tool_call_prompt, chat_history')

\* A caller makes the next chat() call; the client is single-threaded, so
\* only once the previous one has returned.
Chat ==
  /\ in_flight = None
  /\ calls < MaxCalls
  /\ \E p \in Prompts : ChatSend(p)
  /\ calls' = calls + 1
  /\ UNCHANGED <<tool_call_prompt, failures>>

\* Mutant: the answer is stored under the role name "model".
ChatAnsweredModelRole ==
  /\ in_flight # None
  /\ \E null \in BOOLEAN :
       LET content == IF null THEN NullContent ELSE Reply(in_flight) IN
         chat_history' = Append(chat_history, Turn("model", content))
  /\ in_flight' = None
  /\ UNCHANGED <<tool_call_prompt, calls, failures>>

\* A 200 whose body has choices[0].message.content (lines 62-76): the
\* answer to the posted messages, or null, is appended and returned.
ChatAnswered ==
  /\ in_flight # None
  /\ \E null \in BOOLEAN :
       LET content == IF null THEN NullContent ELSE Reply(in_flight) IN
         chat_history' = Append(chat_history, Turn("assistant", content))
  /\ in_flight' = None
  /\ UNCHANGED <<tool_call_prompt, calls, failures>>

\* Mutant: the answer is appended before the status is checked.
ChatRejectedAppendsNone ==
  /\ in_flight # None
  /\ chat_history' = Append(chat_history, Turn("assistant", NullContent))
  /\ in_flight' = None
  /\ failures' = failures + 1
  /\ UNCHANGED <<tool_call_prompt, calls>>

\* A status other than 200 (lines 62-65): chat() prints it and returns
\* None; the user turn it appended stays in the history.
ChatRejected ==
  /\ in_flight # None
  /\ in_flight' = None
  /\ failures' = failures + 1
  /\ UNCHANGED <<chat_history, tool_call_prompt, calls>>

\* requests.post raises (connection error), or the 200 body has no
\* choices: the exception leaves chat() with the user turn appended.
ChatRaised ==
  /\ in_flight # None
  /\ in_flight' = None
  /\ failures' = failures + 1
  /\ UNCHANGED <<chat_history, tool_call_prompt, calls>>

\* A caller assigns anima.tool_call_prompt between calls.
SetToolCallPrompt ==
  /\ in_flight = None
  /\ \E t \in ToolPrompts \cup {None} :
        /\ t # tool_call_prompt
        /\ tool_call_prompt' = t
  /\ UNCHANGED <<chat_history, in_flight, calls, failures>>

Next == Chat \/ ChatAnswered \/ ChatRejected \/ ChatRaised \/ SetToolCallPrompt

(***************************************************************************)
(* The client's own steps are weakly fair: a caller that can call chat()  *)
(* does.  Nothing makes the server answer: without a timeout on the post, *)
(* no step of the client ends the wait.                                   *)
(***************************************************************************)
Spec == Init /\ [][Next]_vars /\ WF_vars(Chat)

-----------------------------------------------------------------------------
Roles == {"user", "assistant"}

IsReply(c) == ~c.null

TypeOK ==
  /\ \A k \in DOMAIN chat_history :
        /\ DOMAIN chat_history[k] = {"role", "content"}
        /\ chat_history[k].role \in Roles
        /\ chat_history[k].role = "user" => chat_history[k].content \in Prompts
        /\ chat_history[k].role = "assistant" =>
              DOMAIN chat_history[k].content = {"null", "answers"}
  /\ tool_call_prompt \in ToolPrompts \cup {None}
  /\ in_flight # None => in_flight[1].role = "system"
  /\ calls \in 0 .. MaxCalls
  /\ failures \in 0 .. calls

(***************************************************************************)
(* Every assistant turn in the history directly follows a user turn, and  *)
(* a non-null one is the answer to exactly the request that preceded it:  *)
(* a system turn followed by the history up to that user turn.  Later     *)
(* requests re-send this history, so a reply stored against the wrong     *)
(* context would mislead every later answer.                              *)
(***************************************************************************)
RepliesAnswerWhatPrecedes ==
  \A k \in DOMAIN chat_history :
    chat_history[k].role = "assistant" =>
      /\ k > 1
      /\ chat_history[k - 1].role = "user"
      /\ IsReply(chat_history[k].content) =>
           LET req == chat_history[k].content.answers
           IN  /\ req[1].role = "system"
               /\ Tail(req) = SubSeq(chat_history, 1, k - 1)

(***************************************************************************)
(* A failed call (non-200 status, or an exception from the post or the    *)
(* body parsing) leaves its user turn in the history without an answer:  *)
(* the user turns not followed by an assistant turn are exactly the       *)
(* failed calls, each re-sent in every later request, and the call in     *)
(* flight.                                                                  *)
(***************************************************************************)
Unanswered(k) ==
  /\ chat_history[k].role = "user"
  /\ (k = Len(chat_history) \/ chat_history[k + 1].role = "user")

UnansweredTurnsAreFailures ==
  Cardinality({k \in DOMAIN chat_history : Unanswered(k)})
    = failures + (IF in_flight = None THEN 0 ELSE 1)

(***************************************************************************)
(* Every chat() call returns: a post in flight is eventually answered,    *)
(* rejected or failed, so the driver's next call can be made.             *)
(***************************************************************************)
ChatReturns == [](in_flight # None => <>(in_flight = None))

=============================================================================
