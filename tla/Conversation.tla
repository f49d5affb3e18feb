----------------------------- MODULE Conversation -----------------------------
(***************************************************************************)
(* What a session and its providers tell each other: the messages of       *)
(* sc-message-types, the requests made of them, and the events made of     *)
(* complete answers (crates/sc-provider-core/src/lib.rs and                *)
(* openai_compat.rs, crates/sc-provider-nvidia, crates/sc-provider-        *)
(* openrouter and crates/sc-provider-ollama).  The stream of the OpenAI-   *)
(* compatible providers is in SseDecoder.                                  *)
(*                                                                         *)
(* A text is a sequence of words, <<>> when it is empty.  An optional      *)
(* field is a set of at most one value.  The arguments of a call are a     *)
(* JSON value in a message and its text on the wire; a text nothing can be *)
(* read from is Broken.                                                    *)
(***************************************************************************)
EXTENDS Naturals, Sequences, SequencesExt

Null   == [json |-> "null"]
Broken == [broken |-> TRUE]

to_string(value) == [text_of |-> value]
from_str(text)   == IF "text_of" \in DOMAIN text THEN text.text_of ELSE Null

-----------------------------------------------------------------------------
(* Messages. *)

Text(text)                   == [is |-> "Text", text |-> text]
ToolUse(id, name, input)     == [is |-> "ToolUse", id |-> id, name |-> name, input |-> input]
ToolResult(tool_use_id, text) == [is |-> "ToolResult", tool_use_id |-> tool_use_id, text |-> text]

Message(role, content) == [role |-> role, content |-> content]

user(text)      == Message("user", <<Text(text)>>)
assistant(text) == Message("assistant", <<Text(text)>>)
tool_result(tool_use_id, text) == Message("tool", <<ToolResult(tool_use_id, text)>>)

-----------------------------------------------------------------------------
(* Requests. *)

\* Texts and results, a line break before all but the first that is not empty.
push_text(text, block) ==
  IF block.is = "ToolUse" THEN text
  ELSE IF text = <<>> THEN block.text ELSE text \o <<"\n">> \o block.text

text_of(message) == FoldLeft(push_text, <<>>, message.content)

ToolCall(block) ==
  [id |-> block.id, kind |-> "function",
   function |-> [name |-> block.name, arguments |-> to_string(block.input)]]

tool_calls_of(message) ==
  LET uses == SelectSeq(message.content, LAMBDA block : block.is = "ToolUse")
  IN  [i \in DOMAIN uses |-> ToolCall(uses[i])]

tool_call_id_of(message) ==
  LET results == SelectSeq(message.content, LAMBDA block : block.is = "ToolResult")
  IN  IF results = <<>> THEN {} ELSE {Head(results).tool_use_id}

message_to_chat_message(message) ==
  [role |-> message.role, tool_calls |-> tool_calls_of(message),
   tool_call_id |-> tool_call_id_of(message), content |-> {text_of(message)} \ {<<>>}]

\* A tool definition in its envelope.
ToolRef(tool) == [kind |-> "function", function |-> tool]

CompletionRequest(model, system, tools, messages) ==
  [model |-> model, system |-> system, tools |-> tools, messages |-> messages]

ModelOf(request, default_model) == IF request.model = "" THEN default_model ELSE request.model

\* The same for NVIDIA NIM and OpenRouter.
build_chat_completion_request(request, default_model) ==
  [model |-> ModelOf(request, default_model), system |-> request.system, tools |-> request.tools,
   messages |-> [i \in DOMAIN request.messages |-> message_to_chat_message(request.messages[i])]]

\* The system prompt becomes the first message.
build_request_body(chat_request, stream) ==
  [model |-> chat_request.model, tools |-> {ToolRef(tool) : tool \in chat_request.tools}, stream |-> stream,
   messages |-> SetToSeq({[role |-> "system", content |-> {text}, tool_calls |-> <<>>, tool_call_id |-> {}] :
                            text \in chat_request.system})
                \o chat_request.messages]

\* Tool calls, their ids and the system prompt are left out.
build_ollama_chat_request(request, default_model) ==
  [model |-> ModelOf(request, default_model), stream |-> TRUE,
   tools |-> {ToolRef(tool) : tool \in request.tools},
   messages |-> [i \in DOMAIN request.messages |->
                   [role |-> request.messages[i].role, content |-> text_of(request.messages[i])]]]

-----------------------------------------------------------------------------
(* Answers.  An event is [is, text] or [is |-> "ToolUse", id, name, input]. *)

TextDelta(text) == [is |-> "TextDelta", text |-> text]
End(reason)     == [is |-> "End", text |-> reason]
Error           == [is |-> "Error", text |-> "Failed to parse chunk"]

\* A complete answer of an OpenAI-compatible provider: [message, finish_reason].
outcome_to_stream_events(outcome) ==
  LET call(i) == outcome.message.tool_calls[i]
  IN  SetToSeq({TextDelta(text) : text \in outcome.message.content \ {<<>>}})
      \o [i \in DOMAIN outcome.message.tool_calls |->
            ToolUse(call(i).id, call(i).function.name, from_str(call(i).function.arguments))]
      \o <<End(outcome.finish_reason)>>

\* A line of an Ollama answer is [is : "blank" | "garbage" | "chunk", done,
\* content, tool_calls]; a call in it is [function, name, arguments]: whether it
\* has a "function", and the name and arguments in it where they are strings.
FirstFunction(line) ==
  SelectSeq(line.tool_calls, LAMBDA call : call.function)

\* An id is the value of the counter of the process.
OllamaToolUse(call, counter) ==
  ToolUse(counter, IF call.name = {} THEN "unknown" ELSE CHOOSE name \in call.name : TRUE,
          IF call.arguments = {} THEN Null ELSE from_str(CHOOSE text \in call.arguments : TRUE))

parse_ollama_chat_line(line, counter) ==
  CASE line.is = "blank"   -> <<>>
    [] line.is = "garbage" -> <<Error>>
    [] line.is = "chunk" /\ line.done -> <<End("stop")>>
    [] line.is = "chunk" /\ ~line.done /\ line.content # <<>> -> <<TextDelta(line.content)>>
    [] line.is = "chunk" /\ ~line.done /\ line.content = <<>> ->
         LET functions == FirstFunction(line)
         IN  IF functions = <<>> THEN <<>> ELSE <<OllamaToolUse(Head(functions), counter)>>

OllamaStepFromZero(told, line) ==
  LET uses   == SelectSeq(told.events, LAMBDA event : event.is = "ToolUse")
      events == parse_ollama_chat_line(line, Len(uses))
  IN  [told EXCEPT !.events = @ \o events]

\* What the lines so far have become.
OllamaStep(told, line) ==
  LET events == parse_ollama_chat_line(line, told.counter)
  IN  [events  |-> told.events \o events,
       counter |-> told.counter + Len(SelectSeq(events, LAMBDA event : event.is = "ToolUse"))]

\* OllamaProvider::complete.  A call is answered by [is : "Network" | "Http" |
\* "status" | "cut" | "body", lines]: nothing is taken from an answer that does
\* not end, and nothing is asked again.
OllamaError == [Network |-> "Network", Http |-> "Http", status |-> "Api", cut |-> "Http"]

complete(answer, counter) ==
  IF answer.is # "body" THEN [error |-> OllamaError[answer.is], events |-> <<>>, counter |-> counter]
  ELSE LET told == FoldLeft(OllamaStep, [events |-> <<>>, counter |-> counter], answer.lines)
       IN  [error |-> "none", events |-> told.events, counter |-> told.counter]
=============================================================================
