--------------------------- MODULE ChatCompletions ---------------------------
(***************************************************************************)
(* The chat completions API on top of the responses API.  A request's      *)
(* messages and options are validated and rewritten; the answer is         *)
(* rewritten back, either from one JSON body or event by event from a      *)
(* stream, where tool calls arrive in pieces that a client appends.        *)
(*                                                                         *)
(* Texts and arguments are reduced to their lengths, a call to its id.     *)
(* The upstream model is external: it opens items, sends arguments in      *)
(* pieces or as snapshots, labelled with the call's id or not, and ends    *)
(* the stream or cuts it.                                                  *)
(***************************************************************************)
EXTENDS Naturals, Sequences, FiniteSets

CONSTANTS
    CNone,
    CallIds,            \* ids of tool calls
    MaxPieces,          \* bound on the length of an argument or a text
    MaxMessages         \* bound on a request's messages

ASSUME ChatAssumption ==
    /\ CNone \notin CallIds /\ IsFiniteSet(CallIds)
    /\ {MaxPieces, MaxMessages} \subseteq Nat

VARIABLES
    said,               \* the output the upstream has produced: [text, calls, ending]
    tools,              \* the translator's ToolCallState vector and its index
    client,             \* what the client has rebuilt from the chunks it got
    regular,            \* every piece named its call, and no snapshot took a piece back
    chatProbe           \* a request and its translation

chatVars == <<said, tools, client, regular, chatProbe>>

-----------------------------------------------------------------------------
(* The request. *)

Contents == {"null", "text", "image", "oversized_image", "file", "file_id", "audio", "other"}

Messages ==
    [role : {"system", "user", "assistant"}, content : Contents, call : {CNone}, calls : {<<>>}]
    \cup [role : {"assistant"}, content : {"null", "text"}, call : {CNone},
          calls : {<<c>> : c \in CallIds} \cup {<<CNone>>}]
    \cup [role : {"tool"}, content : {"null", "text", "image"}, call : {CNone} \cup CallIds, calls : {<<>>}]
    \cup [role : {"critic"}, content : {"text"}, call : {CNone}, calls : {<<>>}]

EnsureTextOnly(content) == content \in {"null", "text"}

\* A part of an uploaded file's id or of audio cannot be translated.
MapUserPart(content) ==
    CASE content \in {"file_id", "audio", "other"} -> "error"
      [] content \in {"null", "oversized_image"} -> "text"
      [] OTHER -> content

\* An assistant's part that is not understood is left out.
MapAssistantPart(content) ==
    CASE content = "file_id" -> "error"
      [] content \in {"null", "audio", "other"} -> "text"
      [] content = "oversized_image" -> "image"
      [] OTHER -> content

\* The items one message becomes; a system message becomes instructions.
MessageItems(m, i) ==
    LET part == IF m.role = "user" THEN MapUserPart(m.content) ELSE MapAssistantPart(m.content)
    IN CASE m.role = "system" -> <<>>
         [] m.role = "tool" -> <<[from |-> i, kind |-> "function_call_output", call |-> m.call]>>
         [] OTHER -> <<[from |-> i, kind |-> part, call |-> CNone]>>
                       \o [k \in 1..Len(m.calls) |->
                             [from |-> i, kind |-> "function_call", call |-> m.calls[k]]]

MessageIsValid(m) ==
    CASE m.role = "system" -> EnsureTextOnly(m.content)
      [] m.role = "tool" -> m.call # CNone /\ m.content = "text"
      [] m.role = "user" -> MapUserPart(m.content) # "error"
      [] m.role = "assistant" -> /\ MapAssistantPart(m.content) # "error"
                                 /\ \A k \in 1..Len(m.calls) : m.calls[k] # CNone
      [] OTHER -> FALSE

Options == [tools : {CNone, "function", "unnamed", "unsupported"},
            choice : {CNone, "auto", "function"},
            format : {CNone, "json_object", "json_schema", "bad_schema_name", "xml"},
            textFormat : BOOLEAN, effort : BOOLEAN]

\* normalize_chat_tools_field: an unnamed function is dropped.
NormalizeTools(o) ==
    CASE o.tools = "unsupported" -> "error" [] o.tools = "unnamed" -> CNone [] OTHER -> o.tools

NormalizeToolChoice(o) == o.choice

\* response_format moves to text.format, which must not be given as well.
ApplyResponseFormat(o) ==
    CASE o.format = CNone -> IF o.textFormat THEN "given" ELSE CNone
      [] o.format # CNone /\ (o.textFormat \/ o.format \in {"bad_schema_name", "xml"}) -> "error"
      [] OTHER -> o.format

TransformChatRequest(messages, o) ==
    LET items[n \in 0..Len(messages)] ==
          IF n = 0 THEN <<>> ELSE items[n - 1] \o MessageItems(messages[n], n)
        valid == /\ messages # <<>>
                 /\ \A i \in 1..Len(messages) : MessageIsValid(messages[i])
                 /\ NormalizeTools(o) # "error" /\ ApplyResponseFormat(o) # "error"
    IN [status |-> IF valid THEN 0 ELSE 400,
        items |-> IF ~valid THEN <<>>
                  ELSE IF items[Len(messages)] = <<>>
                  THEN <<[from |-> 0, kind |-> "text", call |-> CNone]>>
                  ELSE items[Len(messages)],
        tools |-> NormalizeTools(o), choice |-> NormalizeToolChoice(o),
        format |-> ApplyResponseFormat(o), effort |-> o.effort]

-----------------------------------------------------------------------------
(* The stream. *)

NothingSaid == [text |-> 0, calls |-> <<>>, ending |-> CNone]
NoClient == [roles |-> 0, text |-> 0, calls |-> <<>>, finish |-> CNone,
             error |-> FALSE, usage |-> 0, done |-> 0]

ChatInit ==
    /\ said = NothingSaid
    /\ tools = [index |-> <<>>, states |-> <<>>]
    /\ client = NoClient
    /\ regular = TRUE
    /\ chatProbe = CNone

Streaming == client.done = 0 /\ chatProbe = CNone

\* ToolCallIndex::index_for: a piece without an id belongs to the first call.
IndexFor(index, id) ==
    IF id = CNone THEN 1
    ELSE IF \E i \in 1..Len(index) : index[i] = id
    THEN CHOOSE i \in 1..Len(index) : index[i] = id
    ELSE Len(index) + 1

\* Mutant: a snapshot is sent on as if it were a piece.
NormalizeArguments_Replays(kept, mode, length, extends) ==
    IF length = 0 THEN [kept |-> kept, sent |-> 0]
    ELSE [kept |-> IF mode = "delta" THEN kept + length ELSE length, sent |-> length]

\* normalize_tool_call_arguments: what is kept and what is sent on.
NormalizeArguments(kept, mode, length, extends) ==
    CASE length = 0 -> [kept |-> kept, sent |-> 0]
      [] length > 0 /\ mode = "delta" -> [kept |-> kept + length, sent |-> length]
      [] length > 0 /\ mode = "snapshot" /\ extends /\ length >= kept
           -> [kept |-> length, sent |-> length - kept]
      [] OTHER -> [kept |-> length, sent |-> 0]

NoTool == [id |-> CNone, args |-> 0]

Padded(seq, n) == [i \in 1..(IF n > Len(seq) THEN n ELSE Len(seq)) |->
                     IF i <= Len(seq) THEN seq[i] ELSE NoTool]

\* extract_tool_call_delta, merge_tool_call_delta and the chunk: the client
\* learns the id once and appends the arguments it is sent.
ToolEvent(id, mode, length, extends) ==
    LET i == IndexFor(tools.index, id)
        states == Padded(tools.states, i)
        new == NormalizeArguments(states[i].args, mode, length, extends)
        named == id # CNone /\ states[i].id # id
        calls == Padded(client.calls, i)
    IN /\ tools' = [index |-> IF id # CNone /\ i > Len(tools.index) THEN Append(tools.index, id)
                              ELSE tools.index,
                    states |-> [states EXCEPT ![i] = [id |-> IF id = CNone THEN @.id ELSE id,
                                                      args |-> new.kept]]]
       /\ client' = IF ~named /\ new.sent = 0 THEN client
                    ELSE [client EXCEPT !.roles = 1,
                                        !.calls = [calls EXCEPT ![i] =
                                           [id |-> IF named THEN id ELSE @.id,
                                            args |-> @.args + new.sent]]]

\* response.output_item.added
CallOpened(id) ==
    /\ Streaming
    /\ id \notin {said.calls[i].id : i \in 1..Len(said.calls)}
    /\ said' = [said EXCEPT !.calls = Append(@, [id |-> id, args |-> 0])]
    /\ ToolEvent(id, "snapshot", 0, TRUE)
    /\ UNCHANGED <<regular, chatProbe>>

\* response.function_call_arguments.delta
ArgumentsPiece(i, labelled) ==
    /\ Streaming
    /\ said.calls[i].args < MaxPieces
    /\ said' = [said EXCEPT !.calls[i].args = @ + 1]
    /\ ToolEvent(IF labelled THEN said.calls[i].id ELSE CNone, "delta", 1, TRUE)
    /\ regular' = (regular /\ (labelled \/ i = 1))
    /\ UNCHANGED chatProbe

\* response.function_call_arguments.done and response.output_item.done: all of
\* the arguments again, one piece longer than was streamed, or revised.
ArgumentsSnapshot(i, more, revised) ==
    LET length == said.calls[i].args + more
    IN /\ Streaming
       /\ length \in 1..MaxPieces
       /\ revised => said.calls[i].args > 0
       /\ said' = [said EXCEPT !.calls[i].args = length]
       /\ ToolEvent(said.calls[i].id, "snapshot", length, ~revised)
       /\ regular' = (regular /\ ~revised)
       /\ UNCHANGED chatProbe

TextPiece ==
    /\ Streaming
    /\ said.text < MaxPieces
    /\ said' = [said EXCEPT !.text = @ + 1]
    /\ client' = [client EXCEPT !.roles = 1, !.text = @ + 1]
    /\ UNCHANGED <<tools, regular, chatProbe>>

FinishFromIncomplete(ending) ==
    CASE ending = "max_output_tokens" -> "length"
      [] ending = "content_filter" -> "content_filter"
      [] OTHER -> "stop"

FinishReason(sawTool, ending) ==
    IF sawTool THEN "tool_calls" ELSE FinishFromIncomplete(ending)

\* A terminal event, or the end of the stream without one.
StreamEnds(ending, usage) ==
    /\ Streaming
    /\ said' = [said EXCEPT !.ending = ending]
    /\ client' = [client EXCEPT !.done = 1,
                    !.error = (ending \in {"failed", "cut"}),
                    !.finish = IF ending \in {"failed", "cut"} THEN CNone
                               ELSE FinishReason(client.calls # <<>>, ending),
                    !.usage = IF ending \notin {"failed", "cut"} /\ usage THEN 1 ELSE 0]
    /\ UNCHANGED <<tools, regular, chatProbe>>

\* responses_json_to_chat_completion over the same output.
JsonCompletion(answer) ==
    [text |-> answer.text,
     calls |-> answer.calls,
     finish |-> IF answer.calls # <<>> THEN "tool_calls" ELSE FinishFromIncomplete(answer.ending)]

RequestTranslated(messages, o) ==
    /\ Streaming /\ client = NoClient
    /\ chatProbe' = [messages |-> messages, options |-> o, result |-> TransformChatRequest(messages, o)]
    /\ UNCHANGED <<said, tools, client, regular>>

ChatNext ==
    \/ \E id \in CallIds : CallOpened(id)
    \/ \E i \in 1..Len(said.calls) : \E b \in BOOLEAN :
         \/ ArgumentsPiece(i, b)
         \/ \E more \in 0..1 : ArgumentsSnapshot(i, more, b)
    \/ TextPiece
    \/ \E ending \in {"completed", "max_output_tokens", "content_filter", "failed", "cut"},
          usage \in BOOLEAN : StreamEnds(ending, usage)
    \/ \E n \in 0..MaxMessages : \E messages \in [1..n -> Messages] :
         RequestTranslated(messages, [tools |-> CNone, choice |-> CNone, format |-> CNone,
                                      textFormat |-> FALSE, effort |-> FALSE])
    \/ \E m \in Messages, o \in Options : m.role = "user" /\ RequestTranslated(<<m>>, o)

ChatSpec == ChatInit /\ [][ChatNext]_chatVars

-----------------------------------------------------------------------------
(* Properties. *)

ChatTypeOK ==
    /\ client.roles \in 0..1 /\ client.done \in 0..1 /\ client.text \in 0..MaxPieces
    /\ Len(tools.states) <= Cardinality(CallIds) /\ Len(tools.index) <= Len(tools.states)
    /\ \A i \in 1..Len(client.calls) : client.calls[i].id \in CallIds \cup {CNone}

\* However the upstream mixes pieces and replayed snapshots, what a client
\* gets by appending the chunks of each tool call is what the upstream said,
\* provided every piece named its call and no snapshot took anything back.
ClientRebuildsTheCalls ==
    regular => client.calls = said.calls

\* A stream that ends well tells the client the same answer as the JSON API
\* makes of the finished response: text, calls and finish reason; one that
\* ends badly, or just stops, gives an error and no finish reason.
StreamAgreesWithJson ==
    client.done = 1 =>
        IF said.ending \in {"failed", "cut"} THEN client.error /\ client.finish = CNone
        ELSE /\ ~client.error
             /\ client.text = JsonCompletion(said).text
             /\ client.finish = JsonCompletion(said).finish
             /\ regular => client.calls = JsonCompletion(said).calls

\* A request is translated whole or refused: every message but the system's
\* and every tool call in it becomes an item, in the conversation's order.
RequestIsWhole ==
    (chatProbe # CNone /\ chatProbe.result.status = 0) =>
        LET messages == chatProbe.messages
            items == chatProbe.result.items
            spoken == {i \in 1..Len(messages) : messages[i].role # "system"}
        IN /\ \A i \in spoken :
                Cardinality({k \in 1..Len(items) : items[k].from = i}) = 1 + Len(messages[i].calls)
           /\ \A k, l \in 1..Len(items) : k < l => items[k].from <= items[l].from
           /\ \A k \in 1..Len(items) : items[k].kind \in {"function_call", "function_call_output"}
                                         => items[k].call # CNone
           /\ items # <<>>

\* Nothing is lost or said twice on the way to the upstream and back.
TranslationSafety ==
    /\ ChatTypeOK
    /\ RequestIsWhole
    /\ ClientRebuildsTheCalls
    /\ StreamAgreesWithJson
=============================================================================
