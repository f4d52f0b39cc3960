--------------------------- MODULE ResponsesStream ---------------------------
(***************************************************************************)
(* One request's way through the event loop of streamOnce                  *)
(* (internal/provider/responses/responses.go, lines 153-509): the events   *)
(* of an OpenAI Responses stream become the blocks of an Anthropic         *)
(* message.  ResponsesChain has the same attempts and retries and leaves   *)
(* out what is streamed; here the store is left out.                       *)
(*                                                                         *)
(* The upstream is external.  It means to make the calls in plan, each     *)
(* announced or not (output_item.added), with its arguments in deltas, in  *)
(* an arguments.done, and in an output_item.done, the calls' events        *)
(* interleaved with each other and with text, reasoning and web searches.  *)
(* It leaves arguments out of a done event only if its deltas or an        *)
(* earlier done event gave them in full, and may stop anywhere.            *)
(*                                                                         *)
(* Arguments are "empty" (the object {}), "good" (the tool's schema        *)
(* accepts them), "bad" (it does not) or "part" (some deltas); Absent when *)
(* an event has none.  A delta of text that holds a think tag stands for   *)
(* several here, one for each side of the tag.                             *)
(***************************************************************************)
EXTENDS MessageBuilder

CONSTANTS
  Calls,        \* ids of the calls the upstream may make (item and call id)
  Searches,     \* ids of its web searches
  MaxRetries,   \* providers.<name>.http.max_retries
  MaxBlocks     \* bound: no text or reasoning is sent beyond so many blocks

ASSUME StreamAssumption ==
  /\ MaxRetries \in Nat /\ MaxBlocks \in Nat
  /\ Calls \cap Searches = {}
  /\ "none" \notin Calls \cup Searches

VARIABLES
  pc,          \* "attempt" (before the post), "streaming" or "done"
  retries,     \* streamRetries
  b,           \* the request's builder
  items,       \* items[c]: the item state of call c, for the calls seen
  held,        \* do the tag stripper or the think parser hold text back?
  incomplete,  \* response.incomplete was read
  emitted,     \* emittedToolCall
  plan,        \* upstream: the kind and arguments of each call
  sent         \* upstream: sent[c], the stage of call c and what deltas gave

vars == <<pc, retries, b, items, held, incomplete, emitted, plan, sent>>

Absent == "absent"

Plans == [Calls -> [kind : {"function"}, args : {"empty", "good", "bad"}]
                   \cup [kind : {"custom"}, args : {"empty", "good"}]]

Unsent == [c \in Calls |-> [stage |-> "none", given |-> "none"]]

NoItems == [c \in {} |-> {}]

TypeOK ==
  /\ pc \in {"attempt", "streaming", "done"}
  /\ retries \in 0 .. MaxRetries
  /\ DOMAIN items \subseteq Calls
  /\ \A c \in DOMAIN items :
       items[c] \in [kind : {"function", "custom"}, named : BOOLEAN,
                     args : {Absent, "part", "empty", "good", "bad"}, closed : BOOLEAN]
  /\ held \in BOOLEAN /\ incomplete \in BOOLEAN /\ emitted \in BOOLEAN
  /\ plan \in Plans
  /\ sent \in [Calls -> [stage : {"none", "added", "argsDone", "done"},
                         given : {"none", "part", "whole"}]]
  /\ b.next \in Nat /\ b.text \in Nat \cup {NoBlock}
  /\ b.thinking \in Nat \cup {NoBlock}
  /\ b.reason \in {"none", "end_turn", "tool_use", "max_tokens"}
  /\ DOMAIN b.tools \subseteq Calls \cup Searches

Init ==
  /\ pc = "attempt"
  /\ retries = MaxRetries
  /\ b = NewBuilder
  /\ items = NoItems
  /\ held = FALSE /\ incomplete = FALSE /\ emitted = FALSE
  /\ plan \in Plans
  /\ sent = Unsent

-----------------------------------------------------------------------------
(* The post *)

\* The post is accepted: message_start, unless an earlier attempt wrote it, and
\* the locals of a new attempt.
PostAccepted ==
  /\ pc = "attempt"
  /\ pc' = "streaming"
  /\ b' = Start(b)
  /\ items' = NoItems
  /\ held' = FALSE /\ incomplete' = FALSE /\ emitted' = FALSE
  /\ plan' \in Plans
  /\ sent' = Unsent
  /\ UNCHANGED retries

\* The auth file or the post fails.
PostFails ==
  /\ pc = "attempt"
  /\ pc' = "done"
  /\ b' = FinishWithError(Start(b))
  /\ UNCHANGED <<retries, items, held, incomplete, emitted, plan, sent>>

\* Stream returns an error (Prepare, the request's translation, no slot) and
\* handleMessages finishes the builder.
StreamReturnsError ==
  /\ pc = "attempt"
  /\ pc' = "done"
  /\ b' = Finish(b)
  /\ UNCHANGED <<retries, items, held, incomplete, emitted, plan, sent>>

-----------------------------------------------------------------------------
(* Tool calls *)

Streaming == pc = "streaming" /\ ~incomplete

\* normalizeToolArgsForAnthropic
Normalized(args) == IF args = Absent THEN "empty" ELSE args

\* toolguard's Validate: a custom tool has no schema.
Valid(kind, args) == kind = "custom" \/ args \in {"empty", "good"}

\* Mutant of EmitToolCall: toolClosed is not looked at.
EmitToolCall_Repeats(c, st) ==
  LET args == Normalized(st.args)
      emit == st.named /\ Valid(st.kind, args)
  IN  /\ items' = [i \in DOMAIN items \cup {c} |->
                     IF i = c THEN [st EXCEPT !.closed = @ \/ emit] ELSE items[i]]
      /\ b' = IF emit THEN WholeTool(b, "tool_use", c, args) ELSE b
      /\ emitted' = (emitted \/ emit)

\* emitToolCall for item st of call c, which becomes the item of c.
EmitToolCall(c, st) ==
  LET args == Normalized(st.args)
      emit == ~st.closed /\ st.named /\ Valid(st.kind, args)
  IN  /\ items' = [i \in DOMAIN items \cup {c} |->
                     IF i = c THEN [st EXCEPT !.closed = @ \/ emit] ELSE items[i]]
      /\ b' = IF emit THEN WholeTool(b, "tool_use", c, args) ELSE b
      /\ emitted' = (emitted \/ emit)

NewItem(c, named) ==
  [kind |-> plan[c].kind, named |-> named, args |-> Absent, closed |-> FALSE]

\* response.output_item.added, with the call's id and name or without.
ItemAdded(c) ==
  /\ Streaming
  /\ sent[c].stage = "none"
  /\ \E named \in BOOLEAN :
       items' = [i \in DOMAIN items \cup {c} |->
                   IF i = c THEN NewItem(c, named) ELSE items[i]]
  /\ sent' = [sent EXCEPT ![c].stage = "added"]
  /\ UNCHANGED <<pc, retries, b, held, incomplete, emitted, plan>>

\* response.function_call_arguments.delta, response.custom_tool_call_input.delta:
\* an item that has no call id yet loses the delta.
ArgsDelta(c) ==
  /\ Streaming
  /\ sent[c].stage = "added" /\ sent[c].given # "whole" /\ plan[c].args # "empty"
  /\ \E given \in {"part", "whole"} :
       /\ sent' = [sent EXCEPT ![c].given = given]
       /\ items' = IF items[c].named
                     THEN [items EXCEPT ![c].args =
                             IF given = "whole" THEN plan[c].args ELSE "part"]
                     ELSE items
  /\ UNCHANGED <<pc, retries, b, held, incomplete, emitted, plan>>

\* The arguments a done event of call c may carry.
DoneArgs(c) ==
  {plan[c].args}
    \cup If(sent[c].given = "whole" /\ c \in DOMAIN items /\ items[c].named, Absent)
    \cup If(plan[c].args = "empty", Absent)

\* The arguments.done may be garbled; an output_item.done then repeats them.
Garbled(c) == If(plan[c].args # "empty", "bad")

\* response.function_call_arguments.done
ArgsDone(c) ==
  /\ Streaming
  /\ sent[c].stage = "added" /\ plan[c].kind = "function"
  /\ \E args \in DoneArgs(c) \cup Garbled(c) :
       /\ sent' = [sent EXCEPT ![c].stage = "argsDone",
                               ![c].given = IF args \in DoneArgs(c) THEN "whole" ELSE "part"]
       /\ IF items[c].named
            THEN EmitToolCall(c, [items[c] EXCEPT
                   !.args = IF args # Absent THEN args
                            ELSE IF @ = Absent THEN "empty" ELSE @])
            ELSE UNCHANGED <<b, items, emitted>>
  /\ UNCHANGED <<pc, retries, held, incomplete, plan>>

\* Mutant of ItemDone: its arguments do not replace those received before.
ItemDone_KeepsArgs(c) ==
  /\ Streaming
  /\ sent[c].stage # "done"
  /\ \E args \in DoneArgs(c) :
       LET st == IF c \in DOMAIN items THEN items[c] ELSE NewItem(c, TRUE)
       IN  EmitToolCall(c, [st EXCEPT !.named = TRUE,
                                      !.args = IF @ = Absent THEN args ELSE @])
  /\ sent' = [sent EXCEPT ![c].stage = "done"]
  /\ UNCHANGED <<pc, retries, held, incomplete, plan>>

\* response.output_item.done of a call: it names the call and may carry its
\* arguments; the item may be seen here first.
ItemDone(c) ==
  /\ Streaming
  /\ sent[c].stage # "done"
  /\ \E args \in DoneArgs(c) :
       LET st == IF c \in DOMAIN items THEN items[c] ELSE NewItem(c, TRUE)
       IN  EmitToolCall(c, [st EXCEPT !.named = TRUE,
                                      !.args = IF args # Absent THEN args ELSE @])
  /\ sent' = [sent EXCEPT ![c].stage = "done"]
  /\ UNCHANGED <<pc, retries, held, incomplete, plan>>

\* response.output_item.done of a web search: emitWebSearchCall.
SearchDone(s) ==
  /\ Streaming
  /\ s \notin DOMAIN b.tools
  /\ b' = EmitServerToolResult(WholeTool(b, "server_tool_use", s, "query"), s)
  /\ UNCHANGED <<pc, retries, items, held, incomplete, emitted, plan, sent>>

-----------------------------------------------------------------------------
(* Text and reasoning *)

Emit(m, chunk) ==
  CASE chunk = "text"     -> EmitText(m)
    [] chunk = "thinking" -> EmitThinking(m)
    [] chunk = "nothing"  -> m

Room == Len(b.view.content) < MaxBlocks

\* response.output_text.delta: what the stripper and the think parser let
\* through is text, thinking or nothing, and they may hold some back.
TextDelta ==
  /\ Streaming /\ Room
  /\ \E chunk \in {"text", "thinking", "nothing"} : b' = Emit(b, chunk)
  /\ held' \in BOOLEAN
  /\ UNCHANGED <<pc, retries, items, incomplete, emitted, plan, sent>>

\* response.output_text.done drops what the stripper holds; the think parser
\* keeps what it holds.
TextDone ==
  /\ Streaming
  /\ held
  /\ held' \in BOOLEAN
  /\ UNCHANGED <<pc, retries, b, items, incomplete, emitted, plan, sent>>

\* response.reasoning_summary_part.added opens a block without any delta.
ReasoningPart ==
  /\ Streaming /\ Room
  /\ b' = EnsureThinking(b)
  /\ UNCHANGED <<pc, retries, items, held, incomplete, emitted, plan, sent>>

\* response.reasoning_summary_text.delta and its two other names.
ReasoningDelta ==
  /\ Streaming /\ Room
  /\ b' = EmitThinking(b)
  /\ UNCHANGED <<pc, retries, items, held, incomplete, emitted, plan, sent>>

-----------------------------------------------------------------------------
(* The end *)

\* response.incomplete is the upstream's last event.
Incomplete ==
  /\ Streaming
  /\ incomplete' = TRUE
  /\ UNCHANGED <<pc, retries, b, items, held, emitted, plan, sent>>

\* Mutant of StopReason: response.incomplete hides the calls.
StopReason_IncompleteFirst ==
  IF incomplete THEN "max_tokens" ELSE IF emitted THEN "tool_use" ELSE "end_turn"

StopReason ==
  IF emitted THEN "tool_use" ELSE IF incomplete THEN "max_tokens" ELSE "end_turn"

\* The body ends, after response.completed or before it: what the parsers hold
\* is flushed and the message is finished.
StreamEnds ==
  /\ pc = "streaming"
  /\ pc' = "done"
  /\ \E tail \in IF held THEN {"text", "thinking", "nothing"} ELSE {"nothing"} :
       b' = Finish(SetStopReason(Emit(b, tail), StopReason))
  /\ held' = FALSE
  /\ UNCHANGED <<retries, items, incomplete, emitted, plan, sent>>

\* A read error or a retriable failure event before any content.
StreamRetry ==
  /\ pc = "streaming"
  /\ ~b.content
  /\ retries > 0
  /\ pc' = "attempt"
  /\ retries' = retries - 1
  /\ UNCHANGED <<b, items, held, incomplete, emitted, plan, sent>>

\* Any other read error or failure event, or a cancelled request.
StreamFails ==
  /\ pc = "streaming"
  /\ pc' = "done"
  /\ b' = FinishWithError(b)
  /\ UNCHANGED <<retries, items, held, incomplete, emitted, plan, sent>>

Next ==
  \/ PostAccepted \/ PostFails \/ StreamReturnsError
  \/ \E c \in Calls : ItemAdded(c) \/ ArgsDelta(c) \/ ArgsDone(c) \/ ItemDone(c)
  \/ \E s \in Searches : SearchDone(s)
  \/ TextDelta \/ TextDone \/ ReasoningPart \/ ReasoningDelta
  \/ Incomplete \/ StreamEnds \/ StreamRetry \/ StreamFails

Spec == Init /\ [][Next]_vars

-----------------------------------------------------------------------------
(* Properties *)

View == b.view

CallsOf(c) == {i \in ToolCalls(View) : View.content[i].id = c}

\* Whatever the order of events and failures, and across retries, the client
\* reads a well-formed message: one message_start, blocks numbered one after
\* the other, each stopped before the next starts, nothing after the end.  The
\* one exception is a request Stream rejects before message_start
\* (handleMessages, server.go:424-426, then writes an end without a start).
WellFormed == View.flaws \subseteq If(~b.started, "headless")

\* A request that is done has ended its message, once, with every block
\* stopped; one that is not done has not (Finish and FinishWithError look at
\* b.finished, streamOnce's returns and handleMessages both call them).
EndsOnce ==
  /\ (pc = "done") <=> b.finished
  /\ b.finished <=> (View.ended # View.error)
  /\ b.finished => View.open = {}

\* A tool call reaches the client at most once, only with the arguments the
\* upstream meant, whole, and only if they are valid (emitToolCall is called
\* at arguments.done and again at output_item.done, guarded by toolClosed).
CallsWhole ==
  \A i \in ToolCalls(View) :
    LET c == View.content[i].id
    IN  /\ View.content[i].input = <<plan[c].args>>
        /\ Valid(plan[c].kind, plan[c].args)
        /\ CallsOf(c) = {i}

\* A valid call the upstream has finished sending has reached the client,
\* whichever of its events were left out or garbled, and whatever follows.
CallsDelivered ==
  \A c \in Calls :
    sent[c].stage = "done" /\ Valid(plan[c].kind, plan[c].args) => CallsOf(c) # {}

\* The stop reason tells the client to run tools exactly when it was given
\* calls, unless the stream failed.
StopReasonAgrees ==
  View.ended /\ ~b.failed => ((View.reason = "tool_use") <=> (ToolCalls(View) # {}))

\* HasContent, on which a retry depends, is true as soon as a block was written
\* and not before: a retry repeats nothing (responses.go:431, sse.go:306).
ContentKnown == b.content <=> View.content # <<>>

\* "Later mid-stream provider failures are returned as Anthropic SSE errors"
\* (README.md:495-496): said here of a stream that fails after it delivered a
\* tool call, which can only be mid-stream.
FailuresAreErrors == b.failed /\ ToolCalls(View) # {} => View.error
=============================================================================
