----------------------------- MODULE ChatStream -----------------------------
(***************************************************************************)
(* One request's way through Stream of the Chat Completions adapter        *)
(* (internal/provider/chat/chat.go) and the post with retries below it     *)
(* (internal/provider/http.go): the chunks of an OpenAI chat stream become *)
(* the blocks of an Anthropic message.                                     *)
(*                                                                         *)
(* The upstream is external.  It means to make the calls in plan, numbers  *)
(* them by their index, sends each in fragments, the calls' fragments      *)
(* interleaved with each other and with text and reasoning, may leave out  *)
(* finish_reason or be cut off anywhere, and says tool_calls or stop only  *)
(* when it has sent every call it began; after it no more of the message   *)
(* comes, but the reason itself may be repeated.                           *)
(*                                                                         *)
(* Arguments are "none" (no fragment yet), "part" (not yet JSON), or what  *)
(* the plan says when whole.  What is planned is "empty" (the object {}),  *)
(* "good" or "loose" (accepted and rejected by a schema that requires      *)
(* nothing), "strict" or "bad" (accepted and rejected by one that has      *)
(* required properties).                                                   *)
(***************************************************************************)
EXTENDS MessageBuilder

CONSTANTS
  CallIds,      \* the ids of the calls the upstream may make, by their index
  MaxRetries,   \* providers.<name>.http.max_retries
  MaxBlocks     \* bound: no text or reasoning is sent beyond so many blocks

Indexes == DOMAIN CallIds

ASSUME ChatAssumption ==
  /\ CallIds \in Seq(STRING)
  /\ \A i, j \in Indexes : CallIds[i] = CallIds[j] => i = j
  /\ "none" \notin {CallIds[i] : i \in Indexes}
  /\ MaxRetries \in Nat /\ MaxBlocks \in Nat

VARIABLES
  pc,        \* "begin", "post", "delay", "streaming", "emitting", "flushed", "done"
  retries,   \* attempts of the post that are left after this one
  b,         \* the request's builder
  tools,     \* tools[i]: the toolTrack of index i, for the indexes seen
  held,      \* does the think parser hold text back?
  finish,    \* finishReason, "none" for ""
  emitted,   \* emittedToolCall
  pos,       \* emitValidatedToolCalls: the index it looks at next
  plan,      \* upstream: the arguments of each call
  sent       \* upstream: how much of each call it has sent

vars == <<pc, retries, b, tools, held, finish, emitted, pos, plan, sent>>

Args == {"empty", "good", "loose", "strict", "bad"}

Finishes == {"none", "stop", "length", "tool_calls"}

NoTools == [i \in {} |-> {}]

TypeOK ==
  /\ pc \in {"begin", "post", "delay", "streaming", "emitting", "flushed", "done"}
  /\ retries \in 0 .. MaxRetries
  /\ DOMAIN tools \subseteq Indexes
  /\ \A i \in DOMAIN tools :
       tools[i] \in [named : BOOLEAN, args : {"none", "part"} \cup Args, emitted : BOOLEAN]
  /\ held \in BOOLEAN /\ emitted \in BOOLEAN
  /\ finish \in Finishes
  /\ pos \in 1 .. Len(CallIds) + 1
  /\ plan \in [Indexes -> Args]
  /\ sent \in [Indexes -> {"none", "begun", "part", "whole"}]
  /\ b.next \in Nat /\ b.text \in Nat \cup {NoBlock}
  /\ b.thinking \in Nat \cup {NoBlock}
  /\ b.reason \in {"none", "end_turn", "tool_use", "max_tokens"}
  /\ DOMAIN b.tools \subseteq {CallIds[i] : i \in Indexes}

Init ==
  /\ pc = "begin"
  /\ retries = MaxRetries
  /\ b = NewBuilder
  /\ tools = NoTools
  /\ held = FALSE /\ emitted = FALSE
  /\ finish = "none"
  /\ pos = 1
  /\ plan \in [Indexes -> Args]
  /\ sent = [i \in Indexes |-> "none"]

-----------------------------------------------------------------------------
(* The post *)

locals == <<tools, held, finish, emitted, pos, plan, sent>>

\* A slot is free and the request is translated: message_start.
Begin ==
  /\ pc = "begin"
  /\ pc' = "post"
  /\ b' = Start(b)
  /\ UNCHANGED <<retries, locals>>

\* No slot before the client left, or no translation: Stream returns an error
\* and handleMessages finishes the builder.
Rejected ==
  /\ pc = "begin"
  /\ pc' = "done"
  /\ b' = Finish(b)
  /\ UNCHANGED <<retries, locals>>

\* A transport error, 429 or 5xx, and an attempt is left: a delay begins.
PostDelayed ==
  /\ pc = "post"
  /\ retries > 0
  /\ pc' = "delay"
  /\ UNCHANGED <<retries, b, locals>>

\* Mutant of PostAgain: the attempts are not counted.
PostAgain_Endless ==
  /\ pc = "delay"
  /\ pc' = "post"
  /\ UNCHANGED <<retries, b, locals>>

\* The delay is over.
PostAgain ==
  /\ pc = "delay"
  /\ pc' = "post"
  /\ retries' = retries - 1
  /\ UNCHANGED <<b, locals>>

\* A 2xx with an event stream.
PostAccepted ==
  /\ pc = "post"
  /\ pc' = "streaming"
  /\ UNCHANGED <<retries, b, locals>>

\* Mutant of PostFails: the error is not written.
PostFails_Silent ==
  /\ pc \in {"post", "delay"}
  /\ pc' = "done"
  /\ UNCHANGED <<retries, b, locals>>

\* Any other status, no event stream, the last attempt fails, or the client
\* leaves, also in a delay.
PostFails ==
  /\ pc \in {"post", "delay"}
  /\ pc' = "done"
  /\ b' = FinishWithError(b)
  /\ UNCHANGED <<retries, locals>>

-----------------------------------------------------------------------------
(* Chunks *)

Streaming == pc = "streaming" /\ finish = "none"

Emit(m, chunk) ==
  CASE chunk = "text"     -> EmitText(m)
    [] chunk = "thinking" -> EmitThinking(m)
    [] chunk = "nothing"  -> m

Room == Len(b.view.content) < MaxBlocks

\* delta.content: what the think parser lets through is text, thinking or
\* nothing, and it may hold some back.
Content ==
  /\ Streaming /\ Room
  /\ \E chunk \in {"text", "thinking", "nothing"} : b' = Emit(b, chunk)
  /\ held' \in BOOLEAN
  /\ UNCHANGED <<pc, retries, tools, finish, emitted, pos, plan, sent>>

\* delta.reasoning_content
Reasoning ==
  /\ Streaming /\ Room
  /\ b' = EmitThinking(b)
  /\ UNCHANGED <<pc, retries, locals>>

\* How much of a call may have been sent after one more fragment.
Further(i) ==
  CASE sent[i] = "none"  -> {"begun", "part", "whole"}
    [] sent[i] = "begun" -> {"begun", "part", "whole"}
    [] sent[i] = "part"  -> {"part", "whole"}
    [] sent[i] = "whole" -> {}

\* What the fragments of call i put together are.
Gathered(i, stage) ==
  CASE stage = "begun" -> "none"
    [] stage = "part"  -> "part"
    [] stage = "whole" -> plan[i]

NewTrack == [named |-> FALSE, args |-> "none", emitted |-> FALSE]

\* A fragment in delta.tool_calls.  The id and name may come with any of them,
\* before the last one at the latest.
Fragment(i) ==
  /\ Streaming
  /\ \E stage \in Further(i), names \in BOOLEAN :
       LET t == IF i \in DOMAIN tools THEN tools[i] ELSE NewTrack
       IN  /\ names \/ stage # "whole" \/ t.named
           /\ sent' = [sent EXCEPT ![i] = stage]
           /\ tools' = [j \in DOMAIN tools \cup {i} |->
                IF j = i THEN [t EXCEPT !.named = @ \/ names, !.args = Gathered(i, stage)]
                ELSE tools[j]]
  /\ UNCHANGED <<pc, retries, b, held, finish, emitted, pos, plan>>

\* finish_reason: tool_calls has the calls written at once.
FinishReason ==
  /\ pc = "streaming"
  /\ \E r \in Finishes \ {"none"} :
       /\ finish \in {"none", r}
       /\ r # "length" => \A i \in Indexes : sent[i] \in {"none", "whole"}
       /\ finish' = r
       /\ pc' = IF r = "tool_calls" THEN "emitting" ELSE pc
  /\ pos' = 1
  /\ UNCHANGED <<retries, b, tools, held, emitted, plan, sent>>

-----------------------------------------------------------------------------
(* emitValidatedToolCalls *)

\* toolguard's Validate: no arguments are {}.
Valid(args) == args \in {"empty", "good", "strict"}

\* What the guard makes of the arguments call i has so far: without any
\* fragment they are {}, which a schema that requires nothing accepts.
Guarded(i) ==
  IF tools[i].args = "none" /\ plan[i] \in {"empty", "good", "loose"} THEN "empty"
  ELSE tools[i].args

\* Mutant of Ready: emitted calls are not skipped.
Ready_Again(i) == i \in DOMAIN tools /\ tools[i].named /\ Valid(Guarded(i))

Ready(i) ==
  i \in DOMAIN tools /\ tools[i].named /\ ~tools[i].emitted /\ Valid(Guarded(i))

WriteCall(m, i) == WholeTool(m, "tool_use", CallIds[i], Guarded(i))

\* Mutant of Turn: the indexes are sorted the other way.
Turn_Reversed == Len(CallIds) + 1 - pos

\* The index the loop over the sorted indexes has come to.
Turn == pos

EmitNext ==
  /\ pc \in {"emitting", "flushed"}
  /\ pos \in Indexes
  /\ pos' = pos + 1
  /\ IF Ready(Turn)
       THEN /\ b' = WriteCall(b, Turn)
            /\ tools' = [tools EXCEPT ![Turn].emitted = TRUE]
            /\ emitted' = TRUE
       ELSE UNCHANGED <<b, tools, emitted>>
  /\ UNCHANGED <<pc, retries, held, finish, plan, sent>>

\* The loop is over and the chunk has been read.
Emitted ==
  /\ pc = "emitting"
  /\ pos = Len(CallIds) + 1
  /\ pc' = "streaming"
  /\ UNCHANGED <<retries, b, locals>>

-----------------------------------------------------------------------------
(* The end *)

\* Mutant of BodyEnds: calls are only written at finish_reason.
BodyEnds_ForgetsCalls ==
  /\ pc = "streaming"
  /\ pc' = "flushed"
  /\ pos' = Len(CallIds) + 1
  /\ \E tail \in IF held THEN {"text", "thinking"} ELSE {"nothing"} : b' = Emit(b, tail)
  /\ held' = FALSE
  /\ UNCHANGED <<retries, tools, finish, emitted, plan, sent>>

\* The body ends: what the think parser holds is flushed, then the calls are
\* looked at once more.
BodyEnds ==
  /\ pc = "streaming"
  /\ pc' = "flushed"
  /\ pos' = 1
  /\ \E tail \in IF held THEN {"text", "thinking"} ELSE {"nothing"} : b' = Emit(b, tail)
  /\ held' = FALSE
  /\ UNCHANGED <<retries, tools, finish, emitted, plan, sent>>

\* mapStopReason
MapStopReason(reason) ==
  CASE reason = "length"     -> "max_tokens"
    [] reason = "tool_calls" -> "tool_use"
    [] OTHER                 -> "end_turn"

\* Mutant of StopReason: that nothing was emitted is not looked at.
StopReason_Unchecked == MapStopReason(finish)

StopReason ==
  IF MapStopReason(finish) = "tool_use" /\ ~emitted THEN "end_turn"
  ELSE MapStopReason(finish)

MessageEnds ==
  /\ pc = "flushed"
  /\ pos = Len(CallIds) + 1
  /\ pc' = "done"
  /\ b' = Finish(SetStopReason(b, StopReason))
  /\ UNCHANGED <<retries, locals>>

\* A read error, or the client has left.
StreamFails ==
  /\ pc = "streaming"
  /\ pc' = "done"
  /\ b' = FinishWithError(b)
  /\ UNCHANGED <<retries, locals>>

Next ==
  \/ Begin \/ Rejected
  \/ PostDelayed \/ PostAgain \/ PostAccepted \/ PostFails
  \/ Content \/ Reasoning \/ FinishReason
  \/ \E i \in Indexes : Fragment(i)
  \/ EmitNext \/ Emitted
  \/ BodyEnds \/ MessageEnds \/ StreamFails

Spec == Init /\ [][Next]_vars

\* The goroutine runs on; an attempt of the post is answered or fails, and a
\* body ends some time, by the upstream or the client's timeout.
Proceeds ==
  \/ Begin \/ Rejected \/ PostDelayed \/ PostAgain \/ PostAccepted \/ PostFails
  \/ EmitNext \/ Emitted \/ MessageEnds

FairSpec == Spec /\ WF_vars(Proceeds) /\ SF_vars(BodyEnds \/ StreamFails)

-----------------------------------------------------------------------------
(* Properties *)

View == b.view

CallsOf(i) == {k \in ToolCalls(View) : View.content[k].id = CallIds[i]}

\* Whatever the order of fragments, text, failures and the end, the client reads
\* a well-formed message: blocks numbered one after the other, each stopped
\* before the next starts, nothing after the end.  The one exception is a
\* request rejected before message_start (chat.go:51, 57; server.go:424-426).
\* The message has ended, once, exactly if the request is done.
WellFormed ==
  /\ View.flaws \subseteq If(~b.started, "headless")
  /\ (pc = "done") <=> b.finished
  /\ b.finished <=> (View.ended # View.error)
  /\ b.finished => View.open = {}

\* A call reaches the client at most once, though the calls are looked at after
\* each finish_reason and again at the end (chat.go:125, 180, 199), and with the
\* arguments the upstream meant, whole, never with a part of them.  The one
\* exception is a call the stream is cut off in before its first argument
\* fragment: if its schema requires nothing it is delivered with {}.
CallsWhole ==
  \A k \in ToolCalls(View) :
    \E i \in Indexes :
      /\ CallsOf(i) = {k}
      /\ \/ /\ sent[i] = "whole" /\ Valid(plan[i])
            /\ View.content[k].input = <<plan[i]>>
         \/ /\ sent[i] = "begun" /\ finish \in {"none", "length"}
            /\ View.content[k].input = <<"empty">>

\* A valid call the upstream has sent whole has reached the client when a
\* stream ends that did not fail, whatever its finish_reason.
CallsDelivered ==
  View.ended /\ ~b.failed =>
    \A i \in Indexes : sent[i] = "whole" /\ Valid(plan[i]) => CallsOf(i) # {}

\* The client reads calls in the upstream's order, not in the order in which
\* their first fragments came or a Go map is iterated (chat.go:118-122).
CallsInOrder ==
  \A i, j \in Indexes :
    i < j => \A k \in CallsOf(i), l \in CallsOf(j) : k < l

\* Unless the stream failed the client is told to run tools exactly if it was
\* given calls and the upstream's reason was tool_calls (chat.go:205-208).  With
\* another reason (OpenAI sends stop when the request forces a function)
\* delivered calls end with end_turn or max_tokens.
ReasonAgrees ==
  View.ended /\ b.started /\ ~b.failed =>
    ((View.reason = "tool_use") <=> (finish = "tool_calls" /\ ToolCalls(View) # {}))

\* Every request is answered: the post is not retried for ever, nor is the loop
\* over the calls repeated.
Answered == <>(pc = "done")
=============================================================================
