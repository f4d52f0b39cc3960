----------------------------- MODULE Transcript -----------------------------
(***************************************************************************)
(* The repairs the proxy makes to a client's transcript before it is       *)
(* translated (internal/anthropic/types.go): NormalizeMessagesForUpstream  *)
(* for a full replay, NormalizePreviousResponseTail for the messages sent  *)
(* beside previous_response_id.                                            *)
(*                                                                         *)
(* A message is [role, content], its content a sequence of blocks          *)
(* [type, id, from].  The id is that of the call a tool block makes or     *)
(* answers, NoId for "" (a call without a name counts as one without an    *)
(* id); from numbers the blocks the client wrote, 0 is one of the proxy's. *)
(* Images are kept and placed as text is and stand under it; the fields    *)
(* stripped without the tool search beta change no block's place.          *)
(***************************************************************************)
EXTENDS Integers, Sequences, SequencesExt

NoId == "no_id"

CallTypes == {"tool_use", "server_tool_use", "web_search_use"}

\* "web_search_use" is the server_tool_use of a web_search, "server_tool_use" any
\* other and mcp_tool_use, and "mcp_tool_result" any server tool's result, which
\* stands in the assistant's message.
ServerTypes == {"server_tool_use", "web_search_use", "mcp_tool_result"}

User(blocks) == [role |-> "user", content |-> blocks]

Assistant(blocks) == [role |-> "assistant", content |-> blocks]

\* "[No message content]", "[Orphaned tool result removed ...]" or
\* "[Tool use interrupted]"
Placeholder == [type |-> "text", id |-> NoId, from |-> 0]

\* syntheticToolResult
Synthetic(id) == [type |-> "tool_result", id |-> id, from |-> 0]

\* What stands at the positions in kept, in order.
At(seq, kept) ==
  FlattenSeq([k \in DOMAIN seq |-> IF k \in kept THEN <<seq[k]>> ELSE <<>>])

OrPlaceholder(blocks) == IF blocks = <<>> THEN <<Placeholder>> ELSE blocks

-----------------------------------------------------------------------------
(* Server tools and thinking *)

\* BlocksForUpstream: unless they are passed through, records of server tools
\* become text.
BlocksForUpstream(blocks, passthrough) ==
  [k \in DOMAIN blocks |->
     IF ~passthrough /\ blocks[k].type \in ServerTypes
       THEN [blocks[k] EXCEPT !.type = "text", !.id = NoId]
       ELSE blocks[k]]

IsThinking(b) == b.type = "thinking"

OnlyThinking(blocks) ==
  blocks # <<>> /\ \A k \in DOMAIN blocks : IsThinking(blocks[k])

\* filterOrphanedThinkingOnlyMessages
WithoutOrphanedThinking(messages) ==
  At(messages, {i \in DOMAIN messages :
    ~(messages[i].role = "assistant" /\ OnlyThinking(messages[i].content))})

\* filterTrailingThinkingFromLastAssistant
WithoutTrailingThinking(messages) ==
  IF messages = <<>> \/ Last(messages).role # "assistant"
     \/ Last(messages).content = <<>>
    THEN messages
    ELSE LET blocks == Last(messages).content
             spoken == {k \in DOMAIN blocks :
                          \E j \in k .. Len(blocks) : ~IsThinking(blocks[j])}
         IN  Append(Front(messages), Assistant(OrPlaceholder(At(blocks, spoken))))

Filtered(messages) == WithoutTrailingThinking(WithoutOrphanedThinking(messages))

-----------------------------------------------------------------------------
(* ensureToolResultPairing *)

IsResult(b) == b.type = "tool_result"

\* Mutant of StripToolResults: a result may be repeated.
StripToolResults_Repeats(blocks, allowed) ==
  At(blocks, {k \in DOMAIN blocks : IsResult(blocks[k]) => blocks[k].id \in allowed})

\* stripToolResults: of the results only those of allowed calls stay, once each.
StripToolResults(blocks, allowed) ==
  At(blocks, {k \in DOMAIN blocks :
    IsResult(blocks[k]) =>
      /\ blocks[k].id \in allowed
      /\ ~\E j \in 1 .. k - 1 : IsResult(blocks[j]) /\ blocks[j].id = blocks[k].id})

\* A user message no call came before: its results answer nothing.
Unasked(blocks) ==
  IF \E k \in DOMAIN blocks : IsResult(blocks[k])
    THEN OrPlaceholder(StripToolResults(blocks, {}))
    ELSE blocks

\* An assistant message keeps only calls with an id that is new.
Asking(blocks, seen) ==
  At(blocks, {k \in DOMAIN blocks :
    blocks[k].type = "tool_use" =>
      /\ blocks[k].id \notin seen \cup {NoId}
      /\ ~\E j \in 1 .. k - 1 :
            blocks[j].type = "tool_use" /\ blocks[j].id = blocks[k].id})

IdsOf(blocks, types) ==
  LET of == At(blocks, {k \in DOMAIN blocks :
                          blocks[k].type \in types /\ blocks[k].id # NoId})
  IN  [k \in DOMAIN of |-> of[k].id]

\* Mutant of Answering: every call gets a synthetic result.
Answering_Always(ids, next) ==
  [k \in DOMAIN ids |-> Synthetic(ids[k])] \o StripToolResults(next, {})

\* The user message after calls: synthetic results for those it does not
\* answer, then its own blocks.
Answering(ids, next) ==
  LET given   == ToSet(IdsOf(next, {"tool_result"}))
      missing == At(ids, {n \in DOMAIN ids : ids[n] \notin given})
  IN  [k \in DOMAIN missing |-> Synthetic(missing[k])]
        \o StripToolResults(next, ToSet(ids))

\* seenToolUses on the way to message i.
SeenToolUses(messages, i) ==
  UNION {ToSet(IdsOf(messages[j].content, {"tool_use"})) :
           j \in {j \in 1 .. i - 1 : messages[j].role = "assistant"}}

\* The calls message i is left with, if it is the assistant's.
Asked(messages, i) ==
  IF i \in DOMAIN messages /\ messages[i].role = "assistant"
    THEN IdsOf(Asking(messages[i].content, SeenToolUses(messages, i)), {"tool_use"})
    ELSE <<>>

\* What becomes of message i: a user message right after calls answers them, and
\* without one the proxy does.
PairedAt(messages, i) ==
  LET blocks == messages[i].content
      turn   == Assistant(OrPlaceholder(Asking(blocks, SeenToolUses(messages, i))))
      reply  == i < Len(messages) /\ messages[i + 1].role = "user"
  IN  IF messages[i].role = "user"
        THEN IF Asked(messages, i - 1) # <<>>
               THEN <<User(Answering(Asked(messages, i - 1), blocks))>>
             ELSE IF Unasked(blocks) = <<>> THEN <<>>
             ELSE <<User(Unasked(blocks))>>
        ELSE IF Asked(messages, i) = <<>> \/ reply THEN <<turn>>
             ELSE <<turn, User(Answering(Asked(messages, i), <<>>))>>

\* The loop over the messages.
Paired(messages) == FlattenSeq([i \in DOMAIN messages |-> PairedAt(messages, i)])

-----------------------------------------------------------------------------

Degraded(messages, passthrough) ==
  [i \in DOMAIN messages |->
     [messages[i] EXCEPT !.content = BlocksForUpstream(@, passthrough)]]

NormalizeMessagesForUpstream(messages, passthrough) ==
  Paired(Degraded(Filtered(messages), passthrough))

\* Mutant of NormalizePreviousResponseTail: the tail is repaired as a full
\* transcript is.
NormalizePreviousResponseTail_Pairs(messages, passthrough) ==
  Paired(Degraded(Filtered(messages), passthrough))

\* The tail keeps results whose calls are not in it.
NormalizePreviousResponseTail(messages, passthrough) ==
  LET msgs == Degraded(Filtered(messages), passthrough)
  IN  At(msgs, {i \in DOMAIN msgs : msgs[i].role # "user" \/ msgs[i].content # <<>>})
=============================================================================
