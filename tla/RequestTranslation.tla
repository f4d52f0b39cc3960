------------------------- MODULE RequestTranslation -------------------------
(***************************************************************************)
(* What becomes of a client's transcript on its way upstream: repaired     *)
(* (Transcript) and translated to the messages of a Chat Completions       *)
(* request (convertMessages, internal/provider/chat/chat.go) or to the     *)
(* input items of a Responses request (convertMessagesToItemsWithOptions,  *)
(* internal/provider/responses/responses.go), the latter in full or as the *)
(* tail beside previous_response_id.                                       *)
(*                                                                         *)
(* The client is external: it may write any transcript, as one resumed,    *)
(* edited or interrupted is.  It sends calls and thinking in assistant     *)
(* messages only and results in user messages only.                        *)
(*                                                                         *)
(* A Chat message is [role, calls, texts], a Responses item [type, id,     *)
(* texts]; texts are the numbers of the client's blocks it carries.        *)
(***************************************************************************)
EXTENDS Transcript, FiniteSets

CONSTANTS
  Ids,          \* the ids of client tools' calls
  Custom,       \* those of calls to tools the Responses API knows as custom
  MaxMessages, MaxBlocks  \* bounds of the transcript

ASSUME TranslationAssumption ==
  /\ Custom \subseteq Ids
  /\ NoId \notin Ids /\ Ids \cap ServerTypes = {}
  /\ MaxMessages \in Nat /\ MaxBlocks \in Nat

VARIABLES
  messages,     \* the transcript as the client has it
  passthrough,  \* experimental_passthrough_server_tools
  api,          \* "none" before it is sent, "chat", "responses",
                \* "tail" or "appended"
  tail,         \* the tail sent beside previous_response_id
  upstream,     \* the repaired messages
  request       \* what is posted

vars == <<messages, passthrough, api, tail, upstream, request>>

\* The numbers of the client's texts among blocks; the proxy's own have none.
Texts(blocks) ==
  FlattenSeq([k \in DOMAIN blocks |->
    IF blocks[k].type = "text" /\ blocks[k].from # 0 THEN <<blocks[k].from>> ELSE <<>>])

HasText(blocks) == \E k \in DOMAIN blocks : blocks[k].type = "text"

\* The blocks before the first call that is sent on, and those after it.
FirstCall(blocks, types) ==
  LET calls == {k \in DOMAIN blocks : blocks[k].type \in types /\ blocks[k].id # NoId}
  IN  IF calls = {} THEN Len(blocks) + 1
      ELSE CHOOSE k \in calls : \A j \in calls : k <= j

ResultTypes == {"tool_result", "mcp_tool_result"}

Answers(b) == b.type \in ResultTypes /\ b.id # NoId

\* What is gathered when block k is reached: the blocks since the last result.
Gathered(blocks, k) ==
  LET results == {j \in 1 .. k - 1 : Answers(blocks[j])}
  IN  SubSeq(blocks, (IF results = {} THEN 0 ELSE Max(results)) + 1, k - 1)

\* The parts a user message goes out in: what is gathered, if there is text in it,
\* is flushed before a result, which is a part of its own, and at the end.
Parts(blocks) ==
  FlattenSeq([k \in 1 .. Len(blocks) + 1 |->
    LET run     == Gathered(blocks, k)
        flushed == IF HasText(run) THEN <<run>> ELSE <<>>
    IN  IF k > Len(blocks) THEN flushed
        ELSE IF Answers(blocks[k]) THEN Append(flushed, <<blocks[k]>>)
        ELSE <<>>])

-----------------------------------------------------------------------------
(* Chat Completions *)

Said(role, blocks) == [role |-> role, calls |-> <<>>, texts |-> Texts(blocks)]

\* convertUserBlocks: a result is a tool message of its own.
ConvertUserBlocks(blocks) ==
  LET parts == Parts(blocks)
  IN  [n \in DOMAIN parts |->
         IF Answers(parts[n][1])
           THEN [role |-> "tool", calls |-> <<parts[n][1].id>>, texts |-> <<>>]
           ELSE Said("user", parts[n])]

\* Mutant of ConvertAssistantBlocks: text after calls is forgotten.
ConvertAssistantBlocks_CutsText(blocks) ==
  <<[role  |-> "assistant", calls |-> IdsOf(blocks, CallTypes),
     texts |-> Texts(SubSeq(blocks, 1, FirstCall(blocks, CallTypes) - 1))]>>

\* convertAssistantBlocks: text after calls is a message of its own.
ConvertAssistantBlocks(blocks) ==
  LET split == FirstCall(blocks, CallTypes)
      post  == SubSeq(blocks, split, Len(blocks))
  IN  <<[role |-> "assistant", calls |-> IdsOf(blocks, CallTypes),
         texts |-> Texts(SubSeq(blocks, 1, split - 1))]>>
        \o (IF HasText(post) THEN <<Said("assistant", post)>> ELSE <<>>)

ConvertMessages(msgs) ==
  FlattenSeq([i \in DOMAIN msgs |->
    IF msgs[i].role = "user" THEN ConvertUserBlocks(msgs[i].content)
    ELSE ConvertAssistantBlocks(msgs[i].content)])

-----------------------------------------------------------------------------
(* Responses *)

\* The call of a web_search is not sent, those of other server tools are.
ItemTypes == {"tool_use", "server_tool_use"}

Message(blocks) == [type |-> "message", id |-> NoId, texts |-> Texts(blocks)]

MessageIfAny(blocks) == IF HasText(blocks) THEN <<Message(blocks)>> ELSE <<>>

\* The type of a call's item: custom_tool_call for custom tools.
CallType(id) == IF id \in Custom THEN "custom_tool_call" ELSE "function_call"

\* The type of a result's item follows what is known of its call.
OutputType(id, callKinds) ==
  IF id \in DOMAIN callKinds /\ callKinds[id] = "custom_tool_call"
    THEN "custom_tool_call_output" ELSE "function_call_output"

UserItems(blocks, callKinds) ==
  LET parts == Parts(blocks)
  IN  [n \in DOMAIN parts |->
         LET b == parts[n][1]
         IN  IF Answers(b)
               THEN [type |-> OutputType(b.id, callKinds), id |-> b.id, texts |-> <<>>]
               ELSE Message(parts[n])]

\* Text, then the calls, then the text after the first of them.
AssistantItems(blocks) ==
  LET ids   == IdsOf(blocks, ItemTypes)
      split == FirstCall(blocks, ItemTypes)
  IN  MessageIfAny(SubSeq(blocks, 1, split - 1))
        \o [k \in DOMAIN ids |-> [type |-> CallType(ids[k]), id |-> ids[k], texts |-> <<>>]]
        \o MessageIfAny(SubSeq(blocks, split, Len(blocks)))

\* What is known of calls at message i: those of the messages before it and prior.
CallKinds(msgs, i, prior) ==
  LET asked == UNION {ToSet(IdsOf(msgs[j].content, ItemTypes)) :
                        j \in {j \in 1 .. i - 1 : msgs[j].role = "assistant"}}
  IN  [id \in asked \cup DOMAIN prior |-> IF id \in asked THEN CallType(id) ELSE prior[id]]

Items(msgs, prior) ==
  FlattenSeq([i \in DOMAIN msgs |->
    IF msgs[i].role = "user" THEN UserItems(msgs[i].content, CallKinds(msgs, i, prior))
    ELSE AssistantItems(msgs[i].content)])

-----------------------------------------------------------------------------
(* The client *)

\* All blocks of msgs.
BlocksOf(msgs) == FlattenSeq([i \in DOMAIN msgs |-> msgs[i].content])

Wrote == Len(BlocksOf(messages))

\* What may be written into a message of role, id and all.
Offered(role) ==
  IF role = "user"
    THEN [type : {"text"}, id : {NoId}] \cup [type : {"tool_result"}, id : Ids \cup {NoId}]
    ELSE [type : {"text", "thinking"}, id : {NoId}]
           \cup [type : {"tool_use"}, id : Ids \cup {NoId}]
           \cup {[type |-> t, id |-> t] : t \in ServerTypes}

Init ==
  /\ messages = <<>>
  /\ passthrough \in BOOLEAN
  /\ api = "none" /\ tail = <<>>
  /\ upstream = <<>> /\ request = <<>>

Open ==
  /\ api = "none"
  /\ Len(messages) < MaxMessages
  /\ messages # <<>> => Last(messages).content # <<>>
  /\ \E role \in {"user", "assistant"} :
       messages' = Append(messages, [role |-> role, content |-> <<>>])
  /\ UNCHANGED <<passthrough, api, tail, upstream, request>>

Write ==
  /\ api = "none"
  /\ messages # <<>> /\ Wrote < MaxBlocks
  /\ \E o \in Offered(Last(messages).role) :
       messages' = [messages EXCEPT ![Len(messages)].content =
         Append(@, [type |-> o.type, id |-> o.id, from |-> Wrote + 1])]
  /\ UNCHANGED <<passthrough, api, tail, upstream, request>>

-----------------------------------------------------------------------------
(* The adapters *)

SendChat ==
  /\ api = "none" /\ messages # <<>>
  /\ api' = "chat"
  /\ LET msgs == NormalizeMessagesForUpstream(messages, passthrough)
     IN  upstream' = msgs /\ request' = ConvertMessages(msgs)
  /\ UNCHANGED <<messages, passthrough, tail>>

SendResponses ==
  /\ api = "none" /\ messages # <<>>
  /\ api' = "responses"
  /\ LET msgs == NormalizeMessagesForUpstream(messages, passthrough)
     IN  upstream' = msgs /\ request' = Items(msgs, <<>>)
  /\ UNCHANGED <<messages, passthrough, tail>>

\* Mutant of PriorCallKinds: the entry's kinds are not handed on.
PriorCallKinds_Lost(j) == <<>>

\* lookup.Chain.CallKinds: what the reply continued called, the assistant
\* messages right before j, and as what.
PriorCallKinds(j) ==
  LET reply == {i \in 1 .. j - 1 : \A k \in i .. j - 1 : messages[k].role = "assistant"}
      ids   == UNION {ToSet(IdsOf(messages[i].content, ItemTypes)) : i \in reply}
  IN  [id \in ids |-> CallType(id)]

SendBeside(msgs, callKinds) ==
  /\ tail' = msgs
  /\ upstream' = NormalizePreviousResponseTail(msgs, passthrough)
  /\ request' = Items(upstream', callKinds)
  /\ UNCHANGED <<messages, passthrough>>

\* The messages from j on are the user's and follow a reply the upstream has.
SendTail ==
  /\ api = "none" /\ messages # <<>>
  /\ api' = "tail"
  /\ \E j \in 2 .. Len(messages) :
       /\ messages[j - 1].role = "assistant"
       /\ \A i \in j .. Len(messages) : messages[i].role = "user"
       /\ SendBeside(SubSeq(messages, j, Len(messages)), PriorCallKinds(j))

\* The upstream has the last message up to its p-th block, and has given a
\* reply to it the client has not seen.
SendAppended ==
  /\ api = "none" /\ messages # <<>>
  /\ api' = "appended"
  /\ Last(messages).role = "user"
  /\ LET blocks == Last(messages).content
     IN  \E p \in 1 .. Len(blocks) - 1 :
           SendBeside(<<User(SubSeq(blocks, p + 1, Len(blocks)))>>, <<>>)

Next == Open \/ Write \/ SendChat \/ SendResponses \/ SendTail \/ SendAppended

Spec == Init /\ [][Next]_vars

-----------------------------------------------------------------------------
(* Properties *)

Full == api \in {"chat", "responses"}

\* The positions in msgs of the blocks of a type with an id.
Places(msgs, type, id) ==
  UNION {{<<i, k>> : k \in {k \in DOMAIN msgs[i].content :
                              /\ msgs[i].content[k].type = type
                              /\ msgs[i].content[k].id = id}} : i \in DOMAIN msgs}

\* In a repaired transcript each call is made once and the very next message
\* is the user's and answers it, once; no result stands anywhere else
\* (types.go:473-484).
CallsAnswered ==
  Full => \A id \in Ids \cup {NoId} :
    LET uses    == Places(upstream, "tool_use", id)
        results == Places(upstream, "tool_result", id)
    IN  /\ Cardinality(uses) <= 1 /\ (id = NoId => uses = {})
        /\ Cardinality(results) = Cardinality(uses)
        /\ \A u \in uses, r \in results :
             r[1] = u[1] + 1 /\ upstream[r[1]].role = "user"

\* The proxy invents a result only for a call the client's next message, be
\* thinking only messages left aside, does not answer (types.go:613-630).  An
\* answer further on, behind another assistant message, does not count: it is
\* replaced.
InventsNoAnswer ==
  Full => \A id \in Ids : \A r \in Places(upstream, "tool_result", id) :
    LET asked == upstream[r[1] - 1].content
        call  == CHOOSE k \in DOMAIN asked : asked[k].type = "tool_use" /\ asked[k].id = id
        said  == WithoutOrphanedThinking(messages)
        at    == CHOOSE i \in DOMAIN said :
                   \E k \in DOMAIN said[i].content : said[i].content[k].from = asked[call].from
        given == IF at < Len(said) /\ said[at + 1].role = "user"
                   THEN {said[at + 1].content[k].from :
                           k \in {k \in DOMAIN said[at + 1].content :
                                    said[at + 1].content[k].type = "tool_result"
                                      /\ said[at + 1].content[k].id = id}}
                   ELSE {}
        from  == upstream[r[1]].content[r[2]].from
    IN  IF given = {} THEN from = 0 ELSE from \in given /\ \A n \in given : from <= n

\* The numbers of what reads as text in msgs.
TextsIn(msgs) == FlattenSeq([i \in DOMAIN msgs |->
                   Texts(BlocksForUpstream(msgs[i].content, passthrough))])

\* No repair and no translation loses, repeats or reorders what was said: text
\* before, between and after calls and results, and server tools' records that
\* were turned to text, as they all are unless they are passed through.
TextKept ==
  /\ ~passthrough =>
       \A i \in DOMAIN upstream : \A k \in DOMAIN upstream[i].content :
         upstream[i].content[k].type \notin ServerTypes
  /\ Full => FlattenSeq([n \in DOMAIN request |-> request[n].texts]) = TextsIn(messages)
  /\ api \in {"tail", "appended"} =>
       FlattenSeq([n \in DOMAIN request |-> request[n].texts]) = TextsIn(tail)

Outputs ==
  {n \in DOMAIN request :
     request[n].type \in {"function_call_output", "custom_tool_call_output"}}

OutputsOf(id) == {n \in Outputs : request[n].id = id}

ItemsOf(id) ==
  {n \in DOMAIN request : request[n].id = id
     /\ request[n].type \in {"function_call", "custom_tool_call"}}

\* The calls of the reply before the tail.
Replied ==
  LET last  == Len(messages) - Len(tail)
      reply == {i \in 1 .. last : \A k \in i .. last : messages[k].role = "assistant"}
  IN  UNION {ToSet(IdsOf(messages[i].content, {"tool_use"})) : i \in reply}

\* The type of a result's item is that of its call's, be the call in the
\* request or in the response it continues (responses.go:1169-1172).  Results
\* of earlier calls are the exception: in a tail they are a function's, also
\* what is appended to a message the upstream has already replied to.
KindsAgree ==
  api \in {"responses", "tail"} =>
    \A id \in IF api = "tail" THEN Replied ELSE Ids : \A n \in OutputsOf(id) :
      (request[n].type = "custom_tool_call_output") <=> (id \in Custom)

\* A full request answers each call once, after it: in a Chat request before the
\* next message with calls, for there is only text of the two messages they came
\* in between them (chat.go:499, 564).  A tail sends every result the client
\* gives, in its order, though the call is not in it (types.go:486-489).  Calls of server tools
\* that are passed through are not answered.
OutputsMatch ==
  /\ api = "chat" =>
       \A id \in Ids :
         LET calls == {n \in DOMAIN request :
                         request[n].role = "assistant" /\ id \in ToSet(request[n].calls)}
             tools == {n \in DOMAIN request :
                         request[n].role = "tool" /\ request[n].calls = <<id>>}
         IN  /\ Cardinality(tools) = Cardinality(calls) /\ Cardinality(calls) <= 1
             /\ \A c \in calls, t \in tools :
                  /\ c < t
                  /\ \A n \in c + 1 .. t - 1 :
                       request[n].role = "assistant" => request[n].calls = <<>>
  /\ api = "responses" =>
       \A id \in Ids :
         /\ Cardinality(OutputsOf(id)) = Cardinality(ItemsOf(id))
         /\ \A c \in ItemsOf(id), o \in OutputsOf(id) : c < o
  /\ api \in {"tail", "appended"} =>
       At([n \in DOMAIN request |-> request[n].id], Outputs) =
         FlattenSeq([i \in DOMAIN tail |-> IdsOf(tail[i].content, {"tool_result"})])
=============================================================================
