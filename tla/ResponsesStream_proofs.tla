----------------------- MODULE ResponsesStream_proofs -----------------------
(***************************************************************************)
(* Proofs about ResponsesStream for any calls, searches, retries and       *)
(* lengths of the message.  The builder's part rests on the lemmas of      *)
(* MessageBuilder_proofs: every event hands the builder over sound.        *)
(***************************************************************************)
EXTENDS ResponsesStream, MessageBuilder_proofs

Ids == Calls \cup Searches

Args == {"part", "empty", "good", "bad", "query"}

ItemStates ==
  [kind : {"function", "custom"}, named : BOOLEAN,
   args : {Absent, "part", "empty", "good", "bad"}, closed : BOOLEAN]

\* The adapter's locals and the upstream's progress.
LocalsOK ==
  /\ pc \in {"attempt", "streaming", "done"}
  /\ retries \in 0 .. MaxRetries
  /\ DOMAIN items \subseteq Calls
  /\ \A c \in DOMAIN items : items[c] \in ItemStates
  /\ held \in BOOLEAN /\ incomplete \in BOOLEAN /\ emitted \in BOOLEAN
  /\ plan \in Plans
  /\ sent \in [Calls -> [stage : {"none", "added", "argsDone", "done"},
                         given : {"none", "part", "whole"}]]

\* Where the request is and what its builder has done.  A new attempt is made
\* only while the client has nothing.
BuilderInv ==
  /\ Sound(b, Ids, Args)
  /\ (pc = "done") <=> b.finished
  /\ pc = "streaming" => b.started
  /\ pc = "attempt" => b.view.content = <<>>
  /\ b.view.content = <<>> => DOMAIN b.tools = {}
  /\ ~b.finished => b.reason = "none" /\ ~b.failed

Closed(c) == c \in DOMAIN items /\ items[c].closed

\* The tool blocks are the calls of closed items, each once, as meant.
CallInv ==
  /\ \A i \in ToolCalls(View) :
       LET c == View.content[i].id
       IN  /\ c \in Calls /\ Closed(c)
           /\ View.content[i].input = <<plan[c].args>>
           /\ Valid(plan[c].kind, plan[c].args)
  /\ \A i \in ToolCalls(View) : \A j \in ToolCalls(View) :
       View.content[i].id = View.content[j].id => i = j
  /\ \A c \in Calls : Closed(c) => CallsOf(c) # {}
  /\ \A c \in Calls : c \in DOMAIN b.tools => Closed(c)
  /\ emitted <=> ToolCalls(View) # {}

\* What an item holds is what the upstream has given of its call.
ItemInv ==
  /\ \A c \in DOMAIN items :
       /\ items[c].kind = plan[c].kind
       /\ (items[c].named /\ sent[c].given = "whole") \/ plan[c].args = "empty"
            => Normalized(items[c].args) = plan[c].args
  /\ \A c \in Calls :
       /\ sent[c].stage = "none" => c \notin DOMAIN items /\ sent[c].given = "none"
       /\ sent[c].stage \in {"added", "argsDone"} => c \in DOMAIN items
       /\ sent[c].stage = "done" /\ Valid(plan[c].kind, plan[c].args) => Closed(c)

\* The reason a message ends with.
ReasonInv == StopReasonAgrees

StreamInv == LocalsOK /\ BuilderInv /\ CallInv /\ ItemInv /\ ReasonInv

-----------------------------------------------------------------------------
(* Content *)

\* A step that leaves the tool blocks, the calls the builder knows and the
\* closed items as they are keeps CallInv.
LEMMA KeepsCalls ==
  ASSUME StreamInv,
         ToolCalls(View') = ToolCalls(View),
         \A i \in ToolCalls(View) : View'.content[i] = View.content[i],
         \A c \in Calls : c \in DOMAIN b'.tools => c \in DOMAIN b.tools,
         \A c \in Calls : Closed(c)' <=> Closed(c),
         plan' = plan, emitted' = emitted
  PROVE  CallInv'
<1>1. \A c : CallsOf(c)' = CallsOf(c)
  BY DEF CallsOf
<1>2. CallInv
  BY DEF StreamInv
<1> QED BY <1>1, <1>2 DEF CallInv

\* An unfinished request streams on a live builder.
LEMMA StreamingIsLive ==
  ASSUME StreamInv, pc = "streaming"
  PROVE  Live(b, Ids, Args) /\ b.reason = "none" /\ ~b.failed
BY DEF StreamInv, BuilderInv, Live

\* A step that writes text or thinking, or nothing.
LEMMA TextStep ==
  ASSUME StreamInv, pc = "streaming", pc' = pc,
         Live(b', Ids, Args), AddsText(b, b'), held' \in BOOLEAN,
         UNCHANGED <<retries, items, incomplete, emitted, plan, sent>>
  PROVE  StreamInv'
<1>1. /\ ToolCalls(View') = ToolCalls(View)
      /\ \A i \in ToolCalls(View) : View'.content[i] = View.content[i]
      /\ View'.content = <<>> => View.content = <<>>
  BY StreamingIsLive, ContentType, TextKeepsCalls DEF View, Live, AddsText
<1>2. \A c \in Calls : Closed(c)' <=> Closed(c)
  BY DEF Closed
<1>3. CallInv'
  BY <1>1, <1>2, KeepsCalls DEF AddsText
<1>4. LocalsOK'
  BY DEF StreamInv, LocalsOK
<1>5. BuilderInv'
  BY <1>1, StreamingIsLive DEF StreamInv, BuilderInv, Live, AddsText, View
<1>6. ItemInv'
  BY DEF StreamInv, ItemInv, Closed
<1>7. ~View'.ended
  BY DEF Live, Sound, Ends, View
<1>8. ReasonInv'
  BY <1>7 DEF ReasonInv, StopReasonAgrees
<1> QED BY <1>3, <1>4, <1>5, <1>6, <1>8 DEF StreamInv

\* A step that ends the request: the message is finished and no tool call is
\* added.
LEMMA DoneStep ==
  ASSUME StreamInv, pc' = "done",
         Sound(b', Ids, Args), b'.finished, b'.tools = b.tools,
         \/ b'.view.content = b.view.content
         \/ \E k \in {"text", "thinking"} :
              b'.view.content = Append(b.view.content, Block(k, "none", <<>>)),
         b'.failed \/ ((b'.view.reason = "tool_use") <=> (ToolCalls(b.view) # {})),
         held' \in BOOLEAN,
         UNCHANGED <<retries, items, incomplete, emitted, plan, sent>>
  PROVE  StreamInv'
<1>1. /\ ToolCalls(View') = ToolCalls(View)
      /\ \A i \in ToolCalls(View) : View'.content[i] = View.content[i]
      /\ View'.content = <<>> => View.content = <<>>
  BY ContentType, TextKeepsCalls DEF View, StreamInv, BuilderInv
<1>2. \A c \in Calls : Closed(c)' <=> Closed(c)
  BY DEF Closed
<1>3. CallInv'
  BY <1>1, <1>2, KeepsCalls
<1>4. LocalsOK'
  BY DEF StreamInv, LocalsOK
<1>5. BuilderInv'
  BY <1>1 DEF StreamInv, BuilderInv, View
<1>6. ItemInv'
  BY DEF StreamInv, ItemInv, Closed
<1>7. ReasonInv'
  BY <1>1 DEF ReasonInv, StopReasonAgrees, View
<1> QED BY <1>3, <1>4, <1>5, <1>6, <1>7 DEF StreamInv

-----------------------------------------------------------------------------
(* Initial states and steps *)

\* The strengthening holds at the start.
LEMMA InitInv == Init => StreamInv
<1> SUFFICES ASSUME Init PROVE StreamInv
  OBVIOUS
<1> USE DEF Init
<1>1. LocalsOK
  <2>1. MaxRetries \in 0 .. MaxRetries
    BY StreamAssumption
  <2>2. Unsent \in [Calls -> [stage : {"none", "added", "argsDone", "done"},
                              given : {"none", "part", "whole"}]]
    BY DEF Unsent
  <2> QED BY <2>1, <2>2 DEF LocalsOK, NoItems
<1>2. b.view.content = <<>> /\ b.view.ended = FALSE /\ b.finished = FALSE
      /\ b.reason = "none" /\ b.failed = FALSE /\ DOMAIN b.tools = {}
  BY DEF NewBuilder, Unread
<1>3. BuilderInv
  BY <1>2, NewSound DEF BuilderInv
<1>4. ToolCalls(View) = {}
  BY <1>2 DEF ToolCalls, View
<1>5. CallInv
  BY <1>2, <1>4 DEF CallInv, Closed, NoItems
<1>6. ItemInv
  BY DEF ItemInv, Unsent, NoItems
<1>7. ReasonInv
  BY <1>2 DEF ReasonInv, StopReasonAgrees, View
<1> QED BY <1>1, <1>3, <1>5, <1>6, <1>7 DEF StreamInv

\* An attempt starts with nothing delivered.
LEMMA AttemptIsEmpty ==
  ASSUME StreamInv, pc = "attempt"
  PROVE  /\ Sound(b, Ids, Args) /\ ~b.finished /\ b.reason = "none" /\ ~b.failed
         /\ b.view.content = <<>> /\ DOMAIN b.tools = {}
         /\ ToolCalls(b.view) = {}
<1>1. b.view.content = <<>>
  BY DEF StreamInv, BuilderInv
<1>2. ToolCalls(b.view) = {}
  BY <1>1 DEF ToolCalls
<1> QED BY <1>1, <1>2 DEF StreamInv, BuilderInv

\* A post that is accepted.
LEMMA PostAcceptedInv == StreamInv /\ PostAccepted => StreamInv'
<1> SUFFICES ASSUME StreamInv, PostAccepted PROVE StreamInv'
  OBVIOUS
<1> USE DEF PostAccepted
<1>1. /\ Live(b', Ids, Args) /\ SameContent(b, b')
  BY AttemptIsEmpty, StartSound
<1>2. /\ b'.view.content = <<>> /\ DOMAIN b'.tools = {}
      /\ b'.reason = "none" /\ ~b'.failed
  BY <1>1, AttemptIsEmpty DEF SameContent
<1>3. ToolCalls(View') = {}
  BY <1>2 DEF ToolCalls, View
<1>4. LocalsOK'
  BY DEF StreamInv, LocalsOK, Unsent, NoItems
<1>5. BuilderInv'
  BY <1>1, <1>2 DEF BuilderInv, Live
<1>6. CallInv'
  BY <1>2, <1>3 DEF CallInv, Closed, NoItems
<1>7. ItemInv'
  BY DEF ItemInv, Unsent, NoItems
<1>8. ~View'.ended
  BY <1>1 DEF Live, Sound, Ends, View
<1>9. ReasonInv'
  BY <1>8 DEF ReasonInv, StopReasonAgrees
<1> QED BY <1>4, <1>5, <1>6, <1>7, <1>9 DEF StreamInv

\* A post that fails.
LEMMA PostFailsInv == StreamInv /\ PostFails => StreamInv'
<1> SUFFICES ASSUME StreamInv, PostFails PROVE StreamInv'
  OBVIOUS
<1> USE DEF PostFails
<1> DEFINE t == Start(b)
<1>1. Live(t, Ids, Args) /\ SameContent(b, t)
  BY AttemptIsEmpty, StartSound
<1> HIDE DEF t
<1>2. b' = FinishWithError(t)
  BY DEF t
<1>3. /\ Sound(b', Ids, Args) /\ b'.finished /\ b'.failed /\ b'.tools = b.tools
      /\ \/ b'.view.content = b.view.content
         \/ \E k \in {"text", "thinking"} :
              b'.view.content = Append(b.view.content, Block(k, "none", <<>>))
  <2>1. /\ Sound(b', Ids, Args) /\ b'.finished /\ b'.failed /\ b'.tools = t.tools
        /\ \/ b'.view.content = t.view.content
           \/ \E k \in {"text", "thinking"} :
                b'.view.content = Append(t.view.content, Block(k, "none", <<>>))
    BY <1>1, <1>2, FinishWithErrorSound
  <2> QED BY <1>1, <2>1 DEF SameContent
<1> QED BY <1>3, DoneStep DEF StreamInv, LocalsOK

\* A request Stream rejects.
LEMMA StreamReturnsErrorInv == StreamInv /\ StreamReturnsError => StreamInv'
<1> SUFFICES ASSUME StreamInv, StreamReturnsError PROVE StreamInv'
  OBVIOUS
<1> USE DEF StreamReturnsError
<1>1. /\ Sound(b', Ids, Args) /\ b'.finished /\ b'.tools = b.tools
      /\ b'.view.content = b.view.content /\ b'.view.reason = "end_turn"
  BY AttemptIsEmpty, FinishSound
<1>2. (b'.view.reason = "tool_use") <=> (ToolCalls(b.view) # {})
  BY <1>1, AttemptIsEmpty
<1> QED BY <1>1, <1>2, DoneStep DEF StreamInv, LocalsOK

\* A stream that is retried.
LEMMA StreamRetryInv == StreamInv /\ StreamRetry => StreamInv'
<1> SUFFICES ASSUME StreamInv, StreamRetry PROVE StreamInv'
  OBVIOUS
<1> USE DEF StreamRetry
<1>1. LocalsOK'
  BY StreamAssumption DEF StreamInv, LocalsOK
<1>2. b.view.content = <<>>
  BY StreamingIsLive DEF Live, Sound, Agrees
<1>4. BuilderInv'
  BY <1>2, StreamingIsLive DEF StreamInv, BuilderInv, Live
<1>5. CallInv'
  BY KeepsCalls DEF Closed, View
<1>6. ItemInv'
  BY DEF StreamInv, ItemInv, Closed
<1>7. ReasonInv'
  BY DEF StreamInv, ReasonInv, StopReasonAgrees, View
<1> QED BY <1>1, <1>4, <1>5, <1>6, <1>7 DEF StreamInv

\* A stream that fails.
LEMMA StreamFailsInv == StreamInv /\ StreamFails => StreamInv'
<1> SUFFICES ASSUME StreamInv, StreamFails PROVE StreamInv'
  OBVIOUS
<1> USE DEF StreamFails
<1>1. /\ Sound(b', Ids, Args) /\ b'.finished /\ b'.failed /\ b'.tools = b.tools
      /\ \/ b'.view.content = b.view.content
         \/ \E k \in {"text", "thinking"} :
              b'.view.content = Append(b.view.content, Block(k, "none", <<>>))
  BY StreamingIsLive, FinishWithErrorSound
<1> QED BY <1>1, DoneStep DEF StreamInv, LocalsOK

\* A chunk written or not.
LEMMA EmitSound ==
  ASSUME NEW m, Live(m, Ids, Args), NEW chunk \in {"text", "thinking", "nothing"}
  PROVE  Live(Emit(m, chunk), Ids, Args) /\ AddsText(m, Emit(m, chunk))
<1>1. CASE chunk = "text"
  BY <1>1, EmitTextSound DEF Emit
<1>2. CASE chunk = "thinking"
  BY <1>2, EmitThinkingSound DEF Emit
<1>3. CASE chunk = "nothing"
  BY <1>3 DEF Emit, AddsText
<1> QED BY <1>1, <1>2, <1>3

\* A stream that ends.
LEMMA StreamEndsInv == StreamInv /\ StreamEnds => StreamInv'
<1> SUFFICES ASSUME StreamInv, StreamEnds PROVE StreamInv'
  OBVIOUS
<1>1. pc = "streaming" /\ pc' = "done" /\ held' = FALSE
  BY DEF StreamEnds
<1>2. PICK tail \in {"text", "thinking", "nothing"} :
        b' = Finish(SetStopReason(Emit(b, tail), StopReason))
  BY DEF StreamEnds
<1> DEFINE t == Emit(b, tail)
           s == SetStopReason(t, StopReason)
<1>3. Live(t, Ids, Args) /\ AddsText(b, t)
  BY <1>1, StreamingIsLive, EmitSound
<1> HIDE DEF t
<1>4. StopReason \in Reasons /\ StopReason # "none"
  BY DEF StopReason, Reasons
<1>5. /\ Live(s, Ids, Args) /\ s.reason = StopReason /\ s.view = t.view
      /\ s.tools = t.tools /\ s.failed = t.failed
  BY <1>3, <1>4, SetStopReasonSound
<1> HIDE DEF s
<1>6. b' = Finish(s)
  BY <1>2 DEF s, t
<1>7. /\ Sound(b', Ids, Args) /\ b'.finished /\ b'.tools = s.tools
      /\ b'.view.content = s.view.content /\ b'.view.reason = StopReason
  BY <1>4, <1>5, <1>6, FinishSound DEF Live
<1>8. (StopReason = "tool_use") <=> (ToolCalls(b.view) # {})
  BY DEF StopReason, StreamInv, CallInv, View
<1> QED BY <1>1, <1>3, <1>5, <1>7, <1>8, DoneStep DEF AddsText, StreamEnds

\* Text, reasoning, and response.incomplete.
LEMMA TextStepsInv ==
  StreamInv /\ (TextDelta \/ TextDone \/ ReasoningPart \/ ReasoningDelta) => StreamInv'
<1> SUFFICES ASSUME StreamInv,
                    TextDelta \/ TextDone \/ ReasoningPart \/ ReasoningDelta
             PROVE  StreamInv'
  OBVIOUS
<1> USE DEF Streaming
<1>1. held \in BOOLEAN
  BY DEF StreamInv, LocalsOK
<1>2. CASE TextDelta
  <2>1. PICK chunk \in {"text", "thinking", "nothing"} : b' = Emit(b, chunk)
    BY <1>2 DEF TextDelta
  <2>2. Live(b', Ids, Args) /\ AddsText(b, b')
    BY <1>2, <2>1, StreamingIsLive, EmitSound DEF TextDelta
  <2> QED BY <1>2, <2>2, TextStep DEF TextDelta
<1>3. CASE TextDone
  <2>1. Live(b', Ids, Args) /\ AddsText(b, b')
    BY <1>3, StreamingIsLive DEF TextDone, AddsText
  <2> QED BY <1>3, <2>1, TextStep DEF TextDone
<1>4. CASE ReasoningPart
  <2>1. Live(b', Ids, Args) /\ AddsText(b, b')
    BY <1>4, StreamingIsLive, EnsureThinkingSound DEF ReasoningPart
  <2> QED BY <1>1, <1>4, <2>1, TextStep DEF ReasoningPart
<1>5. CASE ReasoningDelta
  <2>1. Live(b', Ids, Args) /\ AddsText(b, b')
    BY <1>5, StreamingIsLive, EmitThinkingSound DEF ReasoningDelta
  <2> QED BY <1>1, <1>5, <2>1, TextStep DEF ReasoningDelta
<1> QED BY <1>2, <1>3, <1>4, <1>5

\* The upstream's last event.
LEMMA IncompleteInv == StreamInv /\ Incomplete => StreamInv'
<1> SUFFICES ASSUME StreamInv, Incomplete PROVE StreamInv'
  OBVIOUS
<1> USE DEF Incomplete
<1>1. LocalsOK'
  BY DEF StreamInv, LocalsOK
<1>2. BuilderInv'
  BY DEF StreamInv, BuilderInv
<1>3. CallInv'
  BY KeepsCalls DEF Closed, View
<1>4. ItemInv'
  BY DEF StreamInv, ItemInv, Closed
<1>5. ReasonInv'
  BY DEF StreamInv, ReasonInv, StopReasonAgrees, View
<1> QED BY <1>1, <1>2, <1>3, <1>4, <1>5 DEF StreamInv

\* A web search adds two blocks, no tool call.
LEMMA SearchDoneInv ==
  ASSUME StreamInv, NEW s \in Searches, SearchDone(s)
  PROVE  StreamInv'
<1> USE DEF SearchDone, Streaming
<1> DEFINE t == WholeTool(b, "server_tool_use", s, "query")
           one == Block("server_tool_use", s, <<"query">>)
           two == Block("result", s, <<>>)
<1>1. Live(b, Ids, Args) /\ b.reason = "none" /\ ~b.failed
  BY StreamingIsLive
<1>2. /\ Live(t, Ids, Args) /\ t.view.content = Append(b.view.content, one)
      /\ DOMAIN t.tools = DOMAIN b.tools \cup {s}
      /\ t.failed = b.failed /\ t.reason = b.reason
  <2>1. s \in Ids /\ "query" \in Args
    BY DEF Ids, Args
  <2> QED BY <1>1, <2>1, WholeToolSound
<1> HIDE DEF t
<1>3. /\ Live(b', Ids, Args) /\ b'.view.content = Append(t.view.content, two)
      /\ b'.tools = t.tools /\ b'.failed = t.failed /\ b'.reason = t.reason
  <2>1. b' = EmitServerToolResult(t, s)
    BY DEF t
  <2>2. s \in Ids
    BY DEF Ids
  <2> DEFINE u == EmitServerToolResult(t, s)
  <2>3. /\ Live(u, Ids, Args) /\ u.view.content = Append(t.view.content, Block("result", s, <<>>))
        /\ u.tools = t.tools /\ u.failed = t.failed /\ u.reason = t.reason
    <3>1. Live(t, Ids, Args)
      BY <1>2
    <3> QED BY <3>1, <2>2, ServerToolResultSound
  <2> HIDE DEF u
  <2> QED BY <2>1, <2>3 DEF u
<1>4. /\ one \in BlockSet(Ids, Args) /\ one.kind # "tool_use"
      /\ two \in BlockSet(Ids, Args) /\ two.kind # "tool_use"
  BY DEF Block, BlockSet, Kinds, Ids, Args
<1> HIDE DEF one, two
<1>5. /\ b.view.content \in Seq(BlockSet(Ids, Args))
      /\ t.view.content \in Seq(BlockSet(Ids, Args))
  BY <1>1, <1>2, ContentType DEF Live
<1>6. /\ ToolCalls(t.view) = ToolCalls(b.view)
      /\ \A i \in ToolCalls(b.view) : t.view.content[i] = b.view.content[i]
  <2>1. HasBlocks(b.view, Ids, Args) /\ Adds(b.view, t.view, one)
    BY <1>2, <1>5 DEF HasBlocks, Adds
  <2> QED BY <1>4, <2>1, OtherBlock
<1>7. /\ ToolCalls(b'.view) = ToolCalls(t.view)
      /\ \A i \in ToolCalls(t.view) : b'.view.content[i] = t.view.content[i]
      /\ b'.view.content # <<>>
  <2>1. HasBlocks(t.view, Ids, Args) /\ Adds(t.view, b'.view, two)
    BY <1>3, <1>5 DEF HasBlocks, Adds
  <2> QED BY <1>4, <2>1, OtherBlock
<1>8. b'.view.content # <<>>
  BY <1>7
<1>9. \A c \in Calls : c \in DOMAIN b'.tools => c \in DOMAIN b.tools
  BY <1>2, <1>3, StreamAssumption
<1>10. CallInv'
  BY <1>6, <1>7, <1>9, KeepsCalls DEF Closed, View
<1>11. LocalsOK'
  BY DEF StreamInv, LocalsOK
<1>12. BuilderInv'
  BY <1>1, <1>2, <1>3, <1>8 DEF BuilderInv, Live
<1>13. ItemInv'
  BY DEF StreamInv, ItemInv, Closed
<1>14. ReasonInv'
  BY <1>3 DEF ReasonInv, StopReasonAgrees, Live, Sound, Ends, View
<1> QED BY <1>10, <1>11, <1>12, <1>13, <1>14 DEF StreamInv

-----------------------------------------------------------------------------
(* Calls *)

\* emitToolCall keeps the tool blocks right if what it would write is what the
\* upstream means.
LEMMA EmitStep ==
  ASSUME StreamInv, pc = "streaming", pc' = pc, plan' = plan,
         NEW c \in Calls, NEW st \in ItemStates,
         st.kind = plan[c].kind, st.closed <=> Closed(c),
         st.named /\ Valid(st.kind, Normalized(st.args))
           => Normalized(st.args) = plan[c].args,
         EmitToolCall(c, st)
  PROVE  /\ CallInv' /\ BuilderInv' /\ ReasonInv' /\ emitted' \in BOOLEAN
         /\ DOMAIN items' = DOMAIN items \cup {c}
         /\ \A d \in DOMAIN items : d # c => items'[d] = items[d]
         /\ items'[c] \in ItemStates /\ items'[c].kind = st.kind
         /\ items'[c].named = st.named /\ items'[c].args = st.args
         /\ Closed(c)' <=> Closed(c) \/ (st.named /\ Valid(st.kind, Normalized(st.args)))
         /\ \A d \in Calls : d # c => (Closed(d)' <=> Closed(d))
<1> DEFINE args == Normalized(st.args)
           emit == ~st.closed /\ st.named /\ Valid(st.kind, args)
           new == [st EXCEPT !.closed = st.closed \/ emit]
<1>1. /\ items' = [i \in DOMAIN items \cup {c} |-> IF i = c THEN new ELSE items[i]]
      /\ b' = IF emit THEN WholeTool(b, "tool_use", c, args) ELSE b
      /\ emitted' = (emitted \/ emit)
  BY DEF EmitToolCall
<1>2. emitted \in BOOLEAN /\ emit \in BOOLEAN
  BY DEF StreamInv, LocalsOK, Valid, ItemStates
<1>3. /\ new \in ItemStates /\ new.kind = st.kind /\ new.named = st.named
      /\ new.args = st.args /\ new.closed = (st.closed \/ emit)
  BY <1>2 DEF ItemStates
<1> HIDE DEF new
<1>4. /\ DOMAIN items' = DOMAIN items \cup {c} /\ items'[c] = new
      /\ \A d \in DOMAIN items : d # c => items'[d] = items[d]
  BY <1>1
<1>5. Closed(c)' <=> Closed(c) \/ emit
  BY <1>3, <1>4 DEF Closed
<1>6. \A d \in Calls : d # c => (Closed(d)' <=> Closed(d))
  BY <1>4 DEF Closed
<1>7. Live(b, Ids, Args) /\ b.reason = "none" /\ ~b.failed
  BY StreamingIsLive
<1>8. emitted' \in BOOLEAN
  BY <1>1, <1>2
<1>9. Closed(c)' <=> Closed(c) \/ (st.named /\ Valid(st.kind, Normalized(st.args)))
  BY <1>5
<1>10. CASE ~emit
  <2>1. b' = b /\ emitted' = emitted
    BY <1>1, <1>2, <1>10
  <2>2. \A d \in Calls : Closed(d)' <=> Closed(d)
    BY <1>5, <1>6, <1>10
  <2>3. CallInv'
    BY <2>1, <2>2, KeepsCalls DEF View
  <2>4. BuilderInv' /\ ReasonInv'
    BY <2>1 DEF StreamInv, BuilderInv, ReasonInv, StopReasonAgrees, View
  <2> QED BY <2>3, <2>4, <1>3, <1>4, <1>6, <1>8, <1>9
<1>11. CASE emit
  <2> DEFINE n == Len(b.view.content) + 1
             blk == Block("tool_use", c, <<args>>)
             u == WholeTool(b, "tool_use", c, args)
  <2>1. CallInv
    BY DEF StreamInv
  <2>2. ~Closed(c) /\ c \notin DOMAIN b.tools
    BY <1>11, <2>1 DEF CallInv
  <2>3. args = plan[c].args
    BY <1>11
  <2>4. c \in Ids /\ args \in Args
    <3>1. plan[c].args \in {"empty", "good", "bad"}
      BY DEF StreamInv, LocalsOK, Plans
    <3> QED BY <2>3, <3>1 DEF Ids, Args
  <2>5. /\ Live(u, Ids, Args) /\ u.view.content = Append(b.view.content, blk)
        /\ DOMAIN u.tools = DOMAIN b.tools \cup {c}
        /\ u.failed = b.failed /\ u.reason = b.reason
    <3> HIDE DEF args
    <3> QED BY <1>7, <2>2, <2>4, WholeToolSound
  <2>6. b' = u
    BY <1>1, <1>11
  <2> HIDE DEF u
  <2>7. blk \in BlockSet(Ids, Args) /\ blk.kind = "tool_use" /\ blk.id = c /\ blk.input = <<args>>
    <3> HIDE DEF args
    <3> QED BY <2>4 DEF Block, BlockSet, Kinds
  <2>8. b.view.content \in Seq(BlockSet(Ids, Args))
    BY <1>7, ContentType DEF Live
  <2> HIDE DEF blk
  <2>9. /\ ToolCalls(View') = ToolCalls(View) \cup {n} /\ n \notin ToolCalls(View)
        /\ View'.content[n] = blk
        /\ \A i \in ToolCalls(View) : View'.content[i] = View.content[i]
    <3> DEFINE v == b.view
               w == u.view
    <3>1. /\ v.content \in Seq(BlockSet(Ids, Args)) /\ n = Len(v.content) + 1
          /\ w.content = Append(v.content, blk)
      BY <2>5, <2>8
    <3>2. HasBlocks(v, Ids, Args) /\ Adds(v, w, blk)
      BY <3>1 DEF HasBlocks, Adds
    <3> HIDE DEF v, w, n
    <3>3. /\ ToolCalls(w) = ToolCalls(v) \cup {Len(v.content) + 1}
          /\ Len(v.content) + 1 \notin ToolCalls(v)
          /\ w.content[Len(v.content) + 1] = blk
          /\ \A i \in ToolCalls(v) : w.content[i] = v.content[i]
      BY <2>7, <3>2, CallBlock
    <3> QED BY <2>6, <3>1, <3>3 DEF View, v, w
  <2> HIDE DEF n
  <2>10. \A i \in ToolCalls(View) : View.content[i].id # c
    BY <2>1, <2>2 DEF CallInv
  <2>11. Valid(plan[c].kind, plan[c].args) /\ Closed(c)'
    BY <1>5, <1>11, <2>3
  <2>12. CallInv'
    <3>1. ASSUME NEW i \in ToolCalls(View')
          PROVE  /\ View'.content[i].id \in Calls /\ Closed(View.content[i].id)'
                 /\ View'.content[i].input = <<plan[View'.content[i].id].args>>
                 /\ Valid(plan[View'.content[i].id].kind, plan[View'.content[i].id].args)
      <4>1. CASE i = n
        BY <4>1, <2>3, <2>7, <2>9, <2>11 DEF Closed, View
      <4>2. CASE i \in ToolCalls(View)
        BY <4>2, <1>6, <2>1, <2>9, <2>10 DEF CallInv, Closed, View
      <4> QED BY <4>1, <4>2, <2>9
    <3>2. ASSUME NEW i \in ToolCalls(View'), NEW j \in ToolCalls(View'),
                 View'.content[i].id = View'.content[j].id
          PROVE  i = j
      BY <3>2, <2>1, <2>7, <2>9, <2>10 DEF CallInv
    <3>3. ASSUME NEW d \in Calls, Closed(d)' PROVE CallsOf(d)' # {}
      <4>1. CASE d = c
        <5>1. n \in CallsOf(d)'
          BY <4>1, <2>7, <2>9 DEF CallsOf
        <5> QED BY <5>1
      <4>2. CASE d # c
        <5>1. PICK i \in ToolCalls(View) : View.content[i].id = d
          BY <3>3, <4>2, <1>6, <2>1 DEF CallInv, CallsOf
        <5>2. i \in CallsOf(d)'
          BY <5>1, <2>9 DEF CallsOf
        <5> QED BY <5>2
      <4> QED BY <4>1, <4>2
    <3>4. \A d \in Calls : d \in DOMAIN b'.tools => Closed(d)'
      BY <2>1, <2>5, <2>6, <2>11, <1>6 DEF CallInv
    <3>5. emitted' <=> ToolCalls(View') # {}
      BY <1>1, <1>11, <2>9
    <3> QED BY <3>1, <3>2, <3>3, <3>4, <3>5 DEF CallInv
  <2>13. b'.view.content # <<>>
    <3>1. Len(b'.view.content) # 0
      BY <2>5, <2>6, <2>7, <2>8
    <3> QED BY <3>1
  <2>14. BuilderInv'
    BY <1>7, <2>5, <2>6, <2>13 DEF BuilderInv, Live
  <2>15. ReasonInv'
    BY <2>5, <2>6 DEF ReasonInv, StopReasonAgrees, Live, Sound, Ends, View
  <2> QED BY <2>12, <2>14, <2>15, <1>3, <1>4, <1>6, <1>8, <1>9
<1> QED BY <1>10, <1>11

\* What an event does to the call it names decides ItemInv.
LEMMA ItemStep ==
  ASSUME StreamInv, LocalsOK', plan' = plan, NEW c \in Calls,
         DOMAIN items' = DOMAIN items \cup {c},
         \A d \in DOMAIN items : d # c => items'[d] = items[d],
         \A d \in Calls : d # c => sent'[d] = sent[d] /\ (Closed(d)' <=> Closed(d)),
         items'[c].kind = plan[c].kind,
         (items'[c].named /\ sent'[c].given = "whole") \/ plan[c].args = "empty"
           => Normalized(items'[c].args) = plan[c].args,
         sent'[c].stage # "none",
         sent'[c].stage = "done" /\ Valid(plan[c].kind, plan[c].args) => Closed(c)'
  PROVE  ItemInv'
<1>1. ItemInv /\ DOMAIN items' \subseteq Calls
  BY DEF StreamInv, LocalsOK
<1>2. ASSUME NEW d \in DOMAIN items'
      PROVE  /\ items'[d].kind = plan[d].kind
             /\ (items'[d].named /\ sent'[d].given = "whole") \/ plan[d].args = "empty"
                  => Normalized(items'[d].args) = plan[d].args
  <2>1. CASE d = c
    BY <2>1
  <2>2. CASE d # c
    BY <2>2, <1>1 DEF ItemInv
  <2> QED BY <2>1, <2>2
<1>3. ASSUME NEW d \in Calls
      PROVE  /\ sent'[d].stage = "none" => d \notin DOMAIN items' /\ sent'[d].given = "none"
             /\ sent'[d].stage \in {"added", "argsDone"} => d \in DOMAIN items'
             /\ sent'[d].stage = "done" /\ Valid(plan[d].kind, plan[d].args) => Closed(d)'
  <2>1. CASE d = c
    BY <2>1
  <2>2. CASE d # c
    BY <2>2, <1>1 DEF ItemInv
  <2> QED BY <2>1, <2>2
<1> QED BY <1>2, <1>3 DEF ItemInv

\* The types of what a call's event reads.
LEMMA CallTypes ==
  ASSUME StreamInv, NEW c \in Calls
  PROVE  /\ plan[c].kind \in {"function", "custom"}
         /\ plan[c].args \in {"empty", "good", "bad"}
         /\ sent[c] \in [stage : {"none", "added", "argsDone", "done"},
                         given : {"none", "part", "whole"}]
         /\ c \in DOMAIN items => items[c] \in ItemStates
BY DEF StreamInv, LocalsOK, Plans

\* An event that leaves the builder and the closed items as they are.
LEMMA QuietStep ==
  ASSUME StreamInv, pc' = pc, LocalsOK', ItemInv', UNCHANGED <<b, emitted, plan>>,
         \A c \in Calls : Closed(c)' <=> Closed(c)
  PROVE  StreamInv'
<1>1. BuilderInv'
  BY DEF StreamInv, BuilderInv
<1>2. CallInv'
  BY KeepsCalls DEF View
<1>3. ReasonInv'
  BY DEF StreamInv, ReasonInv, StopReasonAgrees, View
<1> QED BY <1>1, <1>2, <1>3 DEF StreamInv

\* A call that is announced.
LEMMA ItemAddedInv ==
  ASSUME StreamInv, NEW c \in Calls, ItemAdded(c)
  PROVE  StreamInv'
<1>1. /\ sent[c].stage = "none" /\ sent' = [sent EXCEPT ![c].stage = "added"]
      /\ pc' = pc
      /\ UNCHANGED <<pc, retries, b, held, incomplete, emitted, plan>>
  BY DEF ItemAdded
<1>2. PICK named \in BOOLEAN :
        items' = [i \in DOMAIN items \cup {c} |->
                    IF i = c THEN NewItem(c, named) ELSE items[i]]
  BY DEF ItemAdded
<1> DEFINE new == NewItem(c, named)
<1>3. new \in ItemStates /\ new.kind = plan[c].kind /\ new.args = Absent /\ ~new.closed
  BY CallTypes DEF NewItem, ItemStates
<1>4. items' = [i \in DOMAIN items \cup {c} |-> IF i = c THEN new ELSE items[i]]
  BY <1>2
<1> HIDE DEF new
<1>5. /\ DOMAIN items' = DOMAIN items \cup {c} /\ items'[c] = new
      /\ \A d \in DOMAIN items : d # c => items'[d] = items[d]
  BY <1>4
<1>6. c \notin DOMAIN items /\ sent[c].given = "none"
  BY <1>1 DEF StreamInv, ItemInv
<1>7. /\ sent'[c] = [stage |-> "added", given |-> "none"]
      /\ \A d \in Calls : d # c => sent'[d] = sent[d]
      /\ sent' \in [Calls -> [stage : {"none", "added", "argsDone", "done"},
                              given : {"none", "part", "whole"}]]
  BY <1>1, <1>6 DEF StreamInv, LocalsOK
<1>8. \A d \in Calls : Closed(d)' <=> Closed(d)
  BY <1>3, <1>5, <1>6 DEF Closed
<1>9. LocalsOK'
  BY <1>1, <1>3, <1>5, <1>7 DEF StreamInv, LocalsOK
<1>10. plan[c].args = "empty" => Normalized(items'[c].args) = plan[c].args
  BY <1>3, <1>5 DEF Normalized
<1>11. ItemInv'
  BY <1>1, <1>3, <1>5, <1>7, <1>8, <1>9, <1>10, ItemStep
<1> QED BY <1>1, <1>8, <1>9, <1>11, QuietStep

\* A delta of a call's arguments.
LEMMA ArgsDeltaInv ==
  ASSUME StreamInv, NEW c \in Calls, ArgsDelta(c)
  PROVE  StreamInv'
<1>1. /\ sent[c].stage = "added" /\ plan[c].args # "empty"
      /\ UNCHANGED <<pc, retries, b, held, incomplete, emitted, plan>>
  BY DEF ArgsDelta
<1>2. PICK given \in {"part", "whole"} :
        /\ sent' = [sent EXCEPT ![c].given = given]
        /\ items' = IF items[c].named
                      THEN [items EXCEPT ![c].args =
                              IF given = "whole" THEN plan[c].args ELSE "part"]
                      ELSE items
  BY DEF ArgsDelta
<1>3. c \in DOMAIN items /\ items[c] \in ItemStates /\ items[c].kind = plan[c].kind
  BY <1>1, CallTypes DEF StreamInv, ItemInv
<1>4. /\ sent'[c] = [stage |-> "added", given |-> given]
      /\ \A d \in Calls : d # c => sent'[d] = sent[d]
      /\ sent' \in [Calls -> [stage : {"none", "added", "argsDone", "done"},
                              given : {"none", "part", "whole"}]]
  BY <1>1, <1>2 DEF StreamInv, LocalsOK
<1>5. DOMAIN items' = DOMAIN items \cup {c}
  BY <1>2, <1>3
<1>6. \A d \in DOMAIN items : d # c => items'[d] = items[d]
  BY <1>2, <1>3
<1>7. /\ items'[c] \in ItemStates /\ items'[c].kind = items[c].kind
      /\ items'[c].named = items[c].named /\ items'[c].closed = items[c].closed
      /\ items[c].named /\ given = "whole" => items'[c].args = plan[c].args
  <2>1. CASE items[c].named
    <3> DEFINE a == IF given = "whole" THEN plan[c].args ELSE "part"
    <3>1. a \in {"part", "empty", "good", "bad"} /\ (given = "whole" => a = plan[c].args)
      BY CallTypes
    <3> HIDE DEF a
    <3>2. items'[c] = [items[c] EXCEPT !.args = a]
      BY <1>2, <1>3, <2>1 DEF a
    <3> QED BY <1>3, <3>1, <3>2 DEF ItemStates
  <2>2. CASE ~items[c].named
    BY <2>2, <1>2, <1>3
  <2> QED BY <2>1, <2>2
<1>8. \A d \in Calls : Closed(d)' <=> Closed(d)
  BY <1>3, <1>5, <1>6, <1>7 DEF Closed
<1>9. LocalsOK'
  BY <1>1, <1>4, <1>5, <1>6, <1>7 DEF StreamInv, LocalsOK
<1>10. items'[c].named /\ sent'[c].given = "whole"
         => Normalized(items'[c].args) = plan[c].args
  BY <1>4, <1>7, CallTypes DEF Normalized, Absent
<1>11. ItemInv'
  BY <1>1, <1>3, <1>4, <1>5, <1>6, <1>7, <1>8, <1>9, <1>10, ItemStep
<1> QED BY <1>1, <1>8, <1>9, <1>11, QuietStep

\* An event that may emit the call, once EmitStep has said what it did.
LEMMA LoudStep ==
  ASSUME StreamInv, NEW c \in Calls, NEW st \in ItemStates,
         NEW progress \in [stage : {"argsDone", "done"}, given : {"none", "part", "whole"}],
         pc = "streaming", EmitToolCall(c, st),
         st.kind = plan[c].kind, st.closed <=> Closed(c),
         st.named /\ Valid(st.kind, Normalized(st.args))
           => Normalized(st.args) = plan[c].args,
         (st.named /\ progress.given = "whole") \/ plan[c].args = "empty"
           => Normalized(st.args) = plan[c].args,
         progress.stage = "done" => st.named /\ Normalized(st.args) = plan[c].args,
         sent'[c] = progress, \A d \in Calls : d # c => sent'[d] = sent[d],
         DOMAIN sent' = Calls, sent' = [d \in Calls |-> sent'[d]],
         UNCHANGED <<pc, retries, held, incomplete, plan>>
  PROVE  StreamInv'
<1>1. pc' = pc /\ plan' = plan
  OBVIOUS
<1>2. /\ CallInv' /\ BuilderInv' /\ ReasonInv' /\ emitted' \in BOOLEAN
      /\ DOMAIN items' = DOMAIN items \cup {c}
      /\ \A d \in DOMAIN items : d # c => items'[d] = items[d]
      /\ items'[c] \in ItemStates /\ items'[c].kind = st.kind
      /\ items'[c].named = st.named /\ items'[c].args = st.args
      /\ Closed(c)' <=> Closed(c) \/ (st.named /\ Valid(st.kind, Normalized(st.args)))
      /\ \A d \in Calls : d # c => (Closed(d)' <=> Closed(d))
  BY <1>1, EmitStep
<1>3. /\ sent'[c] = progress
      /\ \A d \in Calls : d # c => sent'[d] = sent[d]
      /\ sent' \in [Calls -> [stage : {"none", "added", "argsDone", "done"},
                              given : {"none", "part", "whole"}]]
  BY DEF StreamInv, LocalsOK
<1>4. LocalsOK'
  BY <1>2, <1>3 DEF StreamInv, LocalsOK
<1>5. progress.stage = "done" /\ Valid(plan[c].kind, plan[c].args) => Closed(c)'
  BY <1>2
<1>6. ItemInv'
  BY <1>2, <1>3, <1>4, <1>5, ItemStep
<1> QED BY <1>2, <1>4, <1>6 DEF StreamInv

\* What the arguments of a done event are.
LEMMA DoneArgsFacts ==
  ASSUME StreamInv, NEW c \in Calls, NEW args \in DoneArgs(c)
  PROVE  /\ args = plan[c].args \/ args = Absent
         /\ args = Absent => \/ plan[c].args = "empty"
                             \/ /\ sent[c].given = "whole"
                                /\ c \in DOMAIN items /\ items[c].named
<1>1. plan[c].args # Absent
  BY CallTypes DEF Absent
<1>2. \/ args = plan[c].args
      \/ args = Absent /\ sent[c].given = "whole" /\ c \in DOMAIN items /\ items[c].named
      \/ args = Absent /\ plan[c].args = "empty"
  BY DEF DoneArgs, If
<1> QED BY <1>1, <1>2

\* A call whose arguments are done.
LEMMA ArgsDoneInv ==
  ASSUME StreamInv, NEW c \in Calls, ArgsDone(c)
  PROVE  StreamInv'
<1>1. /\ pc = "streaming" /\ sent[c].stage = "added" /\ plan[c].kind = "function"
      /\ UNCHANGED <<pc, retries, held, incomplete, plan>>
  BY DEF ArgsDone, Streaming
<1>2. PICK args \in DoneArgs(c) \cup Garbled(c) :
        /\ sent' = [sent EXCEPT ![c].stage = "argsDone",
                                ![c].given = IF args \in DoneArgs(c) THEN "whole" ELSE "part"]
        /\ IF items[c].named
             THEN EmitToolCall(c, [items[c] EXCEPT
                    !.args = IF args # Absent THEN args
                             ELSE IF items[c].args = Absent THEN "empty"
                             ELSE items[c].args])
             ELSE UNCHANGED <<b, items, emitted>>
  BY DEF ArgsDone
<1> DEFINE g == IF args \in DoneArgs(c) THEN "whole" ELSE "part"
           progress == [stage |-> "argsDone", given |-> g]
           a == IF args # Absent THEN args ELSE Normalized(items[c].args)
           st == [items[c] EXCEPT !.args = a]
<1>3. c \in DOMAIN items /\ items[c] \in ItemStates /\ items[c].kind = plan[c].kind
  BY <1>1, CallTypes DEF StreamInv, ItemInv
<1>4. /\ sent'[c] = progress /\ DOMAIN sent' = Calls
      /\ \A d \in Calls : d # c => sent'[d] = sent[d]
      /\ sent' = [d \in Calls |-> sent'[d]]
  BY <1>2, CallTypes DEF StreamInv, LocalsOK
<1>5. progress.stage = "argsDone" /\ progress.given = g
      /\ progress \in [stage : {"argsDone", "done"}, given : {"none", "part", "whole"}]
  OBVIOUS
<1>6. /\ args \in {Absent, "empty", "good", "bad"}
      /\ args \notin DoneArgs(c) => args = "bad" /\ plan[c].args # "empty"
  BY CallTypes DEF DoneArgs, Garbled, If
<1>7. a \in {"part", "empty", "good", "bad"} /\ Normalized(a) = a
  BY <1>3, <1>6 DEF Normalized, ItemStates, Absent
<1>8. args \in DoneArgs(c) /\ items[c].named => a = plan[c].args
  BY <1>3, DoneArgsFacts DEF StreamInv, ItemInv
<1>9. args \notin DoneArgs(c) => ~Valid(plan[c].kind, a)
  BY <1>1, <1>6 DEF Valid, Absent
<1>10. plan[c].args = "empty" => args \in DoneArgs(c)
  BY <1>6
<1>11. CASE items[c].named
  <2>1. EmitToolCall(c, st)
    BY <1>2, <1>11 DEF Normalized
  <2> HIDE DEF a
  <2>2. /\ st \in ItemStates /\ st.kind = plan[c].kind /\ st.named
        /\ st.closed = items[c].closed /\ st.args = a
    BY <1>3, <1>7, <1>11 DEF ItemStates
  <2>3. st.closed <=> Closed(c)
    BY <1>3, <2>2 DEF Closed
  <2> HIDE DEF st
  <2>4. /\ Valid(st.kind, Normalized(st.args)) => Normalized(st.args) = plan[c].args
        /\ progress.given = "whole" \/ plan[c].args = "empty"
             => Normalized(st.args) = plan[c].args
    BY <1>5, <1>7, <1>8, <1>9, <1>10, <1>11, <2>2
  <2> HIDE DEF progress, g
  <2> QED BY <1>1, <1>4, <1>5, <2>1, <2>2, <2>3, <2>4, LoudStep
<1>12. CASE ~items[c].named
  <2>1. UNCHANGED <<b, items, emitted>>
    BY <1>2, <1>12
  <2>2. \A d \in Calls : Closed(d)' <=> Closed(d)
    BY <2>1 DEF Closed
  <2> HIDE DEF progress, g
  <2>3. /\ sent'[c] = progress
        /\ \A d \in Calls : d # c => sent'[d] = sent[d]
        /\ sent' \in [Calls -> [stage : {"none", "added", "argsDone", "done"},
                                given : {"none", "part", "whole"}]]
    BY <1>4, <1>5 DEF StreamInv, LocalsOK
  <2>4. LocalsOK'
    BY <1>1, <2>1, <2>3 DEF StreamInv, LocalsOK
  <2>5. DOMAIN items' = DOMAIN items \cup {c}
    BY <1>3, <2>1
  <2>6. plan[c].args = "empty" => Normalized(items'[c].args) = plan[c].args
    BY <1>3, <2>1 DEF StreamInv, ItemInv
  <2>7. ItemInv'
    BY <1>1, <1>3, <1>5, <1>12, <2>1, <2>2, <2>3, <2>4, <2>5, <2>6, ItemStep
  <2> QED BY <1>1, <2>1, <2>2, <2>4, <2>7, QuietStep
<1> QED BY <1>11, <1>12

\* A call that is done.
LEMMA ItemDoneInv ==
  ASSUME StreamInv, NEW c \in Calls, ItemDone(c)
  PROVE  StreamInv'
<1>1. /\ pc = "streaming" /\ sent[c].stage # "done"
      /\ sent' = [sent EXCEPT ![c].stage = "done"]
      /\ UNCHANGED <<pc, retries, held, incomplete, plan>>
  BY DEF ItemDone, Streaming
<1> DEFINE old == IF c \in DOMAIN items THEN items[c] ELSE NewItem(c, TRUE)
<1>2. PICK args \in DoneArgs(c) :
        EmitToolCall(c, [old EXCEPT !.named = TRUE,
                                    !.args = IF args # Absent THEN args ELSE old.args])
  BY DEF ItemDone
<1> DEFINE progress == [stage |-> "done", given |-> sent[c].given]
           a == IF args # Absent THEN args ELSE old.args
           st == [old EXCEPT !.named = TRUE, !.args = a]
<1>3. /\ old \in ItemStates /\ old.kind = plan[c].kind
      /\ old.closed <=> Closed(c)
      /\ c \notin DOMAIN items => old.args = Absent
  BY CallTypes DEF NewItem, ItemStates, Closed, StreamInv, ItemInv
<1>4. /\ sent'[c] = progress /\ DOMAIN sent' = Calls
      /\ \A d \in Calls : d # c => sent'[d] = sent[d]
      /\ sent' = [d \in Calls |-> sent'[d]]
  BY <1>1, CallTypes DEF StreamInv, LocalsOK
<1>5. /\ progress \in [stage : {"argsDone", "done"}, given : {"none", "part", "whole"}]
  BY CallTypes
<1>6. Normalized(a) = plan[c].args
  <2>1. CASE args # Absent
    BY <2>1, DoneArgsFacts DEF Normalized
  <2>2. CASE args = Absent /\ c \in DOMAIN items
    BY <2>2, DoneArgsFacts DEF StreamInv, ItemInv
  <2>3. CASE args = Absent /\ c \notin DOMAIN items
    BY <1>3, <2>3, DoneArgsFacts DEF Normalized
  <2> QED BY <2>1, <2>2, <2>3
<1>7. a \in {Absent, "part", "empty", "good", "bad"}
  BY <1>3, CallTypes, DoneArgsFacts, ZenonT(40) DEF ItemStates
<1>8. EmitToolCall(c, st)
  BY <1>2
<1> HIDE DEF old, a, progress
<1>9. /\ st \in ItemStates /\ st.kind = plan[c].kind /\ st.named
      /\ st.closed = old.closed /\ st.args = a
  BY <1>3, <1>7 DEF ItemStates
<1> HIDE DEF st
<1>10. st.closed <=> Closed(c)
  BY <1>3, <1>9
<1> QED BY <1>1, <1>4, <1>5, <1>6, <1>8, <1>9, <1>10, LoudStep

-----------------------------------------------------------------------------
(* Theorems *)

\* Every step keeps the strengthening.
LEMMA NextInv == StreamInv /\ [Next]_vars => StreamInv'
<1> SUFFICES ASSUME StreamInv, [Next]_vars PROVE StreamInv'
  OBVIOUS
<1>1. CASE PostAccepted \/ PostFails \/ StreamReturnsError
  BY <1>1, PostAcceptedInv, PostFailsInv, StreamReturnsErrorInv
<1>2. ASSUME NEW c \in Calls, ItemAdded(c) \/ ArgsDelta(c) \/ ArgsDone(c) \/ ItemDone(c)
      PROVE  StreamInv'
  BY <1>2, ItemAddedInv, ArgsDeltaInv, ArgsDoneInv, ItemDoneInv
<1>3. ASSUME NEW s \in Searches, SearchDone(s) PROVE StreamInv'
  BY <1>3, SearchDoneInv
<1>4. CASE TextDelta \/ TextDone \/ ReasoningPart \/ ReasoningDelta
  BY <1>4, TextStepsInv
<1>5. CASE Incomplete \/ StreamEnds \/ StreamRetry \/ StreamFails
  BY <1>5, IncompleteInv, StreamEndsInv, StreamRetryInv, StreamFailsInv
<1>6. CASE UNCHANGED vars
  BY <1>6, SMTT(30) DEF vars, StreamInv, LocalsOK, BuilderInv, CallInv, ItemInv, ReasonInv,
              StopReasonAgrees, Closed, CallsOf, View
<1> QED BY <1>1, <1>2, <1>3, <1>4, <1>5, <1>6 DEF Next

\* The strengthening is an invariant.
THEOREM Streams == Spec => []StreamInv
BY InitInv, NextInv, PTL DEF Spec

\* Types of the event loop's state and of the builder's.
THEOREM Types == Spec => []TypeOK
<1>1. StreamInv => TypeOK
  <2> SUFFICES ASSUME StreamInv PROVE TypeOK
    OBVIOUS
  <2>1. b \in Builders(Ids, Args)
    BY DEF StreamInv, BuilderInv, Sound
  <2>2. DOMAIN b.tools \subseteq Ids
    BY <2>1 DEF Builders, ToolMaps
  <2> QED BY <2>1, <2>2 DEF StreamInv, LocalsOK, ItemStates, TypeOK, Builders, Reasons, Ids
<1> QED BY <1>1, Streams, PTL

\* Whatever calls, searches, text, failures and retries there are, the client
\* reads a well-formed message (sse.go, and every path of streamOnce).
THEOREM WellFormedMessage == Spec => []WellFormed
<1>1. StreamInv => WellFormed
  BY DEF StreamInv, BuilderInv, Sound, WellFormed, View
<1> QED BY <1>1, Streams, PTL

\* A request is done when its message has ended, once, with no block open.
THEOREM MessageEnds == Spec => []EndsOnce
<1>1. StreamInv => EndsOnce
  <2> SUFFICES ASSUME StreamInv PROVE EndsOnce
    OBVIOUS
  <2>1. b.view.ended \in BOOLEAN /\ b.view.error \in BOOLEAN
    BY DEF StreamInv, BuilderInv, Sound, Builders, Views
  <2> QED BY <2>1 DEF StreamInv, BuilderInv, Sound, Ends, EndsOnce, View
<1> QED BY <1>1, Streams, PTL

\* No call reaches the client twice, with part of its arguments or with others
\* than the upstream's, though two events emit it (responses.go:194-218).
THEOREM WholeCalls == Spec => []CallsWhole
<1>1. StreamInv => CallsWhole
  BY DEF StreamInv, CallInv, CallsWhole, CallsOf
<1> QED BY <1>1, Streams, PTL

\* No valid call the upstream finished is lost.
THEOREM DeliveredCalls == Spec => []CallsDelivered
<1>1. StreamInv => CallsDelivered
  BY DEF StreamInv, CallInv, ItemInv, CallsDelivered
<1> QED BY <1>1, Streams, PTL

\* The stop reason and the calls the client was given agree.
THEOREM ReasonsAgree == Spec => []StopReasonAgrees
<1>1. StreamInv => StopReasonAgrees
  BY DEF StreamInv, ReasonInv
<1> QED BY <1>1, Streams, PTL

\* HasContent says whether a block was written, so that no retry repeats one.
THEOREM ContentIsKnown == Spec => []ContentKnown
<1>1. StreamInv => ContentKnown
  BY DEF StreamInv, BuilderInv, Sound, Agrees, ContentKnown, View
<1> QED BY <1>1, Streams, PTL
=============================================================================
