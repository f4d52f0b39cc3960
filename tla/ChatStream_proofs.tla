-------------------------- MODULE ChatStream_proofs --------------------------
(***************************************************************************)
(* Proofs about ChatStream for any calls, retries and lengths of the       *)
(* message.  The builder's part rests on the lemmas of                     *)
(* MessageBuilder_proofs.  The calls are written by two loops over the     *)
(* indexes, at finish_reason and at the end; what keeps them in order and  *)
(* from being written twice is PhaseInv: either a loop writes nothing or   *)
(* none of the indexes it has yet to look at is written.                   *)
(***************************************************************************)
EXTENDS ChatStream, MessageBuilder_proofs

Ids == {CallIds[i] : i \in Indexes}

Tracks == [named : BOOLEAN, args : {"none", "part"} \cup Args, emitted : BOOLEAN]

Progress == [Indexes -> {"none", "begun", "part", "whole"}]

\* The adapter's locals and the upstream's progress.
LocalsOK ==
  /\ pc \in {"begin", "post", "delay", "streaming", "emitting", "flushed", "done"}
  /\ retries \in 0 .. MaxRetries
  /\ pc = "delay" => retries > 0
  /\ DOMAIN tools \subseteq Indexes
  /\ \A i \in DOMAIN tools : tools[i] \in Tracks
  /\ held \in BOOLEAN /\ emitted \in BOOLEAN
  /\ finish \in Finishes
  /\ pos \in 1 .. Len(CallIds) + 1
  /\ plan \in [Indexes -> Args]
  /\ sent \in Progress

\* Where the request is and what its builder has done.
BuilderInv ==
  /\ Sound(b, Ids, Args)
  /\ (pc = "done") <=> b.finished
  /\ pc \notin {"begin", "done"} => b.started
  /\ ~b.finished => b.reason = "none" /\ ~b.failed

\* A track holds what the upstream has sent of its call.
TrackInv ==
  \A i \in Indexes :
    /\ i \in DOMAIN tools <=> sent[i] # "none"
    /\ i \in DOMAIN tools => tools[i].args = Gathered(i, sent[i])
    /\ sent[i] = "whole" => tools[i].named

Written(i) == i \in DOMAIN tools /\ tools[i].emitted

NoneReady == \A i \in Indexes : ~Ready(i)

\* Which calls have been looked at and which have been written.
PhaseInv ==
  /\ pc \in {"begin", "post", "delay"} =>
       finish = "none" /\ \A i \in Indexes : sent[i] = "none"
  /\ finish \in {"stop", "tool_calls"} => \A i \in Indexes : sent[i] \in {"none", "whole"}
  /\ pc = "emitting" => finish = "tool_calls"
  /\ pc = "streaming" /\ finish = "tool_calls" => NoneReady
  /\ pc = "streaming" /\ finish # "tool_calls" => \A i \in Indexes : ~Written(i)
  /\ pc \in {"emitting", "flushed"} =>
       /\ \A i \in Indexes : i < pos => ~Ready(i)
       /\ NoneReady \/ \A i \in Indexes : i >= pos => ~Written(i)
  /\ pc = "done" /\ ~b.failed => NoneReady

\* The arguments call i is written with.
Given(i) == IF sent[i] = "whole" THEN plan[i] ELSE "empty"

\* The call is whole, or cut off before its first fragment of arguments.
MayBeWritten(i) ==
  \/ sent[i] = "whole" /\ Valid(plan[i])
  \/ sent[i] = "begun" /\ finish \in {"none", "length"}

\* The tool blocks are the calls written, each once, in their order.
CallInv ==
  /\ \A k \in ToolCalls(View) : \E i \in Indexes :
       /\ View.content[k].id = CallIds[i]
       /\ View.content[k].input = <<Given(i)>>
       /\ Written(i) /\ MayBeWritten(i)
  /\ \A k, l \in ToolCalls(View) : View.content[k].id = View.content[l].id => k = l
  /\ \A i \in Indexes : Written(i) => CallsOf(i) # {}
  /\ \A i \in Indexes : CallIds[i] \in DOMAIN b.tools => Written(i)
  /\ emitted <=> ToolCalls(View) # {}
  /\ CallsInOrder

ChatInv == LocalsOK /\ BuilderInv /\ TrackInv /\ PhaseInv /\ CallInv /\ ReasonAgrees

-----------------------------------------------------------------------------
(* Steps by what they do to the message *)

\* The calls' ids tell them apart.
LEMMA IdsDiffer ==
  /\ Indexes = 1 .. Len(CallIds) /\ Len(CallIds) \in Nat
  /\ \A i, j \in Indexes : CallIds[i] = CallIds[j] => i = j
  /\ \A i \in Indexes : CallIds[i] \in Ids
BY ChatAssumption DEF Indexes, Ids

\* A step that writes no call and leaves what is known of the calls alone.
LEMMA KeepsCalls ==
  ASSUME ChatInv,
         ToolCalls(View') = ToolCalls(View),
         \A k \in ToolCalls(View) : View'.content[k] = View.content[k],
         b'.tools = b.tools,
         UNCHANGED <<tools, emitted, plan, sent>>,
         \A i \in Indexes : Written(i) /\ MayBeWritten(i) => MayBeWritten(i)'
  PROVE  CallInv'
<1>1. \A i : CallsOf(i)' = CallsOf(i)
  BY DEF CallsOf
<1>2. \A i \in Indexes : /\ Written(i)' <=> Written(i)
                         /\ Given(i)' = Given(i)
  BY DEF Written, Given
<1>3. CallInv  BY DEF ChatInv
<1>4. CallsInOrder'
  BY <1>1, <1>3 DEF CallInv, CallsInOrder
<1> QED BY <1>1, <1>2, <1>3, <1>4 DEF CallInv

\* A step that writes at most text or thinking on a message that goes on.
LEMMA TextStep ==
  ASSUME ChatInv, LocalsOK', PhaseInv', pc' # "done", pc \notin {"begin", "done"}, pc' # "begin",
         Live(b', Ids, Args), AddsText(b, b'),
         UNCHANGED <<tools, emitted, plan, sent>>,
         \A i \in Indexes : Written(i) /\ MayBeWritten(i) => MayBeWritten(i)'
  PROVE  ChatInv'
<1>1. Sound(b, Ids, Args) /\ ~b.finished /\ b.reason = "none" /\ ~b.failed
  BY DEF ChatInv, BuilderInv
<1>2. /\ ToolCalls(View') = ToolCalls(View)
      /\ \A k \in ToolCalls(View) : View'.content[k] = View.content[k]
  BY <1>1, ContentType, TextKeepsCalls DEF View, AddsText
<1>3. CallInv'
  BY <1>2, KeepsCalls DEF AddsText
<1>4. BuilderInv'
  BY <1>1 DEF BuilderInv, Live, AddsText
<1>5. TrackInv'
  BY DEF ChatInv, TrackInv, Gathered
<1>6. ~View'.ended
  BY DEF Live, Sound, Ends, View
<1>7. ReasonAgrees'
  BY <1>6 DEF ReasonAgrees
<1> QED BY <1>3, <1>4, <1>5, <1>7 DEF ChatInv

\* A step that ends the message.
LEMMA DoneStep ==
  ASSUME ChatInv, pc' = "done",
         Sound(b', Ids, Args), b'.finished, b'.tools = b.tools,
         \/ b'.view.content = b.view.content
         \/ \E k \in {"text", "thinking"} :
              b'.view.content = Append(b.view.content, Block(k, "none", <<>>)),
         \/ b'.failed
         \/ ~b'.started
         \/ ((b'.view.reason = "tool_use") <=> (finish = "tool_calls" /\ ToolCalls(b.view) # {})),
         b'.failed \/ NoneReady,
         UNCHANGED <<retries, tools, held, finish, emitted, pos, plan, sent>>
  PROVE  ChatInv'
<1>1. Sound(b, Ids, Args)
  BY DEF ChatInv, BuilderInv
<1>2. /\ ToolCalls(View') = ToolCalls(View)
      /\ \A k \in ToolCalls(View) : View'.content[k] = View.content[k]
  BY <1>1, ContentType, TextKeepsCalls DEF View
<1>3. \A i \in Indexes : MayBeWritten(i)' <=> MayBeWritten(i)
  BY DEF MayBeWritten
<1>4. CallInv'
  BY <1>2, <1>3, KeepsCalls
<1>5. LocalsOK'
  BY DEF ChatInv, LocalsOK
<1>6. BuilderInv'
  BY DEF BuilderInv
<1>7. TrackInv'
  BY DEF ChatInv, TrackInv, Gathered
<1>8. NoneReady' <=> NoneReady
  BY DEF NoneReady, Ready, Guarded
<1>9. PhaseInv'
  BY <1>8 DEF ChatInv, PhaseInv
<1>10. ReasonAgrees'
  BY <1>2 DEF ReasonAgrees, View
<1> QED BY <1>4, <1>5, <1>6, <1>7, <1>9, <1>10 DEF ChatInv

\* A request that is not done has a builder that is neither.
LEMMA Going ==
  ASSUME ChatInv, pc # "done"
  PROVE  /\ Sound(b, Ids, Args) /\ ~b.finished /\ b.reason = "none" /\ ~b.failed
         /\ pc # "begin" => Live(b, Ids, Args)
BY DEF ChatInv, BuilderInv, Live

\* No call is ready before the first fragment.
LEMMA NothingSent ==
  ASSUME ChatInv, pc \in {"begin", "post", "delay"}
  PROVE  /\ NoneReady /\ \A i \in Indexes : ~Written(i)
         /\ DOMAIN tools = {} /\ ToolCalls(View) = {}
<1>1. \A i \in Indexes : i \notin DOMAIN tools
  BY DEF ChatInv, PhaseInv, TrackInv
<1>2. DOMAIN tools = {}
  BY <1>1 DEF ChatInv, LocalsOK
<1>3. NoneReady /\ \A i \in Indexes : ~Written(i)
  BY <1>1 DEF NoneReady, Ready, Written
<1>4. ToolCalls(View) = {}
  BY <1>3 DEF ChatInv, CallInv
<1> QED BY <1>2, <1>3, <1>4

-----------------------------------------------------------------------------
(* The post and the end *)

\* The strengthening holds at the start.
LEMMA InitInv == Init => ChatInv
<1> SUFFICES ASSUME Init PROVE ChatInv
  OBVIOUS
<1> USE DEF Init
<1>1. LocalsOK
  <2>1. MaxRetries \in 0 .. MaxRetries  BY ChatAssumption
  <2>2. 1 \in 1 .. Len(CallIds) + 1  BY IdsDiffer
  <2> QED BY <2>1, <2>2 DEF LocalsOK, NoTools, Finishes, Progress
<1>2. b.view.content = <<>> /\ b.view.ended = FALSE /\ b.finished = FALSE
      /\ b.reason = "none" /\ b.failed = FALSE /\ DOMAIN b.tools = {}
  BY DEF NewBuilder, Unread
<1>3. BuilderInv
  BY <1>2, NewSound DEF BuilderInv
<1>4. ToolCalls(View) = {}
  BY <1>2 DEF ToolCalls, View
<1>5. TrackInv
  BY DEF TrackInv, NoTools
<1>6. PhaseInv
  BY DEF PhaseInv
<1>7. CallInv
  BY <1>2, <1>4 DEF CallInv, Written, NoTools, CallsInOrder, CallsOf
<1>8. ReasonAgrees
  BY <1>2 DEF ReasonAgrees, View
<1> QED BY <1>1, <1>3, <1>5, <1>6, <1>7, <1>8 DEF ChatInv

\* message_start
LEMMA BeginInv == ChatInv /\ Begin => ChatInv'
<1> SUFFICES ASSUME ChatInv, Begin PROVE ChatInv'
  OBVIOUS
<1> USE DEF Begin, locals
<1>1. Live(b', Ids, Args) /\ SameContent(b, b')
  BY Going, StartSound
<1>2. LocalsOK'
  BY DEF ChatInv, LocalsOK
<1>3. BuilderInv'
  BY <1>1, Going DEF BuilderInv, Live, SameContent
<1>4. TrackInv'
  BY DEF ChatInv, TrackInv, Gathered
<1>5. PhaseInv'
  BY DEF ChatInv, PhaseInv
<1>6. ToolCalls(View') = ToolCalls(View) /\ View'.content = View.content
  BY <1>1 DEF SameContent, ToolCalls, View
<1>7. CallInv'
  BY <1>1, <1>6, KeepsCalls DEF SameContent, MayBeWritten
<1>8. ReasonAgrees'
  BY <1>1 DEF ReasonAgrees, Live, Sound, Ends, View
<1> QED BY <1>2, <1>3, <1>4, <1>5, <1>7, <1>8 DEF ChatInv

\* A request rejected before message_start.
LEMMA RejectedInv == ChatInv /\ Rejected => ChatInv'
<1> SUFFICES ASSUME ChatInv, Rejected PROVE ChatInv'
  OBVIOUS
<1> USE DEF Rejected, locals
<1>1. Sound(b, Ids, Args) /\ ~b.finished /\ b.reason = "none"
  BY Going
<1>2. /\ Sound(b', Ids, Args) /\ b'.finished /\ b'.tools = b.tools
      /\ b'.view.content = b.view.content /\ b'.view.reason = "end_turn"
  BY <1>1, FinishSound
<1>3. ToolCalls(b.view) = {} /\ NoneReady
  BY NothingSent DEF View
<1>4. (b'.view.reason = "tool_use") <=> (finish = "tool_calls" /\ ToolCalls(b.view) # {})
  BY <1>2, <1>3
<1> QED BY <1>2, <1>3, <1>4, DoneStep

\* Attempts of the post.
LEMMA PostStepsInv ==
  ChatInv /\ (PostDelayed \/ PostAgain \/ PostAccepted) => ChatInv'
<1> SUFFICES ASSUME ChatInv, PostDelayed \/ PostAgain \/ PostAccepted PROVE ChatInv'
  OBVIOUS
<1> USE DEF PostDelayed, PostAgain, PostAccepted, locals
<1>1. /\ pc \in {"post", "delay"} /\ pc' \in {"post", "delay", "streaming"}
      /\ UNCHANGED <<b, tools, held, finish, emitted, pos, plan, sent>>
      /\ retries' = retries \/ retries' = retries - 1
  OBVIOUS
<1>2. LocalsOK'
  BY <1>1, ChatAssumption DEF ChatInv, LocalsOK
<1>3. \A i \in Indexes : Written(i)' <=> Written(i)
  BY <1>1 DEF Written
<1>4. PhaseInv'
  BY <1>1, <1>3, NothingSent DEF ChatInv, PhaseInv
<1>5. Live(b', Ids, Args) /\ AddsText(b, b')
  BY <1>1, Going DEF AddsText
<1> QED BY <1>1, <1>2, <1>4, <1>5, TextStep DEF MayBeWritten

\* A post or a stream that fails.
LEMMA FailsInv == ChatInv /\ (PostFails \/ StreamFails) => ChatInv'
<1> SUFFICES ASSUME ChatInv, PostFails \/ StreamFails PROVE ChatInv'
  OBVIOUS
<1> USE DEF PostFails, StreamFails, locals
<1>1. Live(b, Ids, Args)
  BY Going
<1>2. b' = FinishWithError(b)
  OBVIOUS
<1>3. /\ Sound(b', Ids, Args) /\ b'.finished /\ b'.failed /\ b'.tools = b.tools
      /\ \/ b'.view.content = b.view.content
         \/ \E k \in {"text", "thinking"} :
              b'.view.content = Append(b.view.content, Block(k, "none", <<>>))
  BY <1>1, <1>2, FinishWithErrorSound
<1> QED BY <1>3, DoneStep

\* The message ends.
LEMMA MessageEndsInv == ChatInv /\ MessageEnds => ChatInv'
<1> SUFFICES ASSUME ChatInv, MessageEnds PROVE ChatInv'
  OBVIOUS
<1> USE DEF MessageEnds, locals
<1> DEFINE s == SetStopReason(b, StopReason)
<1>1. Live(b, Ids, Args)
  BY Going
<1>2. StopReason \in Reasons /\ StopReason # "none"
  BY DEF StopReason, MapStopReason, Reasons
<1>3. /\ Live(s, Ids, Args) /\ s.reason = StopReason /\ s.view = b.view
      /\ s.tools = b.tools /\ s.failed = b.failed
  BY <1>1, <1>2, SetStopReasonSound
<1> HIDE DEF s
<1>4. b' = Finish(s)
  BY DEF s
<1>5. /\ Sound(b', Ids, Args) /\ b'.finished /\ b'.tools = b.tools
      /\ b'.view.content = b.view.content /\ b'.view.reason = StopReason
  BY <1>2, <1>3, <1>4, FinishSound DEF Live
<1>6. (StopReason = "tool_use") <=> (finish = "tool_calls" /\ ToolCalls(b.view) # {})
  <2>1. emitted <=> ToolCalls(b.view) # {}
    BY DEF ChatInv, CallInv, View
  <2>2. (MapStopReason(finish) = "tool_use") <=> (finish = "tool_calls")
    BY DEF MapStopReason, ChatInv, LocalsOK, Finishes
  <2> QED BY <2>1, <2>2 DEF StopReason
<1>7. NoneReady
  BY IdsDiffer DEF ChatInv, PhaseInv, NoneReady
<1> QED BY <1>5, <1>6, <1>7, DoneStep

-----------------------------------------------------------------------------
(* Text, and the loops' beginnings and ends *)

\* A chunk written or not.
LEMMA EmitSound ==
  ASSUME NEW m, Live(m, Ids, Args), NEW chunk \in {"text", "thinking", "nothing"}
  PROVE  Live(Emit(m, chunk), Ids, Args) /\ AddsText(m, Emit(m, chunk))
<1>1. CASE chunk = "text"
  BY <1>1, EmitTextSound DEF Emit
<1>2. CASE chunk = "thinking"
  BY <1>2, EmitThinkingSound DEF Emit
<1>3. CASE chunk = "nothing"
  BY <1>3 DEF Emit, AddsText
<1> QED BY <1>1, <1>2, <1>3

\* Whether a call is ready or written depends on the tracks and plans alone.
LEMMA SameTracks ==
  ASSUME UNCHANGED <<tools, plan>>
  PROVE  /\ NoneReady' <=> NoneReady
         /\ \A i : (Ready(i)' <=> Ready(i)) /\ (Written(i)' <=> Written(i))
BY DEF NoneReady, Ready, Written, Guarded

\* Text and reasoning.
LEMMA TextInv == ChatInv /\ (Content \/ Reasoning) => ChatInv'
<1> SUFFICES ASSUME ChatInv, Content \/ Reasoning PROVE ChatInv'
  OBVIOUS
<1> USE DEF Streaming
<1>1. /\ pc = "streaming" /\ held' \in BOOLEAN
      /\ UNCHANGED <<pc, retries, tools, finish, emitted, pos, plan, sent>>
  BY DEF Content, Reasoning, locals, ChatInv, LocalsOK
<1>2. \/ \E chunk \in {"text", "thinking", "nothing"} : b' = Emit(b, chunk)
      \/ b' = EmitThinking(b)
  BY DEF Content, Reasoning
<1>3. Live(b', Ids, Args) /\ AddsText(b, b')
  BY <1>1, <1>2, Going, EmitSound, EmitThinkingSound
<1>4. LocalsOK'
  BY <1>1 DEF ChatInv, LocalsOK
<1>5. PhaseInv'
  BY <1>1, SameTracks DEF ChatInv, PhaseInv
<1> QED BY <1>1, <1>3, <1>4, <1>5, TextStep DEF MayBeWritten

\* finish_reason: what is written then is whole, or nothing is.
LEMMA FinishReasonInv == ChatInv /\ FinishReason => ChatInv'
<1> SUFFICES ASSUME ChatInv, FinishReason PROVE ChatInv'
  OBVIOUS
<1>1. PICK r \in Finishes \ {"none"} :
        /\ finish \in {"none", r}
        /\ r # "length" => \A i \in Indexes : sent[i] \in {"none", "whole"}
        /\ finish' = r
        /\ pc' = IF r = "tool_calls" THEN "emitting" ELSE pc
  BY DEF FinishReason
<1>2. /\ pc = "streaming" /\ pos' = 1
      /\ UNCHANGED <<retries, b, tools, held, emitted, plan, sent>>
  BY DEF FinishReason
<1>3. LocalsOK'
  BY <1>1, <1>2, IdsDiffer DEF ChatInv, LocalsOK, Finishes
<1>4. PhaseInv'
  <2>1. \A i \in Indexes : ~(i < 1)
    BY IdsDiffer
  <2> QED BY <1>1, <1>2, <2>1, SameTracks DEF ChatInv, PhaseInv, Finishes
<1>5. \A i \in Indexes : Written(i) /\ MayBeWritten(i) => MayBeWritten(i)'
  BY <1>1, <1>2 DEF ChatInv, PhaseInv, MayBeWritten
<1>6. Live(b', Ids, Args) /\ AddsText(b, b')
  BY <1>2, Going DEF AddsText
<1> QED BY <1>1, <1>2, <1>3, <1>4, <1>5, <1>6, TextStep

\* The loop at finish_reason is over.
LEMMA EmittedInv == ChatInv /\ Emitted => ChatInv'
<1> SUFFICES ASSUME ChatInv, Emitted PROVE ChatInv'
  OBVIOUS
<1> USE DEF Emitted, locals
<1>1. LocalsOK'
  BY DEF ChatInv, LocalsOK
<1>2. NoneReady
  BY IdsDiffer DEF ChatInv, PhaseInv, NoneReady
<1>3. PhaseInv'
  BY <1>2, SameTracks DEF ChatInv, PhaseInv
<1>4. Live(b', Ids, Args) /\ AddsText(b, b')
  BY Going DEF AddsText
<1> QED BY <1>1, <1>3, <1>4, TextStep DEF MayBeWritten

\* The body ends and the loop begins once more: either the first one has left
\* nothing to write or there was none.
LEMMA BodyEndsInv == ChatInv /\ BodyEnds => ChatInv'
<1> SUFFICES ASSUME ChatInv, BodyEnds PROVE ChatInv'
  OBVIOUS
<1>1. PICK tail \in {"text", "thinking", "nothing"} : b' = Emit(b, tail)
  BY DEF BodyEnds
<1>2. /\ pc = "streaming" /\ pc' = "flushed" /\ pos' = 1 /\ held' = FALSE
      /\ UNCHANGED <<retries, tools, finish, emitted, plan, sent>>
  BY DEF BodyEnds
<1>3. Live(b', Ids, Args) /\ AddsText(b, b')
  BY <1>1, <1>2, Going, EmitSound
<1>4. LocalsOK'
  <2>1. 1 \in 1 .. Len(CallIds) + 1
    BY IdsDiffer
  <2> QED BY <1>2, <2>1 DEF ChatInv, LocalsOK
<1>5. PhaseInv'
  <2>1. \A i \in Indexes : ~(i < 1)
    BY IdsDiffer
  <2> QED BY <1>2, <2>1, SameTracks DEF ChatInv, PhaseInv
<1> QED BY <1>2, <1>3, <1>4, <1>5, TextStep DEF MayBeWritten

-----------------------------------------------------------------------------
(* Calls *)

\* A fragment comes while no call is written.
LEMMA FragmentInv ==
  ASSUME ChatInv, NEW i \in Indexes, Fragment(i)
  PROVE  ChatInv'
<1> DEFINE t == IF i \in DOMAIN tools THEN tools[i] ELSE NewTrack
<1>1. PICK stage \in Further(i), names \in BOOLEAN :
        /\ names \/ stage # "whole" \/ t.named
        /\ sent' = [sent EXCEPT ![i] = stage]
        /\ tools' = [j \in DOMAIN tools \cup {i} |->
             IF j = i THEN [t EXCEPT !.named = t.named \/ names,
                                     !.args = Gathered(i, stage)]
             ELSE tools[j]]
  BY DEF Fragment
<1>2. /\ pc = "streaming" /\ finish = "none"
      /\ UNCHANGED <<pc, retries, b, held, finish, emitted, pos, plan>>
  BY DEF Fragment, Streaming
<1>3. stage \in {"begun", "part", "whole"}
  BY DEF ChatInv, LocalsOK, Progress, Further
<1>4. t \in Tracks /\ ~t.emitted
  <2>1. i \in DOMAIN tools => tools[i] \in Tracks /\ ~tools[i].emitted
    BY <1>2 DEF ChatInv, LocalsOK, PhaseInv, Written
  <2> QED BY <2>1 DEF NewTrack, Tracks
<1>5. PICK g : g = Gathered(i, stage)
  OBVIOUS
<1>6. g \in {"none", "part"} \cup Args
  BY <1>3, <1>5 DEF Gathered, ChatInv, LocalsOK
<1>7. PICK u : u = [t EXCEPT !.named = t.named \/ names, !.args = g]
  OBVIOUS
<1> HIDE DEF t
<1>8. /\ u \in Tracks /\ ~u.emitted /\ u.args = g
      /\ u.named <=> t.named \/ names
  BY <1>4, <1>6, <1>7 DEF Tracks
<1>9. tools' = [j \in DOMAIN tools \cup {i} |-> IF j = i THEN u ELSE tools[j]]
  BY <1>1, <1>5, <1>7
<1>10. /\ DOMAIN tools' = DOMAIN tools \cup {i} /\ tools'[i] = u
       /\ \A j \in DOMAIN tools : j # i => tools'[j] = tools[j]
  BY <1>9
<1>11. /\ sent' \in Progress /\ sent'[i] = stage
       /\ \A j \in Indexes : j # i => sent'[j] = sent[j]
  BY <1>1, <1>3 DEF ChatInv, LocalsOK, Progress
<1>12. \A j \in Indexes : ~Written(j) /\ ~Written(j)'
  BY <1>2, <1>8, <1>10 DEF ChatInv, PhaseInv, Written
<1>13. LocalsOK'
  BY <1>2, <1>8, <1>10, <1>11 DEF ChatInv, LocalsOK
<1>14. TrackInv'
  <2>1. ASSUME NEW j \in Indexes
        PROVE  /\ j \in DOMAIN tools' <=> sent'[j] # "none"
               /\ j \in DOMAIN tools' => tools'[j].args = Gathered(j, sent[j])'
               /\ sent'[j] = "whole" => tools'[j].named
    <3>1. CASE j = i
      <4>1. Gathered(j, sent[j])' = Gathered(i, stage)
        BY <1>2, <1>11, <3>1 DEF Gathered
      <4> QED BY <1>1, <1>3, <1>5, <1>8, <1>10, <1>11, <3>1, <4>1
    <3>2. CASE j # i
      <4>1. Gathered(j, sent[j])' = Gathered(j, sent[j])
        BY <1>2, <1>11, <3>2 DEF Gathered
      <4> QED BY <1>10, <1>11, <3>2, <4>1 DEF ChatInv, TrackInv
    <3> QED BY <3>1, <3>2
  <2> QED BY <2>1 DEF TrackInv
<1>15. PhaseInv'
  BY <1>2, <1>12 DEF ChatInv, PhaseInv
<1>16. ToolCalls(View) = {}
  BY <1>12 DEF ChatInv, CallInv
<1>17. CallInv'
  BY <1>2, <1>12, <1>16 DEF ChatInv, CallInv, CallsInOrder, CallsOf, View
<1>18. BuilderInv' /\ ReasonAgrees'
  BY <1>2 DEF ChatInv, BuilderInv, ReasonAgrees, View
<1> QED BY <1>13, <1>14, <1>15, <1>17, <1>18 DEF ChatInv

\* What a call that is ready would be written with.
LEMMA ReadyCall ==
  ASSUME ChatInv, NEW i \in Indexes, Ready(i)
  PROVE  /\ Guarded(i) = Given(i) /\ Guarded(i) \in Args
         /\ MayBeWritten(i) /\ ~Written(i) /\ CallIds[i] \notin DOMAIN b.tools
<1>1. /\ i \in DOMAIN tools /\ ~tools[i].emitted /\ Valid(Guarded(i))
      /\ tools[i].args = Gathered(i, sent[i])
      /\ sent[i] \in {"begun", "part", "whole"} /\ plan[i] \in Args
  BY DEF Ready, ChatInv, TrackInv, LocalsOK, Progress
<1>2. sent[i] = "begun" => finish \in {"none", "length"}
  BY DEF ChatInv, PhaseInv, LocalsOK, Finishes
<1>3. CASE sent[i] = "whole"
  BY <1>1, <1>3 DEF Gathered, Guarded, Given, MayBeWritten, Args, Written, ChatInv, CallInv
<1>4. CASE sent[i] = "begun"
  BY <1>1, <1>2, <1>4 DEF Gathered, Guarded, Given, MayBeWritten, Args, Valid, Written,
                          ChatInv, CallInv
<1>5. sent[i] # "part"
  BY <1>1 DEF Gathered, Guarded, Valid
<1> QED BY <1>1, <1>3, <1>4, <1>5

\* One turn of a loop that writes no call.
LEMMA SkipInv ==
  ASSUME ChatInv, EmitNext, ~Ready(Turn)
  PROVE  ChatInv'
<1> USE DEF EmitNext, Turn
<1>1. UNCHANGED <<b, tools, emitted, pc, retries, held, finish, plan, sent>> /\ pos' = pos + 1
  OBVIOUS
<1>2. LocalsOK'
  BY <1>1, IdsDiffer DEF ChatInv, LocalsOK
<1>3. PhaseInv'
  <2>1. \A i \in Indexes : /\ i < pos' => i < pos \/ i = pos
                           /\ i >= pos' => i >= pos
    BY <1>1, IdsDiffer
  <2> QED BY <1>1, <2>1, SameTracks DEF ChatInv, PhaseInv
<1>4. Live(b', Ids, Args) /\ AddsText(b, b')
  BY <1>1, Going DEF AddsText
<1> QED BY <1>1, <1>2, <1>3, <1>4, TextStep DEF MayBeWritten

\* One turn of a loop that writes a call: no later one is written yet.
LEMMA WriteInv ==
  ASSUME ChatInv, EmitNext, Ready(Turn)
  PROVE  ChatInv'
<1>1. /\ pc \in {"emitting", "flushed"} /\ pos \in Indexes /\ pos' = pos + 1
      /\ b' = WholeTool(b, "tool_use", CallIds[pos], Guarded(pos))
      /\ tools' = [tools EXCEPT ![pos].emitted = TRUE] /\ emitted' = TRUE
      /\ UNCHANGED <<pc, retries, held, finish, plan, sent>>
  BY DEF EmitNext, Turn, WriteCall
<1>2. PICK p, id, x : p = pos /\ id = CallIds[pos] /\ x = Guarded(pos)
  OBVIOUS
<1>3. /\ x = Given(p) /\ x \in Args /\ MayBeWritten(p) /\ ~Written(p)
      /\ id \in Ids /\ id \notin DOMAIN b.tools /\ p \in DOMAIN tools
      /\ p \in Indexes /\ Ready(p) /\ id = CallIds[p] /\ pos' = p + 1
  BY <1>1, <1>2, ReadyCall, IdsDiffer DEF Turn, Ready
<1>4. Live(b, Ids, Args) /\ b.reason = "none" /\ ~b.failed
  BY <1>1, Going
<1>5. PICK blk : blk = Block("tool_use", id, <<x>>)
  OBVIOUS
<1>6. blk \in BlockSet(Ids, Args) /\ blk.kind = "tool_use" /\ blk.id = id /\ blk.input = <<x>>
  BY <1>3, <1>5 DEF Block, BlockSet, Kinds
<1>7. /\ Live(b', Ids, Args) /\ b'.view.content = Append(b.view.content, blk)
      /\ DOMAIN b'.tools = DOMAIN b.tools \cup {id}
      /\ b'.failed = b.failed /\ b'.reason = b.reason
  <2> DEFINE u == WholeTool(b, "tool_use", id, x)
  <2>1. /\ Live(u, Ids, Args) /\ u.view.content = Append(b.view.content, Block("tool_use", id, <<x>>))
        /\ DOMAIN u.tools = DOMAIN b.tools \cup {id}
        /\ u.failed = b.failed /\ u.reason = b.reason
    BY <1>3, <1>4, WholeToolSound
  <2>2. b' = u
    BY <1>1, <1>2
  <2> HIDE DEF u
  <2> QED BY <2>1, <2>2, <1>5
<1>8. PICK n : n = Len(b.view.content) + 1
  OBVIOUS
<1>9. /\ ToolCalls(View') = ToolCalls(View) \cup {n} /\ n \notin ToolCalls(View)
      /\ \A k \in ToolCalls(View) : k < n
      /\ View'.content[n] = blk
      /\ \A k \in ToolCalls(View) : View'.content[k] = View.content[k]
  <2>1. b.view.content \in Seq(BlockSet(Ids, Args))
    BY <1>4, ContentType DEF Live
  <2>2. HasBlocks(b.view, Ids, Args) /\ Adds(b.view, b'.view, blk)
    BY <1>7, <2>1 DEF HasBlocks, Adds
  <2>3. /\ ToolCalls(b'.view) = ToolCalls(b.view) \cup {Len(b.view.content) + 1}
        /\ Len(b.view.content) + 1 \notin ToolCalls(b.view)
        /\ \A k \in ToolCalls(b.view) : k < Len(b.view.content) + 1
        /\ b'.view.content[Len(b.view.content) + 1] = blk
        /\ \A k \in ToolCalls(b.view) : b'.view.content[k] = b.view.content[k]
    BY <1>6, <2>2, CallBlock
  <2> QED BY <1>8, <2>3 DEF View
<1>10. PICK u : u = [tools[p] EXCEPT !.emitted = TRUE]
  OBVIOUS
<1>11. /\ DOMAIN tools' = DOMAIN tools /\ tools'[p] = u
       /\ \A j \in DOMAIN tools : j # p => tools'[j] = tools[j]
  BY <1>1, <1>2, <1>3, <1>10
<1>12. /\ u \in Tracks /\ u.emitted /\ u.args = tools[p].args /\ u.named = tools[p].named
  <2>1. tools[p] \in Tracks
    BY <1>3 DEF ChatInv, LocalsOK
  <2> QED BY <2>1, <1>10 DEF Tracks
<1>13. /\ \A i \in Indexes : Written(i)' <=> Written(i) \/ i = p
       /\ \A i \in Indexes : Given(i)' = Given(i) /\ (MayBeWritten(i)' <=> MayBeWritten(i))
  BY <1>1, <1>3, <1>11, <1>12 DEF Written, Given, MayBeWritten
<1>14. \A i \in Indexes : i >= p => ~Written(i)
  <2>1. ~NoneReady
    BY <1>3 DEF NoneReady
  <2> QED BY <1>1, <1>2, <2>1 DEF ChatInv, PhaseInv
<1>15. LocalsOK'
  <2>1. pos' \in 1 .. Len(CallIds) + 1
    BY <1>3, IdsDiffer
  <2>2. \A i \in DOMAIN tools' : tools'[i] \in Tracks
    BY <1>11, <1>12 DEF ChatInv, LocalsOK
  <2>3. DOMAIN tools' \subseteq Indexes
    BY <1>11 DEF ChatInv, LocalsOK
  <2> QED BY <1>1, <2>1, <2>2, <2>3 DEF ChatInv, LocalsOK
<1>16. TrackInv'
  BY <1>1, <1>11, <1>12 DEF ChatInv, TrackInv, Gathered
<1>17. PhaseInv'
  <2>1. \A i \in Indexes : /\ i < pos' => i < p \/ i = p
                           /\ i >= pos' => i >= p /\ i # p
    BY <1>3, IdsDiffer
  <2>2. ~Ready(p)'
    BY <1>11, <1>12 DEF Ready
  <2>3. \A i \in Indexes : i # p => (Ready(i)' <=> Ready(i))
    BY <1>1, <1>11 DEF Ready, Guarded
  <2>4. /\ \A i \in Indexes : i < pos' => ~Ready(i)'
        /\ \A i \in Indexes : i >= pos' => ~Written(i)'
    <3>1. \A i \in Indexes : i < p => ~Ready(i)
      BY <1>1, <1>2 DEF ChatInv, PhaseInv
    <3> QED BY <1>13, <1>14, <2>1, <2>2, <2>3, <3>1
  <2> QED BY <1>1, <2>4 DEF ChatInv, PhaseInv
<1>18. BuilderInv' /\ ReasonAgrees'
  BY <1>1, <1>4, <1>7 DEF BuilderInv, ReasonAgrees, Live, Sound, Ends, View
<1>19. CallInv  BY DEF ChatInv
<1>20. \A k \in ToolCalls(View) : View.content[k].id # id
  BY <1>2, <1>3, <1>19, <1>1, IdsDiffer DEF CallInv
<1>21. /\ CallsOf(p)' = {n}
       /\ \A i \in Indexes : i # p => CallsOf(i)' = CallsOf(i)
  <2>1. \A i \in Indexes : CallIds[i] = id <=> i = p
    BY <1>3, IdsDiffer
  <2> QED BY <1>3, <1>6, <1>9, <1>20, <2>1 DEF CallsOf
<1>22. ASSUME NEW i \in Indexes, i > p, NEW k \in CallsOf(i) PROVE FALSE
  <2>1. PICK j \in Indexes : View.content[k].id = CallIds[j] /\ Written(j)
    BY <1>19 DEF CallInv, CallsOf
  <2>2. Written(i)
    BY <2>1, IdsDiffer DEF CallsOf
  <2> QED BY <1>3, <1>14, <1>22, <2>2, IdsDiffer
<1>23. CallInv'
  <2>1. ASSUME NEW k \in ToolCalls(View')
        PROVE  \E i \in Indexes :
                 /\ View'.content[k].id = CallIds[i]
                 /\ View'.content[k].input = <<Given(i)'>>
                 /\ Written(i)' /\ MayBeWritten(i)'
    <3>1. CASE k = n
      BY <1>1, <1>2, <1>3, <1>6, <1>9, <1>13, <3>1
    <3>2. CASE k \in ToolCalls(View)
      BY <1>9, <1>13, <1>19, <3>2 DEF CallInv
    <3> QED BY <1>9, <3>1, <3>2
  <2>2. \A k, l \in ToolCalls(View') : View'.content[k].id = View'.content[l].id => k = l
    BY <1>6, <1>9, <1>19, <1>20 DEF CallInv
  <2>3. \A i \in Indexes : Written(i)' => CallsOf(i)' # {}
    BY <1>13, <1>19, <1>21 DEF CallInv
  <2>4. \A i \in Indexes : CallIds[i] \in DOMAIN b'.tools => Written(i)'
    BY <1>1, <1>2, <1>7, <1>13, <1>19, IdsDiffer DEF CallInv
  <2>5. emitted' <=> ToolCalls(View') # {}
    BY <1>1, <1>9
  <2>6. CallsInOrder'
    <3>1. ASSUME NEW i \in Indexes, NEW j \in Indexes, i < j,
                 NEW k \in CallsOf(i)', NEW l \in CallsOf(j)'
          PROVE  k < l
      <4>1. CASE j = p
        <5>1. l = n /\ k \in CallsOf(i)  BY <1>21, <3>1, <4>1, IdsDiffer
        <5> QED BY <5>1, <1>9 DEF CallsOf
      <4>2. CASE i = p
        BY <1>21, <1>22, <3>1, <4>2, IdsDiffer
      <4>3. CASE i # p /\ j # p
        BY <1>19, <1>21, <3>1, <4>3 DEF CallInv, CallsInOrder
      <4> QED BY <4>1, <4>2, <4>3
    <3> QED BY <3>1 DEF CallsInOrder
  <2> QED BY <2>1, <2>2, <2>3, <2>4, <2>5, <2>6 DEF CallInv
<1> QED BY <1>15, <1>16, <1>17, <1>18, <1>23 DEF ChatInv

-----------------------------------------------------------------------------
(* Theorems *)

\* Every step keeps the strengthening.
LEMMA NextInv == ChatInv /\ [Next]_vars => ChatInv'
<1> SUFFICES ASSUME ChatInv, [Next]_vars PROVE ChatInv'
  OBVIOUS
<1>1. CASE Begin \/ Rejected \/ PostDelayed \/ PostAgain \/ PostAccepted \/ PostFails
  BY <1>1, BeginInv, RejectedInv, PostStepsInv, FailsInv
<1>2. CASE Content \/ Reasoning \/ FinishReason
  BY <1>2, TextInv, FinishReasonInv
<1>3. ASSUME NEW i \in Indexes, Fragment(i) PROVE ChatInv'
  BY <1>3, FragmentInv
<1>4. CASE EmitNext \/ Emitted
  BY <1>4, SkipInv, WriteInv, EmittedInv
<1>5. CASE BodyEnds \/ MessageEnds \/ StreamFails
  BY <1>5, BodyEndsInv, MessageEndsInv, FailsInv
<1>6. CASE UNCHANGED vars
  <2> USE <1>6 DEF vars
  <2>1. LocalsOK' /\ BuilderInv' /\ ReasonAgrees'
    BY DEF ChatInv, LocalsOK, BuilderInv, ReasonAgrees, View
  <2>2. TrackInv'
    BY DEF ChatInv, TrackInv, Gathered
  <2>3. PhaseInv'
    BY SameTracks DEF ChatInv, PhaseInv
  <2>4. CallInv'
    BY KeepsCalls DEF View, MayBeWritten
  <2> QED BY <2>1, <2>2, <2>3, <2>4 DEF ChatInv
<1> QED BY <1>1, <1>2, <1>3, <1>4, <1>5, <1>6 DEF Next

\* The strengthening is an invariant.
LEMMA Streams == Spec => []ChatInv
BY InitInv, NextInv, PTL DEF Spec

\* Types of the adapter's state and of the builder's.
THEOREM Types == Spec => []TypeOK
<1>1. ChatInv => TypeOK
  <2> SUFFICES ASSUME ChatInv PROVE TypeOK
    OBVIOUS
  <2>1. b \in Builders(Ids, Args)
    BY DEF ChatInv, BuilderInv, Sound
  <2>2. DOMAIN b.tools \subseteq Ids
    BY <2>1 DEF Builders, ToolMaps
  <2> QED BY <2>1, <2>2 DEF ChatInv, LocalsOK, Tracks, Progress, TypeOK, Builders, Reasons, Ids
<1> QED BY <1>1, Streams, PTL

\* Whatever fragments, text, retries and failures there are, the client reads a
\* well-formed message, which ends once (chat.go, and http.go's post).
THEOREM WellFormedMessage == Spec => []WellFormed
<1>1. ChatInv => WellFormed
  <2> SUFFICES ASSUME ChatInv PROVE WellFormed
    OBVIOUS
  <2>1. b.view.ended \in BOOLEAN /\ b.view.error \in BOOLEAN
    BY DEF ChatInv, BuilderInv, Sound, Builders, Views
  <2> QED BY <2>1 DEF ChatInv, BuilderInv, Sound, Ends, WellFormed, View
<1> QED BY <1>1, Streams, PTL

\* No call reaches the client twice or with part of its arguments.
THEOREM WholeCalls == Spec => []CallsWhole
<1>1. ChatInv => CallsWhole
  <2> SUFFICES ASSUME ChatInv, NEW k \in ToolCalls(View)
               PROVE  \E i \in Indexes :
                        /\ CallsOf(i) = {k}
                        /\ \/ /\ sent[i] = "whole" /\ Valid(plan[i])
                              /\ View.content[k].input = <<plan[i]>>
                           \/ /\ sent[i] = "begun" /\ finish \in {"none", "length"}
                              /\ View.content[k].input = <<"empty">>
    BY DEF CallsWhole
  <2>1. PICK i \in Indexes :
          /\ View.content[k].id = CallIds[i]
          /\ View.content[k].input = <<Given(i)>>
          /\ Written(i) /\ MayBeWritten(i)
    BY DEF ChatInv, CallInv
  <2>2. CallsOf(i) = {k}
    BY <2>1 DEF ChatInv, CallInv, CallsOf
  <2> QED BY <2>1, <2>2 DEF Given, MayBeWritten
<1> QED BY <1>1, Streams, PTL

\* No valid call the upstream has sent whole is lost.
THEOREM DeliveredCalls == Spec => []CallsDelivered
<1>1. ChatInv => CallsDelivered
  <2> SUFFICES ASSUME ChatInv, View.ended, ~b.failed,
                      NEW i \in Indexes, sent[i] = "whole", Valid(plan[i])
               PROVE  CallsOf(i) # {}
    BY DEF CallsDelivered
  <2>1. pc = "done"
    BY DEF ChatInv, BuilderInv, Sound, Ends, View
  <2>2. ~Ready(i)
    BY <2>1 DEF ChatInv, PhaseInv, NoneReady
  <2>3. i \in DOMAIN tools /\ tools[i].named /\ tools[i].args = plan[i] /\ plan[i] # "none"
    BY DEF ChatInv, TrackInv, Gathered, LocalsOK, Args
  <2>4. Written(i)
    BY <2>2, <2>3 DEF Ready, Guarded, Written
  <2> QED BY <2>4 DEF ChatInv, CallInv
<1> QED BY <1>1, Streams, PTL

\* The client reads calls in the order of their indexes.
THEOREM OrderedCalls == Spec => []CallsInOrder
<1>1. ChatInv => CallsInOrder
  BY DEF ChatInv, CallInv
<1> QED BY <1>1, Streams, PTL

\* The stop reason, the upstream's reason and the calls agree.
THEOREM ReasonsAgree == Spec => []ReasonAgrees
<1>1. ChatInv => ReasonAgrees
  BY DEF ChatInv
<1> QED BY <1>1, Streams, PTL
=============================================================================
