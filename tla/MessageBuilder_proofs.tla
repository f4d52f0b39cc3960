------------------------ MODULE MessageBuilder_proofs ------------------------
(***************************************************************************)
(* What each method of the builder promises, for the way the adapters use  *)
(* it: a tool block is started, filled and stopped by one event.  A sound  *)
(* builder has written a well-formed message so far, and every method      *)
(* leaves it sound.  The lemmas also say what a method adds to the         *)
(* message's content.                                                      *)
(***************************************************************************)
EXTENDS MessageBuilder, TLAPS

Kinds == {"text", "thinking", "tool_use", "server_tool_use", "result"}

Reasons == {"none", "end_turn", "tool_use", "max_tokens"}

Flaws == {"headless", "twice", "late", "index", "overlap", "closed", "unclosed"}

\* Blocks of calls in Ids with arguments in Args.
BlockSet(Ids, Args) == [kind : Kinds, id : Ids \cup {"none"}, input : Seq(Args)]

Views(Ids, Args) ==
  [begun : BOOLEAN, content : Seq(BlockSet(Ids, Args)), open : SUBSET Nat,
   reason : Reasons, ended : BOOLEAN, error : BOOLEAN, flaws : SUBSET Flaws]

ToolMaps(Ids) == UNION {[D -> [index : Nat, open : BOOLEAN]] : D \in SUBSET Ids}

Builders(Ids, Args) ==
  [started : BOOLEAN, next : Nat, text : Nat \cup {NoBlock},
   thinking : Nat \cup {NoBlock},
   tools : ToolMaps(Ids), content : BOOLEAN, reason : Reasons,
   finished : BOOLEAN, failed : BOOLEAN, view : Views(Ids, Args)]

\* The builder's bookkeeping agrees with what the client has read.
Agrees(m) ==
  /\ m.next = Len(m.view.content)
  /\ m.text < m.next /\ m.thinking < m.next
  /\ m.text = NoBlock \/ m.thinking = NoBlock
  /\ m.view.open = {m.text, m.thinking} \ {NoBlock}
  /\ OpenTools(m) = {}
  /\ m.started <=> m.view.begun
  /\ m.content <=> m.view.content # <<>>
  /\ ~m.started => m.view.content = <<>>

\* The message ends when the builder is finished, once, all blocks stopped.
Ends(m) ==
  /\ m.finished <=> (m.view.ended \/ m.view.error)
  /\ ~(m.view.ended /\ m.view.error)
  /\ m.finished => m.view.open = {}

Sound(m, Ids, Args) ==
  /\ m \in Builders(Ids, Args)
  /\ Agrees(m)
  /\ Ends(m)
  /\ m.view.flaws \subseteq If(~m.started, "headless")
  /\ ~m.finished => m.view.flaws = {}

Live(m, Ids, Args) == Sound(m, Ids, Args) /\ m.started /\ ~m.finished

\* n is m but for which blocks are open, and the events that say so.
SameContent(m, n) ==
  /\ n.view.content = m.view.content
  /\ n.tools = m.tools /\ n.failed = m.failed /\ n.reason = m.reason

\* n has at most one block of text or thinking more than m.
AddsText(m, n) ==
  /\ \/ n.view.content = m.view.content
     \/ \E k \in {"text", "thinking"} :
          n.view.content = Append(m.view.content, Block(k, "none", <<>>))
  /\ n.tools = m.tools /\ n.failed = m.failed /\ n.reason = m.reason

-----------------------------------------------------------------------------

\* A new builder is sound.
LEMMA NewSound ==
  ASSUME NEW Ids, NEW Args
  PROVE  Sound(NewBuilder, Ids, Args)
<1>1. NewBuilder.tools \in [{} -> [index : Nat, open : BOOLEAN]]
  BY DEF NewBuilder
<1>2. Unread \in Views(Ids, Args)
  BY DEF Unread, Views, Reasons
<1>3. NewBuilder \in Builders(Ids, Args)
  BY <1>1, <1>2 DEF NewBuilder, Builders, ToolMaps, NoBlock, Reasons
<1>4. Agrees(NewBuilder)
  BY DEF Agrees, NewBuilder, Unread, NoBlock, OpenTools
<1>5. Ends(NewBuilder) /\ NewBuilder.view.flaws = {}
  BY DEF Ends, NewBuilder, Unread
<1> QED BY <1>3, <1>4, <1>5 DEF Sound

\* Start writes message_start unless it has been written.
LEMMA StartSound ==
  ASSUME NEW Ids, NEW Args, NEW m, Sound(m, Ids, Args), ~m.finished
  PROVE  Live(Start(m), Ids, Args) /\ SameContent(m, Start(m))
<1>1. CASE m.started
  BY <1>1 DEF Start, Live, SameContent
<1>2. CASE ~m.started
  <2> DEFINE n == Start(m)
  <2>1. n = [m EXCEPT !.started = TRUE, !.view = MessageStart(m.view)]
    BY <1>2 DEF Start
  <2>2. m.view \in Views(Ids, Args) /\ m \in Builders(Ids, Args)
    BY DEF Sound, Builders
  <2>3. /\ n.started = TRUE /\ n.view = MessageStart(m.view)
        /\ n.next = m.next /\ n.text = m.text /\ n.thinking = m.thinking
        /\ n.tools = m.tools /\ n.content = m.content /\ n.reason = m.reason
        /\ n.finished = m.finished /\ n.failed = m.failed
    BY <2>1, <2>2 DEF Builders
  <2>4. ~m.view.begun /\ ~m.view.ended /\ ~m.view.error
    BY <1>2 DEF Sound, Agrees, Ends
  <2>5. MessageStart(m.view) = [m.view EXCEPT !.begun = TRUE, !.flaws = m.view.flaws]
    BY <2>4 DEF MessageStart, If, Over
  <2>6. /\ MessageStart(m.view) \in Views(Ids, Args)
        /\ n.view.begun = TRUE /\ n.view.flaws = m.view.flaws
        /\ n.view.content = m.view.content /\ n.view.open = m.view.open
        /\ n.view.ended = m.view.ended /\ n.view.error = m.view.error
    BY <2>2, <2>3, <2>5 DEF Views
  <2>7. n \in Builders(Ids, Args)
    BY <2>1, <2>2, <2>6 DEF Builders
  <2>8. Agrees(n)
    BY <1>2, <2>3, <2>6 DEF Sound, Agrees, OpenTools
  <2>9. Ends(n) /\ n.view.flaws = {}
    BY <2>3, <2>6 DEF Sound, Ends
  <2> QED BY <2>3, <2>6, <2>7, <2>8, <2>9 DEF Sound, Live, SameContent
<1> QED BY <1>1, <1>2

\* closeThinking stops the thinking block if one is open.
LEMMA CloseThinkingSound ==
  ASSUME NEW Ids, NEW Args, NEW m, Live(m, Ids, Args)
  PROVE  LET n == CloseThinking(m)
         IN  /\ Live(n, Ids, Args) /\ SameContent(m, n)
             /\ n.thinking = NoBlock /\ n.text = m.text
<1> DEFINE n == CloseThinking(m)
<1>1. CASE m.thinking = NoBlock
  BY <1>1 DEF CloseThinking, SameContent
<1>2. CASE m.thinking # NoBlock
  <2>1. n = [m EXCEPT !.thinking = NoBlock, !.view = BlockStop(m.view, m.thinking)]
    BY <1>2 DEF CloseThinking
  <2>2. m.view \in Views(Ids, Args) /\ m \in Builders(Ids, Args)
    BY DEF Live, Sound, Builders
  <2>3. /\ n.thinking = NoBlock /\ n.view = BlockStop(m.view, m.thinking)
        /\ n.next = m.next /\ n.text = m.text /\ n.started = m.started
        /\ n.tools = m.tools /\ n.content = m.content /\ n.reason = m.reason
        /\ n.finished = m.finished /\ n.failed = m.failed
    BY <2>1, <2>2 DEF Builders
  <2>4. /\ m.view.begun /\ ~m.view.ended /\ ~m.view.error
        /\ m.thinking \in m.view.open /\ m.text = NoBlock
        /\ m.view.open = {m.thinking}
    BY <1>2 DEF Live, Sound, Agrees, Ends
  <2>5. BlockStop(m.view, m.thinking) = [m.view EXCEPT !.open = {}, !.flaws = m.view.flaws]
    BY <2>4 DEF BlockStop, Misplaced, If, Over
  <2>6. /\ BlockStop(m.view, m.thinking) \in Views(Ids, Args)
        /\ n.view.begun = m.view.begun /\ n.view.flaws = m.view.flaws
        /\ n.view.content = m.view.content /\ n.view.open = {}
        /\ n.view.ended = m.view.ended /\ n.view.error = m.view.error
    BY <2>2, <2>3, <2>5 DEF Views
  <2>7. n \in Builders(Ids, Args)
    BY <2>1, <2>2, <2>6 DEF Builders
  <2>8. Agrees(n)
    BY <2>2, <2>3, <2>4, <2>6 DEF Live, Sound, Agrees, OpenTools, NoBlock, Builders
  <2>9. Ends(n) /\ n.view.flaws = {}
    BY <2>3, <2>6 DEF Live, Sound, Ends
  <2> QED BY <2>3, <2>6, <2>7, <2>8, <2>9 DEF Live, Sound, SameContent
<1> QED BY <1>1, <1>2

\* closeText stops the text block if one is open.
LEMMA CloseTextSound ==
  ASSUME NEW Ids, NEW Args, NEW m, Live(m, Ids, Args)
  PROVE  LET n == CloseText(m)
         IN  /\ Live(n, Ids, Args) /\ SameContent(m, n)
             /\ n.text = NoBlock /\ n.thinking = m.thinking
<1> DEFINE n == CloseText(m)
<1>1. CASE m.text = NoBlock
  BY <1>1 DEF CloseText, SameContent
<1>2. CASE m.text # NoBlock
  <2>1. n = [m EXCEPT !.text = NoBlock, !.view = BlockStop(m.view, m.text)]
    BY <1>2 DEF CloseText
  <2>2. m.view \in Views(Ids, Args) /\ m \in Builders(Ids, Args)
    BY DEF Live, Sound, Builders
  <2>3. /\ n.text = NoBlock /\ n.view = BlockStop(m.view, m.text)
        /\ n.next = m.next /\ n.thinking = m.thinking /\ n.started = m.started
        /\ n.tools = m.tools /\ n.content = m.content /\ n.reason = m.reason
        /\ n.finished = m.finished /\ n.failed = m.failed
    BY <2>1, <2>2 DEF Builders
  <2>4. /\ m.view.begun /\ ~m.view.ended /\ ~m.view.error
        /\ m.text \in m.view.open /\ m.thinking = NoBlock
        /\ m.view.open = {m.text}
    BY <1>2 DEF Live, Sound, Agrees, Ends
  <2>5. BlockStop(m.view, m.text) = [m.view EXCEPT !.open = {}, !.flaws = m.view.flaws]
    BY <2>4 DEF BlockStop, Misplaced, If, Over
  <2>6. /\ BlockStop(m.view, m.text) \in Views(Ids, Args)
        /\ n.view.begun = m.view.begun /\ n.view.flaws = m.view.flaws
        /\ n.view.content = m.view.content /\ n.view.open = {}
        /\ n.view.ended = m.view.ended /\ n.view.error = m.view.error
    BY <2>2, <2>3, <2>5 DEF Views
  <2>7. n \in Builders(Ids, Args)
    BY <2>1, <2>2, <2>6 DEF Builders
  <2>8. Agrees(n)
    BY <2>2, <2>3, <2>4, <2>6 DEF Live, Sound, Agrees, OpenTools, NoBlock, Builders
  <2>9. Ends(n) /\ n.view.flaws = {}
    BY <2>3, <2>6 DEF Live, Sound, Ends
  <2> QED BY <2>3, <2>6, <2>7, <2>8, <2>9 DEF Live, Sound, SameContent
<1> QED BY <1>1, <1>2

\* Both are closed before a tool block starts and when the message ends.
LEMMA CloseContentSound ==
  ASSUME NEW Ids, NEW Args, NEW m, Live(m, Ids, Args)
  PROVE  LET n == CloseContent(m)
         IN  /\ Live(n, Ids, Args) /\ SameContent(m, n)
             /\ n.text = NoBlock /\ n.thinking = NoBlock
<1> DEFINE t == CloseText(m)
           n == CloseThinking(t)
<1>1. Live(t, Ids, Args) /\ SameContent(m, t) /\ t.text = NoBlock
  BY CloseTextSound
<1>2. /\ Live(n, Ids, Args) /\ SameContent(t, n)
      /\ n.thinking = NoBlock /\ n.text = t.text
  BY <1>1, CloseThinkingSound
<1> QED BY <1>1, <1>2 DEF CloseContent, SameContent

\* A block that starts at the next index while none is open.
LEMMA BlockStartView ==
  ASSUME NEW Ids, NEW Args, NEW v \in Views(Ids, Args),
         v.begun, ~v.ended, ~v.error, v.open = {},
         NEW kind \in Kinds, NEW id \in Ids \cup {"none"}
  PROVE  LET w == BlockStart(v, Len(v.content), kind, id)
         IN  /\ w \in Views(Ids, Args)
             /\ w.content = Append(v.content, Block(kind, id, <<>>))
             /\ Len(w.content) = Len(v.content) + 1
             /\ w.open = {Len(v.content)} /\ w.flaws = v.flaws
             /\ w.begun /\ ~w.ended /\ ~w.error
<1> DEFINE blk == Block(kind, id, <<>>)
           c == Append(v.content, blk)
<1>1. blk \in BlockSet(Ids, Args)
  BY DEF Block, BlockSet
<1>2. v.content \in Seq(BlockSet(Ids, Args))
  BY DEF Views
<1>3. c \in Seq(BlockSet(Ids, Args)) /\ Len(c) = Len(v.content) + 1
  BY <1>1, <1>2
<1>4. Len(v.content) \in Nat
  BY <1>2
<1>5. BlockStart(v, Len(v.content), kind, id)
        = [v EXCEPT !.content = c, !.open = {Len(v.content)}, !.flaws = v.flaws]
  BY DEF BlockStart, Misplaced, If, Over, Views
<1> HIDE DEF c
<1>6. [v EXCEPT !.content = c, !.open = {Len(v.content)}, !.flaws = v.flaws]
        \in Views(Ids, Args)
  BY <1>3, <1>4 DEF Views
<1> QED BY <1>3, <1>5, <1>6 DEF Views, c

\* EnsureThinking leaves a thinking block open, a new one unless there is one.
LEMMA EnsureThinkingSound ==
  ASSUME NEW Ids, NEW Args, NEW m, Live(m, Ids, Args)
  PROVE  LET n == EnsureThinking(m)
         IN  Live(n, Ids, Args) /\ AddsText(m, n) /\ n.thinking # NoBlock
<1> DEFINE n == EnsureThinking(m)
<1>1. CASE m.thinking # NoBlock
  BY <1>1 DEF EnsureThinking, AddsText
<1>2. CASE m.thinking = NoBlock
  <2> DEFINE t == CloseText(m)
             w == BlockStart(t.view, t.next, "thinking", "none")
  <2>1. /\ Live(t, Ids, Args) /\ SameContent(m, t)
        /\ t.thinking = NoBlock /\ t.text = NoBlock
    BY <1>2, CloseTextSound
  <2>2. n = [t EXCEPT !.content = TRUE, !.thinking = t.next, !.next = t.next + 1, !.view = w]
    BY <1>2 DEF EnsureThinking
  <2> HIDE DEF t
  <2>3. t \in Builders(Ids, Args) /\ t.view \in Views(Ids, Args)
    BY <2>1 DEF Live, Sound, Builders
  <2>4. /\ t.view.begun /\ ~t.view.ended /\ ~t.view.error
        /\ t.view.open = {} /\ t.next = Len(t.view.content) /\ t.next \in Nat
    BY <2>1, <2>3 DEF Live, Sound, Agrees, Ends, Builders
  <2>5. /\ w \in Views(Ids, Args)
        /\ w.content = Append(t.view.content, Block("thinking", "none", <<>>))
        /\ Len(w.content) = t.next + 1
        /\ w.open = {t.next} /\ w.flaws = t.view.flaws
        /\ w.begun /\ ~w.ended /\ ~w.error
    BY <2>3, <2>4, BlockStartView DEF Kinds
  <2> HIDE DEF w
  <2>6. /\ n.thinking = t.next /\ n.view = w /\ n.next = t.next + 1
        /\ n.text = t.text /\ n.started = t.started
        /\ n.tools = t.tools /\ n.content = TRUE /\ n.reason = t.reason
        /\ n.finished = t.finished /\ n.failed = t.failed
    BY <2>2, <2>3 DEF Builders
  <2>7. n \in Builders(Ids, Args)
    <3>1. t.next + 1 \in Nat /\ t.next \in Nat \cup {NoBlock}
      BY <2>4
    <3> QED BY <2>2, <2>3, <2>5, <3>1 DEF Builders
  <2>8. w.content # <<>>
    BY <2>4, <2>5
  <2>9. Agrees(n)
    BY <2>1, <2>4, <2>5, <2>6, <2>8 DEF Live, Sound, Agrees, OpenTools, NoBlock
  <2>10. Ends(n) /\ n.view.flaws = {}
    BY <2>1, <2>5, <2>6 DEF Live, Sound, Ends
  <2>11. AddsText(m, n)
    BY <2>1, <2>5, <2>6 DEF SameContent, AddsText
  <2>12. n.thinking # NoBlock
    BY <2>4, <2>6 DEF NoBlock
  <2> QED BY <2>1, <2>6, <2>7, <2>9, <2>10, <2>11, <2>12 DEF Live, Sound
<1> QED BY <1>1, <1>2

\* A delta goes to the open thinking block.
LEMMA EmitThinkingSound ==
  ASSUME NEW Ids, NEW Args, NEW m, Live(m, Ids, Args)
  PROVE  LET n == EmitThinking(m) IN Live(n, Ids, Args) /\ AddsText(m, n)
<1> DEFINE t == EnsureThinking(m)
           n == EmitThinking(m)
<1>1. Live(t, Ids, Args) /\ AddsText(m, t) /\ t.thinking # NoBlock
  BY EnsureThinkingSound
<1>2. n = [t EXCEPT !.view = BlockDelta(t.view, t.thinking)]
  BY DEF EmitThinking
<1> HIDE DEF t
<1>3. t \in Builders(Ids, Args) /\ t.view \in Views(Ids, Args)
  BY <1>1 DEF Live, Sound, Builders
<1>4. t.view.begun /\ ~t.view.ended /\ ~t.view.error /\ t.thinking \in t.view.open
  BY <1>1 DEF Live, Sound, Agrees, Ends
<1>5. BlockDelta(t.view, t.thinking) = t.view
  BY <1>3, <1>4 DEF BlockDelta, Misplaced, If, Over, Views
<1>6. n = t
  BY <1>2, <1>3, <1>5 DEF Builders
<1> QED BY <1>1, <1>6

\* EnsureText leaves a text block open, a new one unless there is one.
LEMMA EnsureTextSound ==
  ASSUME NEW Ids, NEW Args, NEW m, Live(m, Ids, Args)
  PROVE  LET n == EnsureText(m)
         IN  Live(n, Ids, Args) /\ AddsText(m, n) /\ n.text # NoBlock
<1> DEFINE n == EnsureText(m)
<1>1. CASE m.text # NoBlock
  BY <1>1 DEF EnsureText, AddsText
<1>2. CASE m.text = NoBlock
  <2> DEFINE t == CloseThinking(m)
             w == BlockStart(t.view, t.next, "text", "none")
  <2>1. /\ Live(t, Ids, Args) /\ SameContent(m, t)
        /\ t.text = NoBlock /\ t.thinking = NoBlock
    BY <1>2, CloseThinkingSound
  <2>2. n = [t EXCEPT !.content = TRUE, !.text = t.next, !.next = t.next + 1, !.view = w]
    BY <1>2 DEF EnsureText
  <2> HIDE DEF t
  <2>3. t \in Builders(Ids, Args) /\ t.view \in Views(Ids, Args)
    BY <2>1 DEF Live, Sound, Builders
  <2>4. /\ t.view.begun /\ ~t.view.ended /\ ~t.view.error
        /\ t.view.open = {} /\ t.next = Len(t.view.content) /\ t.next \in Nat
    BY <2>1, <2>3 DEF Live, Sound, Agrees, Ends, Builders
  <2>5. /\ w \in Views(Ids, Args)
        /\ w.content = Append(t.view.content, Block("text", "none", <<>>))
        /\ Len(w.content) = t.next + 1
        /\ w.open = {t.next} /\ w.flaws = t.view.flaws
        /\ w.begun /\ ~w.ended /\ ~w.error
    BY <2>3, <2>4, BlockStartView DEF Kinds
  <2> HIDE DEF w
  <2>6. /\ n.text = t.next /\ n.view = w /\ n.next = t.next + 1
        /\ n.thinking = t.thinking /\ n.started = t.started
        /\ n.tools = t.tools /\ n.content = TRUE /\ n.reason = t.reason
        /\ n.finished = t.finished /\ n.failed = t.failed
    BY <2>2, <2>3 DEF Builders
  <2>7. n \in Builders(Ids, Args)
    <3>1. t.next + 1 \in Nat /\ t.next \in Nat \cup {NoBlock}
      BY <2>4
    <3> QED BY <2>2, <2>3, <2>5, <3>1 DEF Builders
  <2>8. w.content # <<>>
    BY <2>4, <2>5
  <2>9. Agrees(n)
    BY <2>1, <2>4, <2>5, <2>6, <2>8 DEF Live, Sound, Agrees, OpenTools, NoBlock
  <2>10. Ends(n) /\ n.view.flaws = {}
    BY <2>1, <2>5, <2>6 DEF Live, Sound, Ends
  <2>11. AddsText(m, n)
    BY <2>1, <2>5, <2>6 DEF SameContent, AddsText
  <2>12. n.text # NoBlock
    BY <2>4, <2>6 DEF NoBlock
  <2> QED BY <2>1, <2>6, <2>7, <2>9, <2>10, <2>11, <2>12 DEF Live, Sound
<1> QED BY <1>1, <1>2

\* A delta goes to the open text block.
LEMMA EmitTextSound ==
  ASSUME NEW Ids, NEW Args, NEW m, Live(m, Ids, Args)
  PROVE  LET n == EmitText(m) IN Live(n, Ids, Args) /\ AddsText(m, n)
<1> DEFINE t == EnsureText(m)
           n == EmitText(m)
<1>1. Live(t, Ids, Args) /\ AddsText(m, t) /\ t.text # NoBlock
  BY EnsureTextSound
<1>2. n = [t EXCEPT !.view = BlockDelta(t.view, t.text)]
  BY DEF EmitText
<1> HIDE DEF t
<1>3. t \in Builders(Ids, Args) /\ t.view \in Views(Ids, Args)
  BY <1>1 DEF Live, Sound, Builders
<1>4. t.view.begun /\ ~t.view.ended /\ ~t.view.error /\ t.text \in t.view.open
  BY <1>1 DEF Live, Sound, Agrees, Ends
<1>5. BlockDelta(t.view, t.text) = t.view
  BY <1>3, <1>4 DEF BlockDelta, Misplaced, If, Over, Views
<1>6. n = t
  BY <1>2, <1>3, <1>5 DEF Builders
<1> QED BY <1>1, <1>6

\* The input of a sequence's last block replaced.
LEMMA LastInput ==
  ASSUME NEW Ids, NEW Args, NEW s \in Seq(BlockSet(Ids, Args)),
         NEW kind \in Kinds, NEW id \in Ids, NEW x \in Args
  PROVE  Extended(Append(s, Block(kind, id, <<>>)), Len(s), x)
           = Append(s, Block(kind, id, <<x>>))
<1> DEFINE c == Append(s, Block(kind, id, <<>>))
           d == [c EXCEPT ![Len(s) + 1].input = Append(@, x)]
           e == Append(s, Block(kind, id, <<x>>))
<1>1. /\ Block(kind, id, <<>>) \in BlockSet(Ids, Args)
      /\ Block(kind, id, <<x>>) \in BlockSet(Ids, Args)
  BY DEF Block, BlockSet
<1>2. /\ c \in Seq(BlockSet(Ids, Args)) /\ e \in Seq(BlockSet(Ids, Args))
      /\ Len(c) = Len(s) + 1 /\ Len(e) = Len(s) + 1 /\ Len(s) \in Nat
      /\ DOMAIN c = 1 .. (Len(s) + 1) /\ DOMAIN e = 1 .. (Len(s) + 1)
      /\ \A i \in 1 .. Len(s) : c[i] = s[i] /\ e[i] = s[i]
      /\ c[Len(s) + 1] = Block(kind, id, <<>>)
      /\ e[Len(s) + 1] = Block(kind, id, <<x>>)
  BY <1>1
<1>3. [Block(kind, id, <<>>) EXCEPT !.input = Append(@, x)] = Block(kind, id, <<x>>)
  <2>1. Append(<<>>, x) = <<x>>
    OBVIOUS
  <2>2. [Block(kind, id, <<>>) EXCEPT !.input = <<x>>] = Block(kind, id, <<x>>)
    BY DEF Block
  <2> QED BY <2>1, <2>2 DEF Block
<1> DEFINE L == Len(s) + 1
           B == BlockSet(Ids, Args)
<1>4. c \in [1 .. L -> B] /\ e \in [1 .. L -> B] /\ L \in 1 .. L
  <2> HIDE DEF c, e
  <2> QED BY <1>2
<1>5. d = [c EXCEPT ![L] = Block(kind, id, <<x>>)]
  BY <1>2, <1>3
<1>6. d \in [1 .. L -> B]
  BY <1>1, <1>4, <1>5
<1>7. \A i \in 1 .. L : d[i] = e[i]
  <2> TAKE i \in 1 .. L
  <2>1. CASE i = L
    BY <2>1, <1>2, <1>4, <1>5
  <2>2. CASE i # L
    <3>1. d[i] = c[i]
      BY <2>2, <1>4, <1>5
    <3>2. i \in 1 .. Len(s)
      BY <2>2, <1>2
    <3> QED BY <3>1, <3>2, <1>2
  <2> QED BY <2>1, <2>2
<1>8. d = e
  <2> HIDE DEF c, d, e, L
  <2> QED BY <1>4, <1>6, <1>7
<1> QED BY <1>8 DEF Extended

\* A call not seen before becomes one more block, whole and stopped.
LEMMA WholeToolSound ==
  ASSUME NEW Ids, NEW Args, NEW m, Live(m, Ids, Args),
         NEW kind \in {"tool_use", "server_tool_use"}, NEW id \in Ids, NEW x \in Args,
         id \notin DOMAIN m.tools
  PROVE  LET n == WholeTool(m, kind, id, x)
         IN  /\ Live(n, Ids, Args)
             /\ n.view.content = Append(m.view.content, Block(kind, id, <<x>>))
             /\ DOMAIN n.tools = DOMAIN m.tools \cup {id}
             /\ n.failed = m.failed /\ n.reason = m.reason
<1> DEFINE t == CloseContent(m)
           T == [c \in DOMAIN t.tools \cup {id} |->
                   IF c = id THEN [index |-> t.next, open |-> TRUE] ELSE t.tools[c]]
           v == BlockStart(t.view, t.next, kind, id)
           p == StartTool(m, kind, id)
           q == EmitToolInput(p, id, x)
           n == StopTool(q, id)
           whole == Append(t.view.content, Block(kind, id, <<x>>))
<1>1. /\ Live(t, Ids, Args) /\ SameContent(m, t)
      /\ t.text = NoBlock /\ t.thinking = NoBlock
  BY CloseContentSound
<1>2. id \notin DOMAIN t.tools /\ id \notin OpenTools(t)
  BY <1>1 DEF SameContent, OpenTools
<1>3. p = [t EXCEPT !.content = TRUE, !.next = t.next + 1, !.tools = T, !.view = v]
  BY <1>2 DEF StartTool
<1> HIDE DEF t, p
<1>4. t \in Builders(Ids, Args) /\ t.view \in Views(Ids, Args)
  BY <1>1 DEF Live, Sound, Builders
<1>5. /\ t.view.begun /\ ~t.view.ended /\ ~t.view.error /\ t.view.flaws = {}
      /\ t.view.open = {} /\ t.next = Len(t.view.content) /\ t.next \in Nat
      /\ t.started /\ ~t.finished /\ OpenTools(t) = {}
  BY <1>1, <1>4 DEF Live, Sound, Agrees, Ends, Builders
<1>6. /\ v \in Views(Ids, Args)
      /\ v.content = Append(t.view.content, Block(kind, id, <<>>))
      /\ Len(v.content) = t.next + 1
      /\ v.open = {t.next} /\ v.flaws = {} /\ v.begun /\ ~v.ended /\ ~v.error
  BY <1>4, <1>5, BlockStartView, SMTT(60) DEF Kinds
<1> HIDE DEF v
<1>7. /\ p.tools = T /\ p.view = v /\ p.next = t.next + 1 /\ p.content = TRUE
      /\ p.text = NoBlock /\ p.thinking = NoBlock /\ p.started = t.started
      /\ p.finished = t.finished /\ p.failed = t.failed /\ p.reason = t.reason
  BY <1>1, <1>3, <1>4 DEF Builders
<1>8. T \in ToolMaps(Ids) /\ DOMAIN T = DOMAIN t.tools \cup {id}
  <2>1. t.tools \in ToolMaps(Ids)
    BY <1>4 DEF Builders
  <2>2. PICK D \in SUBSET Ids : t.tools \in [D -> [index : Nat, open : BOOLEAN]]
    BY <2>1 DEF ToolMaps
  <2>3. T \in [D \cup {id} -> [index : Nat, open : BOOLEAN]]
    BY <2>2, <1>5
  <2> QED BY <2>3, ZenonT(40) DEF ToolMaps
<1>9. T[id] = [index |-> t.next, open |-> TRUE]
  OBVIOUS
<1>10. OpenTools(p) = {id}
  BY <1>5, <1>7, <1>9 DEF OpenTools
<1>11. p \in Builders(Ids, Args)
  <2>1. t.next + 1 \in Nat
    BY <1>5
  <2> HIDE DEF T
  <2> QED BY <1>3, <1>4, <1>6, <1>8, <2>1 DEF Builders
<1>12. q = [p EXCEPT !.view = InputDelta(v, t.next, x)]
  BY <1>7, <1>9, <1>10 DEF EmitToolInput
<1>13. BlockDelta(v, t.next) = v
  BY <1>6 DEF BlockDelta, Misplaced, If, Over, Views
<1>14. InputDelta(v, t.next, x) = [v EXCEPT !.content = whole]
  <2>1. t.view.content \in Seq(BlockSet(Ids, Args))
    BY <1>4 DEF Views
  <2>2. kind \in Kinds
    BY DEF Kinds
  <2> DEFINE c == Append(t.view.content, Block(kind, id, <<>>))
             d == Extended(v.content, t.next, x)
  <2>3. d = whole
    <3>1. Extended(c, Len(t.view.content), x) = whole
      BY <2>1, <2>2, LastInput
    <3>2. v.content = c /\ t.next = Len(t.view.content)
      BY <1>5, <1>6
    <3> QED BY <3>1, <3>2
  <2>4. t.next < Len(v.content)
    BY <1>5, <1>6
  <2>5. InputDelta(v, t.next, x)
          = [v EXCEPT !.content = IF t.next < Len(v.content) THEN d ELSE v.content,
                      !.flaws = BlockDelta(v, t.next).flaws]
    BY DEF InputDelta
  <2> HIDE DEF d, whole
  <2> QED BY <2>3, <2>4, <2>5, <1>6, <1>13 DEF Views
<1>15. whole \in Seq(BlockSet(Ids, Args)) /\ Len(whole) = t.next + 1 /\ whole # <<>>
  <2>1. t.view.content \in Seq(BlockSet(Ids, Args))
    BY <1>4 DEF Views
  <2>2. Block(kind, id, <<x>>) \in BlockSet(Ids, Args)
    BY DEF Block, BlockSet, Kinds
  <2> QED BY <2>1, <2>2, <1>5
<1> HIDE DEF T, q, whole
<1>16. /\ q \in Builders(Ids, Args)
       /\ q.view = [v EXCEPT !.content = whole]
       /\ q.tools = T /\ q.next = t.next + 1 /\ q.content = TRUE
       /\ q.text = NoBlock /\ q.thinking = NoBlock /\ q.started = t.started
       /\ q.finished = t.finished /\ q.failed = t.failed /\ q.reason = t.reason
  <2>1. [v EXCEPT !.content = whole] \in Views(Ids, Args)
    BY <1>6, <1>15 DEF Views
  <2>2. q = [p EXCEPT !.view = [v EXCEPT !.content = whole]]
    BY <1>12, <1>14
  <2> QED BY <2>1, <2>2, <1>7, <1>11 DEF Builders
<1>17. OpenTools(q) = {id}
  BY <1>7, <1>10, <1>16 DEF OpenTools
<1>18. /\ q.view \in Views(Ids, Args)
       /\ q.view.content = whole /\ q.view.open = {t.next} /\ q.view.flaws = {}
       /\ q.view.begun /\ ~q.view.ended /\ ~q.view.error
  BY <1>6, <1>15, <1>16 DEF Views
<1>19. n = [q EXCEPT !.tools[id].open = FALSE, !.view = BlockStop(q.view, t.next)]
  <2>1. q.tools[id].index = t.next
    BY <1>9, <1>16
  <2> QED BY <2>1, <1>17 DEF StopTool
<1>20. BlockStop(q.view, t.next) = [q.view EXCEPT !.open = {}, !.flaws = {}]
  BY <1>18 DEF BlockStop, Misplaced, If, Over
<1> DEFINE w == [q.view EXCEPT !.open = {}, !.flaws = {}]
           U == [T EXCEPT ![id].open = FALSE]
<1>21. /\ w \in Views(Ids, Args) /\ w.content = whole /\ w.open = {} /\ w.flaws = {}
       /\ w.begun /\ ~w.ended /\ ~w.error
  BY <1>18 DEF Views
<1>22. /\ U \in ToolMaps(Ids) /\ DOMAIN U = DOMAIN T
       /\ U[id].open = FALSE /\ \A c \in DOMAIN T : c # id => U[c] = T[c]
  <2>1. PICK D \in SUBSET Ids : T \in [D -> [index : Nat, open : BOOLEAN]]
    BY <1>8 DEF ToolMaps
  <2>2. id \in D
    BY <2>1, <1>8
  <2>3. U \in [D -> [index : Nat, open : BOOLEAN]]
    BY <2>1, <2>2
  <2> QED BY <2>1, <2>2, <2>3 DEF ToolMaps
<1>23. n = [q EXCEPT !.tools = U, !.view = w]
  BY <1>16, <1>19, <1>20
<1> HIDE DEF w, U
<1>24. /\ n \in Builders(Ids, Args)
       /\ n.view = w /\ n.tools = U /\ n.next = t.next + 1 /\ n.content = TRUE
       /\ n.text = NoBlock /\ n.thinking = NoBlock /\ n.started = t.started
       /\ n.finished = t.finished /\ n.failed = t.failed /\ n.reason = t.reason
  BY <1>16, <1>21, <1>22, <1>23 DEF Builders
<1>25. OpenTools(n) = {}
  <2>1. \A c \in DOMAIN T : ~U[c].open
    <3> TAKE c \in DOMAIN T
    <3>1. c # id => c \notin OpenTools(p)
      BY <1>10
    <3> QED BY <3>1, <1>7, <1>22 DEF OpenTools
  <2> QED BY <2>1, <1>22, <1>24 DEF OpenTools
<1>26. Agrees(n)
  BY <1>5, <1>15, <1>21, <1>24, <1>25 DEF Agrees, NoBlock
<1>27. Ends(n)
  BY <1>5, <1>21, <1>24 DEF Ends
<1>28. Live(n, Ids, Args)
  BY <1>5, <1>21, <1>24, <1>26, <1>27 DEF Live, Sound
<1>29. /\ n.view.content = Append(m.view.content, Block(kind, id, <<x>>))
       /\ DOMAIN n.tools = DOMAIN m.tools \cup {id}
       /\ n.failed = m.failed /\ n.reason = m.reason
  BY <1>1, <1>8, <1>21, <1>22, <1>24 DEF SameContent, whole
<1> QED BY <1>28, <1>29 DEF WholeTool, n, q, p

\* The result of a server tool is one more block, stopped at once.
LEMMA ServerToolResultSound ==
  ASSUME NEW Ids, NEW Args, NEW m, Live(m, Ids, Args), NEW id \in Ids
  PROVE  LET n == EmitServerToolResult(m, id)
         IN  /\ Live(n, Ids, Args)
             /\ n.view.content = Append(m.view.content, Block("result", id, <<>>))
             /\ n.tools = m.tools /\ n.failed = m.failed /\ n.reason = m.reason
<1> DEFINE t == CloseContent(m)
           v == BlockStart(t.view, t.next, "result", id)
           w == BlockStop(v, t.next)
           n == EmitServerToolResult(m, id)
<1>1. /\ Live(t, Ids, Args) /\ SameContent(m, t)
      /\ t.text = NoBlock /\ t.thinking = NoBlock
  BY CloseContentSound
<1> HIDE DEF t
<1>2. t \in Builders(Ids, Args) /\ t.view \in Views(Ids, Args)
  BY <1>1 DEF Live, Sound, Builders
<1>3. /\ t.view.begun /\ ~t.view.ended /\ ~t.view.error /\ t.view.flaws = {}
      /\ t.view.open = {} /\ t.next = Len(t.view.content) /\ t.next \in Nat
      /\ t.started /\ ~t.finished /\ OpenTools(t) = {}
  BY <1>1, <1>2 DEF Live, Sound, Agrees, Ends, Builders
<1>4. CloseAllTools(t) = t
  BY <1>3 DEF CloseAllTools
<1>5. n = [t EXCEPT !.content = TRUE, !.next = t.next + 1, !.view = w]
  BY <1>4 DEF EmitServerToolResult, t
<1>6. /\ v \in Views(Ids, Args)
      /\ v.content = Append(t.view.content, Block("result", id, <<>>))
      /\ Len(v.content) = t.next + 1
      /\ v.open = {t.next} /\ v.flaws = {} /\ v.begun /\ ~v.ended /\ ~v.error
  BY <1>2, <1>3, BlockStartView DEF Kinds
<1> HIDE DEF v
<1>7. w = [v EXCEPT !.open = {}, !.flaws = {}]
  BY <1>6 DEF BlockStop, Misplaced, If, Over
<1>8. /\ w \in Views(Ids, Args) /\ w.content = v.content /\ w.open = {}
      /\ w.flaws = {} /\ w.begun /\ ~w.ended /\ ~w.error
  BY <1>6, <1>7 DEF Views
<1> HIDE DEF w, n
<1>9. /\ n.view = w /\ n.next = t.next + 1 /\ n.content = TRUE /\ n.tools = t.tools
      /\ n.text = NoBlock /\ n.thinking = NoBlock /\ n.started = t.started
      /\ n.finished = t.finished /\ n.failed = t.failed /\ n.reason = t.reason
  BY <1>1, <1>2, <1>5 DEF Builders
<1>10. n \in Builders(Ids, Args)
  <2>1. t.next + 1 \in Nat
    BY <1>3
  <2> QED BY <1>2, <1>5, <1>8, <2>1 DEF Builders
<1>11. w.content # <<>>
  <2>1. Len(w.content) # 0
    BY <1>3, <1>6, <1>8
  <2> QED BY <2>1
<1>12. Agrees(n)
  BY <1>3, <1>6, <1>8, <1>9, <1>11 DEF Agrees, OpenTools, NoBlock
<1>13. Ends(n)
  BY <1>3, <1>8, <1>9 DEF Ends
<1>14. Live(n, Ids, Args)
  BY <1>3, <1>8, <1>9, <1>10, <1>12, <1>13 DEF Live, Sound
<1>15. /\ n.view.content = Append(m.view.content, Block("result", id, <<>>))
       /\ n.tools = m.tools /\ n.failed = m.failed /\ n.reason = m.reason
  BY <1>1, <1>6, <1>8, <1>9 DEF SameContent
<1> QED BY <1>14, <1>15 DEF n

\* SetStopReason changes nothing the client has read.
LEMMA SetStopReasonSound ==
  ASSUME NEW Ids, NEW Args, NEW m, Live(m, Ids, Args), NEW r \in Reasons
  PROVE  LET n == SetStopReason(m, r)
         IN  /\ Live(n, Ids, Args) /\ n.reason = r /\ n.view = m.view
             /\ n.tools = m.tools /\ n.failed = m.failed
<1> DEFINE n == SetStopReason(m, r)
<1>1. m \in Builders(Ids, Args)
  BY DEF Live, Sound
<1>2. /\ n \in Builders(Ids, Args)
      /\ n.reason = r /\ n.view = m.view /\ n.next = m.next /\ n.content = m.content
      /\ n.text = m.text /\ n.thinking = m.thinking /\ n.started = m.started
      /\ n.tools = m.tools /\ n.finished = m.finished /\ n.failed = m.failed
  BY <1>1 DEF SetStopReason, Builders
<1> HIDE DEF n
<1>3. Agrees(n) /\ Ends(n)
  BY <1>2 DEF Live, Sound, Agrees, Ends, OpenTools
<1> QED BY <1>2, <1>3 DEF Live, Sound, n

\* Finish stops what is open and ends the message; without message_start the
\* end is headless.
LEMMA FinishSound ==
  ASSUME NEW Ids, NEW Args, NEW m, Sound(m, Ids, Args), ~m.finished
  PROVE  LET n == Finish(m)
         IN  /\ Sound(n, Ids, Args) /\ n.finished /\ n.started = m.started
             /\ n.view.content = m.view.content /\ n.view.ended
             /\ n.view.reason = IF m.reason = "none" THEN "end_turn" ELSE m.reason
             /\ n.tools = m.tools /\ n.failed = m.failed
<1> DEFINE t == CloseContent(m)
           r == IF t.reason = "none" THEN "end_turn" ELSE t.reason
           w == MessageEnd(t.view, r)
           n == Finish(m)
<1>1. /\ Sound(t, Ids, Args) /\ SameContent(m, t) /\ ~t.finished
      /\ t.started = m.started /\ t.text = NoBlock /\ t.thinking = NoBlock
  <2>1. CASE m.started
    <3>1. Live(m, Ids, Args)
      BY <2>1 DEF Live
    <3>2. /\ Live(t, Ids, Args) /\ SameContent(m, t)
          /\ t.text = NoBlock /\ t.thinking = NoBlock
      BY <3>1, CloseContentSound
    <3>3. m.started \in BOOLEAN /\ t.started \in BOOLEAN
      BY <3>2 DEF Live, Sound, Builders
    <3> QED BY <3>2, <3>3, <2>1 DEF Live
  <2>2. CASE ~m.started
    <3>1. m.view.content = <<>> /\ m.next = Len(m.view.content)
      BY <2>2 DEF Sound, Agrees
    <3>2. m.text \in Nat \cup {NoBlock} /\ m.thinking \in Nat \cup {NoBlock}
      BY DEF Sound, Builders
    <3>3. m.text = NoBlock /\ m.thinking = NoBlock
      BY <3>1, <3>2 DEF Sound, Agrees, NoBlock
    <3>4. t = m
      BY <3>3 DEF CloseContent, CloseText, CloseThinking
    <3> HIDE DEF t
    <3> QED BY <3>3, <3>4 DEF SameContent
  <2> QED BY <2>1, <2>2
<1> HIDE DEF t
<1>2. t \in Builders(Ids, Args) /\ t.view \in Views(Ids, Args)
  BY <1>1 DEF Sound, Builders
<1>3. /\ ~t.view.ended /\ ~t.view.error /\ t.view.flaws = {}
      /\ t.view.open = {} /\ OpenTools(t) = {} /\ t.view.begun = t.started
  BY <1>1, <1>2 DEF Sound, Agrees, Ends, Builders, Views
<1>4. CloseAllTools(t) = t
  BY <1>3 DEF CloseAllTools
<1>5. n = [t EXCEPT !.finished = TRUE, !.view = w]
  BY <1>4 DEF Finish, t
<1>6. w = [t.view EXCEPT !.reason = r, !.ended = TRUE,
                         !.flaws = If(~t.started, "headless")]
  BY <1>3 DEF MessageEnd, Misplaced, If, Over
<1>7. r \in Reasons
  BY <1>2 DEF Builders, Reasons
<1> HIDE DEF r
<1>8. If(~t.started, "headless") \in SUBSET Flaws
  BY DEF If, Flaws
<1>9. /\ w \in Views(Ids, Args) /\ w.content = t.view.content /\ w.open = {}
      /\ w.flaws = If(~t.started, "headless") /\ w.begun = t.view.begun
      /\ w.ended = TRUE /\ w.error = t.view.error /\ w.reason = r
  BY <1>2, <1>3, <1>6, <1>7, <1>8 DEF Views
<1> HIDE DEF w, n
<1>10. /\ n.view = w /\ n.next = t.next /\ n.content = t.content /\ n.tools = t.tools
       /\ n.text = NoBlock /\ n.thinking = NoBlock /\ n.started = t.started
       /\ n.finished = TRUE /\ n.failed = t.failed /\ n.reason = t.reason
  BY <1>1, <1>2, <1>5 DEF Builders
<1>11. n \in Builders(Ids, Args)
  BY <1>2, <1>5, <1>9 DEF Builders
<1>12. Agrees(n)
  BY <1>1, <1>9, <1>10 DEF Sound, Agrees, OpenTools, NoBlock
<1>13. Ends(n)
  BY <1>3, <1>9, <1>10 DEF Ends
<1>14. Sound(n, Ids, Args)
  BY <1>9, <1>10, <1>11, <1>12, <1>13 DEF Sound
<1> QED BY <1>1, <1>9, <1>10, <1>14 DEF n, r, SameContent

\* FinishWithError ends the message with the error's text, or with an error
\* event if it has not started.
LEMMA FinishWithErrorSound ==
  ASSUME NEW Ids, NEW Args, NEW m, Live(m, Ids, Args)
  PROVE  LET n == FinishWithError(m)
         IN  /\ Sound(n, Ids, Args) /\ n.finished /\ n.started /\ n.failed
             /\ n.view.ended /\ n.tools = m.tools
             /\ \/ n.view.content = m.view.content
                \/ \E k \in {"text", "thinking"} :
                     n.view.content = Append(m.view.content, Block(k, "none", <<>>))
<1> DEFINE f == [m EXCEPT !.failed = TRUE]
           t == EmitText(f)
           s == SetStopReason(t, "end_turn")
<1>1. m \in Builders(Ids, Args)
  BY DEF Live, Sound
<1>2. /\ f \in Builders(Ids, Args)
      /\ f.reason = m.reason /\ f.view = m.view /\ f.next = m.next
      /\ f.text = m.text /\ f.thinking = m.thinking /\ f.started = m.started
      /\ f.tools = m.tools /\ f.finished = m.finished /\ f.failed = TRUE
      /\ f.content = m.content
  BY <1>1 DEF Builders
<1> HIDE DEF f
<1>3. Live(f, Ids, Args)
  BY <1>2 DEF Live, Sound, Agrees, Ends, OpenTools
<1>4. Live(t, Ids, Args) /\ AddsText(f, t)
  BY <1>3, EmitTextSound
<1> HIDE DEF t
<1>5. Live(s, Ids, Args) /\ s.view = t.view /\ s.tools = t.tools /\ s.failed = t.failed
  BY <1>4, SetStopReasonSound DEF Reasons
<1> HIDE DEF s
<1>6. FinishWithError(m) = Finish(s)
  BY DEF FinishWithError, Live, s, t, f
<1>7. /\ Sound(Finish(s), Ids, Args) /\ Finish(s).finished
      /\ Finish(s).started = s.started
      /\ Finish(s).view.content = s.view.content /\ Finish(s).view.ended
      /\ Finish(s).tools = s.tools /\ Finish(s).failed = s.failed
  BY <1>5, FinishSound, ZenonT(40) DEF Live
<1> QED BY <1>2, <1>4, <1>5, <1>6, <1>7 DEF AddsText, Live

-----------------------------------------------------------------------------
(* The tool calls in the content *)

HasBlocks(v, Ids, Args) == v.content \in Seq(BlockSet(Ids, Args))

Adds(v, w, blk) == w.content = Append(v.content, blk)

\* A block that is no tool call leaves the tool calls as they are.
LEMMA OtherBlock ==
  ASSUME NEW Ids, NEW Args, NEW v, NEW w, NEW blk \in BlockSet(Ids, Args),
         HasBlocks(v, Ids, Args), Adds(v, w, blk), blk.kind # "tool_use"
  PROVE  /\ ToolCalls(w) = ToolCalls(v)
         /\ \A i \in ToolCalls(v) : w.content[i] = v.content[i]
         /\ w.content # <<>>
<1> DEFINE s == v.content
           e == w.content
<1>1. /\ DOMAIN s = 1 .. Len(s) /\ Len(s) \in Nat /\ DOMAIN e = 1 .. (Len(s) + 1)
      /\ \A i \in 1 .. Len(s) : e[i] = s[i]
      /\ e[Len(s) + 1] = blk /\ Len(e) # 0
  BY DEF HasBlocks, Adds
<1> HIDE DEF s, e
<1>2. {i \in DOMAIN e : e[i].kind = "tool_use"} = {i \in DOMAIN s : s[i].kind = "tool_use"}
  BY <1>1
<1> QED BY <1>1, <1>2 DEF ToolCalls, s, e

\* A tool call's block is added to the tool calls.
LEMMA CallBlock ==
  ASSUME NEW Ids, NEW Args, NEW v, NEW w, NEW blk \in BlockSet(Ids, Args),
         HasBlocks(v, Ids, Args), Adds(v, w, blk), blk.kind = "tool_use"
  PROVE  /\ ToolCalls(w) = ToolCalls(v) \cup {Len(v.content) + 1}
         /\ Len(v.content) + 1 \notin ToolCalls(v)
         /\ \A i \in ToolCalls(v) : i < Len(v.content) + 1
         /\ w.content[Len(v.content) + 1] = blk
         /\ \A i \in ToolCalls(v) : w.content[i] = v.content[i]
         /\ w.content # <<>>
<1> DEFINE s == v.content
           e == w.content
           n == Len(s) + 1
<1>1. /\ DOMAIN s = 1 .. Len(s) /\ Len(s) \in Nat /\ DOMAIN e = 1 .. n
      /\ \A i \in 1 .. Len(s) : e[i] = s[i]
      /\ e[n] = blk /\ Len(e) # 0 /\ n \notin 1 .. Len(s) /\ 1 .. n = (1 .. Len(s)) \cup {n}
  BY DEF HasBlocks, Adds
<1> HIDE DEF s, e, n
<1>2. {i \in DOMAIN e : e[i].kind = "tool_use"}
        = {i \in DOMAIN s : s[i].kind = "tool_use"} \cup {n}
  BY <1>1
<1> QED BY <1>1, <1>2 DEF ToolCalls, s, e, n

\* Writing text or thinking leaves the tool calls as they are.
LEMMA TextKeepsCalls ==
  ASSUME NEW Ids, NEW Args, NEW m, m.view.content \in Seq(BlockSet(Ids, Args)), NEW n,
         \/ n.view.content = m.view.content
         \/ \E k \in {"text", "thinking"} :
              n.view.content = Append(m.view.content, Block(k, "none", <<>>))
  PROVE  /\ ToolCalls(n.view) = ToolCalls(m.view)
         /\ \A i \in ToolCalls(m.view) : n.view.content[i] = m.view.content[i]
         /\ n.view.content = <<>> => m.view.content = <<>>
<1>1. CASE n.view.content = m.view.content
  BY <1>1 DEF ToolCalls
<1>2. ASSUME NEW k \in {"text", "thinking"},
             n.view.content = Append(m.view.content, Block(k, "none", <<>>))
      PROVE  /\ ToolCalls(n.view) = ToolCalls(m.view)
             /\ \A i \in ToolCalls(m.view) : n.view.content[i] = m.view.content[i]
             /\ n.view.content # <<>>
  <2> DEFINE blk == Block(k, "none", <<>>)
  <2>1. blk \in BlockSet(Ids, Args) /\ blk.kind # "tool_use"
    BY DEF Block, BlockSet, Kinds
  <2> HIDE DEF blk
  <2>2. n.view.content = Append(m.view.content, blk)
    BY <1>2 DEF blk
  <2> DEFINE v == m.view
             w == n.view
  <2>3. v.content \in Seq(BlockSet(Ids, Args)) /\ w.content = Append(v.content, blk)
    BY <2>2
  <2>4. HasBlocks(v, Ids, Args) /\ Adds(v, w, blk)
    BY <2>3 DEF HasBlocks, Adds
  <2> HIDE DEF v, w
  <2>5. /\ ToolCalls(w) = ToolCalls(v)
        /\ \A i \in ToolCalls(v) : w.content[i] = v.content[i]
        /\ w.content # <<>>
    BY <2>1, <2>4, OtherBlock
  <2> QED BY <2>5 DEF v, w
<1> QED BY <1>1, <1>2

\* The content of a sound builder.
LEMMA ContentType ==
  ASSUME NEW Ids, NEW Args, NEW m, Sound(m, Ids, Args)
  PROVE  m.view.content \in Seq(BlockSet(Ids, Args))
<1>1. m.view \in Views(Ids, Args)
  BY DEF Sound, Builders
<1> QED BY <1>1 DEF Views
=============================================================================
