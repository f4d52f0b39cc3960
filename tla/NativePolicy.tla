---------------------------- MODULE NativePolicy ----------------------------
(***************************************************************************)
(* One stream through the Anthropic pass-through adapter (pipeRawSSE of    *)
(* internal/provider/anthropic/anthropic.go, the policy of policy.go and   *)
(* the tracker of tracker.go): each frame the upstream sends is dropped,   *)
(* renumbered or preceded by frames of the policy's own, and after a read  *)
(* error the adapter ends the message from what the tracker saw.           *)
(*                                                                         *)
(* The upstream is external.  Its blocks have indexes of its own, may be   *)
(* interleaved in any way, and may lack their start; it stops each before  *)
(* it ends the message.  It may ping at any time, and an error is the last *)
(* event it sends.  citations_delta is left out.  What a delta holds is    *)
(* its number in its block, and a client block's id is the upstream block  *)
(* it was made for.  No index starts two blocks, and the client sees the   *)
(* stops of several blocks as one, so the tracker's list is a set.         *)
(***************************************************************************)
EXTENDS ClientMessage, Integers, FiniteSets

CONSTANTS
  Blocks,      \* the indexes the upstream gives its blocks
  MaxDeltas    \* bound: deltas with content in a block

ASSUME NativeAssumption ==
  /\ "none" \notin Blocks
  /\ MaxDeltas \in Nat

VARIABLES
  pc,          \* "post", "streaming", "ending" (after message_delta), "ended"
               \* (after message_stop or an error), "failed", "failedLate"
               \* (once ended) or "done"
  enabled,     \* thinkingEnabled: the request asks for thinking
  next,        \* nativePolicy.nextIndex
  seg,         \* byUpstream: the client's index of a block, and is it open?
  dropped,     \* blocks of which all is dropped
  suppressed,  \* blocks whose next stop is dropped
  tracked,     \* streamTracker.open, the indexes of the client's open blocks
  maxIndex,    \* streamTracker.maxIndex
  saw,         \* streamTracker.sawEvents
  view,        \* what the client has read
  kind,        \* upstream: the kind of each block
  up,          \* upstream: is a block begun, stopped, and did it have a start?
  given,       \* upstream: deltas with content sent in each block
  signed,      \* upstream: thinking blocks it has sent the signature of
  newest,      \* upstream: the block it began last
  tangled      \* upstream: it sent a delta in a block other than the one it
               \* began last, or one that had no start while another was begun

policy == <<next, seg, dropped, suppressed>>
tracker == <<tracked, maxIndex, saw>>
upstream == <<kind, up, given, signed, newest, tangled>>
vars == <<pc, enabled, policy, tracker, view, upstream>>

Kinds == {"text", "thinking", "tool_use"}

Init ==
  /\ pc = "post"
  /\ enabled \in BOOLEAN
  /\ next = 0
  /\ seg = [i \in {} |-> {}]
  /\ dropped = {} /\ suppressed = {}
  /\ tracked = {} /\ maxIndex = -1 /\ saw = FALSE
  /\ view = Unread
  /\ kind \in [Blocks -> Kinds]
  /\ up = [i \in Blocks |-> "none"]
  /\ given = [i \in Blocks |-> 0]
  /\ signed = {}
  /\ newest = "none" /\ tangled = FALSE

-----------------------------------------------------------------------------
(* The post, and the frames the policy lets through as they are *)

\* The builder's error message: nothing has been written.
WholeError(v) ==
  MessageEnd(BlockStop(BlockDelta(BlockStart(MessageStart(v), 0, "text", "none"), 0), 0),
             "end_turn")

PostFails ==
  /\ pc = "post"
  /\ pc' = "failed"
  /\ view' = WholeError(view)
  /\ UNCHANGED <<enabled, policy, tracker, upstream>>

PostAccepted ==
  /\ pc = "post"
  /\ pc' = "streaming"
  /\ UNCHANGED <<enabled, policy, tracker, view, upstream>>

\* message_start
Starts ==
  /\ pc = "streaming"
  /\ ~view.begun
  /\ view' = MessageStart(view)
  /\ saw' = TRUE
  /\ UNCHANGED <<pc, enabled, policy, tracked, maxIndex, upstream>>

Running == pc = "streaming" /\ view.begun

Begun(i) == up[i] \in {"started", "headless"}

\* message_delta
Ends ==
  /\ Running
  /\ \A i \in Blocks : ~Begun(i)
  /\ pc' = "ending"
  /\ view' = MessageDelta(view, "end_turn")
  /\ UNCHANGED <<enabled, policy, tracker, upstream>>

\* message_stop
Stops ==
  /\ pc = "ending"
  /\ pc' = "ended"
  /\ view' = MessageStop(view)
  /\ UNCHANGED <<enabled, policy, tracker, upstream>>

\* ping, which the client skips
Pings ==
  /\ pc \in {"streaming", "ending", "ended"}
  /\ saw' = TRUE
  /\ UNCHANGED <<pc, enabled, policy, tracked, maxIndex, view, upstream>>

\* error
Errs ==
  /\ pc \in {"streaming", "ending"}
  /\ pc' = "ended"
  /\ view' = ErrorEvent(view)
  /\ saw' = TRUE
  /\ UNCHANGED <<enabled, policy, tracked, maxIndex, upstream>>

-----------------------------------------------------------------------------
(* Blocks *)

\* shouldDropKind
Hidden(k) == ~enabled /\ k = "thinking"

\* The blocks closeOtherOpen closes.
OtherOpen(i) == {j \in DOMAIN seg \ {i} : seg[j].open}

\* Mutant of Allocated: the block is not noted as open.
Allocated_Closed(s, i) ==
  [j \in DOMAIN s \cup {i} |-> IF j = i THEN [down |-> next, open |-> FALSE] ELSE s[j]]

\* allocate: block i becomes the client's next one.
Allocated(s, i) ==
  [j \in DOMAIN s \cup {i} |-> IF j = i THEN [down |-> next, open |-> TRUE] ELSE s[j]]

Larger(x, y) == IF x > y THEN x ELSE y

\* The tracker reads the start of client block n.
TrackStart(t, n) ==
  /\ tracked' = t \cup {n}
  /\ maxIndex' = Larger(maxIndex, n)
  /\ saw' = TRUE

\* The client's indexes of the upstream blocks js.
Downs(js) == {seg[j].down : j \in js}

\* The view after the stops of the client blocks downs.
Stopped(v, downs) ==
  IF downs = {} THEN v
  ELSE [v EXCEPT !.open = @ \ downs,
                 !.flaws = @ \cup Misplaced(v) \cup If(~downs \subseteq v.open, "closed")]

\* Mutant of BlockStarts: a hidden block is not noted as dropped.
BlockStarts_Forgets(i) ==
  /\ Running
  /\ up[i] = "none"
  /\ up' = [up EXCEPT ![i] = "started"]
  /\ newest' = i
  /\ IF Hidden(kind[i])
       THEN UNCHANGED <<policy, tracker, view>>
       ELSE LET js == OtherOpen(i) IN
            /\ seg' = Allocated([j \in DOMAIN seg |-> [seg[j] EXCEPT !.open = @ /\ j \notin js]], i)
            /\ suppressed' = suppressed \cup js
            /\ next' = next + 1
            /\ TrackStart(tracked \ Downs(js), next)
            /\ view' = BlockStart(Stopped(view, Downs(js)), next, kind[i], i)
            /\ UNCHANGED dropped
  /\ UNCHANGED <<pc, enabled, kind, given, signed, tangled>>

\* content_block_start (transformStart)
BlockStarts(i) ==
  /\ Running
  /\ up[i] = "none"
  /\ up' = [up EXCEPT ![i] = "started"]
  /\ newest' = i
  /\ IF Hidden(kind[i])
       THEN /\ dropped' = dropped \cup {i}
            /\ UNCHANGED <<next, seg, suppressed, tracker, view>>
       ELSE LET js == OtherOpen(i) IN
            /\ seg' = Allocated([j \in DOMAIN seg |-> [seg[j] EXCEPT !.open = @ /\ j \notin js]], i)
            /\ suppressed' = suppressed \cup js
            /\ next' = next + 1
            /\ TrackStart(tracked \ Downs(js), next)
            /\ view' = BlockStart(Stopped(view, Downs(js)), next, kind[i], i)
            /\ UNCHANGED dropped
  /\ UNCHANGED <<pc, enabled, kind, given, signed, tangled>>

\* Mutant of Reopen: the block's own stop stays suppressed.
Reopen_Suppressed(i, x) ==
  /\ seg' = Allocated(seg, i)
  /\ next' = next + 1
  /\ TrackStart(tracked, next)
  /\ view' = InputDelta(BlockStart(view, next, kind[i], i), next, x)
  /\ UNCHANGED suppressed

\* A start of the policy's own for a block that is closed or was never started,
\* then the delta.  Other blocks are not closed.
Reopen(i, x) ==
  /\ seg' = Allocated(seg, i)
  /\ suppressed' = suppressed \ {i}
  /\ next' = next + 1
  /\ TrackStart(tracked, next)
  /\ view' = InputDelta(BlockStart(view, next, kind[i], i), next, x)

\* Mutant of Transformed: a delta of a block that is closed is dropped.
Transformed_DropsClosed(i, hidden, x) ==
  IF i \in dropped \/ hidden \/ (i \in DOMAIN seg /\ ~seg[i].open)
    THEN UNCHANGED <<next, seg, suppressed, tracker, view>>
  ELSE IF i \in DOMAIN seg
    THEN /\ view' = InputDelta(view, seg[i].down, x)
         /\ UNCHANGED <<next, seg, suppressed, tracker>>
  ELSE Reopen(i, x)

\* transformDelta; hidden says whether the delta's own type is dropped.
Transformed(i, hidden, x) ==
  IF i \in dropped \/ hidden THEN UNCHANGED <<next, seg, suppressed, tracker, view>>
  ELSE IF i \in DOMAIN seg /\ seg[i].open
    THEN /\ view' = InputDelta(view, seg[i].down, x)
         /\ UNCHANGED <<next, seg, suppressed, tracker>>
  ELSE Reopen(i, x)

\* Upstream: a delta comes for block i, which has begun or begins with it.
Delivers(i) ==
  /\ Running
  /\ up[i] # "stopped"
  /\ up' = [up EXCEPT ![i] = IF @ = "none" THEN "headless" ELSE @]
  /\ newest' = IF up[i] = "none" THEN i ELSE newest
  /\ tangled' = (tangled \/ IF up[i] = "none" THEN \E j \in Blocks : Begun(j)
                            ELSE i # newest)
  /\ UNCHANGED <<pc, enabled, dropped, kind>>

\* content_block_delta with text, thinking or a piece of a tool's input
Delta(i) ==
  /\ given[i] < MaxDeltas /\ i \notin signed
  /\ given' = [given EXCEPT ![i] = @ + 1]
  /\ Delivers(i)
  /\ Transformed(i, Hidden(kind[i]), given[i] + 1)
  /\ UNCHANGED signed

\* signature_delta, the last one of a thinking block; its type does not contain
\* "thinking", so only a dropped block hides it.  It holds no content.
Signature(i) ==
  /\ kind[i] = "thinking"
  /\ given[i] > 0 /\ i \notin signed
  /\ signed' = signed \cup {i}
  /\ Delivers(i)
  /\ Transformed(i, FALSE, 0)
  /\ UNCHANGED given

\* content_block_stop (transformStop).  The policy may know no block for it only
\* if thinking is hidden, and then drops it.
BlockStops(i) ==
  /\ Running
  /\ Begun(i)
  /\ up' = [up EXCEPT ![i] = "stopped"]
  /\ IF i \in dropped THEN UNCHANGED <<policy, tracker, view>>
     ELSE IF i \in suppressed
       THEN /\ suppressed' = suppressed \ {i}
            /\ UNCHANGED <<next, seg, dropped, tracker, view>>
     ELSE IF i \in DOMAIN seg /\ seg[i].open
       THEN /\ view' = BlockStop(view, seg[i].down)
            /\ tracked' = tracked \ {seg[i].down}
            /\ seg' = [seg EXCEPT ![i].open = FALSE]
            /\ UNCHANGED <<next, dropped, suppressed, maxIndex, saw>>
     ELSE UNCHANGED <<policy, tracker, view>>
  /\ UNCHANGED <<pc, enabled, kind, given, signed, newest, tangled>>

-----------------------------------------------------------------------------
(* The end *)

\* Mutant of ErrorTail: only the block started last is stopped.
ErrorTail_StopsOne(v) ==
  LET n == maxIndex + 1
      s == Stopped(v, {m \in tracked : m = maxIndex})
  IN  MessageEnd(BlockStop(BlockDelta(BlockStart(s, n, "text", "none"), n), n), "end_turn")

\* emitStreamErrorTail after the tracker has seen an event: open blocks are
\* stopped, the error is a text block, and the message ends.
ErrorTail(v) ==
  LET n == maxIndex + 1
      s == Stopped(v, tracked)
  IN  MessageEnd(BlockStop(BlockDelta(BlockStart(s, n, "text", "none"), n), n), "end_turn")

\* A read error, also after the message has ended; the tracker forgets what it
\* popped.
ReadFails ==
  /\ pc \in {"streaming", "ending", "ended"}
  /\ pc' = IF pc = "ended" THEN "failedLate" ELSE "failed"
  /\ view' = IF saw THEN ErrorTail(view) ELSE WholeError(view)
  /\ tracked' = {}
  /\ UNCHANGED <<enabled, policy, maxIndex, saw, upstream>>

\* The body ends: nothing is written.
BodyEnds ==
  /\ pc \in {"streaming", "ending", "ended"}
  /\ pc' = "done"
  /\ UNCHANGED <<enabled, policy, tracker, view, upstream>>

Next ==
  \/ PostFails \/ PostAccepted
  \/ Starts \/ Ends \/ Stops \/ Pings \/ Errs
  \/ \E i \in Blocks : BlockStarts(i) \/ Delta(i) \/ Signature(i) \/ BlockStops(i)
  \/ ReadFails \/ BodyEnds

Spec == Init /\ [][Next]_vars

-----------------------------------------------------------------------------
(* Properties *)

\* Whatever the upstream's order, the frames that reach the client name open
\* blocks, numbered without a gap although some are dropped, closed early or
\* opened again, and all are stopped at the end.  Two blocks are open at once
\* only if the upstream's blocks were tangled: a delta opens its block without
\* closing others (policy.go:93-112).  Something follows message_stop or an error
\* only if a read fails after it: the adapter then ends the message again.  It
\* does so without a message_start if all it had seen was a ping or an error
\* (anthropic.go:127).
WellFormed ==
  view.flaws \subseteq If(tangled, "overlap") \cup If(pc = "failedLate", "late")
                       \cup If(~view.begun, "headless")

\* A read error anywhere leaves a message that has ended, with every block
\* stopped and the error in a block of its own after them.
FailureEnds ==
  pc \in {"failed", "failedLate"} =>
    /\ view.ended /\ view.open = {}
    /\ view.content[Len(view.content)] = Block("text", "none", <<>>)

ClientBlocks(i) == {n \in DOMAIN view.content : view.content[n].id = i}

\* Where the client has the deltas of upstream block i: <<n, k>> is the k-th piece
\* of client block n.  Signatures are left out.
Pieces(i) ==
  UNION {{n} \X {k \in DOMAIN view.content[n].input : view.content[n].input[k] # 0} :
         n \in ClientBlocks(i)}

Piece(p) == view.content[p[1]].input[p[2]]

Before(p, q) == p[1] < q[1] \/ (p[1] = q[1] /\ p[2] < q[2])

\* Nothing is lost, repeated or reordered within an upstream block, even if the
\* policy splits it over several client blocks; only hidden thinking is left out.
DeltasKept ==
  \A i \in Blocks :
    /\ {Piece(p) : p \in Pieces(i)} = IF Hidden(kind[i]) THEN {} ELSE 1 .. given[i]
    /\ \A p, q \in Pieces(i) : Before(p, q) => Piece(p) < Piece(q)

\* A block of an upstream that does not tangle its blocks is one block at the
\* client, so that a tool call is one call.
BlocksWhole ==
  ~tangled => \A i \in Blocks : Cardinality(ClientBlocks(i)) <= 1

\* A request without thinking gets no thinking block, but for the signature of
\* one that came without its start (policy.go:193-204).
ThinkingHidden ==
  ~enabled =>
    \A n \in DOMAIN view.content :
      view.content[n].kind = "thinking" =>
        up[view.content[n].id] \in {"headless", "stopped"} /\ view.content[n].input = <<0>>
=============================================================================
