--------------------------- MODULE MessageBuilder ---------------------------
(***************************************************************************)
(* The builder of internal/sse/sse.go: it numbers the content blocks of    *)
(* one message and writes their events.  A builder is a value and each     *)
(* method an operator on it; what it has written is in its field "view".   *)
(*                                                                         *)
(* An adapter's goroutine alone uses a builder, so its methods are atomic. *)
(* A failed write (the client has gone) is left out: the builder goes on   *)
(* and its writer drops the rest.  Names, token counts and the order in    *)
(* which closeAllTools visits the tools are left out too.                  *)
(***************************************************************************)
EXTENDS ClientMessage, Integers

\* The index of a block that is not open (textIndex and textOpen, thinkingIndex
\* and thinkingOpen are one field each).
NoBlock == -1

\* "tools" maps each call id seen to its block and whether the block is open.
NewBuilder ==
  [started |-> FALSE, next |-> 0, text |-> NoBlock, thinking |-> NoBlock,
   tools |-> [c \in {} |-> {}], content |-> FALSE, reason |-> "none",
   finished |-> FALSE, failed |-> FALSE, view |-> Unread]

Start(b) ==
  IF b.started THEN b
  ELSE [b EXCEPT !.started = TRUE, !.view = MessageStart(@)]

CloseText(b) ==
  IF b.text = NoBlock THEN b
  ELSE [b EXCEPT !.text = NoBlock, !.view = BlockStop(@, b.text)]

CloseThinking(b) ==
  IF b.thinking = NoBlock THEN b
  ELSE [b EXCEPT !.thinking = NoBlock, !.view = BlockStop(@, b.thinking)]

OpenTools(b) == {c \in DOMAIN b.tools : b.tools[c].open}

OpenToolBlocks(b) == {b.tools[c].index : c \in OpenTools(b)}

CloseAllTools(b) ==
  IF OpenTools(b) = {} THEN b
  ELSE [b EXCEPT !.tools = [c \in DOMAIN @ |-> [@[c] EXCEPT !.open = FALSE]],
                 !.view.open = @ \ OpenToolBlocks(b),
                 !.view.flaws = @ \cup Misplaced(b.view)
                                  \cup If(~OpenToolBlocks(b) \subseteq b.view.open, "closed")]

CloseContent(b) == CloseThinking(CloseText(b))

\* alloc and content_block_start of a text block, closing a thinking block.
EnsureText(b) ==
  IF b.text # NoBlock THEN b
  ELSE LET t == CloseThinking(b)
       IN  [t EXCEPT !.content = TRUE, !.text = t.next, !.next = @ + 1,
                     !.view = BlockStart(@, t.next, "text", "none")]

EmitText(b) ==
  LET t == EnsureText(b) IN [t EXCEPT !.view = BlockDelta(@, t.text)]

\* Mutant of EnsureThinking: an open text block stays open.
EnsureThinking_KeepsText(b) ==
  IF b.thinking # NoBlock THEN b
  ELSE [b EXCEPT !.content = TRUE, !.thinking = b.next, !.next = @ + 1,
                 !.view = BlockStart(@, b.next, "thinking", "none")]

\* Mutant of EnsureThinking: the block is not noted as content.
EnsureThinking_Unnoted(b) ==
  IF b.thinking # NoBlock THEN b
  ELSE LET t == CloseText(b)
       IN  [t EXCEPT !.thinking = t.next, !.next = @ + 1,
                     !.view = BlockStart(@, t.next, "thinking", "none")]

EnsureThinking(b) ==
  IF b.thinking # NoBlock THEN b
  ELSE LET t == CloseText(b)
       IN  [t EXCEPT !.content = TRUE, !.thinking = t.next, !.next = @ + 1,
                     !.view = BlockStart(@, t.next, "thinking", "none")]

EmitThinking(b) ==
  LET t == EnsureThinking(b) IN [t EXCEPT !.view = BlockDelta(@, t.thinking)]

\* startToolBlockWithInput: a call id seen before keeps its block's index.
StartTool(b, kind, id) ==
  LET t     == CloseContent(b)
      index == IF id \in DOMAIN t.tools THEN t.tools[id].index ELSE t.next
  IN  IF id \in OpenTools(t) THEN [t EXCEPT !.content = TRUE]
      ELSE [t EXCEPT !.content = TRUE,
                     !.next = IF id \in DOMAIN t.tools THEN @ ELSE @ + 1,
                     !.tools = [c \in DOMAIN @ \cup {id} |->
                                  IF c = id THEN [index |-> index, open |-> TRUE]
                                  ELSE @[c]],
                     !.view = BlockStart(@, index, kind, id)]

EmitToolInput(b, id, x) ==
  IF id \notin OpenTools(b) THEN b
  ELSE [b EXCEPT !.view = InputDelta(@, b.tools[id].index, x)]

StopTool(b, id) ==
  IF id \notin OpenTools(b) THEN b
  ELSE [b EXCEPT !.tools[id].open = FALSE, !.view = BlockStop(@, b.tools[id].index)]

\* Start, one input delta, stop: how the adapters write a call they hold whole.
WholeTool(b, kind, id, x) ==
  StopTool(EmitToolInput(StartTool(b, kind, id), id, x), id)

\* EmitServerToolResult: a block that starts and stops at once.
EmitServerToolResult(b, id) ==
  LET t == CloseAllTools(CloseContent(b))
  IN  [t EXCEPT !.content = TRUE, !.next = @ + 1,
                !.view = BlockStop(BlockStart(@, t.next, "result", id), t.next)]

SetStopReason(b, r) == [b EXCEPT !.reason = r]

\* Mutant of Finish: a thinking block that is open is not stopped.
Finish_LeavesThinking(b) ==
  IF b.finished THEN b
  ELSE LET t == CloseAllTools(CloseText(b))
       IN  [t EXCEPT !.finished = TRUE,
                     !.view = MessageEnd(@, IF t.reason = "none" THEN "end_turn"
                                            ELSE t.reason)]

Finish(b) ==
  IF b.finished THEN b
  ELSE LET t == CloseAllTools(CloseContent(b))
       IN  [t EXCEPT !.finished = TRUE,
                     !.view = MessageEnd(@, IF t.reason = "none" THEN "end_turn"
                                            ELSE t.reason)]

\* Before message_start an error event; after it the error's text and end_turn.
FinishWithError(b) ==
  IF b.finished THEN b
  ELSE IF ~b.started
    THEN [b EXCEPT !.failed = TRUE, !.finished = TRUE, !.view = ErrorEvent(@)]
    ELSE Finish(SetStopReason(EmitText([b EXCEPT !.failed = TRUE]), "end_turn"))
=============================================================================
