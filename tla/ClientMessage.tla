---------------------------- MODULE ClientMessage ----------------------------
(***************************************************************************)
(* What a client has read of an Anthropic message: a fold of the SSE       *)
(* events the proxy writes (the events of internal/sse/sse.go).            *)
(*                                                                         *)
(* The client is external code.  It appends a block to the message's       *)
(* content at content_block_start, at the index the event names, adds      *)
(* deltas to the block at their index, and takes the message as complete   *)
(* at message_stop.  A view records how the events depart from that order: *)
(*   "headless"  something other than an error comes before message_start  *)
(*   "twice"     a second message_start                                    *)
(*   "late"      something comes after message_stop or an error            *)
(*   "index"     a block starts at an index other than the next one        *)
(*   "overlap"   a block starts before the previous one has stopped        *)
(*   "closed"    a delta or stop names a block that is not open            *)
(*   "unclosed"  message_stop while a block is open                        *)
(* Text is left out: a block holds its kind, its id and its input deltas.  *)
(***************************************************************************)
EXTENDS Naturals, Sequences

\* Nothing has been read.
Unread ==
  [begun |-> FALSE, content |-> <<>>, open |-> {}, reason |-> "none",
   ended |-> FALSE, error |-> FALSE, flaws |-> {}]

Block(kind, id, input) == [kind |-> kind, id |-> id, input |-> input]

If(condition, flaw) == IF condition THEN {flaw} ELSE {}

Over(v) == v.ended \/ v.error

\* Flaws any event after the first may show.
Misplaced(v) == If(~v.begun, "headless") \cup If(Over(v), "late")

MessageStart(v) ==
  [v EXCEPT !.begun = TRUE,
            !.flaws = @ \cup If(v.begun, "twice") \cup If(Over(v), "late")]

BlockStart(v, i, kind, id) ==
  [v EXCEPT !.content = IF i = Len(@) THEN Append(@, Block(kind, id, <<>>)) ELSE @,
            !.open = @ \cup {i},
            !.flaws = @ \cup Misplaced(v) \cup If(i # Len(v.content), "index")
                        \cup If(v.open # {}, "overlap")]

\* A delta of text or thinking.
BlockDelta(v, i) ==
  [v EXCEPT !.flaws = @ \cup Misplaced(v) \cup If(i \notin v.open, "closed")]

\* Content with the piece x added to the input of block i.
Extended(content, i, x) == [content EXCEPT ![i + 1].input = Append(@, x)]

\* A piece x of a tool's input.
InputDelta(v, i, x) ==
  [v EXCEPT !.content = IF i < Len(@) THEN Extended(@, i, x) ELSE @,
            !.flaws = BlockDelta(v, i).flaws]

BlockStop(v, i) ==
  [v EXCEPT !.open = @ \ {i},
            !.flaws = @ \cup Misplaced(v) \cup If(i \notin v.open, "closed")]

\* message_delta with the stop reason; the last one counts.
MessageDelta(v, reason) ==
  [v EXCEPT !.reason = reason, !.flaws = @ \cup Misplaced(v)]

MessageStop(v) ==
  [v EXCEPT !.ended = TRUE,
            !.flaws = @ \cup Misplaced(v) \cup If(v.open # {}, "unclosed")]

\* Both, one after the other.
MessageEnd(v, reason) ==
  [v EXCEPT !.reason = reason, !.ended = TRUE,
            !.flaws = @ \cup Misplaced(v) \cup If(v.open # {}, "unclosed")]

ErrorEvent(v) ==
  [v EXCEPT !.error = TRUE, !.flaws = @ \cup If(Over(v), "late")]

\* The blocks that hold tool calls the client is to execute.
ToolCalls(v) == {i \in DOMAIN v.content : v.content[i].kind = "tool_use"}
=============================================================================
