----------------------------- MODULE TextFilter -----------------------------
(***************************************************************************)
(* What streamed text goes through before it reaches the builder: for the  *)
(* Responses adapter the tagStripper, which drops scaffolding tokens       *)
(* (internal/provider/responses/scrub.go), then for it and for the Chat    *)
(* adapter the ThinkTagParser, which tells thinking from text              *)
(* (internal/streamparse/thinking.go).  A token or tag may be split over   *)
(* deltas anywhere, so both hold back what may yet become one.             *)
(*                                                                         *)
(* The upstream is external: it cuts any text into deltas, and these into  *)
(* items that output_text.done closes.  Characters stand for what the code *)
(* tells apart: "t" for think>, "f" for function_call> or                  *)
(* function_calls>, "x" for all else.                                      *)
(***************************************************************************)
EXTENDS Integers, Sequences, SequencesExt

CONSTANTS
  MaxText,   \* bound: characters of the text
  MaxDelta,  \* bound: characters of a delta
  MaxItems   \* bound: items that are closed

ASSUME TextAssumption ==
  MaxText \in Nat /\ MaxDelta \in Nat \ {0} /\ MaxItems \in Nat

Chars == {"<", "/", "t", "f", "x"}

scaffoldingTokens == {<<"<", "f">>, <<"<", "/", "f">>}

openThinkTag == <<"<", "t">>

closeThinkTag == <<"<", "/", "t">>

VARIABLES
  stripping,  \* is there a tagStripper: the Responses adapter
  buf,        \* tagStripper.buf
  buffer,     \* ThinkTagParser.buffer
  inTag,      \* ThinkTagParser.inTag
  out,        \* what the builder was given: characters with their kind
  items,      \* the text of each item closed
  item,       \* the text of the item that is open
  ended       \* has the body ended?

vars == <<stripping, buf, buffer, inTag, out, items, item, ended>>

From(s, n) == SubSeq(s, n, Len(s))

\* The first place of tag in s, 0 if there is none.
Index(s, tag) ==
  LET at == {n \in DOMAIN s : IsPrefix(tag, From(s, n))}
  IN  IF at = {} THEN 0 ELSE CHOOSE n \in at : \A m \in at : n <= m

\* Is s the beginning of a tag that may yet be completed?
Partial(s, tags) == \E tag \in tags : IsStrictPrefix(s, tag)

-----------------------------------------------------------------------------
(* tagStripper *)

\* drain: what passes of s and what stays in the buffer.
RECURSIVE Drain(_, _)
Drain(s, final) ==
  LET lt   == Index(s, <<"<">>)
      rest == From(s, lt)
      token == {t \in scaffoldingTokens : IsPrefix(t, rest)}
      after == IF token = {} THEN Drain(From(rest, 2), final)
               ELSE Drain(From(rest, Len(CHOOSE t \in token : TRUE) + 1), final)
  IN  CASE lt = 0 -> [passed |-> s, kept |-> <<>>]
        [] lt # 0 /\ token = {} /\ ~final /\ Partial(rest, scaffoldingTokens) ->
             [passed |-> SubSeq(s, 1, lt - 1), kept |-> rest]
        [] OTHER ->
             [passed |-> SubSeq(s, 1, lt - 1)
                           \o (IF token = {} THEN <<"<">> ELSE <<>>) \o after.passed,
              kept   |-> after.kept]

-----------------------------------------------------------------------------
(* ThinkTagParser *)

Chunk(kind, s) == [n \in DOMAIN s |-> <<kind, s[n]>>]

\* Where s ends in a part of a tag, one place further if it does not.
PartialStart(s, tags) ==
  LET at == {n \in DOMAIN s : s[n] = "<" /\ Partial(From(s, n), tags)}
  IN  IF at = {} THEN Len(s) + 1 ELSE CHOOSE n \in at : TRUE

\* parseOutside: a closing tag with no opening one before it is dropped.
ParseOutside(s) ==
  LET start  == Index(s, openThinkTag)
      orphan == Index(s, closeThinkTag)
      hold   == PartialStart(s, {openThinkTag, closeThinkTag})
  IN  IF orphan # 0 /\ (start = 0 \/ orphan < start)
        THEN [chunk |-> Chunk("text", SubSeq(s, 1, orphan - 1)),
              rest |-> From(s, orphan + Len(closeThinkTag)), inTag |-> FALSE]
      ELSE IF start = 0
        THEN [chunk |-> Chunk("text", SubSeq(s, 1, hold - 1)),
              rest |-> From(s, hold), inTag |-> FALSE]
        ELSE [chunk |-> Chunk("text", SubSeq(s, 1, start - 1)),
              rest |-> From(s, start + Len(openThinkTag)), inTag |-> TRUE]

ParseInside(s) ==
  LET end  == Index(s, closeThinkTag)
      hold == PartialStart(s, {closeThinkTag})
  IN  IF end = 0
        THEN [chunk |-> Chunk("thinking", SubSeq(s, 1, hold - 1)),
              rest |-> From(s, hold), inTag |-> TRUE]
        ELSE [chunk |-> Chunk("thinking", SubSeq(s, 1, end - 1)),
              rest |-> From(s, end + Len(closeThinkTag)), inTag |-> FALSE]

\* Feed: until the buffer is empty or gets no shorter.
RECURSIVE Feed(_, _)
Feed(s, inside) ==
  LET step  == IF inside THEN ParseInside(s) ELSE ParseOutside(s)
      after == Feed(step.rest, step.inTag)
  IN  IF s = <<>> \/ Len(step.rest) = Len(s)
        THEN [chunks |-> <<>>, rest |-> s, inTag |-> inside]
        ELSE [after EXCEPT !.chunks = step.chunk \o @]

\* emitParsedText
EmitParsed(text) ==
  LET fed == Feed(buffer \o text, inTag)
  IN  /\ out' = out \o fed.chunks
      /\ buffer' = fed.rest
      /\ inTag' = fed.inTag

-----------------------------------------------------------------------------
(* The stream *)

Init ==
  /\ stripping \in BOOLEAN
  /\ buf = <<>> /\ buffer = <<>> /\ inTag = FALSE
  /\ out = <<>>
  /\ items = <<>> /\ item = <<>>
  /\ ended = FALSE

Text == FlattenSeq(Append(items, item))

\* response.output_text.delta, or delta.content of Chat.
Delta ==
  /\ ~ended
  /\ \E n \in 1 .. MaxDelta : \E delta \in [1 .. n -> Chars] :
       /\ Len(Text) + n <= MaxText
       /\ item' = item \o delta
       /\ LET drained == Drain(buf \o delta, FALSE)
          IN  /\ buf' = IF stripping THEN drained.kept ELSE <<>>
              /\ EmitParsed(IF stripping THEN drained.passed ELSE delta)
  /\ UNCHANGED <<stripping, items, ended>>

\* response.output_text.done: Reset.
Done ==
  /\ ~ended /\ stripping
  /\ item # <<>> /\ Len(items) < MaxItems
  /\ items' = Append(items, item)
  /\ item' = <<>>
  /\ buf' = <<>>
  /\ UNCHANGED <<stripping, buffer, inTag, out, ended>>

\* Mutant of End: the parser is flushed before the stripper.
End_Swapped ==
  /\ ~ended
  /\ ended' = TRUE
  /\ out' = out \o Chunk(IF inTag THEN "thinking" ELSE "text", buffer)
               \o Feed(Drain(buf, TRUE).passed, inTag).chunks
  /\ inTag' = inTag
  /\ buf' = <<>> /\ buffer' = <<>>
  /\ UNCHANGED <<stripping, items, item>>

\* The body ends: the stripper is flushed, then the parser.
End ==
  /\ ~ended
  /\ ended' = TRUE
  /\ LET fed == Feed(buffer \o Drain(buf, TRUE).passed, inTag)
     IN  /\ out' = out \o fed.chunks
                       \o Chunk(IF fed.inTag THEN "thinking" ELSE "text", fed.rest)
         /\ inTag' = fed.inTag
  /\ buf' = <<>> /\ buffer' = <<>>
  /\ UNCHANGED <<stripping, items, item>>

Next == Delta \/ Done \/ End

Spec == Init /\ [][Next]_vars

-----------------------------------------------------------------------------
(* Reference: the whole text at once, character by character *)

\* s without its tokens; what an item ends in that is a part of one is dropped.
RECURSIVE Scrubbed(_, _)
Scrubbed(s, closed) ==
  LET token == {t \in scaffoldingTokens : IsPrefix(t, s)}
  IN  IF s = <<>> \/ (closed /\ \E t \in scaffoldingTokens : IsStrictPrefix(s, t)) THEN <<>>
      ELSE IF token # {} THEN Scrubbed(From(s, Len(CHOOSE t \in token : TRUE) + 1), closed)
      ELSE <<Head(s)>> \o Scrubbed(Tail(s), closed)

RECURSIVE Marked(_, _)
Marked(s, inside) ==
  IF s = <<>> THEN <<>>
  ELSE IF IsPrefix(closeThinkTag, s) THEN Marked(From(s, Len(closeThinkTag) + 1), FALSE)
  ELSE IF ~inside /\ IsPrefix(openThinkTag, s) THEN Marked(From(s, Len(openThinkTag) + 1), TRUE)
  ELSE <<<<IF inside THEN "thinking" ELSE "text", Head(s)>>>> \o Marked(Tail(s), inside)

-----------------------------------------------------------------------------
(* Properties *)

\* However the text is cut into deltas, the client has read at any time what
\* the whole text so far says, each character once, in order, as thinking or as
\* text, no token or tag left, but for what may yet become a token or a tag;
\* and in the end all of it, though an item closed by output_text.done loses
\* what it ends in that might have become a token (scrub.go:51-53).
ChunkingIrrelevant ==
  LET heard  == SubSeq(item, 1, Len(item) - Len(buf))
      passed == IF stripping
                  THEN FlattenSeq([n \in DOMAIN items |-> Scrubbed(items[n], TRUE)])
                         \o Scrubbed(heard, FALSE)
                  ELSE item
  IN  /\ out = Marked(SubSeq(passed, 1, Len(passed) - Len(buffer)), FALSE)
      /\ buf = <<>> \/ (~ended /\ Partial(buf, scaffoldingTokens))
      /\ buffer = <<>> \/ (~ended /\ Partial(buffer, {openThinkTag, closeThinkTag}))
=============================================================================
