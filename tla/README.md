# RelayCode: TLA+ models, checks and proofs

RelayCode is a proxy: Claude Code speaks the Anthropic Messages API to it, and it
answers from an upstream that speaks OpenAI Responses, OpenAI Chat or Anthropic
Messages. This directory models the parts of `src/` that have state and
concurrency, model-checks them with TLC, and proves some of what matters for every
size with TLAPS.

## 1. The system

| Part (`src/`) | State | Operations | Talks to |
|---|---|---|---|
| Session store, `internal/session/session.go` | map from a fingerprint (provider, model, instructions, tools, message prefix) to an entry with the upstream's response id, under one mutex; TTL 60 min, at most 1000 entries | `Prepare`, `Commit`, `Invalidate`, `Snapshot` | Responses adapter (calls), the file |
| Session file, `internal/session/file_store.go` | `path`, `path.tmp` | `LoadFile`, `SaveFile` | store (called by `Commit`, `Invalidate`, outside the mutex), `server.New` |
| Responses adapter, `internal/provider/responses/` | per request: retries left, forced replay, chain, item states; per adapter: a semaphore | `Stream`, `streamOnce` (recursive) | store, upstream, SSE builder |
| Server runtime, `internal/server/server.go`, `cmd/relaycode/main.go` | an atomic pointer to (config, router, lazily built adapters) | `handleMessages`, `adapterFor`, `Reload` (SIGHUP) | adapters, router, builder |
| SSE builder, `internal/sse/sse.go` | block indexes, the open text/thinking/tool blocks, finished | `Start`, `Emit*`, `StartTool`, `StopTool`, `Finish`, `FinishWithError` | client |
| Chat adapter, `internal/provider/chat/` | tool-call fragments by index, think parser | `Stream` | upstream, builder |
| Anthropic adapter, `internal/provider/anthropic/` | upstream block to client block map, open blocks | `Stream`, `nativePolicy.Transform`, `streamTracker` | upstream, client |
| Stream parsers, `internal/streamparse/`, `responses/scrub.go` | text held back because it may be the start of a tag | `Feed`, `Flush`, `Reset` | adapters |
| Tool guard, `internal/provider/toolguard/`, `toolargs/` | tool schemas of the request | `Validate`, repair | adapters |
| Anthropic messages, `internal/anthropic/` | none | decoding, the repairs of a transcript: `NormalizeMessagesForUpstream`, `NormalizePreviousResponseTail` | adapters, store |
| Upstream HTTP, `internal/provider/http.go` | attempts left | post with retries and delays, `IterSSE` | adapters |
| Router, config, optimizations, web tools, capture, update check | none after start | lookups, parsing, I/O | server |

What is hard here:

* **Concurrent requests share the session store** but hold its mutex only inside
  one call. Between `Prepare` and `Commit` or `Invalidate` lie a post and a whole
  stream: the entry a request works from may be renewed, evicted, expired or
  deleted meanwhile, and the upstream may have forgotten its response.
* **Two recursions of `streamOnce`**: the forced replay after a lost response and
  the stream retry. They must not multiply, nor repeat what the client has read.
* **Fingerprints leave the session id out**, so equal prefixes of two sessions
  compete for one key.
* **Saving is not serialised**: two savers share `path.tmp`, and a crash may fall
  between any two system calls.
* **Reload** replaces adapters, and with them semaphores, under running requests.
* **Streams**: blocks of text, thinking and tool calls are opened and closed by
  events in any order, tool calls arrive in pieces and perhaps invalid, and an
  upstream may fail at any point. The pass-through adapter renumbers another
  server's blocks while it drops some of them.
* **Deltas cut text anywhere**, while two filters behind one another look for tokens
  and tags of several characters.
* **Transcripts** may be resumed, edited or interrupted ones, in which calls and their
  results do not match; every upstream API refuses those.
* **Go maps** hold the arguments the tool guard repairs and the chat adapter's calls:
  their order must not show.

`PROJECT.json` lists these hazards one by one, at the line where each bites, with
the property that would catch it.

## 2. The modules

| Module | Models | Proofs |
|---|---|---|
| `SessionStore` | the store as a value, each method an operator | `ResponsesChain_proofs` |
| `ResponsesChain` (extends `SessionStore`) | handlers running `streamOnce` over the shared store, the upstream, the clients | `ResponsesChain_proofs` |
| `DurableStore` | abstract: a map whose saved copy is replaced as a whole | |
| `SessionFile` | `SaveFile` call by call, `LoadFile`, crashes | `Server_proofs` |
| `AdapterPool` | runtime states, reload, `adapterFor`, the semaphores | `Server_proofs` |
| `Server` (extends both, implements `DurableStore`) | the process: requests on their adapters, the one session store they share, crashes and restarts | `Server_proofs` |
| `ClientMessage` | what a client has read of a message, and how the events depart from the protocol | |
| `MessageBuilder` (extends `ClientMessage`) | the SSE builder as a value, each method an operator | `MessageBuilder_proofs` |
| `ResponsesStream` (extends `MessageBuilder`) | the event loop of `streamOnce` over the builder, the upstream's events | `ResponsesStream_proofs` |
| `ChatStream` (extends `MessageBuilder`) | the Chat adapter's `Stream` over the builder, the post with retries below it | `ChatStream_proofs` |
| `NativePolicy` (extends `ClientMessage`) | the pass-through adapter: what becomes of each frame, the tracker, the tail after a read error | `NativePolicy_proofs` |
| `TextFilter` | the tag stripper and the think-tag parser, character by character | |
| `Transcript` | the repairs of a transcript, as operators | `RequestTranslation_proofs` |
| `RequestTranslation` (extends `Transcript`) | transcripts sent to the Chat API, or to the Responses API in full or as a tail | `RequestTranslation_proofs` |
| `ToolGuard` | validation and repair of a call's arguments | `ToolGuard_proofs` |
| `MC*` | the instances TLC checks | |

A definition with a name like `Put_Unused` is a mutant: a plausible bug in the
definition before the underscore, used only to show that a property notices it.

### SessionStore and ResponsesChain

A store is a record of `entries` (a function from fingerprints) and `older` (the
strict order of the entries' `LastUsed`). `PreparedChains`, `Committed`,
`Invalidated`, `ExpiredSets` and `MakeRoom` are `Prepare`, `Commit`, `Invalidate`,
`pruneLocked` and `evictLRULocked`. A fingerprint is the value that is hashed, so
hashing is taken to be injective; a profile stands for (provider, model,
instructions hash, tools hash), which the code only ever compares together.
Expiry is any set of least recently used entries at any pruning: it covers every
clock.

In `ResponsesChain` a handler's `pc` walks through `streamOnce`:

| `pc` and action | Code (`responses.go`) |
|---|---|
| `Arrive` | `handleMessages` up to `adapter.Stream` |
| `prepare`: `Prepare`, `PrepareFails` | lines 85-151: `store.Prepare`, the auth file, the body, chained or not |
| `post`: `PostAccepted`, `PostRefused`, `PostFails` | lines 153-167 and `isInvalidPreviousResponseError` |
| `invalidate`: `Invalidate` | lines 155-160: `store.Invalidate`, then `streamOnce` with `forceFull` |
| `streaming`: `EmitContent`, `Complete` | the event loop: content reaches the builder; `response.completed` |
| `StreamRetry`, `StreamFails` | lines 430-457: a read error or failure event, with and without a retry |
| `StreamEndsCompleted` | lines 459-479: the stream has ended and `Commit` makes the entry visible to every handler |
| `StreamEndsUncommitted` | lines 478-509: the stream has ended without a response id |
| `finishing`: `Finish` | line 508: `b.Finish`, after the commit; the client reads the end of its message or has left |

`Forget` is the upstream dropping a stored response; `known` is what each
session's client has seen, and decides what it sends next: a new question, the same
question again (a client that retries), or the question with a block appended. A
client may go on from a reply it was given in part, or leave before it has any
(`Delivered`); so an entry may stand for a reply no client has, and what
`EntriesAreAnswers` promises of it is only that the upstream completed it and that its
stream did not break off afterwards (`broken` holds the replies whose stream did).

### SessionFile

Directory entries and inodes are kept apart because two savers may hold the same
inode of `path.tmp`: `OpenTmp` is the `O_CREATE|O_TRUNC` open of `os.WriteFile`,
`Write` its write from offset 0, `Rename` moves whatever `path.tmp` names now.
`SaveFails` is any failing system call (its error is dropped by the callers).
`Prepare` expires entries in memory without a save; `Invalidate` saves also when the
entry it deletes is gone already.
`Crash` is one of the process: what system calls have completed survives.

### AdapterPool

`states` is the sequence of runtime states, the last one current; requests keep the
index of theirs. `AdapterFor` runs under the server's mutex, `Acquire`, `GiveUp` and
`Release` are the semaphore at the top of every adapter's `Stream`.

### Server

`Server` has no state of its own: it says how the two components move together. A
process has one session store (`New` makes it, `SetSession` hands it to every adapter
of the Responses API, `Chaining`, and a reload keeps it), and `Commit` and `Invalidate`
are called within `Stream`, hence by a request that streams, and wait for their
`SaveFile`, hence before its slot is given back (`Serve`). So it is the semaphores that
decide whether two savers can meet. `ServerCrash` ends the requests with the process.

### ClientMessage, MessageBuilder and ResponsesStream

The builder is a record with the fields of `sse.Builder` (an index and its flag are
one field: `NoBlock` is not open). Its field `view` is what the client has read: the
events are not kept, each is folded into the view as it is written, and an event out
of place leaves a flaw there. `tools` keeps a closed tool's index, as the code does.

`ResponsesStream` is one request. Its upstream means to make the calls in `plan` and
sends them in events of any order, with parts left out or garbled; `sent` is how far
it is. An item keeps its arguments as `"empty"`, `"good"`, `"bad"` or `"part"`.

| `pc` and action | Code (`responses.go`) |
|---|---|
| `attempt`: `PostAccepted`, `PostFails` | lines 110-115, 153-183: the post, `b.Start`, the locals of an attempt |
| `StreamReturnsError` | `server.go` 420-426: `Stream` returned an error and `handleMessages` finishes the message |
| `streaming`: `ItemAdded`, `ArgsDelta`, `ArgsDone`, `ItemDone` | lines 265-278, 299-380; `EmitToolCall` is the closure at 194-218 |
| `SearchDone` | `emitWebSearchCall`, 694-716 |
| `TextDelta`, `TextDone`, `ReasoningPart`, `ReasoningDelta` | lines 280-297; `held` says whether the tag stripper or the think parser holds text back |
| `Incomplete`, `StreamEnds` | lines 402-403, 459-509: flush, stop reason, finish |
| `StreamRetry`, `StreamFails` | lines 430-457 |

The model assumes of the upstream that it keeps an item's id, sends a search once,
repeats arguments in `output_item.done` unless it has given them in full, and sends
nothing after `response.incomplete`. The kinds of text a flush may release are one:
what the stripper holds starts with `<` and cannot complete a think tag.

### ChatStream

One request of the Chat adapter. The upstream's `plan` and `sent` are as above, but
calls are told apart by their index, and arrive in fragments.

| `pc` and action | Code |
|---|---|
| `begin`: `Begin`, `Rejected` | `chat.go` 45-60: the slot, the translated request, `b.Start`, the locals |
| `post`, `delay`: `PostAccepted`, `PostDelayed`, `PostAgain`, `PostFails` | `http.go` `PostStreamWithClient`: what is retried, the delay in which the client may leave |
| `streaming`: `Content`, `Reasoning`, `Fragment`, `FinishReason` | the callback of `IterSSE`: `delta.content` through the think parser, `reasoning_content`, `tool_calls`, `finish_reason` |
| `emitting`, `flushed`: `EmitNext`, `Emitted` | `emitValidatedToolCalls`, one index at a time (`pos`) |
| `BodyEnds`, `MessageEnds`, `StreamFails` | the flush, the second look at the calls, the stop reason, finish |

`finish_reason` may be repeated, so that calls are looked at again. `CallsWhole` names
one exception the code has: a call the stream is cut off in before its first argument
fragment has the arguments `{}`, and is delivered if its schema requires nothing,
also if the arguments the upstream meant would have been rejected (`"loose"`).

### NativePolicy

`BlockStarts`, `Delta`, `Signature` and `BlockStops` are `transformStart`,
`transformDelta` and `transformStop` of `policy.go`, together with what the tracker
notes of the frames that come out; `seg` is `byUpstream`. The tracker's list is a set:
no index is started twice, and the order in which several blocks are stopped (that of
a Go map in `closeOtherOpen`) does not matter to the client. `ReadFails` is the end of
`pipeRawSSE` after a read error with `emitStreamErrorTail` (`anthropic.go` 101-162). The
upstream may interleave its blocks in any way, begin one with a delta, or fail at any
frame. `Ends` and `Stops` are `message_delta` and `message_stop`, `Pings` and `Errs` the
upstream's `ping` and `error`, which the policy passes as they are but the tracker
notes. `tangled` is history: whether it did interleave them. The code keeps an upstream
that does from being lost, but not always from being confused, and the properties say
how far.

### TextFilter

`Drain` is `drain` of `scrub.go`, `ParseOutside`, `ParseInside` and `Feed` are those of
`thinking.go`. A text is a sequence of `<`, `/`, `t` for `think>`, `f` for a
scaffolding token's end and `x` for all else: a tag is then two or three characters, so
it is cut in every place that matters. The reference, `Scrubbed` and `Marked`, sees the
whole text and holds nothing back.

### Transcript and RequestTranslation

`Transcript` has one operator per repair of `types.go`: `WithoutOrphanedThinking`,
`WithoutTrailingThinking`, `BlocksForUpstream` (server tools to text), `Paired`
(`ensureToolResultPairing`). Its blocks have a type, a call's id and the number the
client's block had. The code's loops carry state from message to message and from block
to block; the model says of each place what the loop has when it gets there and puts
the results together with `FlattenSeq`. `PairedAt` is the turn of
`ensureToolResultPairing` at one message: `SeenToolUses` are the calls of the messages
before it, and a user message behind an assistant's that asks is the one the code
patches there and steps over. `Gathered` is what `flush` finds when a block is reached,
`Parts` what a user message is flushed into, and `CallKinds` what `callKinds` holds when a
message is reached. `RequestTranslation` lets a client write any transcript (`Open`,
`Write`) and sends it once: `SendChat` is `convertMessages` of `chat.go`,
`SendResponses` `convertMessagesToItemsWithOptions` of `responses.go`, `SendTail` and
`SendAppended` the latter for the two tails `Prepare` may choose, a user turn after a
reply or blocks appended to a question that has been answered already. Of server tools
that are passed through, `convertMessagesToItemsWithOptions` leaves out the calls of
`web_search` (type `web_search_use` here) and sends the others as calls.

### ToolGuard

`Validate` is `Validate` of `toolguard.go` with the aliases of `toolargs.go` restored;
`Rename` is one turn of the loop of `repairObjectArgs` over a Go map, hence of any
property left; `Repaired` is what follows the loop. A value carries the name it came
under, so that the properties can say where it went. A schema may require names it has
no property for.

## 3. The runs

| Run | Instance | Shows |
|---|---|---|
| `store` | 2 handlers, 2 sessions, 2 profiles, 1 block's text, 3 requests, conversations of 3 messages, store of 2 | `TypeOK`; `StoreBounded`; `EntriesAreAnswers`: what can be chained is an answer the upstream completed, to what the session's client asked, in a stream that did not break off; `UserInputPreserved`: a chained body is, with what the upstream remembers, what the user said; `ChainsStayInSession`, also when both sessions send the same messages; `LeaveInOrderOfUse` |
| `retries` | 2 handlers, 1 retry, ambiguous errors, chaining on or off at each attempt, fairness | `PostsBounded`, `Answered` |
| `one` | 2 handlers, 1 provider, `max_concurrency` 1, no reload, 2 keys, 3 commits | the slot keeps savers apart: `Restartable`, `Persisted`, `ImplementsDurable` |
| `torn` | the same with 1 reload and 2 commits, violation | a torn file after a crash |
| `pool` | 3 handlers, 1 provider, limits 0..2, 1 reload, fairness | `LimitPerState`, `SlotsReturned`, `Served` |
| `stream` | 2 calls, 1 search, 1 retry, text up to 3 blocks | `WellFormed`, `EndsOnce`: the message's protocol; `CallsWhole`, `CallsDelivered`: each valid call once, whole; `StopReasonAgrees`; `ContentKnown`: `HasContent`, on which a retry depends, is true exactly if a block was written |
| `failures` | 1 call, violation | a stream that fails after a tool call ends as a normal message |
| `chat` | 2 calls, 1 retry of the post, text up to 2 blocks, fairness | `WellFormed`; `CallsWhole`, `CallsDelivered`: each valid call once, whole, by whichever loop; `CallsInOrder`; `ReasonAgrees`; `Answered` |
| `native` | 3 upstream blocks, 2 deltas in each, pings, an upstream error, a read error at any frame | `WellFormed`: the rewritten frames keep the protocol; `DeltasKept`: nothing lost, repeated or reordered in a block; `BlocksWhole`: a call stays one call; `ThinkingHidden`; `FailureEnds`: a read error anywhere leaves a message that has ended |
| `text` | every text of up to 7 characters in deltas of 1 or 2, one item closed on the way | `ChunkingIrrelevant`: the client reads what the reference reads in the whole text, at any time |
| `translate` | every transcript of up to 4 messages and 4 blocks, a function's call and a custom tool's | `CallsAnswered`: the repaired transcript is one the APIs accept; `InventsNoAnswer`; `TextKept`; `KindsAgree`, `OutputsMatch`: calls and results in the posted request |
| `guard` | 2 properties, one aliased, 2 other names, calls of up to 3 arguments, every schema, which may require other names, every relation of names | `ValuesMoved`: no value made up or used twice; `GivenKept`; `OrderIrrelevant`: the order of the map does not show unless names are ambiguous |

The type invariant is checked in `store`; those of `AdapterPool`, `ResponsesStream`,
`ChatStream` and `ToolGuard` are proved, as parts of the inductive invariants.

**Bounds.** Every interference the store's model has is between two requests: one
between its `Prepare` and its `Commit` or `Invalidate`, and another that renews, evicts
or deletes the entry meanwhile; two handlers show it. Three requests are needed to
have a stored question, its continuation, and an entry that competes with them.
Conversations of three messages have a stored prefix, a skipped assistant turn and a
user tail. With one text to a block TLC sees user input that is lost or repeated, by its
length; that it is not reordered or exchanged for other input is left to the theorem,
which has any blocks. A store of two entries is full with the first two commits. The file needs
two savers to interfere and three inodes (the file, a temporary file, one still held);
with one slot the second handler is the one that must be kept out.
The pool needs one handler more than slots, and one reload. A stream needs two calls to
interleave, a search between them, one retry, and blocks enough for text before,
between and after the calls. Three upstream blocks are one that is open, one that
closes it and one hidden or begun without its start; two deltas are one before and one
after a block is closed early. Seven characters hold a token inside a tag's parts or a
tag inside a token's (`<`, `</f`, `/t` and the like), and something before or after.
Four messages are a question, two assistant messages and a user's, so that a result
may stand behind its call's message, later or never, and four blocks hold both calls
with a result and a text between them. Two extras for two properties make names ambiguous in both directions.

`MaxRequests`, `MaxMessages`, `MaxBlocks`, `MaxCommits`, `MaxStates`, `MaxDeltas`,
`MaxText`, `MaxDelta`, `MaxItems` and `MaxArgs` bound what the environment does, never
what the code does, so deadlock is not checked: a run ends when the environment is done.

**Symmetry** is used for model values the specification treats alike (sessions,
profiles, keys, calls, upstream blocks), and never in a run with a liveness property.

**Fairness.** `Answered` assumes `WF(Step(h))`: a goroutine that can run is run, and
a stream ends some time: by the upstream, or because `http.timeout_seconds` closes
it. With that option unset (its default) a silent upstream keeps a request for ever,
and the property says nothing of such an upstream. `Served` assumes the same of the
streams that hold slots, and strong fairness of `Acquire`, since the goroutines
blocked on a Go channel are served first come, first served. `ChatStream`'s `Answered`
assumes `WF(Proceeds)`: the goroutine runs on and an attempt of the post is answered or
fails; and `SF(BodyEnds \/ StreamFails)`: a body ends, again by the upstream or by the
timeout, however often a repeated `finish_reason` interrupts it with the loop over the
calls.

## 4. The proofs

The proofs hold for any number of handlers, sessions, profiles, entries, retries,
keys, providers, reloads, calls, fragments, messages, blocks and arguments. They
assume what the modules' `ASSUME`s say (`MaxEntries` positive, counts natural numbers, handlers finite).

* `ResponsesChain_proofs`. `ShapeInv` strengthens `TypeOK` with what makes it
  inductive: a store whose order is transitive, so that an eviction finds an oldest
  entry, and requests that refer to responses that exist. It gives `Types` and
  `Bound`. `EffortInv` is an account: posts made plus retries left never exceed
  `MaxRetries`, plus one for the forced replay, plus one for the attempt in progress;
  only an attempt that is not forced can be refused, so the replay is taken once. It
  gives `Posts` and `OneReply`. `OwnerInv` says that each entry belongs to the
  session and profile of its response and each chain to those of its request; it
  gives `SessionsApart`. `StoredAnswers` takes four
  invariants: `OwnerInv`; `SaidInv`, below; `AskedInv`, that what a request or an entry
  stands for was asked by its session's client, whose knowledge only grows
  (`KnownGrows`); and `WholeInv`, that no stored reply has broken off. The last needs
  that a reply is in progress at one handler only and is stored only when its stream has
  ended (`Apart`): what a handler commits cannot break off any more, whether or not its
  message is ever finished. `OrderOfUse` is about a step: whoever leaves was used
  before all who stay, whether it expired, was evicted or both. `UserInputKept` is the
  statement about conversations of any length: what the user said is a fold over the
  messages, and the tail `Prepare` cuts off, be it new turns or blocks appended to a
  question already asked, is exactly what the fold has more than the stored prefix
  (`ChainSaid`). `SaidInv` carries that through the requests and the stored contexts.
  The folds are unfolded message by message; that they concatenate (`FlattenConcat`) is
  an induction over a length, done for a set of numbers (`Closed`), not for an operator.
* `Server_proofs`. `PoolInv` counts: the slots in use on an adapter are the
  requests streaming on it, never more than its limit, and all requests of a state
  and provider use that state's one adapter. It gives `LimitsPerState` and `Slots`, for
  any reloads. The file needs more: `OneSlot` says that one provider uses the store, with
  `max_concurrency: 1`, and is not reloaded. Then `PoolInv` and the counting of slots
  make two requests on turn the same one (`OneTurn`), who saves is on turn
  (`BusyOnTurn`), so a saver is alone, and alone it keeps `FileHeld`: `path` is none or a
  whole snapshot and is not the file being written, and a finished write holds the
  saver's snapshot. That gives `RestartsWithOneSlot`, `PersistsWithOneSlot` (an idle
  saver whose last save did not fail has left every entry in the file) and the refinement
  `DurableWithOneSlot`: only `Rename` is a `Save` of `DurableStore`, every other step
  updates memory, crashes, restarts or stutters.

* `MessageBuilder_proofs` says what each builder method promises: a sound builder (its
  indexes agree with what the client has read, at most one block is open, no tool block
  stays open, no flaw) stays sound, and which block the method adds. Its last
  lemmas say what a text, a call or another block added to a message leaves alone. Both
  stream modules' proofs rest on it.
* `ResponsesStream_proofs`. `StreamInv` has four parts: the builder is sound and its
  phase fits `pc`; the tool blocks are exactly the calls of the items marked
  `toolClosed`, once each and as meant; an item holds what the upstream has given of
  its call; and the stop reason agrees. The second needs the third: that
  `output_item.done` does not write a call again, or a wrong one, follows from what
  the item kept of the earlier events. It gives `WellFormedMessage`, `MessageEnds`,
  `WholeCalls`, `DeliveredCalls`, `ReasonsAgree` and `ContentIsKnown`, for any number
  of calls, searches, blocks and retries.
* `ChatStream_proofs`. `ChatInv` has, beside the builder's part and the locals', three
  parts. `TrackInv`: a track holds what the upstream has sent of its call. `PhaseInv`:
  two loops over the indexes write calls, at `finish_reason` and at the end, and either
  a loop finds nothing to write or no index it has yet to look at is written. This is
  what makes the order and the single delivery inductive: a loop that wrote a low index
  after another had written a higher one would break both. `CallInv`: the tool blocks
  are the calls written, each once, in order, as given. It gives `WellFormedMessage`,
  `WholeCalls`, `DeliveredCalls`, `OrderedCalls` and `ReasonsAgree`. What the prover
  needs of the upstream is in `FinishReason`'s guard: `stop` and `tool_calls` come when
  every call begun is whole.
* `ToolGuard_proofs`. In `GuardInv` every value sits where it came or under another
  name, once; and what was given under a property's name is kept, until the end.
  It gives `NothingMadeUp` and `GivenStays`. `AnyOrder` is a loop invariant: when names
  are alike in pairs only, then at any turn the arguments are those the loop began with,
  the pairs moved whose property has been looked at, and no others; at the end that is
  the same for every order.
* `NativePolicy_proofs`. `IInv` holds of every state in which the message is still
  written: `Numbered` and `Mirrored` say that policy, tracker and client agree on the
  blocks' numbers and on which are open; `Life` ties what the policy knows of a block to
  what the upstream has sent of it; `Calm` is why an upstream that does not tangle its
  blocks has none split and none open beside another; `SignedOnly` bounds what of hidden
  thinking is shown; `AllKept` is `DeltasKept`, piece by piece, and is kept because a
  delta goes to the last client block made for its upstream block, or to a new one
  behind it. After a failure only what is promised remains (`Promised`). It gives
  `StreamWellFormed`, `FailuresEnd`, `NothingLost`, `Unsplit` and `NoThinkingShown`, for
  any number of blocks and deltas in any order.

* `RequestTranslation_proofs` is about transcripts of any length, with any calls in any
  disorder. The inductive invariant is short, for a transcript is sent once: `Typed`;
  `Numbered`, that `from` numbers the client's blocks in their order; and `Made`, that what
  is posted is the translation of the repaired transcript, or of the tail.
  The work is in what the repairs and translations do to any transcript.
  `FlattenPlaces` says where each part of a concatenation stands, `SpreadConcat` and
  `SpreadAt` that a function of single blocks (the texts in them, the ids) may be taken
  before or after blocks are put together or left out. `AskingIs`, `StripIs` and
  `AnsweringIs` say what one message keeps, `PairedPlaces` what stands at each place of a
  paired transcript, and `PairedMatched` that it is `Matched`: no two blocks make one
  call, a message with calls is followed by a user message with exactly one result for
  each, and every result stands there. From that come `Answered` and, for what the
  result is, `NothingInvented`: `FromOnce` gives back the client's message a call was
  written in, by its number, and `AnswerAtIs` what of the next one was kept.
  `PartsAre` and `PartsKeep` say that the parts of a user message are runs between
  results that together are the message; `ConvertedIs` and `ItemizedIs` add them up, and
  `SentIs` and `TailSent` do so for the repairs, which gives `SaidIsSent`. For
  `AnsweredInOrder` each call and result posted is traced to the message of the
  transcript it came from (`CallersIn`, `ItemsIn`), so that their order is that of
  `Matched`; and `TypedAlike` looks up what `CallKinds` knew there. The laws of
  `FlattenSeq` are proved here too, by the same induction over a set of numbers as in
  `ResponsesChain_proofs`: a component's proofs stand on its own modules.

**Only model-checked:** `ChunkingIrrelevant` of `TextFilter`. Its `Drain` and `Feed` are
loops whose number of turns depends on what they find; they and the reference they are
compared with are recursive operators, and what such an operator computes for every
text is an induction over the text, which the prover has no rule for. The runs check it
for every text of seven characters, and every way to cut it. And liveness
(`Answered` of `ResponsesChain` and `ChatStream`, `Served`), out of the prover's reach as is
anything about `ENABLED`. Without
`OneSlot` neither `Restartable` nor `Persisted` holds: `torn` shows it of the first, and
of the second an older snapshot renamed last.

## 5. What the violations show

* `torn`: with `session_store_path` and more than one request at a time, two savers
  share `path.tmp`. One renames it while the other is writing it, and a process that
  crashes then leaves a file on which the next one does not start. `max_concurrency: 1`
  keeps savers apart (`one`), but not across a reload: the run lets a stream of the old
  runtime state and one of the new meet.
* `failures`: after `message_start`, `FinishWithError` writes the error as text and ends
  with `end_turn`. A client that has read a tool call gets a complete message; only the
  text tells it that the stream failed. The comment and the README promise an error.

The models also show behaviour no statement of the repository speaks against, which is
therefore no finding:

* Between `PostRefused` and `Invalidate` another request of the session may commit a
  good response under the same key; `Invalidate` drops that one. The next turn is
  replayed in full: a cost, not an error.
* A question asked twice has two answers and one key. The client that goes on from the
  first answer is chained to the second one.
* Of two savers the one with the older snapshot may rename last: a commit is lost after
  a restart.
* `max_concurrency` holds per runtime state; after a reload the streams of both states
  add up (and may tear the file, see `torn`).
* A repeated result, or one that comes behind another assistant message, is left out and
  perhaps replaced by a synthetic one (`InventsNoAnswer` says exactly when).
* In a tail, a result of a call made before the reply that is continued is sent as a
  function's, also if it was a custom tool's (the exception in `KindsAgree`).
* A read error after `message_stop` ends the pass-through message a second time, and one
  after a ping or an error that came first of all ends a message that was never started
  (exceptions in `WellFormed` of `NativePolicy`).
* `Commit` comes before `b.Finish`: a response may be stored, and saved, that its client
  never reads to the end. The next request of that client is then chained to it if its
  messages have the stored prefix.
* A property that an upstream gives under its name and under its alias gets one of the
  two values, which one depends on the order of a Go map.

## 6. Not modelled, and the plan

* The router, the configuration parser, the optimizations, the web tools, capture and
  the update check have no state the rest depends on, or are I/O.
* `streamparse/tool.go`, the heuristic tool parser, is used by no adapter.
* Of requests: tool declarations and namespaces, instructions, sampling fields and the
  ChatGPT login; they are copied field by field. Token counts and statistics.
* Of streams: the line framing of `IterSSE`; chunks without a choice, an error in band
  among them, which the Chat adapter skips; `citations_delta`, which the policy passes
  with the upstream's index; `MarkFinished` and `RawWriter` of the builder.
* Of the guard: tools without `input_schema`, `additionalProperties` given as a schema,
  `minProperties` and `maxProperties`, and which values a property accepts.

The message of a request that `Stream` rejects before `message_start` is not well
formed: `handleMessages` ends a message that was never started. `WellFormed` names
this one exception. A body that stops before `response.completed` without a read
error is taken as complete; nothing in the repository says what it should be.

Planned, most important first:

1. Composition: the retries of `ResponsesChain` with the content of `ResponsesStream`.
2. `TextFilter` with what is held back as an operator of the text so far, in place of
   recursion, as `Gathered` is, so that `ChunkingIrrelevant` can be proved.
3. The router as a pure lookup.
