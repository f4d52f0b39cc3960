--------------------------- MODULE ResponsesChain ---------------------------
(***************************************************************************)
(* Requests to the OpenAI Responses adapter, the session store they share, *)
(* the upstream that remembers responses, and the clients whose            *)
(* conversations they carry (internal/provider/responses/responses.go,     *)
(* Stream and streamOnce).                                                 *)
(*                                                                         *)
(* A handler is one goroutine serving POST /v1/messages.  Between two      *)
(* steps of a handler any other handler may run: the code holds the store  *)
(* mutex only inside Prepare, Commit and Invalidate.  The upstream is an   *)
(* external service known by how the adapter uses it: it keeps the         *)
(* responses it was asked to store until it forgets them, and refuses a    *)
(* previous_response_id it does not keep.                                  *)
(*                                                                         *)
(* The bytes of a stream are reduced to whether content has reached the    *)
(* client, and from which upstream response (a reply).  A reply's number   *)
(* is both its text and, once completed, its response id.  In a client's   *)
(* conversation it stands for what the client was given of the reply: a    *)
(* call that validation drops is not in it, an error text may end it.      *)
(*                                                                         *)
(* Commit comes before the end of the message, which may never reach the   *)
(* client: it has left, or the process ends.  (A crash ends every request  *)
(* at once; what it leaves in the file is Server's.)                       *)
(***************************************************************************)
EXTENDS SessionStore, SequencesExt

CONSTANTS
  Handlers,         \* goroutines serving requests
  MaxRetries,       \* providers.<name>.http.max_retries
  ChainModes,       \* values previousResponseID may have (flag and auth mode)
  AmbiguousErrors,  \* may other upstream errors read like a lost response?
  MaxRequests,      \* bound on the requests clients send
  MaxMessages,      \* bound on the length of a conversation
  MaxBlocks         \* bound on the blocks of a user message

ASSUME ChainAssumption ==
  /\ MaxRetries \in Nat
  /\ ChainModes \in SUBSET BOOLEAN
  /\ AmbiguousErrors \in BOOLEAN
  /\ MaxRequests \in Nat /\ MaxMessages \in Nat /\ MaxBlocks \in Nat
  /\ Sessions # {} /\ Profiles # {}

VARIABLES
  store,     \* the session store shared by all adapters
  upstream,  \* the responses the upstream completed, by response id
  replies,   \* number of replies the upstream has begun
  known,     \* known[s]: the conversations a client of session s has seen
  broken,    \* history: the completed replies whose stream broke off after all
  arrived,   \* number of requests sent so far
  req        \* req[h]: the request handler h is serving

vars == <<store, upstream, replies, known, broken, arrived, req>>

\* A request nothing has been done for.  Its later fields: the chain Prepare
\* found, the previous_response_id its body carries (NoReply: the body is the
\* whole list), the body's store flag, and two observations, the number of bodies
\* posted (counted up to MaxRetries + 3) and the replies whose content reached
\* the client.
Fresh(pc, s, p, c) ==
  [pc |-> pc, session |-> s, profile |-> p, msgs |-> c,
   force |-> FALSE, retries |-> MaxRetries, posts |-> 0, chain |-> NoChain,
   prev |-> NoReply, keep |-> FALSE, reply |-> NoReply, completed |-> FALSE,
   heard |-> {}]

Idle == Fresh("idle", NoSession, NoSession, <<>>)

Init ==
  /\ store = EmptyStore
  /\ upstream = [r \in {} |-> {}]
  /\ replies = 0
  /\ known = [s \in Sessions |-> {}]
  /\ broken = {}
  /\ arrived = 0
  /\ req = [h \in Handlers |-> Idle]

\* The whole conversation the upstream sees for the body handler h posted.
Context(q) ==
  IF q.prev = NoReply THEN q.msgs ELSE upstream[q.prev].context \o q.chain.tail

Finished(h) == req' = [req EXCEPT ![h] = Idle]

-----------------------------------------------------------------------------
(* Clients *)

UserMessages == {User(<<b>>) : b \in Blocks}

\* The conversations of session s that end with a question.
Asked(s) == {c \in known[s] : IsUser(c[Len(c)])}

\* A new conversation, or one that goes on with a further user message.
Followups(s) ==
  {Append(c, m) : c \in {d \in {<<>>} \cup known[s] : Len(d) < MaxMessages},
                  m \in UserMessages}

\* A question with one more block in its last message.
Widened(c, b) == [c EXCEPT ![Len(c)].blocks = Append(c[Len(c)].blocks, b)]

Widenings(s) ==
  {Widened(c, b) : c \in {d \in Asked(s) : Len(d[Len(d)].blocks) < MaxBlocks},
                   b \in Blocks}

\* What a client of session s may send: something new, a question again, or a
\* question it adds to.
NextConversations(s) == Followups(s) \cup Asked(s) \cup Widenings(s)

\* A request reaches handleMessages and, a slot being free, streamOnce.
Arrive(h) ==
  /\ req[h].pc = "idle"
  /\ arrived < MaxRequests
  /\ \E s \in Sessions, p \in Profiles : \E c \in NextConversations(s) :
       /\ known' = [known EXCEPT ![s] = @ \cup {c}]
       /\ req' = [req EXCEPT ![h] = Fresh("prepare", s, p, c)]
  /\ arrived' = arrived + 1
  /\ UNCHANGED <<store, upstream, replies, broken>>

-----------------------------------------------------------------------------
(* streamOnce *)

\* store.Prepare, then the body: chained to the entry found unless a full
\* replay is forced or chaining is off.
Prepare(h) ==
  /\ req[h].pc = "prepare"
  /\ \E gone \in ExpiredSets(store), on \in ChainModes :
       LET q  == req[h]
           st == Drop(store, gone)
       IN  \E c \in PreparedChains(st, q.session, q.profile, q.msgs) :
             LET chained == ~q.force /\ on /\ c.resp # NoReply
             IN  /\ store' = Prepared(st, c)
                 /\ req' = [req EXCEPT
                              ![h].pc = "post",
                              ![h].chain = c,
                              ![h].prev = IF chained THEN c.resp ELSE NoReply,
                              ![h].keep = on,
                              ![h].posts = IF @ > MaxRetries + 2 THEN @ ELSE @ + 1]
  /\ UNCHANGED <<upstream, replies, known, broken, arrived>>

\* Prepare succeeds but the Codex auth file or the request does not translate:
\* the handler answers with an error and posts nothing.
PrepareFails(h) ==
  /\ req[h].pc = "prepare"
  /\ \E gone \in ExpiredSets(store) :
       LET st == Drop(store, gone)
       IN  \E c \in PreparedChains(st, req[h].session, req[h].profile, req[h].msgs) :
             store' = Prepared(st, c)
  /\ Finished(h)
  /\ UNCHANGED <<upstream, replies, known, broken, arrived>>

Kept(r) == r \in DOMAIN upstream /\ upstream[r].kept

PostAccepted(h) ==
  /\ req[h].pc = "post"
  /\ req[h].prev = NoReply \/ Kept(req[h].prev)
  /\ req' = [req EXCEPT ![h].pc = "streaming"]
  /\ UNCHANGED <<store, upstream, replies, known, broken, arrived>>

\* The post of a chained body fails with an error that reads like a lost
\* response (isInvalidPreviousResponseError).
PostRefused(h) ==
  /\ req[h].pc = "post"
  /\ req[h].prev # NoReply
  /\ ~Kept(req[h].prev) \/ AmbiguousErrors
  /\ req' = [req EXCEPT ![h].pc = "invalidate"]
  /\ UNCHANGED <<store, upstream, replies, known, broken, arrived>>

\* Any other failed post is reported to the client.
PostFails(h) ==
  /\ req[h].pc = "post"
  /\ Finished(h)
  /\ UNCHANGED <<store, upstream, replies, known, broken, arrived>>

\* store.Invalidate(lookup.Chain.Key), then streamOnce with forceFull.
Invalidate(h) ==
  /\ req[h].pc = "invalidate"
  /\ store' = Invalidated(store, req[h].chain.key)
  /\ req' = [req EXCEPT ![h].pc = "prepare", ![h].force = TRUE]
  /\ UNCHANGED <<upstream, replies, known, broken, arrived>>

-----------------------------------------------------------------------------
(* The stream *)

\* The reply being streamed gets its number with its first event that counts.
ReplyOf(q) == IF q.reply = NoReply THEN replies + 1 ELSE q.reply

Numbered(q) == replies' = IF q.reply = NoReply THEN replies + 1 ELSE replies

EmitContent(h) ==
  /\ req[h].pc = "streaming"
  /\ ~req[h].completed
  /\ req[h].reply \notin req[h].heard
  /\ Numbered(req[h])
  /\ req' = [req EXCEPT ![h].reply = ReplyOf(req[h]),
                        ![h].heard = @ \cup {ReplyOf(req[h])}]
  /\ UNCHANGED <<store, upstream, known, broken, arrived>>

\* What the upstream has once handler h's reply r completes.
Completed(h, r) ==
  [i \in DOMAIN upstream \cup {r} |->
     IF i = r
       THEN [session |-> req[h].session, profile |-> req[h].profile,
             context |-> Context(req[h]) \o <<Assistant(r)>>, kept |-> req[h].keep]
       ELSE upstream[i]]

\* Mutant of Complete: commits at once, while the stream can still break off.
Complete_Commits(h) ==
  /\ req[h].pc = "streaming"
  /\ ~req[h].completed
  /\ LET r == ReplyOf(req[h])
     IN  /\ upstream' = Completed(h, r)
         /\ store' = Committed(store, req[h].session, req[h].profile, req[h].msgs, r)
         /\ req' = [req EXCEPT ![h].reply = r, ![h].completed = TRUE]
  /\ Numbered(req[h])
  /\ UNCHANGED <<known, broken, arrived>>

\* response.completed: the upstream has the response and its id arrives.
Complete(h) ==
  /\ req[h].pc = "streaming"
  /\ ~req[h].completed
  /\ LET r == ReplyOf(req[h])
     IN  /\ upstream' = Completed(h, r)
         /\ req' = [req EXCEPT ![h].reply = r, ![h].completed = TRUE]
  /\ Numbered(req[h])
  /\ UNCHANGED <<store, known, broken, arrived>>

\* The stream of q's reply ends with an error.
Breaks(q) == broken' = IF q.completed THEN broken \cup {q.reply} ELSE broken

\* Mutant of StreamRetry: the recursive call passes retriesLeft on unchanged.
StreamRetry_Unbounded(h) ==
  /\ req[h].pc = "streaming"
  /\ req[h].heard = {}
  /\ req[h].retries > 0
  /\ req' = [req EXCEPT ![h].pc = "prepare",
                        ![h].reply = NoReply, ![h].completed = FALSE]
  /\ Breaks(req[h])
  /\ UNCHANGED <<store, upstream, replies, known, arrived>>

\* A read error or a retriable failure event before any content: streamOnce
\* again with one retry less and the same forceFull.
StreamRetry(h) ==
  /\ req[h].pc = "streaming"
  /\ req[h].heard = {}
  /\ req[h].retries > 0
  /\ req' = [req EXCEPT ![h].pc = "prepare", ![h].retries = @ - 1,
                        ![h].reply = NoReply, ![h].completed = FALSE]
  /\ Breaks(req[h])
  /\ UNCHANGED <<store, upstream, replies, known, arrived>>

\* What the client may go on from once its message ends: the reply, if it was
\* given any of it.
Delivered(q) ==
  [known EXCEPT ![q.session] = @ \cup {Append(q.msgs, Assistant(r)) : r \in q.heard}]

\* Any other read error or failure event ends the message with its text.  (A
\* cancelled request or an error that is not retriable may end here too.)  The
\* client takes what it was given for the answer, or has left.
StreamFails(h) ==
  /\ req[h].pc = "streaming"
  /\ Breaks(req[h])
  /\ known' \in {known, Delivered(req[h])}
  /\ Finished(h)
  /\ UNCHANGED <<store, upstream, replies, arrived>>

\* The stream ends after response.completed: Commit, from then on in every
\* handler's sight.
StreamEndsCompleted(h) ==
  /\ req[h].pc = "streaming"
  /\ req[h].completed
  /\ \E gone \in ExpiredSets(store) :
       store' = Committed(Drop(store, gone), req[h].session, req[h].profile,
                          req[h].msgs, req[h].reply)
  /\ req' = [req EXCEPT ![h].pc = "finishing"]
  /\ UNCHANGED <<upstream, replies, known, broken, arrived>>

\* The stream ends with no response id (response.incomplete, or the upstream
\* just closes): the message finishes and nothing is committed.
StreamEndsUncommitted(h) ==
  /\ req[h].pc = "streaming"
  /\ ~req[h].completed
  /\ known' \in {known, Delivered(req[h])}
  /\ Finished(h)
  /\ UNCHANGED <<store, upstream, replies, broken, arrived>>

\* b.Finish: the client reads the end of its message, or has left.
Finish(h) ==
  /\ req[h].pc = "finishing"
  /\ known' \in {known, Delivered(req[h])}
  /\ Finished(h)
  /\ UNCHANGED <<store, upstream, replies, broken, arrived>>

-----------------------------------------------------------------------------
(* The upstream drops a stored response (retention, restart, other region). *)

Forget(r) ==
  /\ Kept(r)
  /\ upstream' = [upstream EXCEPT ![r].kept = FALSE]
  /\ UNCHANGED <<store, replies, known, broken, arrived, req>>

-----------------------------------------------------------------------------

Step(h) ==
  \/ Prepare(h) \/ PrepareFails(h)
  \/ PostAccepted(h) \/ PostRefused(h) \/ PostFails(h) \/ Invalidate(h)
  \/ EmitContent(h) \/ Complete(h) \/ StreamRetry(h) \/ StreamFails(h)
  \/ StreamEndsCompleted(h) \/ StreamEndsUncommitted(h) \/ Finish(h)

Next ==
  \/ \E h \in Handlers : Arrive(h) \/ Step(h)
  \/ \E r \in DOMAIN upstream : Forget(r)

Spec == Init /\ [][Next]_vars

\* A handler is never descheduled for ever, and its stream ends: the upstream
\* closes it or http.timeout_seconds cuts it.
FairSpec == Spec /\ \A h \in Handlers : WF_vars(Step(h))

-----------------------------------------------------------------------------
(* Properties *)

PCs == {"idle", "prepare", "post", "invalidate", "streaming", "finishing"}

Request ==
  [pc : PCs, session : Sessions \cup {NoSession}, profile : Profiles \cup {NoSession},
   msgs : Conversations, force : BOOLEAN, retries : 0 .. MaxRetries,
   posts : 0 .. MaxRetries + 3, chain : Chains, prev : Nat, keep : BOOLEAN,
   reply : Nat, completed : BOOLEAN, heard : SUBSET Replies]

Response ==
  [session : Sessions, profile : Profiles, context : Conversations, kept : BOOLEAN]

\* Every variable has its type; the store's order of uses is total, and the
\* response ids in use were issued.
TypeOK ==
  /\ StoreOK(store)
  /\ replies \in Nat
  /\ DOMAIN upstream \subseteq 1 .. replies
  /\ upstream \in [DOMAIN upstream -> Response]
  /\ known \in [Sessions -> SUBSET (Conversations \ {<<>>})]
  /\ broken \subseteq DOMAIN upstream
  /\ arrived \in 0 .. MaxRequests
  /\ req \in [Handlers -> Request]
  /\ \A h \in Handlers :
       /\ req[h].prev \in {NoReply} \cup DOMAIN upstream
       /\ req[h].reply <= replies
       /\ req[h].completed => req[h].reply \in DOMAIN upstream
       /\ req[h].pc # "idle" => /\ req[h].session \in Sessions
                                /\ req[h].profile \in Profiles
                                /\ req[h].msgs # <<>>
  /\ \A k \in Keys(store) : store.entries[k].resp \in DOMAIN upstream

\* The store never grows past its capacity, whatever commits, expiries and
\* invalidations interleave (Commit evicts before it inserts).
StoreBounded == Cardinality(Keys(store)) <= MaxEntries

\* A chained body only ever continues a response of the same session, model,
\* instructions and tools, although the store's keys leave the session out.
ChainsStayInSession ==
  \A h \in Handlers :
    LET r == req[h].prev
    IN  r # NoReply => /\ upstream[r].session = req[h].session
                       /\ upstream[r].profile = req[h].profile

\* One request costs at most one stream attempt per retry, plus one when its
\* previous response is lost: the two ways streamOnce calls itself do not
\* multiply.
PostsBounded == \A h \in Handlers : req[h].posts <= MaxRetries + 2

\* The message a client receives is made of one upstream reply: an attempt is
\* only repeated while nothing of it has been emitted.
OneReplyPerMessage == \A h \in Handlers : Cardinality(req[h].heard) <= 1

\* What each message adds to what the user said in a conversation.
Spoken(c) == [i \in 1 .. Len(c) |-> IF IsUser(c[i]) THEN c[i].blocks ELSE <<>>]

\* What the user said in a conversation, in order.
UserBlocks(c) == FlattenSeq(Spoken(c))

\* Every entry stands for an answer a later request may continue.  Its response
\* is one the upstream completed for the entry's session and profile, from a
\* conversation in which the user says what the key's messages say, which the
\* session's client did ask; and its stream did not break off after
\* response.completed.  (That the client has read it whole is not promised:
\* Commit comes first.)
EntriesAreAnswers ==
  \A k \in Keys(store) :
    LET e      == store.entries[k]
        answer == upstream[e.resp]
    IN  /\ k[2] \in known[e.session]
        /\ answer.session = e.session /\ answer.profile = k[1]
        /\ UserBlocks(answer.context) = UserBlocks(k[2])
        /\ e.resp \notin broken

\* A body, chained or not, puts before the model exactly what the user said in
\* the client's conversation: no user block is lost, repeated or reordered by
\* resuming a stored response and sending only a tail.
UserInputPreserved ==
  \A h \in Handlers :
    req[h].pc \in {"post", "streaming"} =>
      UserBlocks(Context(req[h])) = UserBlocks(req[h].msgs)

\* Apart from invalidation, entries leave the store in order of use: none goes
\* while a less recently used one stays, unless that one has just been renewed.
LeaveInOrderOfUse ==
  [][(\E h \in Handlers : Invalidate(h)) \/
     \A p \in store.older :
       p[2] \notin Keys(store') /\ p[1] \in Keys(store') =>
         \A k \in Keys(store') : <<p[1], k>> \notin store'.older]_vars

\* Every request is answered: no interleaving of retries, invalidations and
\* forced replays keeps a handler busy for ever.
Answered == \A h \in Handlers : req[h].pc # "idle" ~> req[h].pc = "idle"

=============================================================================
