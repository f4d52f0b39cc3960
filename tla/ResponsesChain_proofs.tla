------------------------ MODULE ResponsesChain_proofs ------------------------
(***************************************************************************)
(* Proofs about ResponsesChain for every number of handlers, sessions,     *)
(* profiles, blocks, requests and every store capacity and retry budget.   *)
(***************************************************************************)
EXTENDS ResponsesChain, FiniteSetTheorems, FunctionTheorems, SequenceTheorems, TLAPS

-----------------------------------------------------------------------------
(* Stores: the operators of SessionStore keep stores well formed and       *)
(* bounded, and Prepare only chains to entries of the asking session.      *)

\* The order of uses is well founded: any entries have an oldest among them.
WellOrdered(st) ==
  \A T \in SUBSET Keys(st) :
    T # {} => \E k \in T : \A j \in T : <<j, k>> \notin st.older

Bounded(st) == IsFiniteSet(Keys(st)) /\ Cardinality(Keys(st)) <= MaxEntries

GoodStore(st) == StoreOK(st) /\ WellOrdered(st) /\ Bounded(st)

-----------------------------------------------------------------------------

\* What is left of a sequence from a place on is a sequence over the same set.
LEMMA RestOfSeq ==
  ASSUME NEW S, NEW q \in Seq(S), NEW m \in Nat \ {0}
  PROVE  SubSeq(q, m, Len(q)) \in Seq(S)
<1>1. m \in Int /\ Len(q) \in Int /\ \A i \in m .. Len(q) : q[i] \in S
  OBVIOUS
<1>. QED  BY <1>1, SubSeqProperties, Zenon

\* The store a server starts with is good.
LEMMA EmptyGood == GoodStore(EmptyStore)
<1>1. Keys(EmptyStore) = {}
  BY DEF Keys, EmptyStore
<1>2. StoreOK(EmptyStore)
  BY DEF StoreOK, EmptyStore
<1>3. WellOrdered(EmptyStore)
  BY <1>1 DEF WellOrdered
<1>4. Bounded(EmptyStore)
  BY <1>1, FS_EmptySet, StoreAssumption DEF Bounded
<1>. QED  BY <1>2, <1>3, <1>4 DEF GoodStore

\* Removing entries (expiry, eviction, Invalidate) leaves the others alone.
LEMMA DropKeys ==
  ASSUME NEW st, StoreOK(st), NEW gone
  PROVE  /\ Keys(Drop(st, gone)) = Keys(st) \ gone
         /\ \A k \in Keys(st) \ gone : Drop(st, gone).entries[k] = st.entries[k]
         /\ \A j, k \in Keys(st) \ gone :
              <<j, k>> \in Drop(st, gone).older <=> <<j, k>> \in st.older
BY DEF Drop, Keys, StoreOK

\* Pruning, evicting and invalidating leave a good store.
LEMMA DropGood ==
  ASSUME NEW st, GoodStore(st), NEW gone
  PROVE  GoodStore(Drop(st, gone))
<1>. DEFINE d == Drop(st, gone)
<1>. StoreOK(st) /\ WellOrdered(st) /\ Bounded(st)
  BY DEF GoodStore
<1>1. /\ Keys(d) = Keys(st) \ gone
      /\ \A k \in Keys(st) \ gone : d.entries[k] = st.entries[k]
      /\ \A j, k \in Keys(st) \ gone : <<j, k>> \in d.older <=> <<j, k>> \in st.older
  BY DropKeys
<1>2. StoreOK(d)
  BY DEF StoreOK, Drop, Keys
<1>3. WellOrdered(d)
  BY <1>1 DEF WellOrdered
<1>4. Bounded(d)
  BY <1>1, FS_Subset, FS_CardinalityType, StoreAssumption DEF Bounded
<1>. QED  BY <1>2, <1>3, <1>4 DEF GoodStore

\* Using an entry only changes the order.
LEMMA TouchOK ==
  ASSUME NEW st, StoreOK(st), WellOrdered(st), NEW k \in Keys(st)
  PROVE  /\ StoreOK(Touch(st, k)) /\ WellOrdered(Touch(st, k))
         /\ Touch(st, k).entries = st.entries
         /\ Keys(Touch(st, k)) = Keys(st)
<1>. DEFINE t == Touch(st, k)
<1>1. t.entries = st.entries /\ Keys(t) = Keys(st)
  BY DEF Touch, Keys
<1>2. \A a, b \in Keys(st) :
        <<a, b>> \in t.older <=> IF b = k THEN a # k ELSE a # k /\ <<a, b>> \in st.older
  BY DEF Touch, Keys
<1>3. StoreOK(t)
  <2>1. t = [entries |-> t.entries, older |-> t.older]
    BY DEF Touch
  <2>2. t.older \subseteq Keys(st) \X Keys(st)
    BY DEF Touch, StoreOK, Keys
  <2>3. \A a, b \in Keys(st) :
          (<<a, b>> \in t.older) <=> (a # b /\ <<b, a>> \notin t.older)
    BY <1>2 DEF StoreOK, Keys
  <2>. QED  BY <1>1, <2>1, <2>2, <2>3 DEF StoreOK, Keys
<1>4. WellOrdered(t)
  <2>. SUFFICES ASSUME NEW T \in SUBSET Keys(st), T # {}
                PROVE  \E m \in T : \A j \in T : <<j, m>> \notin t.older
    BY <1>1 DEF WellOrdered
  <2>1. CASE T \subseteq {k}
    BY <2>1, <1>2
  <2>2. CASE ~(T \subseteq {k})
    <3>1. PICK m \in T \ {k} : \A j \in T \ {k} : <<j, m>> \notin st.older
      BY <2>2 DEF WellOrdered
    <3>. QED  BY <3>1, <1>2
  <2>. QED  BY <2>1, <2>2
<1>. QED  BY <1>1, <1>3, <1>4

\* A use of an entry leaves a good store.
LEMMA TouchGood ==
  ASSUME NEW st, GoodStore(st), NEW k \in Keys(st)
  PROVE  GoodStore(Touch(st, k))
BY TouchOK DEF GoodStore, Bounded

\* Storing an entry adds at most its key and leaves the other entries alone.
LEMMA PutOK ==
  ASSUME NEW st, StoreOK(st), WellOrdered(st),
         NEW k \in Fingerprints, NEW e \in Entry
  PROVE  /\ StoreOK(Put(st, k, e)) /\ WellOrdered(Put(st, k, e))
         /\ Keys(Put(st, k, e)) = Keys(st) \cup {k}
         /\ Put(st, k, e).entries[k] = e
         /\ \A j \in Keys(st) \ {k} : Put(st, k, e).entries[j] = st.entries[j]
<1>. DEFINE p == Put(st, k, e)
<1>1. /\ Keys(p) = Keys(st) \cup {k}
      /\ p.entries = [j \in Keys(st) \cup {k} |-> IF j = k THEN e ELSE st.entries[j]]
  BY DEF Put, Touch, Keys
<1>2. \A a, b \in Keys(st) \cup {k} :
        <<a, b>> \in p.older <=> IF b = k THEN a # k ELSE a # k /\ <<a, b>> \in st.older
  BY DEF Put, Touch, Keys, StoreOK
<1>3. StoreOK(p)
  <2>1. p = [entries |-> p.entries, older |-> p.older]
    BY DEF Put, Touch
  <2>2. p.older \subseteq (Keys(st) \cup {k}) \X (Keys(st) \cup {k})
    BY DEF Put, Touch, StoreOK, Keys
  <2>3. \A a, b \in Keys(st) \cup {k} :
          (<<a, b>> \in p.older) <=> (a # b /\ <<b, a>> \notin p.older)
    BY <1>2 DEF StoreOK, Keys
  <2>4. p.entries \in [Keys(st) \cup {k} -> Entry]
    BY <1>1 DEF StoreOK, Keys
  <2>5. Keys(st) \cup {k} \subseteq Fingerprints
    BY DEF StoreOK, Keys
  <2>. QED  BY <1>1, <2>1, <2>2, <2>3, <2>4, <2>5 DEF StoreOK, Keys
<1>4. WellOrdered(p)
  <2>. SUFFICES ASSUME NEW T \in SUBSET (Keys(st) \cup {k}), T # {}
                PROVE  \E m \in T : \A j \in T : <<j, m>> \notin p.older
    BY <1>1 DEF WellOrdered
  <2>1. CASE T \subseteq {k}
    BY <2>1, <1>2
  <2>2. CASE ~(T \subseteq {k})
    <3>1. PICK m \in T \ {k} : \A j \in T \ {k} : <<j, m>> \notin st.older
      BY <2>2 DEF WellOrdered
    <3>. QED  BY <3>1, <1>2
  <2>. QED  BY <2>1, <2>2
<1>. QED  BY <1>1, <1>3, <1>4

\* Commit's eviction leaves room for one more entry.
LEMMA MakeRoomGood ==
  ASSUME NEW st, GoodStore(st)
  PROVE  /\ GoodStore(MakeRoom(st))
         /\ Keys(MakeRoom(st)) \subseteq Keys(st)
         /\ \A k \in Keys(MakeRoom(st)) : MakeRoom(st).entries[k] = st.entries[k]
         /\ Cardinality(Keys(MakeRoom(st))) <= MaxEntries - 1
<1>. StoreOK(st) /\ WellOrdered(st) /\ Bounded(st)
  BY DEF GoodStore
<1>0. Cardinality(Keys(st)) \in Nat /\ MaxEntries \in Nat \ {0}
  BY FS_CardinalityType, StoreAssumption DEF Bounded
<1>1. CASE Cardinality(Keys(st)) >= MaxEntries
  <2>1. MakeRoom(st) = Drop(st, Oldest(st))
    BY <1>1 DEF MakeRoom
  <2>2. Keys(st) # {}
    BY <1>0, <1>1, FS_EmptySet
  <2>3. PICK k \in Keys(st) : k \in Oldest(st)
    BY <2>2 DEF WellOrdered, Oldest
  <2>4. /\ IsFiniteSet(Keys(st) \ {k})
        /\ Cardinality(Keys(st) \ {k}) = Cardinality(Keys(st)) - 1
    BY <2>3, FS_RemoveElement DEF Bounded
  <2>5. Keys(Drop(st, Oldest(st))) \subseteq Keys(st) \ {k}
    BY <2>3, DropKeys
  <2>6. /\ Cardinality(Keys(MakeRoom(st))) <= Cardinality(Keys(st) \ {k})
        /\ Cardinality(Keys(MakeRoom(st))) \in Nat
    BY <2>1, <2>4, <2>5, FS_Subset, FS_CardinalityType
  <2>7. Cardinality(Keys(MakeRoom(st))) <= MaxEntries - 1
    BY <2>4, <2>6, <1>0 DEF Bounded
  <2>8. GoodStore(MakeRoom(st))
    BY <2>1, DropGood
  <2>. QED  BY <2>1, <2>7, <2>8, DropKeys
<1>2. CASE ~(Cardinality(Keys(st)) >= MaxEntries)
  BY <1>0, <1>2 DEF MakeRoom
<1>. QED  BY <1>1, <1>2

\* Commit leaves a good store.
LEMMA CommittedGood ==
  ASSUME NEW st, GoodStore(st), NEW s, NEW p, NEW msgs, NEW r,
         Key(p, msgs) \in Fingerprints, NewEntry(s, p, msgs, r) \in Entry
  PROVE  LET c == Committed(st, s, p, msgs, r)
         IN  /\ GoodStore(c)
             /\ Keys(c) \subseteq Keys(st) \cup {Key(p, msgs)}
             /\ \A k \in Keys(c) : c.entries[k] = IF k = Key(p, msgs)
                                                    THEN NewEntry(s, p, msgs, r)
                                                    ELSE st.entries[k]
<1>. DEFINE m == MakeRoom(st)
            key == Key(p, msgs)
            e == NewEntry(s, p, msgs, r)
            c == Put(m, key, e)
<1>1. /\ StoreOK(m) /\ WellOrdered(m) /\ Bounded(m)
      /\ Keys(m) \subseteq Keys(st)
      /\ \A k \in Keys(m) : m.entries[k] = st.entries[k]
      /\ Cardinality(Keys(m)) <= MaxEntries - 1
  BY MakeRoomGood DEF GoodStore
<1>2. /\ StoreOK(c) /\ WellOrdered(c)
      /\ Keys(c) = Keys(m) \cup {key}
      /\ c.entries[key] = e
      /\ \A j \in Keys(m) \ {key} : c.entries[j] = m.entries[j]
  BY <1>1, PutOK
<1>3. Bounded(c)
  <2>1. /\ IsFiniteSet(Keys(m)) /\ Cardinality(Keys(m)) \in Nat
        /\ MaxEntries \in Nat
    BY <1>1, FS_CardinalityType, StoreAssumption DEF Bounded
  <2>2. /\ IsFiniteSet(Keys(m) \cup {key})
        /\ \/ Cardinality(Keys(m) \cup {key}) = Cardinality(Keys(m))
           \/ Cardinality(Keys(m) \cup {key}) = Cardinality(Keys(m)) + 1
    BY <2>1, FS_AddElement
  <2>. QED  BY <1>1, <1>2, <2>1, <2>2 DEF Bounded
<1>. QED  BY <1>1, <1>2, <1>3 DEF Committed, GoodStore

-----------------------------------------------------------------------------

\* What Prepare chains to is an entry of the asking session and profile.
LEMMA PreparedChainsOwned ==
  ASSUME NEW st, StoreOK(st), NEW s, NEW p, NEW msgs \in Conversations,
         msgs # <<>>, NEW c \in PreparedChains(st, s, p, msgs)
  PROVE  /\ c \in Chains
         /\ \/ c = NoChain
            \/ /\ c.key \in Keys(st)
               /\ c.resp = st.entries[c.key].resp
               /\ SameOwner(st.entries[c.key], s, p)
<1>0. /\ Len(msgs) \in Nat \ {0}
      /\ msgs[Len(msgs)] \in Message
  BY DEF Conversations
<1>1. ASSUME NEW k \in Keys(st), NEW tail \in Conversations
      PROVE  Chain(k, st.entries[k], tail) \in Chains
  BY <1>1 DEF Chain, Chains, StoreOK, Keys, Entry, Replies
<1>2. NoChain \in Chains
  BY DEF NoChain, Chains, NoKey, NoReply, Conversations
<1>3. CASE c \in AppendedChains(st, s, p, msgs)
  <2>1. PICK k \in AppendedCandidates(st, s, p, msgs) :
          c = Chain(k, st.entries[k],
                    <<ExtraBlocks(st.entries[k].last, msgs[Len(msgs)])>>)
    BY <1>3 DEF AppendedChains
  <2>2. k \in Keys(st) /\ SameOwner(st.entries[k], s, p)
    BY <2>1 DEF AppendedCandidates
  <2>3. ExtraBlocks(st.entries[k].last, msgs[Len(msgs)]) \in Message
    <3>. DEFINE bs == msgs[Len(msgs)].blocks
                n  == Len(st.entries[k].last.blocks)
    <3>1. bs \in Seq(Blocks \cup Replies)
      BY <1>0 DEF Message
    <3>2. n \in Nat
      BY <2>2 DEF StoreOK, Keys, Entry, Message
    <3>a. n + 1 \in Nat \ {0}
      BY <3>2, SMTT(30)
    <3>. HIDE DEF bs, n
    <3>3. SubSeq(bs, n + 1, Len(bs)) \in Seq(Blocks \cup Replies)
      BY <3>1, <3>a, RestOfSeq, Zenon
    <3>. QED  BY <3>3 DEF ExtraBlocks, User, Message, bs, n
  <2>4. <<ExtraBlocks(st.entries[k].last, msgs[Len(msgs)])>> \in Conversations
    BY <2>3 DEF Conversations
  <2>. QED  BY <2>1, <2>2, <2>4, <1>1 DEF Chain
<1>4. CASE c \in PrefixChains(st, s, p, msgs)
  <2>0. PICK n \in PrefixLengths(st, s, p, msgs) :
          \E j \in n + 1 .. Len(msgs) :
            LET k == Key(p, SubSeq(msgs, 1, n))
            IN  c = Chain(k, st.entries[k], SubSeq(msgs, j, Len(msgs)))
    BY <1>4 DEF PrefixChains
  <2>1. PICK j \in n + 1 .. Len(msgs) :
          LET k == Key(p, SubSeq(msgs, 1, n))
          IN  c = Chain(k, st.entries[k], SubSeq(msgs, j, Len(msgs)))
    BY <2>0
  <2>. DEFINE k == Key(p, SubSeq(msgs, 1, n))
  <2>2. n \in 1 .. Len(msgs) - 1 /\ k \in Keys(st) /\ SameOwner(st.entries[k], s, p)
    BY <2>1 DEF PrefixLengths
  <2>a. j \in Nat \ {0}
    BY <1>0, <2>2
  <2>3. SubSeq(msgs, j, Len(msgs)) \in Conversations
    BY <1>0, <2>2, <2>a, RestOfSeq, Zenon DEF Conversations
  <2>. QED  BY <2>1, <2>2, <2>3, <1>1 DEF Chain
<1>. QED  BY <1>2, <1>3, <1>4 DEF PreparedChains

\* Prepare leaves a good store.
LEMMA PreparedGood ==
  ASSUME NEW st, GoodStore(st), NEW c, c = NoChain \/ c.key \in Keys(st)
  PROVE  /\ GoodStore(Prepared(st, c))
         /\ Prepared(st, c).entries = st.entries
BY TouchGood, TouchOK DEF Prepared, GoodStore

-----------------------------------------------------------------------------
(* Requests *)

\* Types and the store's shape, proved together: evicting needs the order of
\* uses to be well founded, and storing needs well-typed requests.
ShapeInv == TypeOK /\ GoodStore(store)

-----------------------------------------------------------------------------
(* Typing facts *)

\* A new request has the type of requests.
LEMMA FreshTyped ==
  ASSUME NEW pc \in PCs, NEW s \in Sessions \cup {NoSession},
         NEW p \in Profiles \cup {NoSession}, NEW c \in Conversations
  PROVE  Fresh(pc, s, p, c) \in Request
<1>1. NoChain \in Chains
  BY DEF NoChain, Chains, NoKey, NoReply, Conversations
<1>. QED  BY <1>1, ChainAssumption DEF Fresh, Request, NoReply

\* So has no request.
LEMMA IdleTyped == Idle \in Request
<1>1. "idle" \in PCs /\ <<>> \in Conversations
  BY DEF PCs, Conversations
<1>. QED  BY <1>1, FreshTyped DEF Idle

\* Assigning typed values to the fields Prepare assigns.
LEMMA PostedTyped ==
  ASSUME NEW q \in Request, NEW c \in Chains, NEW pv \in Nat, NEW on \in BOOLEAN,
         NEW n \in 0 .. MaxRetries + 3
  PROVE  [q EXCEPT !.pc = "post", !.chain = c, !.prev = pv, !.keep = on, !.posts = n]
           \in Request
<1>1. [q EXCEPT !.pc = "post", !.chain = c] \in Request
  BY DEF Request, PCs
<1>2. ASSUME NEW r \in Request
      PROVE  [r EXCEPT !.prev = pv, !.keep = on, !.posts = n] \in Request
  BY DEF Request
<1>3. [q EXCEPT !.pc = "post", !.chain = c, !.prev = pv, !.keep = on, !.posts = n]
        = [[q EXCEPT !.pc = "post", !.chain = c] EXCEPT !.prev = pv, !.keep = on,
                                                         !.posts = n]
  OBVIOUS
<1>. QED  BY <1>1, <1>2, <1>3, Zenon

\* The messages clients add are messages.
LEMMA UserMessagesTyped == UserMessages \subseteq Message
<1>. SUFFICES ASSUME NEW b \in Blocks PROVE User(<<b>>) \in Message
  BY DEF UserMessages
<1>1. <<b>> \in Seq(Blocks \cup Replies)
  OBVIOUS
<1>. QED  BY <1>1 DEF User, Message

\* Conversations grow into conversations.
LEMMA AppendTyped ==
  ASSUME NEW c \in Conversations, NEW m \in Message
  PROVE  Append(c, m) \in Conversations \ {<<>>}
<1>1. /\ Append(c, m) \in Seq(Message)
      /\ Len(Append(c, m)) = Len(c) + 1 /\ Len(c) \in Nat
  BY DEF Conversations
<1>2. Len(Append(c, m)) # 0
  BY <1>1
<1>3. Len(<<>>) = 0
  OBVIOUS
<1>. QED  BY <1>1, <1>2, <1>3, Zenon DEF Conversations

\* A reply is an assistant message.
LEMMA AssistantTyped ==
  ASSUME NEW c \in Conversations, NEW r \in Replies
  PROVE  /\ Assistant(r) \in Message
         /\ Append(c, Assistant(r)) \in Conversations \ {<<>>}
<1>1. <<r>> \in Seq(Blocks \cup Replies)
  OBVIOUS
<1>2. Assistant(r) \in Message
  BY <1>1 DEF Assistant, Message
<1>. QED  BY <1>2, AppendTyped

\* What clients send is a conversation with at least one message.
LEMMA NextConversationsTyped ==
  ASSUME TypeOK, NEW s \in Sessions
  PROVE  NextConversations(s) \subseteq Conversations \ {<<>>}
<1>1. known[s] \subseteq Conversations \ {<<>>}
  BY DEF TypeOK
<1>3. ASSUME NEW c \in {<<>>} \cup known[s], NEW m \in UserMessages
      PROVE  Append(c, m) \in Conversations \ {<<>>}
  <2>1. m \in Message
    BY UserMessagesTyped
  <2>2. c \in Conversations
    <3>1. <<>> \in Conversations
      BY DEF Conversations
    <3>. QED  BY <1>1, <3>1
  <2>. QED  BY <2>1, <2>2, AppendTyped
<1>4. ASSUME NEW c \in known[s], NEW b \in Blocks
      PROVE  Widened(c, b) \in Conversations \ {<<>>}
  <2>1. c \in Seq(Message) /\ c # <<>> /\ Len(c) \in 1 .. Len(c)
    BY <1>1 DEF Conversations
  <2>2. c[Len(c)] \in Message
    BY <2>1
  <2>. DEFINE m == [c[Len(c)] EXCEPT !.blocks = Append(c[Len(c)].blocks, b)]
              d == [c EXCEPT ![Len(c)] = m]
  <2>3. m \in Message
    <3>1. Append(c[Len(c)].blocks, b) \in Seq(Blocks \cup Replies)
      BY <2>2 DEF Message
    <3>. QED  BY <2>2, <3>1 DEF Message
  <2>4. d \in Seq(Message) /\ Len(d) = Len(c)
    BY <2>1, <2>3
  <2>5. d # <<>>
    BY <2>1, <2>4
  <2>6. Widened(c, b) = d
    BY <2>1 DEF Widened
  <2>. QED  BY <2>4, <2>5, <2>6 DEF Conversations
<1>5. Followups(s) \subseteq Conversations \ {<<>>}
  <2>. SUFFICES ASSUME NEW x \in Followups(s) PROVE x \in Conversations \ {<<>>}
    BY Zenon
  <2>1. PICK c \in {<<>>} \cup known[s], m \in UserMessages : x = Append(c, m)
    BY SMT DEF Followups
  <2>. QED  BY <1>3, <2>1, Zenon
<1>6. Asked(s) \subseteq Conversations \ {<<>>}
  BY <1>1 DEF Asked
<1>7. Widenings(s) \subseteq Conversations \ {<<>>}
  <2>. SUFFICES ASSUME NEW x \in Widenings(s) PROVE x \in Conversations \ {<<>>}
    BY Zenon
  <2>1. PICK c \in known[s], b \in Blocks : x = Widened(c, b)
    BY SMT DEF Asked, Widenings
  <2>. QED  BY <1>4, <2>1, Zenon
<1>. QED  BY <1>5, <1>6, <1>7 DEF NextConversations

\* What Commit stores is an entry.
LEMMA EntryTyped ==
  ASSUME NEW s \in Sessions, NEW p \in Profiles, NEW msgs \in Conversations,
         msgs # <<>>, NEW r \in Replies
  PROVE  /\ Key(p, msgs) \in Fingerprints
         /\ NewEntry(s, p, msgs, r) \in Entry
<1>1. Len(msgs) \in Nat /\ msgs[Len(msgs)] \in Message
  BY DEF Conversations
<1>2. ParentKey(p, msgs) \in Fingerprints \cup {NoKey}
  BY <1>1 DEF ParentKey, Key, Fingerprints, Conversations
<1>. QED  BY <1>1, <1>2 DEF Key, Fingerprints, NewEntry, Entry

\* The context of a posted body is a conversation.
LEMMA ContextTyped ==
  ASSUME TypeOK, NEW h \in Handlers
  PROVE  Context(req[h]) \in Conversations
<1>1. req[h] \in Request /\ req[h].prev \in {NoReply} \cup DOMAIN upstream
  BY DEF TypeOK
<1>2. req[h].msgs \in Seq(Message) /\ req[h].chain.tail \in Seq(Message)
  BY <1>1 DEF Request, Chains, Conversations
<1>3. ASSUME req[h].prev # NoReply
      PROVE  upstream[req[h].prev].context \in Seq(Message)
  BY <1>1, <1>3 DEF TypeOK, Response, Conversations
<1>. QED  BY <1>2, <1>3 DEF Context, Conversations

-----------------------------------------------------------------------------
(* Types and shape *)

\* The initial state has the shape.
LEMMA ShapeInit == Init => ShapeInv
<1>. SUFFICES ASSUME Init PROVE ShapeInv
  OBVIOUS
<1>1. GoodStore(store)
  BY EmptyGood DEF Init
<1>2. TypeOK
  BY <1>1, IdleTyped, ChainAssumption
  DEF Init, TypeOK, GoodStore, EmptyStore, Keys, Idle, Fresh, NoReply, Conversations
<1>. QED  BY <1>1, <1>2 DEF ShapeInv

\* What TypeOK says of one request, for response ids ups and n replies.
Served(q, ups, n) ==
  /\ q \in Request
  /\ q.prev \in {NoReply} \cup ups
  /\ q.reply <= n
  /\ q.completed => q.reply \in ups
  /\ q.pc # "idle" => q.session \in Sessions /\ q.profile \in Profiles /\ q.msgs # <<>>

AllServed == req \in [Handlers -> Request] /\
             \A h \in Handlers : Served(req[h], DOMAIN upstream, replies)

\* The shape of a request, put together from the types.
LEMMA ServedFromTypes ==
  ASSUME TypeOK
  PROVE  AllServed
BY DEF TypeOK, Served, AllServed

\* No request refers to no response.
LEMMA IdleServed == Served(Idle, DOMAIN upstream, replies) <=> 0 <= replies
BY IdleTyped DEF Served, Idle, Fresh, NoReply

\* One request changes, and response ids and replies only become more.
LEMMA OneServed ==
  ASSUME TypeOK, replies' \in Nat, replies <= replies',
         DOMAIN upstream \subseteq DOMAIN upstream',
         NEW h \in Handlers, NEW q,
         req' = [req EXCEPT ![h] = q], Served(q, DOMAIN upstream', replies')
  PROVE  AllServed'
<1>1. req \in [Handlers -> Request] /\ q \in Request
  BY DEF TypeOK, Served
<1>2. ASSUME NEW g \in Handlers PROVE Served(req'[g], DOMAIN upstream', replies')
  <2>1. CASE g = h
    BY <1>1, <2>1
  <2>2. CASE g # h
    <3>1. req'[g] = req[g]
      BY <1>1, <2>2
    <3>2. req[g].reply \in Nat /\ req[g].reply <= replies /\ replies \in Nat
      BY <1>1 DEF TypeOK, Request
    <3>3. req[g].reply <= replies'
      BY <3>2
    <3>. QED  BY <3>1, <3>3 DEF TypeOK, Served
  <2>. QED  BY <2>1, <2>2
<1>3. req' \in [Handlers -> Request]
  BY <1>1
<1>. QED  BY <1>2, <1>3 DEF AllServed

\* The parts of ShapeInv again, one step later.
LEMMA ShapeParts ==
  ASSUME AllServed', GoodStore(store'), replies' \in Nat,
         DOMAIN upstream' \subseteq 1 .. replies',
         upstream' \in [DOMAIN upstream' -> Response],
         known' \in [Sessions -> SUBSET (Conversations \ {<<>>})],
         broken' \subseteq DOMAIN upstream', arrived' \in 0 .. MaxRequests,
         \A k \in Keys(store') : store'.entries[k].resp \in DOMAIN upstream'
  PROVE  ShapeInv'
BY DEF ShapeInv, TypeOK, AllServed, Served, GoodStore

\* A handler changes only its request.
LEMMA ShapeLocal ==
  ASSUME ShapeInv, NEW h \in Handlers, NEW q, req' = [req EXCEPT ![h] = q],
         Served(q, DOMAIN upstream, replies), broken' \subseteq DOMAIN upstream',
         UNCHANGED <<store, upstream, replies, known, arrived>>
  PROVE  ShapeInv'
<1>1. TypeOK /\ GoodStore(store)
  BY DEF ShapeInv
<1>2. replies' \in Nat /\ replies <= replies' /\ DOMAIN upstream \subseteq DOMAIN upstream'
  BY <1>1 DEF TypeOK
<1>3. Served(q, DOMAIN upstream', replies')
  OBVIOUS
<1>4. AllServed'
  BY <1>1, <1>2, <1>3, OneServed
<1>. QED  BY <1>1, <1>4, ShapeParts DEF TypeOK

\* Only a completed reply can break off afterwards.
LEMMA BrokenTyped ==
  ASSUME TypeOK, [Next]_vars
  PROVE  broken' \subseteq DOMAIN upstream'
<1>1. ASSUME NEW h \in Handlers, StreamRetry(h) \/ StreamFails(h)
      PROVE  broken' \subseteq DOMAIN upstream'
  BY <1>1 DEF StreamRetry, StreamFails, Breaks, TypeOK
<1>2. ASSUME NEW h \in Handlers, Complete(h) PROVE broken' \subseteq DOMAIN upstream'
  BY <1>2 DEF Complete, Completed, TypeOK
<1>3. ASSUME NEW h \in Handlers, Arrive(h) \/ Step(h), ~Complete(h),
             ~StreamRetry(h), ~StreamFails(h)
      PROVE  UNCHANGED <<broken, upstream>>
  BY <1>3
  DEF Arrive, Step, Prepare, PrepareFails, PostAccepted, PostRefused, PostFails, Invalidate,
      EmitContent, StreamEndsCompleted, StreamEndsUncommitted, Finish
<1>4. ASSUME NEW r \in DOMAIN upstream, Forget(r) PROVE broken' \subseteq DOMAIN upstream'
  BY <1>4 DEF Forget, TypeOK
<1>5. UNCHANGED <<broken, upstream>> => broken' \subseteq DOMAIN upstream'
  BY DEF TypeOK
<1>. QED  BY <1>1, <1>2, <1>3, <1>4, <1>5 DEF Next, vars

\* Every step keeps the shape.
LEMMA ShapeNext == ShapeInv /\ [Next]_vars => ShapeInv'
<1>. SUFFICES ASSUME ShapeInv, [Next]_vars PROVE ShapeInv'
  OBVIOUS
<1>types. TypeOK /\ GoodStore(store) /\ AllServed
  BY ServedFromTypes DEF ShapeInv
<1>idle. Served(Idle, DOMAIN upstream, replies)
  BY <1>types, IdleServed DEF TypeOK
<1>. broken' \subseteq DOMAIN upstream'
  BY <1>types, BrokenTyped
<1>1. ASSUME NEW h \in Handlers, Arrive(h) PROVE ShapeInv'
  <2>. DEFINE Sent(s, p, c) == /\ known' = [known EXCEPT ![s] = @ \cup {c}]
                               /\ req' = [req EXCEPT ![h] = Fresh("prepare", s, p, c)]
  <2>1. PICK s \in Sessions, p \in Profiles : \E c \in NextConversations(s) : Sent(s, p, c)
    BY <1>1 DEF Arrive
  <2>2. PICK c \in NextConversations(s) : Sent(s, p, c)
    BY <2>1
  <2>3. c \in Conversations \ {<<>>}
    BY <1>types, NextConversationsTyped
  <2>. DEFINE q == Fresh("prepare", s, p, c)
  <2>4. q \in Request
    BY <2>3, FreshTyped DEF PCs
  <2>5. /\ q.prev = NoReply /\ q.reply = 0 /\ ~q.completed
        /\ q.session = s /\ q.profile = p /\ q.msgs = c
    BY DEF Fresh, NoReply
  <2>. HIDE DEF q
  <2>6. req' = [req EXCEPT ![h] = q]
    BY <2>2 DEF q
  <2>7. Served(q, DOMAIN upstream, replies)
    BY <1>types, <2>3, <2>4, <2>5 DEF Served, TypeOK
  <2>8. UNCHANGED <<store, upstream, replies>> /\ arrived' \in 0 .. MaxRequests
    BY <1>1, <1>types, ChainAssumption DEF Arrive, TypeOK
  <2>9. AllServed'
    <3>1. replies' \in Nat /\ replies <= replies' /\ DOMAIN upstream \subseteq DOMAIN upstream'
      BY <1>types, <2>8 DEF TypeOK
    <3>2. Served(q, DOMAIN upstream', replies')
      BY <2>7, <2>8
    <3>. QED  BY <1>types, <2>6, <3>1, <3>2, OneServed
  <2>10. known' \in [Sessions -> SUBSET (Conversations \ {<<>>})]
    BY <1>types, <2>2, <2>3 DEF TypeOK
  <2>. QED  BY <1>types, <2>8, <2>9, <2>10, ShapeParts DEF TypeOK
<1>2. ASSUME NEW h \in Handlers, Prepare(h) \/ PrepareFails(h) PROVE ShapeInv'
  <2>1. /\ req[h] \in Request /\ req[h].msgs \in Conversations /\ req[h].msgs # <<>>
        /\ req[h].session \in Sessions /\ req[h].profile \in Profiles
        /\ req[h].prev \in {NoReply} \cup DOMAIN upstream
        /\ req[h].reply <= replies
        /\ req[h].completed => req[h].reply \in DOMAIN upstream
    BY <1>2, <1>types DEF TypeOK, Prepare, PrepareFails, Request
  <2>. DEFINE Posted(c, on) ==
                [req EXCEPT ![h].pc = "post",
                            ![h].chain = c,
                            ![h].prev = IF ~req[h].force /\ on /\ c.resp # NoReply
                                          THEN c.resp ELSE NoReply,
                            ![h].keep = on,
                            ![h].posts = IF @ > MaxRetries + 2 THEN @ ELSE @ + 1]
              Found(st) == PreparedChains(st, req[h].session, req[h].profile, req[h].msgs)
              Did(st, c) == /\ store' = Prepared(st, c)
                            /\ \/ \E on \in ChainModes : req' = Posted(c, on)
                               \/ req' = [req EXCEPT ![h] = Idle]
  <2>2. PICK gone \in ExpiredSets(store) :
          \E c \in Found(Drop(store, gone)) : Did(Drop(store, gone), c)
    BY <1>2, ZenonT(40) DEF Prepare, PrepareFails, Finished
  <2>. DEFINE st == Drop(store, gone)
  <2>3. PICK c \in Found(st) : Did(st, c)
    BY <2>2
  <2>4. GoodStore(st) /\ StoreOK(st)
    BY <1>types, DropGood DEF GoodStore
  <2>5. /\ Keys(st) \subseteq Keys(store)
        /\ \A k \in Keys(st) : st.entries[k] = store.entries[k]
    BY <1>types, DropKeys DEF GoodStore
  <2>. HIDE DEF st
  <2>6. /\ c \in Chains
        /\ c = NoChain \/ (c.key \in Keys(st) /\ c.resp = st.entries[c.key].resp)
    <3>1. c \in PreparedChains(st, req[h].session, req[h].profile, req[h].msgs)
      OBVIOUS
    <3>. QED  BY <2>1, <2>4, <3>1, PreparedChainsOwned, ZenonT(40)
  <2>7. GoodStore(store') /\ store'.entries = st.entries
    BY <2>1, <2>3, <2>4, <2>6, PreparedGood
  <2>8. c.resp \in {NoReply} \cup DOMAIN upstream
    BY <1>types, <2>5, <2>6 DEF TypeOK, NoChain
  <2>9. \A k \in Keys(store') : store'.entries[k].resp \in DOMAIN upstream
    BY <1>types, <2>5, <2>7 DEF TypeOK, Keys
  <2>10. UNCHANGED <<upstream, replies, known, arrived>>
    BY <1>2 DEF Prepare, PrepareFails
  <2>11. /\ replies' \in Nat /\ replies <= replies'
         /\ DOMAIN upstream \subseteq DOMAIN upstream'
    BY <1>types, <2>10 DEF TypeOK
  <2>12. CASE req' = [req EXCEPT ![h] = Idle]
    <3>1. Served(Idle, DOMAIN upstream', replies')
      BY <1>idle, <2>10
    <3>2. AllServed'
      BY <1>types, <2>11, <2>12, <3>1, OneServed
    <3>. QED  BY <1>types, <2>7, <2>9, <2>10, <3>2, ShapeParts DEF TypeOK
  <2>13. ASSUME NEW on \in ChainModes, req' = Posted(c, on) PROVE ShapeInv'
    <3>. DEFINE pv == IF ~req[h].force /\ on /\ c.resp # NoReply THEN c.resp ELSE NoReply
                n  == IF req[h].posts > MaxRetries + 2 THEN req[h].posts
                                                       ELSE req[h].posts + 1
                q  == [req[h] EXCEPT !.pc = "post", !.chain = c, !.prev = pv,
                                     !.keep = on, !.posts = n]
    <3>1. req' = [req EXCEPT ![h] = q]
      BY <1>types, <2>13 DEF TypeOK
    <3>2. n \in 0 .. MaxRetries + 3
      BY <2>1, ChainAssumption DEF Request
    <3>3. pv \in Nat /\ pv \in {NoReply} \cup DOMAIN upstream /\ on \in BOOLEAN
      BY <2>6, <2>8, ChainAssumption DEF Chains, NoReply
    <3>4. /\ q.prev = pv /\ q.reply = req[h].reply /\ q.completed = req[h].completed
          /\ q.session = req[h].session
          /\ q.profile = req[h].profile /\ q.msgs = req[h].msgs
      BY <2>1 DEF Request
    <3>. HIDE DEF pv, n
    <3>5. q \in Request
      BY <2>1, <2>6, <3>2, <3>3, PostedTyped
    <3>. HIDE DEF q
    <3>6. Served(q, DOMAIN upstream', replies')
      BY <2>1, <2>10, <3>3, <3>4, <3>5 DEF Served
    <3>7. AllServed'
      BY <1>types, <2>11, <3>1, <3>6, OneServed
    <3>. QED  BY <1>types, <2>7, <2>9, <2>10, <3>7, ShapeParts DEF TypeOK
  <2>. QED  BY <2>3, <2>12, <2>13
<1>3. ASSUME NEW h \in Handlers, PostAccepted(h) PROVE ShapeInv'
  <2>1. Served(req[h], DOMAIN upstream, replies) /\ req[h].pc # "idle"
    BY <1>3, <1>types DEF PostAccepted, AllServed
  <2>. DEFINE q == [req[h] EXCEPT !.pc = "streaming"]
  <2>2. req' = [req EXCEPT ![h] = q]
    BY <1>3, <1>types DEF PostAccepted, TypeOK
  <2>3. Served(q, DOMAIN upstream, replies)
    BY <2>1 DEF Served, Request, PCs
  <2>4. UNCHANGED <<store, upstream, replies, known, arrived>>
    BY <1>3 DEF PostAccepted
  <2>. HIDE DEF q
  <2>. QED  BY <2>2, <2>3, <2>4, ShapeLocal
<1>4. ASSUME NEW h \in Handlers, PostRefused(h) PROVE ShapeInv'
  <2>1. Served(req[h], DOMAIN upstream, replies) /\ req[h].pc # "idle"
    BY <1>4, <1>types DEF PostRefused, AllServed
  <2>. DEFINE q == [req[h] EXCEPT !.pc = "invalidate"]
  <2>2. req' = [req EXCEPT ![h] = q]
    BY <1>4, <1>types DEF PostRefused, TypeOK
  <2>3. Served(q, DOMAIN upstream, replies)
    BY <2>1 DEF Served, Request, PCs
  <2>4. UNCHANGED <<store, upstream, replies, known, arrived>>
    BY <1>4 DEF PostRefused
  <2>. HIDE DEF q
  <2>. QED  BY <2>2, <2>3, <2>4, ShapeLocal
<1>5. ASSUME NEW h \in Handlers, PostFails(h) PROVE ShapeInv'
  BY <1>5, <1>idle, ShapeLocal DEF PostFails, Finished
<1>7. ASSUME NEW h \in Handlers, Invalidate(h) PROVE ShapeInv'
  <2>1. Served(req[h], DOMAIN upstream, replies) /\ req[h].pc # "idle"
    BY <1>7, <1>types DEF Invalidate, AllServed
  <2>. DEFINE q == [req[h] EXCEPT !.pc = "prepare", !.force = TRUE]
  <2>2. req' = [req EXCEPT ![h] = q]
    BY <1>7, <1>types DEF Invalidate, TypeOK
  <2>3. UNCHANGED <<upstream, replies, known, arrived>>
    BY <1>7 DEF Invalidate
  <2>4. Served(q, DOMAIN upstream', replies')
    BY <2>1, <2>3 DEF Served, Request, PCs
  <2>. HIDE DEF q
  <2>5. /\ GoodStore(store')
        /\ Keys(store') \subseteq Keys(store)
        /\ \A k \in Keys(store') : store'.entries[k] = store.entries[k]
    BY <1>7, <1>types, DropGood, DropKeys DEF Invalidate, Invalidated, GoodStore
  <2>6. \A k \in Keys(store') : store'.entries[k].resp \in DOMAIN upstream
    BY <1>types, <2>5 DEF TypeOK
  <2>7. /\ replies' \in Nat /\ replies <= replies'
        /\ DOMAIN upstream \subseteq DOMAIN upstream'
    BY <1>types, <2>3 DEF TypeOK
  <2>8. AllServed'
    BY <1>types, <2>2, <2>4, <2>7, OneServed
  <2>. QED  BY <1>types, <2>3, <2>5, <2>6, <2>8, ShapeParts DEF TypeOK
<1>8. ASSUME NEW h \in Handlers, EmitContent(h) PROVE ShapeInv'
  <2>1. /\ Served(req[h], DOMAIN upstream, replies)
        /\ req[h].pc # "idle" /\ ~req[h].completed
    BY <1>8, <1>types DEF EmitContent, AllServed
  <2>. DEFINE r == ReplyOf(req[h])
              q == [req[h] EXCEPT !.reply = r, !.heard = @ \cup {r}]
  <2>2. /\ r \in Replies /\ r <= replies'
        /\ replies' \in Nat /\ replies <= replies'
    BY <1>8, <1>types, <2>1
    DEF EmitContent, ReplyOf, Numbered, Served, TypeOK, Request, Replies, NoReply
  <2>3. req' = [req EXCEPT ![h] = q]
    BY <1>8, <1>types DEF EmitContent, TypeOK
  <2>4. UNCHANGED <<store, upstream, known, arrived>>
    BY <1>8 DEF EmitContent
  <2>. HIDE DEF r
  <2>5. Served(q, DOMAIN upstream', replies')
    BY <2>1, <2>2, <2>4 DEF Served, Request, Replies
  <2>. HIDE DEF q
  <2>6. AllServed'
    BY <1>types, <2>2, <2>3, <2>4, <2>5, OneServed
  <2>7. DOMAIN upstream' \subseteq 1 .. replies'
    BY <1>types, <2>2, <2>4 DEF TypeOK
  <2>. QED  BY <1>types, <2>2, <2>4, <2>6, <2>7, ShapeParts DEF TypeOK
<1>9. ASSUME NEW h \in Handlers, Complete(h) PROVE ShapeInv'
  <2>1. Served(req[h], DOMAIN upstream, replies) /\ req[h].pc # "idle"
    BY <1>9, <1>types DEF Complete, Completed, AllServed
  <2>. DEFINE r == ReplyOf(req[h])
              q == [req[h] EXCEPT !.reply = r, !.completed = TRUE]
              u == [session |-> req[h].session, profile |-> req[h].profile,
                    context |-> Context(req[h]) \o <<Assistant(r)>>, kept |-> req[h].keep]
  <2>2. /\ r \in Replies /\ r <= replies' /\ r \in 1 .. replies'
        /\ replies' \in Nat /\ replies <= replies'
    BY <1>9, <1>types, <2>1
    DEF Complete, Completed, ReplyOf, Numbered, Served, TypeOK, Request, Replies, NoReply
  <2>3. req' = [req EXCEPT ![h] = q]
    BY <1>9, <1>types DEF Complete, Completed, TypeOK
  <2>4. UNCHANGED <<store, known, arrived>>
        /\ upstream' = [i \in DOMAIN upstream \cup {r} |-> IF i = r THEN u ELSE upstream[i]]
    BY <1>9 DEF Complete, Completed
  <2>. HIDE DEF r
  <2>5. Context(req[h]) \o <<Assistant(r)>> \in Conversations
    <3>1. Context(req[h]) \in Seq(Message)
      BY <1>types, ContextTyped DEF Conversations
    <3>2. Assistant(r) \in Message
      <4>1. <<>> \in Conversations
        BY DEF Conversations
      <4>. QED  BY <2>2, <4>1, AssistantTyped
    <3>3. <<Assistant(r)>> \in Seq(Message)
      BY <3>2
    <3>. QED  BY <3>1, <3>3 DEF Conversations
  <2>6. u \in Response
    BY <2>1, <2>5 DEF Response, Served, Request
  <2>. HIDE DEF u
  <2>7. /\ DOMAIN upstream' = DOMAIN upstream \cup {r}
        /\ upstream' \in [DOMAIN upstream' -> Response]
    BY <1>types, <2>4, <2>6 DEF TypeOK
  <2>8. Served(q, DOMAIN upstream', replies')
    BY <2>1, <2>2, <2>7, <1>types DEF Served, Request, Replies
  <2>. HIDE DEF q
  <2>9. AllServed'
    BY <1>types, <2>2, <2>3, <2>7, <2>8, OneServed
  <2>10. DOMAIN upstream' \subseteq 1 .. replies'
    BY <1>types, <2>2, <2>7 DEF TypeOK
  <2>11. \A k \in Keys(store') : store'.entries[k].resp \in DOMAIN upstream'
    BY <1>types, <2>4, <2>7 DEF TypeOK
  <2>. QED  BY <1>types, <2>2, <2>4, <2>7, <2>9, <2>10, <2>11, ShapeParts DEF TypeOK
<1>10. ASSUME NEW h \in Handlers, StreamRetry(h) PROVE ShapeInv'
  <2>1. Served(req[h], DOMAIN upstream, replies) /\ req[h].pc # "idle"
    BY <1>10, <1>types DEF StreamRetry, AllServed
  <2>. DEFINE q == [req[h] EXCEPT !.pc = "prepare", !.retries = @ - 1,
                                     !.reply = NoReply, !.completed = FALSE]
  <2>2. req' = [req EXCEPT ![h] = q]
    BY <1>10, <1>types DEF StreamRetry, TypeOK
  <2>a. /\ req[h].retries \in 0 .. MaxRetries /\ req[h].retries > 0
        /\ MaxRetries \in Nat /\ replies \in Nat
    BY <1>10, <1>types, <2>1, ChainAssumption DEF StreamRetry, Served, Request, TypeOK
  <2>b. req[h].retries - 1 \in 0 .. MaxRetries
    BY <2>a
  <2>3. Served(q, DOMAIN upstream, replies)
    <3>1. q \in Request
      BY <2>1, <2>b DEF Served, Request, PCs, NoReply
    <3>2. /\ q.prev = req[h].prev /\ q.reply = NoReply /\ ~q.completed
          /\ q.session = req[h].session /\ q.profile = req[h].profile
          /\ q.msgs = req[h].msgs
      BY <2>1 DEF Served, Request
    <3>. HIDE DEF q
    <3>. QED  BY <2>1, <2>a, <3>1, <3>2 DEF Served, NoReply
  <2>4. UNCHANGED <<store, upstream, replies, known, arrived>>
    BY <1>10 DEF StreamRetry
  <2>. HIDE DEF q
  <2>. QED  BY <2>2, <2>3, <2>4, ShapeLocal
<1>11. ASSUME NEW h \in Handlers, req[h].pc # "idle",
              known' \in {known, Delivered(req[h])}
       PROVE  known' \in [Sessions -> SUBSET (Conversations \ {<<>>})]
  <2>1. /\ req[h].session \in Sessions /\ req[h].msgs \in Conversations
        /\ req[h].heard \subseteq Replies
    BY <1>11, <1>types DEF TypeOK, Request
  <2>2. CASE known' = known
    BY <1>types, <2>2 DEF TypeOK
  <2>3. CASE known' # known
    <3>. DEFINE new == {Append(req[h].msgs, Assistant(r)) : r \in req[h].heard}
    <3>1. known' = [known EXCEPT ![req[h].session] = @ \cup new]
      BY <1>11, <2>3 DEF Delivered
    <3>2. new \subseteq Conversations \ {<<>>}
      BY <2>1, AssistantTyped
    <3>. HIDE DEF new
    <3>. QED  BY <1>types, <2>1, <3>1, <3>2 DEF TypeOK
  <2>. QED  BY <2>2, <2>3
<1>12. ASSUME NEW h \in Handlers,
              StreamFails(h) \/ StreamEndsUncommitted(h) \/ Finish(h)
       PROVE  ShapeInv'
  <2>1. known' \in [Sessions -> SUBSET (Conversations \ {<<>>})]
    BY <1>11, <1>12 DEF StreamFails, StreamEndsUncommitted, Finish
  <2>2. req' = [req EXCEPT ![h] = Idle] /\ UNCHANGED <<store, upstream, replies, arrived>>
    BY <1>12 DEF StreamFails, StreamEndsUncommitted, Finish, Finished
  <2>3. /\ replies' \in Nat /\ replies <= replies'
        /\ DOMAIN upstream \subseteq DOMAIN upstream'
        /\ Served(Idle, DOMAIN upstream', replies')
    BY <1>types, <1>idle, <2>2 DEF TypeOK
  <2>4. AllServed'
    BY <1>types, <2>2, <2>3, OneServed
  <2>. QED  BY <1>types, <2>1, <2>2, <2>4, ShapeParts DEF TypeOK
<1>13. ASSUME NEW h \in Handlers, StreamEndsCompleted(h) PROVE ShapeInv'
  <2>. DEFINE q == [req[h] EXCEPT !.pc = "finishing"]
  <2>1. UNCHANGED known
    BY <1>13 DEF StreamEndsCompleted
  <2>2. req' = [req EXCEPT ![h] = q] /\ UNCHANGED <<upstream, replies, arrived>>
    BY <1>13, <1>types DEF StreamEndsCompleted, TypeOK
  <2>a. Served(req[h], DOMAIN upstream, replies) /\ req[h].pc # "idle"
    BY <1>13, <1>types DEF StreamEndsCompleted, AllServed
  <2>b. Served(q, DOMAIN upstream, replies)
    BY <2>a DEF Served, Request, PCs
  <2>. HIDE DEF q
  <2>3. /\ replies' \in Nat /\ replies <= replies'
        /\ DOMAIN upstream \subseteq DOMAIN upstream'
        /\ Served(q, DOMAIN upstream', replies')
    BY <1>types, <2>2, <2>b DEF TypeOK
  <2>4. AllServed'
    BY <1>types, <2>2, <2>3, OneServed
  <2>5. /\ req[h].session \in Sessions /\ req[h].profile \in Profiles
        /\ req[h].msgs \in Conversations \ {<<>>}
        /\ req[h].reply \in DOMAIN upstream
    BY <1>13, <1>types DEF StreamEndsCompleted, TypeOK, Request
  <2>6. req[h].reply \in Replies
    BY <1>types, <2>5 DEF TypeOK, Replies
  <2>. DEFINE key == Key(req[h].profile, req[h].msgs)
              new == NewEntry(req[h].session, req[h].profile, req[h].msgs, req[h].reply)
  <2>7. key \in Fingerprints /\ new \in Entry
    BY <2>5, <2>6, EntryTyped
  <2>8. PICK gone \in ExpiredSets(store) :
          store' = Committed(Drop(store, gone), req[h].session, req[h].profile,
                             req[h].msgs, req[h].reply)
    BY <1>13 DEF StreamEndsCompleted
  <2>. DEFINE st == Drop(store, gone)
  <2>9. /\ GoodStore(st) /\ Keys(st) \subseteq Keys(store)
        /\ \A k \in Keys(st) : st.entries[k] = store.entries[k]
    BY <1>types, DropGood, DropKeys DEF GoodStore
  <2>. HIDE DEF st
  <2>10. /\ GoodStore(store')
         /\ Keys(store') \subseteq Keys(st) \cup {key}
         /\ \A k \in Keys(store') : store'.entries[k] = IF k = key THEN new
                                                         ELSE st.entries[k]
    BY <2>7, <2>8, <2>9, CommittedGood DEF st
  <2>11. new.resp = req[h].reply
    BY DEF NewEntry
  <2>. HIDE DEF key, new
  <2>12. \A k \in Keys(store') : store'.entries[k].resp \in DOMAIN upstream
    BY <1>types, <2>5, <2>9, <2>10, <2>11 DEF TypeOK
  <2>. QED  BY <1>types, <2>1, <2>2, <2>4, <2>10, <2>12, ShapeParts DEF TypeOK
<1>14. ASSUME NEW r \in DOMAIN upstream, Forget(r) PROVE ShapeInv'
  <2>1. /\ upstream' = [upstream EXCEPT ![r].kept = FALSE]
        /\ UNCHANGED <<store, replies, known, arrived, req>>
    BY <1>14 DEF Forget
  <2>2. [upstream[r] EXCEPT !.kept = FALSE] \in Response
    BY <1>types DEF TypeOK, Response
  <2>3. /\ DOMAIN upstream' = DOMAIN upstream
        /\ upstream' \in [DOMAIN upstream' -> Response]
    BY <1>types, <2>1, <2>2 DEF TypeOK
  <2>4. AllServed'
    BY <1>types, <2>1, <2>3 DEF AllServed
  <2>. QED  BY <1>types, <2>1, <2>3, <2>4, ShapeParts DEF TypeOK
<1>15. CASE UNCHANGED vars
  BY <1>15 DEF vars, ShapeInv, TypeOK, GoodStore
<1>. QED
  BY <1>1, <1>2, <1>3, <1>4, <1>5, <1>7, <1>8, <1>9, <1>10, <1>12, <1>13, <1>14, <1>15
  DEF Next, Step

\* ShapeInv holds in every state, for every value of the constants.
THEOREM ShapeHolds == Spec => []ShapeInv
BY ShapeInit, ShapeNext, PTL DEF Spec

\* Types: requests, responses and store entries are well formed, the order of
\* uses is total, and every response id in use was issued by the upstream
\* (streamOnce and the Store's methods).
THEOREM Types == Spec => []TypeOK
BY ShapeHolds, PTL DEF ShapeInv

\* Commit's "evict, then insert" never lets the store outgrow its capacity,
\* however commits, expiries and invalidations interleave.
THEOREM Bound == Spec => []StoreBounded
<1>1. ShapeInv => StoreBounded
  BY DEF ShapeInv, GoodStore, Bounded, StoreBounded
<1>. QED  BY <1>1, ShapeHolds, PTL

-----------------------------------------------------------------------------
(* Retries and replies of one request *)

Posting(q) == q.pc \in {"post", "invalidate", "streaming", "finishing"}

\* Every body posted is accounted for: by a retry taken, by the forced replay,
\* or by the attempt in progress.  Only a chained body, which a forced replay
\* never is, can have its response refused.
Budget(q) ==
  /\ q.posts + q.retries <= MaxRetries + (IF q.force THEN 1 ELSE 0)
                                       + (IF Posting(q) THEN 1 ELSE 0)
  /\ q.pc = "post" /\ q.prev # NoReply => ~q.force
  /\ q.pc = "invalidate" => ~q.force

\* Content has only been heard from the reply being streamed.
Hearing(q) ==
  /\ q.pc \notin {"streaming", "finishing"} => q.heard = {}
  /\ q.heard \subseteq {q.reply}

EffortInv == \A h \in Handlers : Budget(req[h]) /\ Hearing(req[h])

\* A new request has spent nothing of its budget of attempts.
LEMMA FreshEffort ==
  ASSUME NEW pc \in {"idle", "prepare"}, NEW s, NEW p, NEW c
  PROVE  Budget(Fresh(pc, s, p, c)) /\ Hearing(Fresh(pc, s, p, c))
BY ChainAssumption DEF Budget, Hearing, Fresh, Posting, NoReply

\* The initial state is within the budget.
LEMMA EffortInit == Init => EffortInv
BY FreshEffort DEF Init, EffortInv, Idle

\* A step changes the request of one handler, to one that keeps the accounts.
LEMMA EffortOf ==
  ASSUME TypeOK, EffortInv, NEW h \in Handlers, NEW q, req' = [req EXCEPT ![h] = q],
         Budget(q), Hearing(q)
  PROVE  EffortInv'
BY DEF EffortInv, TypeOK

\* Every step keeps within the budget: one post for a retry less, one for the
\* forced replay.
LEMMA EffortNext == ShapeInv /\ EffortInv /\ [Next]_vars => EffortInv'
<1>. SUFFICES ASSUME ShapeInv, EffortInv, [Next]_vars PROVE EffortInv'
  OBVIOUS
<1>types. TypeOK
  BY DEF ShapeInv
<1>req. ASSUME NEW h \in Handlers
        PROVE  /\ req[h] \in Request /\ Budget(req[h]) /\ Hearing(req[h])
               /\ req[h].posts \in Nat /\ req[h].retries \in Nat /\ MaxRetries \in Nat
  BY <1>types, ChainAssumption DEF TypeOK, EffortInv, Request
<1>1. ASSUME NEW h \in Handlers, Arrive(h) PROVE EffortInv'
  <2>1. PICK s \in Sessions, p \in Profiles : \E c \in NextConversations(s) :
          req' = [req EXCEPT ![h] = Fresh("prepare", s, p, c)]
    BY <1>1 DEF Arrive
  <2>. QED  BY <1>types, <2>1, FreshEffort, EffortOf
<1>2. ASSUME NEW h \in Handlers, Finished(h) PROVE EffortInv'
  BY <1>types, <1>2, FreshEffort, EffortOf DEF Finished, Idle
<1>3. ASSUME NEW h \in Handlers, Prepare(h) PROVE EffortInv'
  <2>. DEFINE Posted(c, on) ==
                [req EXCEPT ![h].pc = "post",
                            ![h].chain = c,
                            ![h].prev = IF ~req[h].force /\ on /\ c.resp # NoReply
                                          THEN c.resp ELSE NoReply,
                            ![h].keep = on,
                            ![h].posts = IF @ > MaxRetries + 2 THEN @ ELSE @ + 1]
  <2>a. \E c, on : req' = Posted(c, on)
    BY <1>3 DEF Prepare
  <2>b. PICK c, on : req' = Posted(c, on)
    BY <2>a
  <2>. DEFINE pv == IF ~req[h].force /\ on /\ c.resp # NoReply THEN c.resp ELSE NoReply
  <2>1. pv # NoReply => ~req[h].force
    OBVIOUS
  <2>. DEFINE n == IF req[h].posts > MaxRetries + 2 THEN req[h].posts
                                                     ELSE req[h].posts + 1
              q == [req[h] EXCEPT !.pc = "post", !.chain = c, !.prev = pv,
                                  !.keep = on, !.posts = n]
  <2>2. req' = [req EXCEPT ![h] = q]
    BY <1>types, <2>b DEF TypeOK
  <2>3. n \in Nat /\ n <= req[h].posts + 1
    BY <1>req
  <2>. HIDE DEF n, pv
  <2>4. /\ q.pc = "post" /\ q.prev = pv /\ q.posts = n
        /\ q.retries = req[h].retries /\ q.force = req[h].force
        /\ q.heard = req[h].heard
    BY <1>req DEF Request
  <2>5. req[h].pc = "prepare"
    BY <1>3 DEF Prepare
  <2>. HIDE DEF q
  <2>6. Budget(q)
    BY <1>req, <2>1, <2>3, <2>4, <2>5 DEF Budget, Posting
  <2>7. Hearing(q)
    BY <1>req, <2>4, <2>5 DEF Hearing
  <2>. QED  BY <1>types, <2>2, <2>6, <2>7, EffortOf
<1>4. ASSUME NEW h \in Handlers, NEW pc \in {"streaming", "invalidate"},
             req[h].pc = "post", pc = "invalidate" => req[h].prev # NoReply,
             req' = [req EXCEPT ![h].pc = pc]
      PROVE  EffortInv'
  <2>. DEFINE q == [req[h] EXCEPT !.pc = pc]
  <2>1. req' = [req EXCEPT ![h] = q]
    BY <1>types, <1>4 DEF TypeOK
  <2>2. /\ q.pc = pc /\ q.posts = req[h].posts /\ q.retries = req[h].retries
        /\ q.force = req[h].force /\ q.heard = req[h].heard
    BY <1>req DEF Request
  <2>. HIDE DEF q
  <2>3. Budget(q) /\ Hearing(q)
    BY <1>req, <1>4, <2>2 DEF Budget, Hearing, Posting
  <2>. QED  BY <1>types, <2>1, <2>3, EffortOf
<1>5. ASSUME NEW h \in Handlers, Invalidate(h) PROVE EffortInv'
  <2>. DEFINE q == [req[h] EXCEPT !.pc = "prepare", !.force = TRUE]
  <2>1. req' = [req EXCEPT ![h] = q] /\ req[h].pc = "invalidate"
    BY <1>types, <1>5 DEF TypeOK, Invalidate
  <2>2. /\ q.pc = "prepare" /\ q.posts = req[h].posts /\ q.retries = req[h].retries
        /\ q.force = TRUE /\ q.heard = req[h].heard
    BY <1>req DEF Request
  <2>. HIDE DEF q
  <2>3. Budget(q) /\ Hearing(q)
    BY <1>req, <2>1, <2>2 DEF Budget, Hearing, Posting
  <2>. QED  BY <1>types, <2>1, <2>3, EffortOf
<1>6. ASSUME NEW h \in Handlers, StreamRetry(h) PROVE EffortInv'
  <2>. DEFINE q == [req[h] EXCEPT !.pc = "prepare", !.retries = @ - 1,
                                  !.reply = NoReply, !.completed = FALSE]
  <2>1. req' = [req EXCEPT ![h] = q] /\ req[h].pc = "streaming" /\ req[h].heard = {}
    BY <1>types, <1>6 DEF TypeOK, StreamRetry
  <2>2. /\ q.pc = "prepare" /\ q.posts = req[h].posts /\ q.retries = req[h].retries - 1
        /\ q.force = req[h].force /\ q.heard = req[h].heard
    BY <1>req DEF Request
  <2>. HIDE DEF q
  <2>3. Budget(q)
    BY <1>req, <2>1, <2>2 DEF Budget, Posting
  <2>4. Hearing(q)
    BY <2>1, <2>2 DEF Hearing
  <2>. QED  BY <1>types, <2>1, <2>3, <2>4, EffortOf
<1>7. ASSUME NEW h \in Handlers, EmitContent(h) PROVE EffortInv'
  <2>. DEFINE r == ReplyOf(req[h])
              q == [req[h] EXCEPT !.reply = r, !.heard = @ \cup {r}]
  <2>1. req' = [req EXCEPT ![h] = q] /\ req[h].pc = "streaming"
    BY <1>types, <1>7 DEF TypeOK, EmitContent
  <2>2. req[h].heard = {}
    BY <1>req, <1>7 DEF EmitContent, Hearing
  <2>. HIDE DEF r
  <2>3. /\ q.pc = req[h].pc /\ q.posts = req[h].posts /\ q.retries = req[h].retries
        /\ q.force = req[h].force /\ q.heard = {r} /\ q.reply = r
    BY <1>req, <2>2 DEF Request
  <2>. HIDE DEF q
  <2>4. Budget(q) /\ Hearing(q)
    BY <1>req, <2>1, <2>3 DEF Budget, Hearing, Posting
  <2>. QED  BY <1>types, <2>1, <2>4, EffortOf
<1>8. ASSUME NEW h \in Handlers, Complete(h) PROVE EffortInv'
  <2>. DEFINE r == ReplyOf(req[h])
              q == [req[h] EXCEPT !.reply = r, !.completed = TRUE]
  <2>1. req' = [req EXCEPT ![h] = q] /\ req[h].pc = "streaming"
    BY <1>types, <1>8 DEF TypeOK, Complete
  <2>2. req[h].heard \subseteq {r}
    BY <1>req DEF Hearing, ReplyOf, Request, Replies, NoReply
  <2>. HIDE DEF r
  <2>3. /\ q.pc = req[h].pc /\ q.posts = req[h].posts /\ q.retries = req[h].retries
        /\ q.force = req[h].force /\ q.heard = req[h].heard /\ q.reply = r
    BY <1>req DEF Request
  <2>. HIDE DEF q
  <2>4. Budget(q) /\ Hearing(q)
    BY <1>req, <2>1, <2>2, <2>3 DEF Budget, Hearing, Posting
  <2>. QED  BY <1>types, <2>1, <2>4, EffortOf
<1>9. ASSUME NEW h \in Handlers, StreamEndsCompleted(h) PROVE EffortInv'
  <2>. DEFINE q == [req[h] EXCEPT !.pc = "finishing"]
  <2>1. req' = [req EXCEPT ![h] = q] /\ req[h].pc = "streaming"
    BY <1>types, <1>9 DEF TypeOK, StreamEndsCompleted
  <2>2. /\ q.pc = "finishing" /\ q.posts = req[h].posts /\ q.retries = req[h].retries
        /\ q.force = req[h].force /\ q.heard = req[h].heard /\ q.reply = req[h].reply
    BY <1>req DEF Request
  <2>. HIDE DEF q
  <2>3. Budget(q) /\ Hearing(q)
    BY <1>req, <2>1, <2>2 DEF Budget, Hearing, Posting
  <2>. QED  BY <1>types, <2>1, <2>3, EffortOf
<1>10. ASSUME UNCHANGED req PROVE EffortInv'
  BY <1>10 DEF EffortInv
<1>11. ASSUME NEW h \in Handlers, Step(h) PROVE EffortInv'
  BY <1>2, <1>3, <1>4, <1>5, <1>6, <1>7, <1>8, <1>9, <1>11
  DEF Step, PrepareFails, PostAccepted, PostRefused, PostFails, StreamFails,
      StreamEndsUncommitted, Finish
<1>. QED  BY <1>1, <1>10, <1>11 DEF Next, Forget, vars

\* The recursive calls of streamOnce spend a budget: posts made, retries left and
\* the forced replay always add up to the same bound, and content is heard from
\* one reply only.
THEOREM EffortHolds == Spec => []EffortInv
BY EffortInit, EffortNext, ShapeHolds, PTL DEF Spec

\* streamOnce's two ways to call itself do not multiply: a request posts at most
\* one body per retry, one for the forced replay and the first one.
THEOREM Posts == Spec => []PostsBounded
<1>1. ShapeInv /\ EffortInv => PostsBounded
  <2>. SUFFICES ASSUME TypeOK, EffortInv, NEW h \in Handlers
                PROVE  req[h].posts <= MaxRetries + 2
    BY DEF ShapeInv, PostsBounded
  <2>1. /\ req[h] \in Request /\ Budget(req[h])
    BY DEF TypeOK, EffortInv
  <2>2. /\ req[h].posts \in Nat /\ req[h].retries \in Nat /\ MaxRetries \in Nat
    BY <2>1, ChainAssumption DEF Request
  <2>. QED  BY <2>1, <2>2 DEF Budget
<1>. QED  BY <1>1, ShapeHolds, EffortHolds, PTL

\* A message is made of one upstream reply: an attempt is only repeated while
\* the client has heard nothing (streamOnce's contentEmitted).
THEOREM OneReply == Spec => []OneReplyPerMessage
<1>1. EffortInv => OneReplyPerMessage
  <2>. SUFFICES ASSUME EffortInv, NEW h \in Handlers
                PROVE  Cardinality(req[h].heard) <= 1
    BY DEF OneReplyPerMessage
  <2>1. req[h].heard = {} \/ req[h].heard = {req[h].reply}
    BY DEF EffortInv, Hearing
  <2>2. Cardinality(req[h].heard) = 0 \/ Cardinality(req[h].heard) = 1
    BY <2>1, FS_EmptySet, FS_Singleton, Zenon
  <2>. QED  BY <2>2
<1>. QED  BY <1>1, EffortHolds, PTL

-----------------------------------------------------------------------------
(* Sessions and models are not mixed *)

\* Response r belongs to session s and profile p.
Owns(s, p, r) == upstream[r].session = s /\ upstream[r].profile = p

\* What a request continues, and what it has completed, is its owner's.
OwnsItsIds(q) ==
  /\ q.prev # NoReply => Owns(q.session, q.profile, q.prev)
  /\ q.completed => Owns(q.session, q.profile, q.reply)

\* A reply the upstream has not completed yet is nobody's response.
Unfinished(q) == ~q.completed => q.reply \notin DOMAIN upstream

EntriesOwned ==
  \A k \in Keys(store) :
    LET e == store.entries[k] IN Owns(e.session, e.profile, e.resp)

RequestsOwned == \A h \in Handlers : OwnsItsIds(req[h]) /\ Unfinished(req[h])

RepliesDistinct ==
  \A g, h \in Handlers : g # h /\ req[g].reply # NoReply => req[g].reply # req[h].reply

OwnerInv == EntriesOwned /\ RequestsOwned /\ RepliesDistinct

\* The initial store has no entry of a wrong owner.
LEMMA OwnerInit == Init => OwnerInv
BY DEF Init, OwnerInv, EntriesOwned, RequestsOwned, RepliesDistinct, OwnsItsIds,
       Unfinished, Keys, EmptyStore, Idle, Fresh, NoReply

\* A step of handler h that gives its request no new reply.
LEMMA OwnerOf ==
  ASSUME TypeOK, OwnerInv, UNCHANGED upstream, EntriesOwned',
         NEW h \in Handlers, NEW q, req' = [req EXCEPT ![h] = q],
         OwnsItsIds(q), Unfinished(q),
         q.reply = NoReply \/ q.reply = req[h].reply
  PROVE  OwnerInv'
<1>1. \A g \in Handlers : req'[g] = IF g = h THEN q ELSE req[g]
  BY DEF TypeOK
<1>2. RequestsOwned'
  BY <1>1 DEF OwnerInv, RequestsOwned, OwnsItsIds, Owns, Unfinished
<1>3. RepliesDistinct'
  BY <1>1 DEF OwnerInv, RepliesDistinct
<1>. QED  BY <1>2, <1>3 DEF OwnerInv

\* The store keeps no entry that was not there or is not the owner's.
LEMMA EntriesOwnedKept ==
  ASSUME EntriesOwned, UNCHANGED upstream,
         \A k \in Keys(store') : k \in Keys(store) /\ store'.entries[k] = store.entries[k]
  PROVE  EntriesOwned'
BY DEF EntriesOwned, Owns

\* Every step keeps entries and chains with their owners.
LEMMA OwnerNext == ShapeInv /\ OwnerInv /\ [Next]_vars => OwnerInv'
<1>. SUFFICES ASSUME ShapeInv, OwnerInv, [Next]_vars PROVE OwnerInv'
  OBVIOUS
<1>types. TypeOK /\ GoodStore(store) /\ EntriesOwned
  BY DEF ShapeInv, OwnerInv
<1>req. ASSUME NEW h \in Handlers
        PROVE  req[h] \in Request /\ OwnsItsIds(req[h]) /\ Unfinished(req[h])
  BY <1>types DEF TypeOK, OwnerInv, RequestsOwned
<1>idle. OwnsItsIds(Idle) /\ Unfinished(Idle) /\ Idle.reply = NoReply
  BY <1>types DEF TypeOK, OwnsItsIds, Unfinished, Idle, Fresh, NoReply
<1>1. ASSUME NEW h \in Handlers, Arrive(h) PROVE OwnerInv'
  <2>1. PICK s \in Sessions, p \in Profiles : \E c \in NextConversations(s) :
          req' = [req EXCEPT ![h] = Fresh("prepare", s, p, c)]
    BY <1>1 DEF Arrive
  <2>2. PICK c : req' = [req EXCEPT ![h] = Fresh("prepare", s, p, c)]
    BY <2>1
  <2>. DEFINE q == Fresh("prepare", s, p, c)
  <2>3. OwnsItsIds(q) /\ Unfinished(q) /\ q.reply = NoReply
    BY <1>types DEF TypeOK, OwnsItsIds, Unfinished, Fresh, NoReply
  <2>4. UNCHANGED <<store, upstream>>
    BY <1>1 DEF Arrive
  <2>5. EntriesOwned'
    BY <1>types, <2>4, EntriesOwnedKept
  <2>. HIDE DEF q
  <2>. QED  BY <1>types, <2>2, <2>3, <2>4, <2>5, OwnerOf DEF q
<1>2. ASSUME NEW h \in Handlers, Finished(h), UNCHANGED upstream, EntriesOwned'
      PROVE  OwnerInv'
  BY <1>types, <1>idle, <1>2, OwnerOf DEF Finished
<1>3. ASSUME NEW h \in Handlers,
             PostFails(h) \/ StreamFails(h) \/ StreamEndsUncommitted(h) \/ Finish(h)
      PROVE  OwnerInv'
  <2>1. Finished(h) /\ UNCHANGED <<store, upstream>>
    BY <1>3 DEF PostFails, StreamFails, StreamEndsUncommitted, Finish
  <2>. QED  BY <1>types, <1>2, <2>1, EntriesOwnedKept
<1>4. ASSUME NEW h \in Handlers, PostAccepted(h) PROVE OwnerInv'
  <2>. DEFINE q == [req[h] EXCEPT !.pc = "streaming"]
  <2>1. req' = [req EXCEPT ![h] = q]
    BY <1>4, <1>types DEF TypeOK, PostAccepted
  <2>2. /\ q.session = req[h].session /\ q.profile = req[h].profile
        /\ q.prev = req[h].prev
        /\ q.completed = req[h].completed /\ q.reply = req[h].reply
    BY <1>req DEF Request
  <2>. HIDE DEF q
  <2>3. OwnsItsIds(q) /\ Unfinished(q) /\ (q.reply = NoReply \/ q.reply = req[h].reply)
    BY <1>req, <1>types, <2>2 DEF OwnsItsIds, Unfinished, TypeOK, NoReply
  <2>4. UNCHANGED upstream /\ EntriesOwned'
    BY <1>types, <1>4, EntriesOwnedKept DEF PostAccepted
  <2>. QED  BY <1>types, <2>1, <2>3, <2>4, OwnerOf
<1>5. ASSUME NEW h \in Handlers, PostRefused(h) PROVE OwnerInv'
  <2>. DEFINE q == [req[h] EXCEPT !.pc = "invalidate"]
  <2>1. req' = [req EXCEPT ![h] = q]
    BY <1>5, <1>types DEF TypeOK, PostRefused
  <2>2. /\ q.session = req[h].session /\ q.profile = req[h].profile
        /\ q.prev = req[h].prev
        /\ q.completed = req[h].completed /\ q.reply = req[h].reply
    BY <1>req DEF Request
  <2>. HIDE DEF q
  <2>3. OwnsItsIds(q) /\ Unfinished(q) /\ (q.reply = NoReply \/ q.reply = req[h].reply)
    BY <1>req, <1>types, <2>2 DEF OwnsItsIds, Unfinished, TypeOK, NoReply
  <2>4. UNCHANGED upstream /\ EntriesOwned'
    BY <1>types, <1>5, EntriesOwnedKept DEF PostRefused
  <2>. QED  BY <1>types, <2>1, <2>3, <2>4, OwnerOf
<1>6. ASSUME NEW h \in Handlers, Invalidate(h) PROVE OwnerInv'
  <2>. DEFINE q == [req[h] EXCEPT !.pc = "prepare", !.force = TRUE]
  <2>1. req' = [req EXCEPT ![h] = q]
    BY <1>6, <1>types DEF TypeOK, Invalidate
  <2>2. /\ q.session = req[h].session /\ q.profile = req[h].profile
        /\ q.prev = req[h].prev
        /\ q.completed = req[h].completed /\ q.reply = req[h].reply
    BY <1>req DEF Request
  <2>. HIDE DEF q
  <2>3. OwnsItsIds(q) /\ Unfinished(q) /\ (q.reply = NoReply \/ q.reply = req[h].reply)
    BY <1>req, <1>types, <2>2 DEF OwnsItsIds, Unfinished, TypeOK, NoReply
  <2>4. UNCHANGED upstream /\ EntriesOwned'
    BY <1>types, <1>6, EntriesOwnedKept, DropKeys DEF Invalidate, Invalidated, GoodStore
  <2>. QED  BY <1>types, <2>1, <2>3, <2>4, OwnerOf
<1>7. ASSUME NEW h \in Handlers, StreamRetry(h) PROVE OwnerInv'
  <2>. DEFINE q == [req[h] EXCEPT !.pc = "prepare", !.retries = @ - 1,
                                  !.reply = NoReply, !.completed = FALSE]
  <2>1. req' = [req EXCEPT ![h] = q]
    BY <1>7, <1>types DEF TypeOK, StreamRetry
  <2>2. /\ q.session = req[h].session /\ q.profile = req[h].profile
        /\ q.prev = req[h].prev
        /\ q.completed = FALSE /\ q.reply = NoReply
    BY <1>req DEF Request
  <2>. HIDE DEF q
  <2>3. OwnsItsIds(q) /\ Unfinished(q) /\ (q.reply = NoReply \/ q.reply = req[h].reply)
    BY <1>req, <1>types, <2>2 DEF OwnsItsIds, Unfinished, TypeOK, NoReply
  <2>4. UNCHANGED upstream /\ EntriesOwned'
    BY <1>types, <1>7, EntriesOwnedKept DEF StreamRetry
  <2>. QED  BY <1>types, <2>1, <2>3, <2>4, OwnerOf
<1>8. ASSUME NEW h \in Handlers, Prepare(h) \/ PrepareFails(h) PROVE OwnerInv'
  <2>. DEFINE Posted(c, on) ==
                [req EXCEPT ![h].pc = "post",
                            ![h].chain = c,
                            ![h].prev = IF ~req[h].force /\ on /\ c.resp # NoReply
                                          THEN c.resp ELSE NoReply,
                            ![h].keep = on,
                            ![h].posts = IF @ > MaxRetries + 2 THEN @ ELSE @ + 1]
              Found(st) == PreparedChains(st, req[h].session, req[h].profile, req[h].msgs)
              Did(st, c) == /\ store' = Prepared(st, c)
                            /\ \/ \E on \in ChainModes : req' = Posted(c, on)
                               \/ Finished(h)
  <2>1. PICK gone \in ExpiredSets(store) :
          \E c \in Found(Drop(store, gone)) : Did(Drop(store, gone), c)
    BY <1>8, ZenonT(40) DEF Prepare, PrepareFails
  <2>. DEFINE st == Drop(store, gone)
  <2>2. PICK c \in Found(st) : Did(st, c)
    BY <2>1
  <2>3. c \in PreparedChains(st, req[h].session, req[h].profile, req[h].msgs)
    OBVIOUS
  <2>a. StoreOK(st)
    BY <1>types, DropGood DEF GoodStore
  <2>4. /\ GoodStore(st) /\ StoreOK(st)
        /\ \A k \in Keys(st) : k \in Keys(store) /\ st.entries[k] = store.entries[k]
    BY <1>types, DropGood, DropKeys DEF GoodStore
  <2>. HIDE DEF st
  <2>5. req[h].msgs \in Conversations /\ req[h].msgs # <<>>
    BY <1>types, <1>8 DEF TypeOK, Request, Prepare, PrepareFails
  <2>b. /\ c \in Chains
        /\ \/ c = NoChain
           \/ /\ c.key \in Keys(st)
              /\ c.resp = st.entries[c.key].resp
              /\ SameOwner(st.entries[c.key], req[h].session, req[h].profile)
    BY <2>3, <2>a, <2>5, PreparedChainsOwned, Zenon
  <2>6. \/ c = NoChain
        \/ /\ c.key \in Keys(st) /\ c.resp = st.entries[c.key].resp
           /\ SameOwner(st.entries[c.key], req[h].session, req[h].profile)
    BY <2>b
  <2>7. store'.entries = st.entries
    BY <2>2, <2>4, <2>6, PreparedGood
  <2>8. UNCHANGED upstream
    BY <1>8 DEF Prepare, PrepareFails
  <2>9. EntriesOwned'
    BY <1>types, <2>4, <2>7, <2>8, EntriesOwnedKept DEF Keys
  <2>10. c.resp # NoReply => Owns(req[h].session, req[h].profile, c.resp)
    BY <1>types, <2>4, <2>6 DEF EntriesOwned, Owns, SameOwner, NoChain
  <2>11. CASE Finished(h)
    BY <1>2, <2>8, <2>9, <2>11
  <2>12. ASSUME NEW on \in ChainModes, req' = Posted(c, on) PROVE OwnerInv'
    <3>. DEFINE pv == IF ~req[h].force /\ on /\ c.resp # NoReply THEN c.resp ELSE NoReply
                n  == IF req[h].posts > MaxRetries + 2 THEN req[h].posts
                                                       ELSE req[h].posts + 1
                q  == [req[h] EXCEPT !.pc = "post", !.chain = c, !.prev = pv,
                                     !.keep = on, !.posts = n]
    <3>1. req' = [req EXCEPT ![h] = q]
      BY <1>types, <2>12 DEF TypeOK
    <3>2. pv = NoReply \/ pv = c.resp
      OBVIOUS
    <3>. HIDE DEF pv, n
    <3>3. /\ q.session = req[h].session /\ q.profile = req[h].profile /\ q.prev = pv
          /\ q.completed = req[h].completed /\ q.reply = req[h].reply
      BY <1>req DEF Request
    <3>. HIDE DEF q
    <3>4. OwnsItsIds(q) /\ Unfinished(q)
      BY <1>req, <2>10, <3>2, <3>3 DEF OwnsItsIds, Unfinished
    <3>. QED  BY <1>types, <2>8, <2>9, <3>1, <3>3, <3>4, OwnerOf
  <2>. QED  BY <2>2, <2>11, <2>12
<1>9. ASSUME NEW h \in Handlers, StreamEndsCompleted(h) PROVE OwnerInv'
  <2>1. PICK gone \in ExpiredSets(store) :
          store' = Committed(Drop(store, gone), req[h].session, req[h].profile,
                             req[h].msgs, req[h].reply)
    BY <1>9 DEF StreamEndsCompleted
  <2>2. /\ req[h].session \in Sessions /\ req[h].profile \in Profiles
        /\ req[h].msgs \in Conversations \ {<<>>}
        /\ req[h].reply \in DOMAIN upstream /\ req[h].completed
    BY <1>9, <1>types DEF StreamEndsCompleted, TypeOK, Request
  <2>3. req[h].reply \in Replies
    BY <1>types, <2>2 DEF TypeOK, Replies
  <2>. DEFINE key == Key(req[h].profile, req[h].msgs)
              new == NewEntry(req[h].session, req[h].profile, req[h].msgs, req[h].reply)
              st  == Drop(store, gone)
  <2>4. key \in Fingerprints /\ new \in Entry
    BY <2>2, <2>3, EntryTyped
  <2>5. /\ GoodStore(st)
        /\ \A k \in Keys(st) : k \in Keys(store) /\ st.entries[k] = store.entries[k]
    BY <1>types, DropGood, DropKeys DEF GoodStore
  <2>. HIDE DEF st
  <2>6. /\ Keys(store') \subseteq Keys(st) \cup {key}
        /\ \A k \in Keys(store') : store'.entries[k] = IF k = key THEN new
                                                        ELSE st.entries[k]
    BY <2>1, <2>4, <2>5, CommittedGood DEF st
  <2>7. Owns(new.session, new.profile, new.resp)
    BY <1>req, <2>2 DEF NewEntry, OwnsItsIds
  <2>. HIDE DEF key, new
  <2>. DEFINE q == [req[h] EXCEPT !.pc = "finishing"]
  <2>8. UNCHANGED upstream /\ req' = [req EXCEPT ![h] = q]
    BY <1>9, <1>types DEF StreamEndsCompleted, TypeOK
  <2>9. EntriesOwned'
    BY <1>types, <2>5, <2>6, <2>7, <2>8 DEF EntriesOwned, Owns
  <2>10. /\ q.session = req[h].session /\ q.profile = req[h].profile
         /\ q.prev = req[h].prev
         /\ q.completed = req[h].completed /\ q.reply = req[h].reply
    BY <1>req DEF Request
  <2>. HIDE DEF q
  <2>11. OwnsItsIds(q) /\ Unfinished(q) /\ (q.reply = NoReply \/ q.reply = req[h].reply)
    BY <1>req, <1>types, <2>10 DEF OwnsItsIds, Unfinished, TypeOK, NoReply
  <2>. QED  BY <1>types, <2>8, <2>9, <2>11, OwnerOf
<1>10. ASSUME NEW h \in Handlers
       PROVE  /\ ReplyOf(req[h]) # NoReply
              /\ \A g \in Handlers \ {h} : req[g].reply # ReplyOf(req[h])
              /\ ~req[h].completed => ReplyOf(req[h]) \notin DOMAIN upstream
  <2>1. CASE req[h].reply # NoReply
    BY <1>req, <2>1 DEF ReplyOf, OwnerInv, RepliesDistinct, Unfinished
  <2>2. CASE req[h].reply = NoReply
    BY <1>types, <2>2 DEF ReplyOf, TypeOK, Request, NoReply
  <2>. QED  BY <2>1, <2>2
<1>11. ASSUME NEW h \in Handlers, EmitContent(h) PROVE OwnerInv'
  <2>. DEFINE r == ReplyOf(req[h])
              q == [req[h] EXCEPT !.reply = r, !.heard = @ \cup {r}]
  <2>1. req' = [req EXCEPT ![h] = q] /\ UNCHANGED <<store, upstream>> /\ ~req[h].completed
    BY <1>types, <1>11 DEF TypeOK, EmitContent
  <2>2. r # NoReply /\ r \notin DOMAIN upstream /\ \A g \in Handlers \ {h} : req[g].reply # r
    BY <1>10, <2>1
  <2>. HIDE DEF r
  <2>3. /\ q.session = req[h].session /\ q.profile = req[h].profile
        /\ q.prev = req[h].prev /\ q.reply = r /\ ~q.completed
    BY <1>req, <2>1 DEF Request
  <2>. HIDE DEF q
  <2>4. \A g \in Handlers : req'[g] = IF g = h THEN q ELSE req[g]
    BY <1>types, <2>1 DEF TypeOK
  <2>5. RepliesDistinct'
    BY <2>2, <2>3, <2>4 DEF OwnerInv, RepliesDistinct
  <2>6. RequestsOwned'
    BY <1>req, <2>1, <2>2, <2>3, <2>4 DEF RequestsOwned, OwnsItsIds, Owns, Unfinished
  <2>7. EntriesOwned'
    BY <1>types, <2>1, EntriesOwnedKept
  <2>. QED  BY <2>5, <2>6, <2>7 DEF OwnerInv
<1>12. ASSUME NEW h \in Handlers, Complete(h) PROVE OwnerInv'
  <2>. DEFINE r == ReplyOf(req[h])
              q == [req[h] EXCEPT !.reply = r, !.completed = TRUE]
  <2>1. req' = [req EXCEPT ![h] = q] /\ UNCHANGED store /\ ~req[h].completed
    BY <1>types, <1>12 DEF TypeOK, Complete, Completed
  <2>2. r # NoReply /\ r \notin DOMAIN upstream /\ \A g \in Handlers \ {h} : req[g].reply # r
    BY <1>10, <2>1
  <2>3. /\ DOMAIN upstream' = DOMAIN upstream \cup {r}
        /\ \A i \in DOMAIN upstream : i # r => upstream'[i] = upstream[i]
        /\ upstream'[r].session = req[h].session
        /\ upstream'[r].profile = req[h].profile
    BY <1>12 DEF Complete, Completed
  <2>. HIDE DEF r
  <2>4. /\ q.session = req[h].session /\ q.profile = req[h].profile
        /\ q.prev = req[h].prev /\ q.reply = r /\ q.completed
    BY <1>req DEF Request
  <2>. HIDE DEF q
  <2>5. \A g \in Handlers : req'[g] = IF g = h THEN q ELSE req[g]
    BY <1>types, <2>1 DEF TypeOK
  <2>6. ASSUME NEW i \in DOMAIN upstream, NEW s, NEW p, Owns(s, p, i)
        PROVE  Owns(s, p, i)'
    BY <2>2, <2>3, <2>6 DEF Owns
  <2>7. RepliesDistinct'
    BY <2>2, <2>4, <2>5 DEF OwnerInv, RepliesDistinct
  <2>8. EntriesOwned'
    BY <1>types, <2>1, <2>2, <2>3 DEF EntriesOwned, Owns, TypeOK
  <2>9. ASSUME NEW g \in Handlers PROVE OwnsItsIds(req[g])' /\ Unfinished(req[g])'
    <3>1. /\ req[g].prev # NoReply => req[g].prev \in DOMAIN upstream
          /\ req[g].completed => req[g].reply \in DOMAIN upstream
      BY <1>types DEF TypeOK
    <3>2. CASE g = h
      BY <1>req, <2>2, <2>3, <2>4, <2>5, <3>1, <3>2 DEF OwnsItsIds, Owns, Unfinished
    <3>3. CASE g # h
      BY <1>req, <2>2, <2>3, <2>5, <3>1, <3>3 DEF OwnsItsIds, Owns, Unfinished
    <3>. QED  BY <3>2, <3>3
  <2>. QED  BY <2>7, <2>8, <2>9 DEF OwnerInv, RequestsOwned
<1>13. ASSUME NEW r \in DOMAIN upstream, Forget(r) PROVE OwnerInv'
  <2>1. UNCHANGED <<store, req>> /\ DOMAIN upstream' = DOMAIN upstream
    BY <1>types, <1>13 DEF Forget, TypeOK
  <2>2. \A i \in DOMAIN upstream : /\ upstream'[i].session = upstream[i].session
                                  /\ upstream'[i].profile = upstream[i].profile
    BY <1>types, <1>13 DEF Forget, TypeOK, Response
  <2>3. EntriesOwned'
    BY <1>types, <2>1, <2>2 DEF EntriesOwned, Owns, TypeOK
  <2>4. RequestsOwned'
    BY <1>types, <1>req, <2>1, <2>2
    DEF RequestsOwned, OwnsItsIds, Owns, Unfinished, TypeOK, NoReply
  <2>. QED  BY <2>1, <2>3, <2>4 DEF OwnerInv, RepliesDistinct
<1>14. CASE UNCHANGED vars
  BY <1>14 DEF vars, OwnerInv, EntriesOwned, RequestsOwned, RepliesDistinct, OwnsItsIds,
               Owns, Unfinished
<1>. QED
  BY <1>1, <1>3, <1>4, <1>5, <1>6, <1>7, <1>8, <1>9, <1>11, <1>12, <1>13, <1>14
  DEF Next, Step

\* Prepare only hands out an entry of the same session, model, instructions and
\* tools, and what it hands out was completed for them: no interleaving makes a
\* chained body continue a stranger's response.
THEOREM SessionsApart == Spec => []ChainsStayInSession
<1>1. OwnerInv => ChainsStayInSession
  BY DEF OwnerInv, RequestsOwned, OwnsItsIds, Owns, ChainsStayInSession
<1>2. Spec => []OwnerInv
  BY OwnerInit, OwnerNext, ShapeHolds, PTL DEF Spec
<1>. QED  BY <1>1, <1>2, PTL

-----------------------------------------------------------------------------
(* What enters the store *)

\* Conversations are only ever added to what clients know.
LEMMA KnownGrows ==
  ASSUME TypeOK, [Next]_vars
  PROVE  \A s \in Sessions : known[s] \subseteq known'[s]
<1>1. ASSUME NEW h \in Handlers, Arrive(h)
      PROVE  \A s \in Sessions : known[s] \subseteq known'[s]
  <2>1. PICK s \in Sessions : \E c : known' = [known EXCEPT ![s] = @ \cup {c}]
    BY <1>1 DEF Arrive
  <2>. QED  BY <2>1 DEF TypeOK
<1>2. ASSUME NEW h \in Handlers, known' = Delivered(req[h])
      PROVE  \A s \in Sessions : known[s] \subseteq known'[s]
  <2>. DEFINE new == {Append(req[h].msgs, Assistant(r)) : r \in req[h].heard}
  <2>1. known' = [known EXCEPT ![req[h].session] = @ \cup new]
    BY <1>2 DEF Delivered
  <2>. HIDE DEF new
  <2>. QED  BY <2>1 DEF TypeOK
<1>3. ASSUME NEW h \in Handlers, Step(h)
      PROVE  known' = known \/ known' = Delivered(req[h])
  BY <1>3
  DEF Step, Prepare, PrepareFails, PostAccepted, PostRefused, PostFails, Invalidate,
      EmitContent, Complete, StreamRetry, StreamFails, StreamEndsCompleted,
      StreamEndsUncommitted, Finish
<1>4. ASSUME NEW r \in DOMAIN upstream, Forget(r) PROVE known' = known
  BY <1>4 DEF Forget
<1>. QED  BY <1>1, <1>2, <1>3, <1>4 DEF Next, vars

\* A store that keeps some of the entries of another.
Part(st, of) == \A k \in Keys(st) : k \in Keys(of) /\ st.entries[k] = of.entries[k]

\* No other step than the end of a completed stream brings an entry into the
\* store.
LEMMA StoreKept ==
  ASSUME TypeOK, GoodStore(store), NEW h \in Handlers, Arrive(h) \/ Step(h),
         ~StreamEndsCompleted(h)
  PROVE  Part(store', store)
<1>1. ASSUME Prepare(h) \/ PrepareFails(h) PROVE Part(store', store)
  <2>1. req[h].msgs \in Conversations /\ req[h].msgs # <<>>
    BY <1>1 DEF TypeOK, Request, Prepare, PrepareFails
  <2>2. PICK gone \in ExpiredSets(store) :
          LET st == Drop(store, gone)
          IN  \E c \in PreparedChains(st, req[h].session, req[h].profile, req[h].msgs) :
                store' = Prepared(st, c)
    BY <1>1 DEF Prepare, PrepareFails
  <2>. DEFINE st == Drop(store, gone)
  <2>3. GoodStore(st) /\ StoreOK(st) /\ Part(st, store)
    BY DropGood, DropKeys DEF GoodStore, Part
  <2>. HIDE DEF st
  <2>4. PICK c \in PreparedChains(st, req[h].session, req[h].profile, req[h].msgs) :
          store' = Prepared(st, c)
    BY <2>2 DEF st
  <2>5. c = NoChain \/ c.key \in Keys(st)
    BY <2>1, <2>3, PreparedChainsOwned
  <2>6. store'.entries = st.entries
    BY <2>3, <2>4, <2>5, PreparedGood
  <2>. QED  BY <2>3, <2>6 DEF Part, Keys
<1>2. ASSUME Invalidate(h) PROVE Part(store', store)
  BY <1>2, DropKeys DEF Invalidate, Invalidated, GoodStore, Part
<1>3. ASSUME \/ Arrive(h) \/ PostAccepted(h) \/ PostRefused(h) \/ PostFails(h)
                \/ EmitContent(h) \/ Complete(h) \/ StreamRetry(h) \/ StreamFails(h)
                \/ StreamEndsUncommitted(h) \/ Finish(h)
      PROVE  UNCHANGED store
  BY <1>3
  DEF Arrive, PostAccepted, PostRefused, PostFails, EmitContent, Complete, StreamRetry,
      StreamFails, StreamEndsUncommitted, Finish
<1>. QED  BY <1>1, <1>2, <1>3 DEF Step, Part

\* Commit brings in one entry: that of the request which ends, answered by the
\* response it names.
LEMMA StoreFiles ==
  ASSUME TypeOK, GoodStore(store), NEW h \in Handlers, StreamEndsCompleted(h)
  PROVE  LET q   == req[h]
             key == Key(q.profile, q.msgs)
         IN  \A k \in Keys(store') :
               \/ k \in Keys(store) /\ store'.entries[k] = store.entries[k]
               \/ /\ k = key
                  /\ store'.entries[k] = NewEntry(q.session, q.profile, q.msgs, q.reply)
<1>1. PICK gone \in ExpiredSets(store) :
        store' = Committed(Drop(store, gone), req[h].session, req[h].profile,
                           req[h].msgs, req[h].reply)
  BY DEF StreamEndsCompleted
<1>2. /\ req[h].session \in Sessions /\ req[h].profile \in Profiles
      /\ req[h].msgs \in Conversations \ {<<>>} /\ req[h].reply \in Replies
  BY DEF StreamEndsCompleted, TypeOK, Request, Replies
<1>. DEFINE key == Key(req[h].profile, req[h].msgs)
            new == NewEntry(req[h].session, req[h].profile, req[h].msgs, req[h].reply)
            st  == Drop(store, gone)
<1>3. key \in Fingerprints /\ new \in Entry
  BY <1>2, EntryTyped
<1>4. GoodStore(st) /\ Part(st, store)
  BY DropGood, DropKeys DEF GoodStore, Part
<1>. HIDE DEF st
<1>5. /\ Keys(store') \subseteq Keys(st) \cup {key}
      /\ \A k \in Keys(store') : store'.entries[k] = IF k = key THEN new
                                                     ELSE st.entries[k]
  BY <1>1, <1>3, <1>4, CommittedGood DEF st
<1>. HIDE DEF key, new
<1>6. \A k \in Keys(store') : \/ k \in Keys(store) /\ store'.entries[k] = store.entries[k]
                              \/ k = key /\ store'.entries[k] = new
  BY <1>4, <1>5 DEF Part
<1>. QED  BY <1>6 DEF key, new

\* What a step may bring into the store.
LEMMA StoreSteps ==
  ASSUME TypeOK, GoodStore(store), [Next]_vars
  PROVE  \/ Part(store', store)
         \/ \E h \in Handlers :
              LET q   == req[h]
                  key == Key(q.profile, q.msgs)
              IN  /\ StreamEndsCompleted(h)
                  /\ \A k \in Keys(store') :
                       \/ k \in Keys(store) /\ store'.entries[k] = store.entries[k]
                       \/ /\ k = key
                          /\ store'.entries[k] = NewEntry(q.session, q.profile,
                                                          q.msgs, q.reply)
<1>1. UNCHANGED store => Part(store', store)
  BY DEF Part
<1>2. ASSUME NEW r \in DOMAIN upstream, Forget(r) PROVE UNCHANGED store
  BY <1>2 DEF Forget
<1>. QED  BY <1>1, <1>2, StoreKept, StoreFiles DEF Next, vars

-----------------------------------------------------------------------------
(* Entries leave in order of use *)

\* What LeaveInOrderOfUse asks of a step of the store from st to t.
InOrder(st, t) ==
  \A p \in st.older :
    p[2] \notin Keys(t) /\ p[1] \in Keys(t) => \A k \in Keys(t) : <<p[1], k>> \notin t.older

\* Pruning takes the least recently used entries.
LEMMA PrunedInOrder ==
  ASSUME NEW st, StoreOK(st), NEW gone \in ExpiredSets(st), NEW t,
         Keys(t) = Keys(Drop(st, gone))
  PROVE  InOrder(st, t)
<1>. SUFFICES ASSUME NEW p \in st.older, p[2] \notin Keys(t), p[1] \in Keys(t)
              PROVE  FALSE
  BY DEF InOrder
<1>1. p[1] \in Keys(st) /\ p[2] \in Keys(st)
  BY DEF StoreOK, Keys
<1>2. Keys(t) = Keys(st) \ gone
  BY DropKeys
<1>. QED  BY <1>1, <1>2 DEF ExpiredSets

\* Commit prunes, evicts the least recently used entry if the store is full, and
\* makes the entry it stores the most recently used one.
LEMMA CommittedInOrder ==
  ASSUME NEW st, GoodStore(st), NEW gone \in ExpiredSets(st),
         NEW s, NEW p, NEW msgs, NEW r
  PROVE  InOrder(st, Committed(Drop(st, gone), s, p, msgs, r))
<1>. DEFINE d   == Drop(st, gone)
            m   == MakeRoom(d)
            key == Key(p, msgs)
            c   == Committed(d, s, p, msgs, r)
<1>. SUFFICES ASSUME NEW o \in st.older, o[2] \notin Keys(c), o[1] \in Keys(c)
              PROVE  \A k \in Keys(c) : <<o[1], k>> \notin c.older
  BY DEF InOrder
<1>1. StoreOK(st) /\ StoreOK(d) /\ o[1] \in Keys(st) /\ o[2] \in Keys(st) /\ o = <<o[1], o[2]>>
  BY DropGood DEF GoodStore, StoreOK, Keys
<1>2. Keys(c) = Keys(m) \cup {key}
  BY DEF Committed, Put, Touch, Keys
<1>3. \A k : <<key, k>> \notin c.older
  BY DEF Committed, Put, Touch
<1>4. Keys(d) = Keys(st) \ gone
  BY <1>1, DropKeys
<1>5. o[2] \notin gone \/ o[1] \in gone
  BY DEF ExpiredSets
<1>6. ASSUME o[1] \in Keys(m) PROVE FALSE
  <2>1. Keys(m) \subseteq Keys(d)
    BY <1>1, DropKeys DEF MakeRoom
  <2>2. o[1] \in Keys(d) /\ o[2] \in Keys(d) \ Keys(m)
    BY <1>1, <1>2, <1>4, <1>5, <1>6, <2>1
  <2>3. o \in d.older
    BY <1>1, <1>4, <2>2, DropKeys
  <2>4. o[2] \in Oldest(d)
    BY <1>1, <2>2, DropKeys DEF MakeRoom
  <2>. QED  BY <1>1, <2>2, <2>3, <2>4 DEF Oldest
<1>7. o[1] = key
  BY <1>2, <1>6
<1>. QED  BY <1>3, <1>7

\* Pruning by age and evicting the least recently used entry take entries in the
\* order of their LastUsed, whichever handlers' Prepares and Commits renew them:
\* only Invalidate takes an entry out of turn.
THEOREM OrderOfUse == Spec => LeaveInOrderOfUse
<1>1. ASSUME ShapeInv, [Next]_vars
      PROVE  [(\E h \in Handlers : Invalidate(h)) \/ InOrder(store, store')]_vars
  <2>. TypeOK /\ GoodStore(store) /\ StoreOK(store)
    BY <1>1 DEF ShapeInv, GoodStore
  <2>1. UNCHANGED store => InOrder(store, store')
    BY DEF InOrder, StoreOK, Keys
  <2>2. ASSUME NEW h \in Handlers, Prepare(h) \/ PrepareFails(h)
        PROVE  InOrder(store, store')
    <3>1. req[h].msgs \in Conversations /\ req[h].msgs # <<>>
      BY <2>2 DEF TypeOK, Request, Prepare, PrepareFails
    <3>2. PICK gone \in ExpiredSets(store) :
            LET st == Drop(store, gone)
            IN  \E c \in PreparedChains(st, req[h].session, req[h].profile, req[h].msgs) :
                  store' = Prepared(st, c)
      BY <2>2 DEF Prepare, PrepareFails
    <3>. DEFINE st == Drop(store, gone)
    <3>3. GoodStore(st) /\ StoreOK(st)
      BY DropGood DEF GoodStore
    <3>. HIDE DEF st
    <3>4. PICK c \in PreparedChains(st, req[h].session, req[h].profile, req[h].msgs) :
            store' = Prepared(st, c)
      BY <3>2 DEF st
    <3>5. c = NoChain \/ c.key \in Keys(st)
      BY <3>1, <3>3, PreparedChainsOwned
    <3>6. Keys(store') = Keys(st)
      BY <3>3, <3>4, <3>5, PreparedGood DEF Keys
    <3>. QED  BY <3>6, PrunedInOrder DEF st
  <2>3. ASSUME NEW h \in Handlers, StreamEndsCompleted(h) PROVE InOrder(store, store')
    BY <2>3, CommittedInOrder DEF StreamEndsCompleted
  <2>4. ASSUME NEW h \in Handlers,
               \/ Arrive(h) \/ PostAccepted(h) \/ PostRefused(h) \/ PostFails(h)
               \/ EmitContent(h) \/ Complete(h) \/ StreamRetry(h) \/ StreamFails(h)
               \/ StreamEndsUncommitted(h) \/ Finish(h)
        PROVE  UNCHANGED store
    BY <2>4
    DEF Arrive, PostAccepted, PostRefused, PostFails, EmitContent, Complete, StreamRetry,
        StreamFails, StreamEndsUncommitted, Finish
  <2>5. ASSUME NEW r \in DOMAIN upstream, Forget(r) PROVE UNCHANGED store
    BY <2>5 DEF Forget
  <2>. QED  BY <1>1, <2>1, <2>2, <2>3, <2>4, <2>5 DEF Next, Step
<1>2. ASSUME ShapeInv, [Next]_vars
      PROVE  [(\E h \in Handlers : Invalidate(h)) \/
              \A p \in store.older :
                p[2] \notin Keys(store') /\ p[1] \in Keys(store') =>
                  \A k \in Keys(store') : <<p[1], k>> \notin store'.older]_vars
  BY <1>1, <1>2 DEF InOrder
<1>. QED  BY <1>2, ShapeHolds, PTL DEF Spec, LeaveInOrderOfUse

-----------------------------------------------------------------------------
(* Concatenating sequences of sequences *)

\* Induction over the natural numbers, as a fact about closed sets: were n not in
\* S, the numbers up to n + 1 could be mapped one to one to those up to n.
LEMMA Closed ==
  ASSUME NEW S, 0 \in S, \A n \in Nat : n \in S => n + 1 \in S
  PROVE  Nat \subseteq S
<1>. SUFFICES ASSUME NEW n \in Nat, n \notin S PROVE FALSE
  OBVIOUS
<1>. DEFINE f == [i \in 1 .. n + 1 |-> IF i - 1 \in S THEN i ELSE i - 1]
<1>1. f \in [1 .. n + 1 -> 1 .. n]
  OBVIOUS
<1>2. \A i, j \in 1 .. n + 1 : f[i] = f[j] => i = j
  OBVIOUS
<1>3. f \in Injection(1 .. n + 1, 1 .. n)
  BY <1>1, <1>2 DEF Injection, IsInjective
<1>. HIDE DEF f
<1>4. ExistsInjection(1 .. n + 1, 1 .. n)
  BY <1>3 DEF ExistsInjection
<1>. QED  BY <1>4, Fun_NatInjLeq

\* What FlattenSeq puts together of the first sequences in ss.
Joined(ss) ==
  CHOOSE f : f = [i \in 1 .. Len(ss) |-> IF i = 1 THEN ss[i] ELSE f[i - 1] \o ss[i]]

\* The recursion in FlattenSeq defines a function.
LEMMA JoinedIs ==
  ASSUME NEW S, NEW ss \in Seq(Seq(S))
  PROVE  /\ \A i \in 1 .. Len(ss) : Joined(ss)[i] = IF i = 1 THEN ss[1]
                                                    ELSE Joined(ss)[i - 1] \o ss[i]
         /\ \A i \in 1 .. Len(ss) : Joined(ss)[i] \in Seq(S)
         /\ FlattenSeq(ss) = IF Len(ss) = 0 THEN <<>> ELSE Joined(ss)[Len(ss)]
<1>. DEFINE Is(f, n) == f = [i \in 1 .. n |-> IF i = 1 THEN ss[i] ELSE f[i - 1] \o ss[i]]
            T == {n \in Nat : \E f : Is(f, n)}
            J == Joined(ss)
<1>1. 0 \in T
  <2>1. Is(<<>>, 0)
    OBVIOUS
  <2>. QED  BY <2>1
<1>2. ASSUME NEW n \in Nat, n \in T PROVE n + 1 \in T
  <2>1. PICK f : Is(f, n)
    BY <1>2
  <2>. DEFINE g == [i \in 1 .. n + 1 |->
                      IF i \in 1 .. n THEN f[i] ELSE IF i = 1 THEN ss[i] ELSE f[i - 1] \o ss[i]]
  <2>2. \A i \in 1 .. n : f[i] = IF i = 1 THEN ss[i] ELSE f[i - 1] \o ss[i]
    BY <2>1
  <2>3. \A i \in 1 .. n + 1 : g[i] = IF i = 1 THEN ss[i] ELSE g[i - 1] \o ss[i]
    BY <2>2
  <2>. HIDE DEF g
  <2>4. g = [i \in 1 .. n + 1 |-> g[i]]
    BY DEF g
  <2>5. Is(g, n + 1)
    BY <2>3, <2>4
  <2>6. \E e : Is(e, n + 1)
    BY <2>5, Zenon
  <2>. HIDE DEF Is
  <2>. QED  BY <2>6
<1>3. Len(ss) \in Nat
  OBVIOUS
<1>. HIDE DEF T
<1>4. Len(ss) \in T
  BY <1>1, <1>2, <1>3, Closed
<1>5. J = [i \in 1 .. Len(ss) |-> IF i = 1 THEN ss[i] ELSE J[i - 1] \o ss[i]]
  BY <1>4 DEF T, Joined
<1>. HIDE DEF J
<1>6. \A i \in 1 .. Len(ss) : J[i] = IF i = 1 THEN ss[1] ELSE J[i - 1] \o ss[i]
  BY <1>5
<1>. DEFINE U == {n \in Nat : n \in 1 .. Len(ss) => J[n] \in Seq(S)}
<1>7. ASSUME NEW n \in Nat, n \in U PROVE n + 1 \in U
  <2>. DEFINE m == n + 1
  <2>. SUFFICES ASSUME m \in 1 .. Len(ss) PROVE J[m] \in Seq(S)
    OBVIOUS
  <2>1. ss[m] \in Seq(S)
    OBVIOUS
  <2>2. J[m] = IF m = 1 THEN ss[1] ELSE J[m - 1] \o ss[m]
    BY <1>6
  <2>3. m # 1 => m - 1 \in 1 .. Len(ss) /\ m - 1 = n
    OBVIOUS
  <2>4. m # 1 => J[m - 1] \in Seq(S)
    BY <1>7, <2>3
  <2>. HIDE DEF m
  <2>5. CASE m = 1
    BY <2>1, <2>2, <2>5
  <2>6. CASE m # 1
    BY <2>1, <2>2, <2>4, <2>6, ConcatProperties
  <2>. QED  BY <2>5, <2>6
<1>8. 0 \in U
  OBVIOUS
<1>. HIDE DEF U
<1>9. \A i \in 1 .. Len(ss) : J[i] \in Seq(S)
  <2>1. Nat \subseteq U
    BY <1>7, <1>8, Closed
  <2>. QED  BY <2>1 DEF U
<1>10. FlattenSeq(ss) = IF Len(ss) = 0 THEN ss ELSE J[Len(ss)]
  BY DEF FlattenSeq, J, Joined
<1>. QED  BY <1>6, <1>9, <1>10 DEF J

\* Flattening goes sequence by sequence.
LEMMA FlattenAppend ==
  ASSUME NEW S, NEW ss \in Seq(Seq(S)), NEW s \in Seq(S)
  PROVE  /\ FlattenSeq(ss) \in Seq(S)
         /\ FlattenSeq(Append(ss, s)) = FlattenSeq(ss) \o s
<1>. DEFINE tt == Append(ss, s)
            A == Joined(ss)
            B == Joined(tt)
<1>1. /\ tt \in Seq(Seq(S)) /\ Len(tt) = Len(ss) + 1 /\ Len(ss) \in Nat
      /\ tt[Len(tt)] = s /\ \A i \in 1 .. Len(ss) : tt[i] = ss[i]
  OBVIOUS
<1>. HIDE DEF tt
<1>2. /\ \A i \in 1 .. Len(ss) : A[i] = IF i = 1 THEN ss[1] ELSE A[i - 1] \o ss[i]
      /\ \A i \in 1 .. Len(ss) : A[i] \in Seq(S)
      /\ FlattenSeq(ss) = IF Len(ss) = 0 THEN <<>> ELSE A[Len(ss)]
  BY JoinedIs
<1>3. /\ \A i \in 1 .. Len(tt) : B[i] = IF i = 1 THEN tt[1] ELSE B[i - 1] \o tt[i]
      /\ FlattenSeq(tt) = IF Len(tt) = 0 THEN <<>> ELSE B[Len(tt)]
  BY <1>1, JoinedIs
<1>. HIDE DEF A, B
<1>. DEFINE T == {n \in Nat : n \in 1 .. Len(ss) => A[n] = B[n]}
<1>4. 0 \in T
  OBVIOUS
<1>5. ASSUME NEW n \in Nat, n \in T PROVE n + 1 \in T
  BY <1>1, <1>2, <1>3, <1>5
<1>. HIDE DEF T
<1>6. Nat \subseteq T
  BY <1>4, <1>5, Closed
<1>7. \A n \in 1 .. Len(ss) : A[n] = B[n]
  BY <1>6 DEF T
<1>8. FlattenSeq(ss) \in Seq(S)
  BY <1>1, <1>2
<1>9. CASE Len(ss) = 0
  <2>1. FlattenSeq(tt) = s /\ FlattenSeq(ss) = <<>>
    BY <1>1, <1>2, <1>3, <1>9
  <2>. QED  BY <1>8, <2>1, ConcatEmptySeq DEF tt
<1>10. CASE Len(ss) # 0
  <2>1. Len(ss) \in 1 .. Len(ss) /\ Len(tt) \in 1 .. Len(tt) /\ Len(tt) # 1
    BY <1>1, <1>10
  <2>a. A[Len(ss)] = B[Len(ss)]
    BY <1>7, <2>1
  <2>b. B[Len(tt)] = B[Len(tt) - 1] \o tt[Len(tt)]
    BY <1>3, <2>1
  <2>c. Len(tt) - 1 = Len(ss)
    BY <1>1
  <2>2. B[Len(tt)] = B[Len(ss)] \o s /\ A[Len(ss)] = B[Len(ss)]
    BY <1>1, <2>a, <2>b, <2>c
  <2>3. FlattenSeq(tt) = B[Len(tt)] /\ FlattenSeq(ss) = A[Len(ss)]
    BY <1>1, <1>2, <1>3, <1>10
  <2>4. FlattenSeq(tt) = FlattenSeq(ss) \o s
    BY <2>2, <2>3
  <2>. QED  BY <1>8, <2>4 DEF tt
<1>. QED  BY <1>9, <1>10

\* Nothing flattens to nothing.
LEMMA FlattenNone == FlattenSeq(<<>>) = <<>>
BY DEF FlattenSeq

\* Flattening the parts flattens the whole.
LEMMA FlattenConcat ==
  ASSUME NEW S, NEW ss \in Seq(Seq(S)), NEW tt \in Seq(Seq(S))
  PROVE  FlattenSeq(ss \o tt) = FlattenSeq(ss) \o FlattenSeq(tt)
<1>. DEFINE P(n) == SubSeq(tt, 1, n)
            T == {n \in Nat : n <= Len(tt) =>
                    FlattenSeq(ss \o P(n)) = FlattenSeq(ss) \o FlattenSeq(P(n))}
<1>1. Len(tt) \in Nat /\ FlattenSeq(ss) \in Seq(S) /\ <<>> \in Seq(Seq(S))
  BY FlattenAppend
<1>2. 0 \in T
  <2>1. P(0) = <<>>
    BY SubSeqEmpty
  <2>2. FlattenSeq(<<>>) = <<>>
    BY FlattenNone
  <2>3. ss \o <<>> = ss /\ FlattenSeq(ss) \o <<>> = FlattenSeq(ss)
    BY <1>1, ConcatEmptySeq
  <2>. QED  BY <2>1, <2>2, <2>3
<1>3. ASSUME NEW n \in Nat, n \in T PROVE n + 1 \in T
  <2>. SUFFICES ASSUME n + 1 <= Len(tt)
                PROVE  FlattenSeq(ss \o P(n + 1)) = FlattenSeq(ss) \o FlattenSeq(P(n + 1))
    OBVIOUS
  <2>1. P(n) \in Seq(Seq(S)) /\ tt[n + 1] \in Seq(S)
    BY <1>1
  <2>2. P(n + 1) = Append(P(n), tt[n + 1])
    BY <1>1
  <2>. DEFINE p == P(n)
              x == tt[n + 1]
  <2>3. FlattenSeq(ss \o p) = FlattenSeq(ss) \o FlattenSeq(p)
    BY <1>1, <1>3
  <2>. HIDE DEF p, x
  <2>4. p \in Seq(Seq(S)) /\ x \in Seq(S) /\ P(n + 1) = Append(p, x)
    BY <2>1, <2>2 DEF p, x
  <2>5. ss \o Append(p, x) = Append(ss \o p, x) /\ ss \o p \in Seq(Seq(S))
    BY <2>4, SMTT(30)
  <2>6. /\ FlattenSeq(Append(ss \o p, x)) = FlattenSeq(ss \o p) \o x
        /\ FlattenSeq(Append(p, x)) = FlattenSeq(p) \o x /\ FlattenSeq(p) \in Seq(S)
    BY <2>4, <2>5, FlattenAppend
  <2>. DEFINE a == FlattenSeq(ss)
              b == FlattenSeq(p)
  <2>7. (a \o b) \o x = a \o (b \o x)
    <3>1. a \in Seq(S) /\ b \in Seq(S) /\ x \in Seq(S)
      BY <1>1, <2>4, <2>6
    <3>. HIDE DEF a, b
    <3>. QED  BY <3>1
  <2>. QED  BY <2>3, <2>4, <2>5, <2>6, <2>7
<1>. HIDE DEF T
<1>4. Len(tt) \in T
  BY <1>1, <1>2, <1>3, Closed
<1>5. P(Len(tt)) = tt /\ Len(tt) <= Len(tt)
  BY <1>1, SubSeqFull
<1>. HIDE DEF P
<1>6. FlattenSeq(ss \o P(Len(tt))) = FlattenSeq(ss) \o FlattenSeq(P(Len(tt)))
  BY <1>4, <1>5 DEF T
<1>. QED  BY <1>5, <1>6

-----------------------------------------------------------------------------
(* What the user said *)

Input == Seq(Blocks \cup Replies)

\* What the messages add is input.
LEMMA SpokenTyped ==
  ASSUME NEW c \in Conversations
  PROVE  Spoken(c) \in Seq(Input) /\ Len(Spoken(c)) = Len(c) /\ UserBlocks(c) \in Input
<1>1. c \in Seq(Message) /\ Len(c) \in Nat
  BY DEF Conversations
<1>2. ASSUME NEW i \in 1 .. Len(c)
      PROVE  (IF IsUser(c[i]) THEN c[i].blocks ELSE <<>>) \in Input
  <2>1. c[i] \in Message
    BY <1>1
  <2>2. c[i].blocks \in Input /\ <<>> \in Input
    BY <2>1 DEF Message, Input
  <2>. QED  BY <2>2
<1>. HIDE DEF Input
<1>3. Spoken(c) \in Seq(Input) /\ Len(Spoken(c)) = Len(c)
  BY <1>1, <1>2 DEF Spoken
<1>4. UserBlocks(c) \in Input
  <2>1. <<>> \in Input
    BY DEF Input
  <2>. QED  BY <1>3, <2>1, FlattenAppend DEF UserBlocks, Input
<1>. QED  BY <1>3, <1>4

\* The user says in two conversations what the user says in one after the other.
LEMMA SaidConcat ==
  ASSUME NEW c \in Conversations, NEW d \in Conversations
  PROVE  UserBlocks(c \o d) = UserBlocks(c) \o UserBlocks(d)
<1>1. /\ c \in Seq(Message) /\ d \in Seq(Message) /\ c \o d \in Conversations
      /\ Len(c) \in Nat /\ Len(d) \in Nat
  BY DEF Conversations
<1>2. Spoken(c \o d) = Spoken(c) \o Spoken(d)
  BY <1>1 DEF Spoken
<1>3. Spoken(c) \in Seq(Input) /\ Spoken(d) \in Seq(Input)
  BY SpokenTyped
<1>. QED  BY <1>2, <1>3, FlattenConcat DEF UserBlocks, Input

\* One message says its blocks if it is the user's, and nothing otherwise.
LEMMA SaidOne ==
  ASSUME NEW m \in Message
  PROVE  UserBlocks(<<m>>) = IF IsUser(m) THEN m.blocks ELSE <<>>
<1>. DEFINE s == IF IsUser(m) THEN m.blocks ELSE <<>>
<1>1. s \in Input
  BY DEF Message, Input
<1>2. Spoken(<<m>>) = <<s>>
  BY DEF Spoken
<1>. HIDE DEF s
<1>3. <<s>> = Append(<<>>, s) /\ <<>> \in Seq(Input)
  OBVIOUS
<1>4. FlattenSeq(<<s>>) = <<>> \o s
  BY <1>1, <1>3, FlattenAppend, FlattenNone DEF Input
<1>5. <<>> \o s = s
  BY <1>1, ConcatEmptySeq DEF Input
<1>6. UserBlocks(<<m>>) = s
  BY <1>2, <1>4, <1>5 DEF UserBlocks
<1>. QED  BY <1>6 DEF s

\* An assistant turn says nothing for the user, however many messages it has.
LEMMA SaidNothing ==
  ASSUME NEW c \in Conversations, \A i \in 1 .. Len(c) : ~IsUser(c[i])
  PROVE  UserBlocks(c) = <<>>
<1>1. c \in Seq(Message) /\ Len(c) \in Nat
  BY DEF Conversations
<1>. DEFINE P(n) == SubSeq(c, 1, n)
            T == {n \in Nat : n <= Len(c) => UserBlocks(P(n)) = <<>>}
<1>2. 0 \in T
  <2>1. P(0) = <<>>
    BY SubSeqEmpty
  <2>2. Spoken(<<>>) = <<>>
    BY DEF Spoken
  <2>. QED  BY <2>1, <2>2, FlattenNone DEF UserBlocks
<1>3. ASSUME NEW n \in Nat, n \in T PROVE n + 1 \in T
  <2>. SUFFICES ASSUME n + 1 <= Len(c) PROVE UserBlocks(P(n + 1)) = <<>>
    OBVIOUS
  <2>1. /\ P(n) \in Conversations /\ c[n + 1] \in Message /\ ~IsUser(c[n + 1])
        /\ <<c[n + 1]>> \in Conversations
    BY <1>1 DEF Conversations
  <2>2. P(n + 1) = P(n) \o <<c[n + 1]>>
    BY <1>1
  <2>3. UserBlocks(P(n)) = <<>>
    BY <1>1, <1>3
  <2>4. UserBlocks(<<c[n + 1]>>) = <<>>
    BY <2>1, SaidOne
  <2>. HIDE DEF P
  <2>5. UserBlocks(P(n + 1)) = UserBlocks(P(n)) \o UserBlocks(<<c[n + 1]>>)
    BY <2>1, <2>2, SaidConcat
  <2>6. UserBlocks(P(n + 1)) = <<>> \o <<>>
    BY <2>3, <2>4, <2>5
  <2>. QED  BY <2>6
<1>. HIDE DEF T
<1>4. Len(c) \in T
  BY <1>1, <1>2, <1>3, Closed
<1>5. P(Len(c)) = c /\ Len(c) <= Len(c)
  BY <1>1, SubSeqFull
<1>. HIDE DEF P
<1>. QED  BY <1>4, <1>5 DEF T

\* The user input in one message after some others.
LEMMA SaidLast ==
  ASSUME NEW c \in Conversations, c # <<>>
  PROVE  LET n == Len(c)
         IN  /\ SubSeq(c, 1, n - 1) \in Conversations /\ c[n] \in Message
             /\ IsUser(c[n]) => UserBlocks(c) = UserBlocks(SubSeq(c, 1, n - 1)) \o c[n].blocks
<1>. DEFINE n == Len(c)
            f == SubSeq(c, 1, n - 1)
<1>1. c \in Seq(Message) /\ n \in Nat \ {0}
  BY DEF Conversations
<1>2. f \in Seq(Message) /\ c[n] \in Message /\ <<c[n]>> \in Seq(Message)
  BY <1>1
<1>3. c = f \o <<c[n]>>
  BY <1>1
<1>4. UserBlocks(f \o <<c[n]>>) = UserBlocks(f) \o UserBlocks(<<c[n]>>)
  BY <1>2, SaidConcat DEF Conversations
<1>. QED  BY <1>2, <1>3, <1>4, SaidOne DEF Conversations

\* What an entry stored for messages c under profile p remembers of them.
Stands(e, p, c) ==
  /\ e.parent = ParentKey(p, c)
  /\ e.count = Len(c)
  /\ e.last = c[Len(c)]

\* With the blocks the tail adds to the last message a stored question becomes
\* the question asked now.
LEMMA WidenedSaid ==
  ASSUME NEW c \in Conversations, c # <<>>, NEW msgs \in Conversations, msgs # <<>>,
         NEW p, NEW pp, ParentKey(pp, c) = ParentKey(p, msgs), Len(c) = Len(msgs),
         Extends(c[Len(c)], msgs[Len(msgs)])
  PROVE  /\ ExtraBlocks(c[Len(c)], msgs[Len(msgs)]) \in Message
         /\ UserBlocks(msgs) =
              UserBlocks(c) \o UserBlocks(<<ExtraBlocks(c[Len(c)], msgs[Len(msgs)])>>)
<1>. DEFINE n == Len(msgs)
            f == SubSeq(msgs, 1, n - 1)
            l == c[n].blocks
            b == msgs[n].blocks
            x == SubSeq(b, Len(l) + 1, Len(b))
<1>1. c \in Seq(Message) /\ msgs \in Seq(Message) /\ n \in Nat \ {0}
  BY DEF Conversations
<1>2. SubSeq(c, 1, n - 1) = f
  <2>1. CASE n > 1
    BY <2>1 DEF ParentKey, Key
  <2>2. CASE n = 1
    BY <1>1, <2>2
  <2>. QED  BY <1>1, <2>1, <2>2
<1>3. /\ f \in Conversations /\ IsUser(c[n]) /\ IsUser(msgs[n])
      /\ UserBlocks(c) = UserBlocks(f) \o l
      /\ UserBlocks(msgs) = UserBlocks(f) \o b
  BY <1>2, SaidLast DEF Extends
<1>4. l \in Input /\ b \in Input
  <2>1. c[n] \in Message /\ msgs[n] \in Message
    BY <1>1
  <2>. QED  BY <2>1 DEF Message, Input
<1>5. Len(l) < Len(b) /\ \A i \in 1 .. Len(l) : l[i] = b[i]
  BY DEF Extends
<1>. DEFINE u == UserBlocks(f)
<1>6. u \in Input
  BY <1>3, SpokenTyped
<1>. HIDE DEF l, b, u
<1>7. x \in Input /\ b = l \o x
  BY <1>4, <1>5 DEF Input
<1>8. ExtraBlocks(c[n], msgs[n]) = User(x)
  BY DEF ExtraBlocks, l, b
<1>. HIDE DEF x
<1>9. User(x) \in Message /\ IsUser(User(x)) /\ User(x).blocks = x
  BY <1>7 DEF User, Message, IsUser, Input
<1>10. UserBlocks(<<User(x)>>) = x
  BY <1>9, SaidOne
<1>11. u \o b = (u \o l) \o x
  BY <1>4, <1>6, <1>7, SMTT(30) DEF Input
<1>12. UserBlocks(c) = u \o l /\ UserBlocks(msgs) = u \o b
  BY <1>3 DEF l, b, u
<1>. HIDE DEF n
<1>. QED  BY <1>8, <1>9, <1>10, <1>11, <1>12 DEF n

\* Between a stored prefix and the tail only the assistant has spoken.
LEMMA TailSaid ==
  ASSUME NEW msgs \in Conversations, NEW n \in 1 .. Len(msgs) - 1,
         NEW j \in n + 1 .. Len(msgs), UserTailFrom(msgs, n, j)
  PROVE  /\ SubSeq(msgs, 1, n) \in Conversations
         /\ SubSeq(msgs, j, Len(msgs)) \in Conversations
         /\ UserBlocks(msgs) =
              UserBlocks(SubSeq(msgs, 1, n)) \o UserBlocks(SubSeq(msgs, j, Len(msgs)))
<1>. DEFINE a == SubSeq(msgs, 1, n)
            b == SubSeq(msgs, n + 1, j - 1)
            t == SubSeq(msgs, j, Len(msgs))
<1>1. msgs \in Seq(Message) /\ Len(msgs) \in Nat /\ n \in Nat /\ j \in Nat
  BY DEF Conversations
<1>2. a \in Seq(Message) /\ b \in Seq(Message) /\ t \in Seq(Message)
  BY <1>1
<1>3. Len(b) = j - 1 - n /\ \A i \in 1 .. Len(b) : b[i] = msgs[n + i]
  BY <1>1
<1>4. \A i \in 1 .. Len(b) : ~IsUser(b[i])
  BY <1>1, <1>3 DEF UserTailFrom
<1>5. msgs = a \o (b \o t)
  BY <1>1, <1>2
<1>. HIDE DEF a, b, t
<1>6. UserBlocks(b \o t) = UserBlocks(b) \o UserBlocks(t) /\ b \o t \in Conversations
  BY <1>2, SaidConcat, SMTT(30) DEF Conversations
<1>7. UserBlocks(a \o (b \o t)) = UserBlocks(a) \o UserBlocks(b \o t)
  BY <1>2, <1>6, SaidConcat DEF Conversations
<1>8. UserBlocks(b) = <<>>
  BY <1>2, <1>4, SaidNothing DEF Conversations
<1>9. <<>> \o UserBlocks(t) = UserBlocks(t)
  BY <1>2, SpokenTyped, ConcatEmptySeq DEF Conversations, Input
<1>10. a \in Conversations /\ t \in Conversations
  BY <1>2 DEF Conversations
<1>11. UserBlocks(msgs) = UserBlocks(a) \o UserBlocks(t)
  BY <1>5, <1>6, <1>7, <1>8, <1>9
<1>. QED  BY <1>10, <1>11 DEF a, t

\* An entry remembers the messages its key stands for, and its response knows
\* what the user said in them.
EntrySaid(k, e, ups) ==
  /\ k[2] # <<>>
  /\ Stands(e, k[1], k[2])
  /\ UserBlocks(ups[e.resp].context) = UserBlocks(k[2])

StoreSaid(st, ups) == \A k \in Keys(st) : EntrySaid(k, st.entries[k], ups)

\* What Prepare returns continues its response up to what the user says now.
LEMMA ChainSaid ==
  ASSUME TypeOK, NEW st, StoreOK(st), StoreSaid(st, upstream),
         \A k \in Keys(st) : st.entries[k].resp \in DOMAIN upstream,
         NEW s, NEW p, NEW msgs \in Conversations, msgs # <<>>,
         NEW c \in PreparedChains(st, s, p, msgs), c # NoChain
  PROVE  UserBlocks(upstream[c.resp].context \o c.tail) = UserBlocks(msgs)
<1>1. ASSUME NEW k \in Keys(st)
      PROVE  /\ k[2] \in Conversations /\ upstream[st.entries[k].resp].context \in Conversations
             /\ EntrySaid(k, st.entries[k], upstream)
  BY DEF StoreSaid, StoreOK, Keys, Fingerprints, TypeOK, Response
<1>2. ASSUME NEW k \in Keys(st), NEW t \in Conversations, c = Chain(k, st.entries[k], t),
             UserBlocks(msgs) = UserBlocks(k[2]) \o UserBlocks(t)
      PROVE  UserBlocks(upstream[c.resp].context \o c.tail) = UserBlocks(msgs)
  <2>1. c.resp = st.entries[k].resp /\ c.tail = t
    BY <1>2 DEF Chain
  <2>2. UserBlocks(upstream[c.resp].context \o t)
          = UserBlocks(upstream[c.resp].context) \o UserBlocks(t)
    BY <1>1, <2>1, SaidConcat
  <2>. QED  BY <1>1, <1>2, <2>1, <2>2 DEF EntrySaid
<1>3. CASE c \in AppendedChains(st, s, p, msgs)
  <2>1. PICK k \in AppendedCandidates(st, s, p, msgs) :
          c = Chain(k, st.entries[k],
                    <<ExtraBlocks(st.entries[k].last, msgs[Len(msgs)])>>)
    BY <1>3 DEF AppendedChains
  <2>. DEFINE d == k[2]
              x == ExtraBlocks(st.entries[k].last, msgs[Len(msgs)])
  <2>2. /\ k \in Keys(st) /\ st.entries[k].count = Len(msgs)
        /\ st.entries[k].parent = ParentKey(p, msgs)
        /\ Extends(st.entries[k].last, msgs[Len(msgs)])
    BY <2>1 DEF AppendedCandidates
  <2>3. /\ d \in Conversations /\ d # <<>> /\ Len(d) = Len(msgs)
        /\ ParentKey(k[1], d) = ParentKey(p, msgs) /\ st.entries[k].last = d[Len(d)]
    BY <1>1, <2>2 DEF EntrySaid, Stands
  <2>4. x \in Message /\ UserBlocks(msgs) = UserBlocks(d) \o UserBlocks(<<x>>)
    BY <2>2, <2>3, WidenedSaid
  <2>5. <<x>> \in Conversations
    BY <2>4 DEF Conversations
  <2>. QED  BY <1>2, <2>1, <2>2, <2>4, <2>5
<1>4. CASE c \in PrefixChains(st, s, p, msgs)
  <2>0. PICK n \in PrefixLengths(st, s, p, msgs) :
          \E j \in n + 1 .. Len(msgs) :
            /\ UserTailFrom(msgs, n, j)
            /\ LET k == Key(p, SubSeq(msgs, 1, n))
               IN  c = Chain(k, st.entries[k], SubSeq(msgs, j, Len(msgs)))
    BY <1>4 DEF PrefixChains
  <2>1. PICK j \in n + 1 .. Len(msgs) :
            /\ UserTailFrom(msgs, n, j)
            /\ LET k == Key(p, SubSeq(msgs, 1, n))
               IN  c = Chain(k, st.entries[k], SubSeq(msgs, j, Len(msgs)))
    BY <2>0
  <2>. DEFINE k == Key(p, SubSeq(msgs, 1, n))
  <2>2. n \in 1 .. Len(msgs) - 1 /\ k \in Keys(st) /\ k[2] = SubSeq(msgs, 1, n)
    BY DEF PrefixLengths, Key
  <2>3. /\ SubSeq(msgs, j, Len(msgs)) \in Conversations
        /\ UserBlocks(msgs) = UserBlocks(k[2]) \o UserBlocks(SubSeq(msgs, j, Len(msgs)))
    BY <2>1, <2>2, TailSaid
  <2>. QED  BY <1>2, <2>1, <2>2, <2>3
<1>. QED  BY <1>3, <1>4 DEF PreparedChains

\* A chained request continues its response up to what its user says, and a
\* completed response knows what the user of its request said.
RequestSaid(q, ups) ==
  /\ q.prev # NoReply =>
       UserBlocks(ups[q.prev].context \o q.chain.tail) = UserBlocks(q.msgs)
  /\ q.completed => UserBlocks(ups[q.reply].context) = UserBlocks(q.msgs)

SaidInv == StoreSaid(store, upstream) /\ \A h \in Handlers : RequestSaid(req[h], upstream)

\* Nothing is stored and nothing posted.
LEMMA SaidInit == Init => SaidInv
BY DEF Init, SaidInv, StoreSaid, EmptyStore, Keys, RequestSaid, Idle, Fresh, NoReply

\* What the upstream knows of a response never changes: a reply completes once,
\* and forgetting only makes it unavailable.
LEMMA ContextsKept ==
  ASSUME TypeOK, OwnerInv, [Next]_vars
  PROVE  \A r \in DOMAIN upstream : r \in DOMAIN upstream'
                                    /\ upstream'[r].context = upstream[r].context
<1>1. ASSUME NEW h \in Handlers, Complete(h)
      PROVE  \A r \in DOMAIN upstream : r \in DOMAIN upstream' /\ upstream'[r] = upstream[r]
  <2>1. ReplyOf(req[h]) \notin DOMAIN upstream
    <3>1. Unfinished(req[h]) /\ ~req[h].completed
      BY <1>1 DEF OwnerInv, RequestsOwned, Complete
    <3>2. CASE req[h].reply # NoReply
      BY <3>1, <3>2 DEF ReplyOf, Unfinished
    <3>3. CASE req[h].reply = NoReply
      BY <3>3 DEF ReplyOf, TypeOK
    <3>. QED  BY <3>2, <3>3
  <2>. QED  BY <1>1, <2>1 DEF Complete, Completed
<1>2. ASSUME NEW h \in Handlers, Arrive(h) \/ Step(h), ~Complete(h) PROVE UNCHANGED upstream
  BY <1>2
  DEF Arrive, Step, Prepare, PrepareFails, PostAccepted, PostRefused, PostFails, Invalidate,
      EmitContent, StreamRetry, StreamFails, StreamEndsCompleted, StreamEndsUncommitted,
      Finish
<1>3. ASSUME NEW i \in DOMAIN upstream, Forget(i)
      PROVE  \A r \in DOMAIN upstream : r \in DOMAIN upstream'
                                        /\ upstream'[r].context = upstream[r].context
  BY <1>3 DEF Forget, TypeOK, Response
<1>. QED  BY <1>1, <1>2, <1>3 DEF Next, vars

\* A step changes the request of one handler.
LEMMA SaidOf ==
  ASSUME TypeOK, SaidInv, StoreSaid(store', upstream'),
         \A r \in DOMAIN upstream : upstream'[r].context = upstream[r].context,
         NEW h \in Handlers, NEW q, req' = [req EXCEPT ![h] = q],
         RequestSaid(q, upstream')
  PROVE  SaidInv'
<1>1. ASSUME NEW g \in Handlers PROVE RequestSaid(req'[g], upstream')
  <2>1. CASE g = h
    BY <2>1 DEF TypeOK
  <2>2. CASE g # h
    <3>1. req'[g] = req[g]
      BY <2>2 DEF TypeOK
    <3>2. /\ req[g].prev # NoReply => req[g].prev \in DOMAIN upstream
          /\ req[g].completed => req[g].reply \in DOMAIN upstream
      BY DEF TypeOK
    <3>. QED  BY <3>1, <3>2 DEF SaidInv, RequestSaid
  <2>. QED  BY <2>1, <2>2
<1>. QED  BY <1>1 DEF SaidInv

\* A request that keeps its messages, its chain and its completed reply keeps
\* what it says.
LEMMA SaidKept ==
  ASSUME TypeOK, SaidInv, NEW h \in Handlers,
         \A r \in DOMAIN upstream : upstream'[r].context = upstream[r].context,
         NEW q, q.prev = req[h].prev, q.chain = req[h].chain, q.msgs = req[h].msgs,
         q.completed => req[h].completed /\ q.reply = req[h].reply
  PROVE  RequestSaid(q, upstream')
<1>1. /\ req[h].prev # NoReply => req[h].prev \in DOMAIN upstream
      /\ req[h].completed => req[h].reply \in DOMAIN upstream
  BY DEF TypeOK
<1>. QED  BY <1>1 DEF SaidInv, RequestSaid

\* The store keeps what it knows, and a commit stores what its request said.
LEMMA StoreSaidNext ==
  ASSUME ShapeInv, OwnerInv, SaidInv, [Next]_vars
  PROVE  StoreSaid(store', upstream')
<1>. TypeOK /\ GoodStore(store)
  BY DEF ShapeInv
<1>0. \A r \in DOMAIN upstream : upstream'[r].context = upstream[r].context
  BY ContextsKept
<1>1. ASSUME NEW k \in Keys(store'), k \in Keys(store), store'.entries[k] = store.entries[k]
      PROVE  EntrySaid(k, store'.entries[k], upstream')
  BY <1>0, <1>1 DEF SaidInv, StoreSaid, EntrySaid, TypeOK
<1>2. ASSUME NEW h \in Handlers, StreamEndsCompleted(h),
             NEW k, k = Key(req[h].profile, req[h].msgs),
             store'.entries[k] = NewEntry(req[h].session, req[h].profile,
                                          req[h].msgs, req[h].reply)
      PROVE  EntrySaid(k, store'.entries[k], upstream')
  <2>1. /\ req[h].completed /\ req[h].msgs # <<>> /\ req[h].reply \in DOMAIN upstream
        /\ UserBlocks(upstream[req[h].reply].context) = UserBlocks(req[h].msgs)
    BY <1>2 DEF StreamEndsCompleted, TypeOK, SaidInv, RequestSaid
  <2>2. k[1] = req[h].profile /\ k[2] = req[h].msgs
    BY <1>2 DEF Key
  <2>3. /\ Stands(store'.entries[k], req[h].profile, req[h].msgs)
        /\ store'.entries[k].resp = req[h].reply
    BY <1>2 DEF NewEntry, Stands
  <2>. QED  BY <1>0, <2>1, <2>2, <2>3 DEF EntrySaid
<1>. QED  BY <1>1, <1>2, StoreSteps DEF StoreSaid, Part

\* Every step keeps what is chained, stored and known upstream in agreement with
\* what users said.
LEMMA SaidNext == ShapeInv /\ OwnerInv /\ SaidInv /\ [Next]_vars => SaidInv'
<1>. SUFFICES ASSUME ShapeInv, OwnerInv, SaidInv, [Next]_vars PROVE SaidInv'
  OBVIOUS
<1>types. TypeOK /\ GoodStore(store)
  BY DEF ShapeInv
<1>kept. /\ \A r \in DOMAIN upstream : upstream'[r].context = upstream[r].context
         /\ StoreSaid(store', upstream')
  BY <1>types, ContextsKept, StoreSaidNext
<1>req. ASSUME NEW h \in Handlers PROVE req[h] \in Request
  BY <1>types DEF TypeOK
<1>1. ASSUME NEW h \in Handlers, NEW q, req' = [req EXCEPT ![h] = q],
             q.prev = NoReply, q.completed = FALSE
      PROVE  SaidInv'
  BY <1>types, <1>kept, <1>1, SaidOf DEF RequestSaid
<1>2. ASSUME NEW h \in Handlers, NEW q, req' = [req EXCEPT ![h] = q],
             q.prev = req[h].prev, q.chain = req[h].chain, q.msgs = req[h].msgs,
             q.completed => req[h].completed /\ q.reply = req[h].reply
      PROVE  SaidInv'
  BY <1>types, <1>kept, <1>2, SaidOf, SaidKept
<1>3. ASSUME NEW h \in Handlers, Arrive(h) PROVE SaidInv'
  <2>1. PICK s \in Sessions, p \in Profiles : \E c \in NextConversations(s) :
          req' = [req EXCEPT ![h] = Fresh("prepare", s, p, c)]
    BY <1>3 DEF Arrive
  <2>2. PICK c : req' = [req EXCEPT ![h] = Fresh("prepare", s, p, c)]
    BY <2>1
  <2>3. Fresh("prepare", s, p, c).prev = NoReply /\ Fresh("prepare", s, p, c).completed = FALSE
    BY DEF Fresh
  <2>. QED  BY <1>1, <2>2, <2>3
<1>4. ASSUME NEW h \in Handlers, Finished(h) PROVE SaidInv'
  <2>1. Idle.prev = NoReply /\ Idle.completed = FALSE
    BY DEF Idle, Fresh
  <2>. QED  BY <1>1, <1>4, <2>1 DEF Finished
<1>5. ASSUME NEW h \in Handlers, NEW pc, req' = [req EXCEPT ![h].pc = pc] PROVE SaidInv'
  <2>. DEFINE q == [req[h] EXCEPT !.pc = pc]
  <2>1. req' = [req EXCEPT ![h] = q]
    BY <1>types, <1>5 DEF TypeOK
  <2>2. /\ q.prev = req[h].prev /\ q.chain = req[h].chain /\ q.msgs = req[h].msgs
        /\ q.completed = req[h].completed /\ q.reply = req[h].reply
    BY <1>req DEF Request
  <2>. HIDE DEF q
  <2>. QED  BY <1>2, <2>1, <2>2
<1>6. ASSUME NEW h \in Handlers, Invalidate(h) PROVE SaidInv'
  <2>. DEFINE q == [req[h] EXCEPT !.pc = "prepare", !.force = TRUE]
  <2>1. req' = [req EXCEPT ![h] = q]
    BY <1>types, <1>6 DEF TypeOK, Invalidate
  <2>2. /\ q.prev = req[h].prev /\ q.chain = req[h].chain /\ q.msgs = req[h].msgs
        /\ q.completed = req[h].completed /\ q.reply = req[h].reply
    BY <1>req DEF Request
  <2>. HIDE DEF q
  <2>. QED  BY <1>2, <2>1, <2>2
<1>7. ASSUME NEW h \in Handlers, StreamRetry(h) PROVE SaidInv'
  <2>. DEFINE q == [req[h] EXCEPT !.pc = "prepare", !.retries = @ - 1,
                                  !.reply = NoReply, !.completed = FALSE]
  <2>1. req' = [req EXCEPT ![h] = q]
    BY <1>types, <1>7 DEF TypeOK, StreamRetry
  <2>2. /\ q.prev = req[h].prev /\ q.chain = req[h].chain /\ q.msgs = req[h].msgs
        /\ q.completed = FALSE
    BY <1>req DEF Request
  <2>. HIDE DEF q
  <2>. QED  BY <1>2, <2>1, <2>2
<1>8. ASSUME NEW h \in Handlers, EmitContent(h) PROVE SaidInv'
  <2>. DEFINE r == ReplyOf(req[h])
              q == [req[h] EXCEPT !.reply = r, !.heard = @ \cup {r}]
  <2>1. req' = [req EXCEPT ![h] = q] /\ ~req[h].completed
    BY <1>types, <1>8 DEF TypeOK, EmitContent
  <2>. HIDE DEF r
  <2>2. /\ q.prev = req[h].prev /\ q.chain = req[h].chain /\ q.msgs = req[h].msgs
        /\ q.completed = req[h].completed
    BY <1>req DEF Request
  <2>. HIDE DEF q
  <2>. QED  BY <1>2, <2>1, <2>2
<1>9. ASSUME NEW h \in Handlers, Complete(h) PROVE SaidInv'
  <2>. DEFINE r == ReplyOf(req[h])
              q == [req[h] EXCEPT !.reply = r, !.completed = TRUE]
  <2>1. req' = [req EXCEPT ![h] = q]
    BY <1>types, <1>9 DEF TypeOK, Complete
  <2>2. upstream'[r].context = Context(req[h]) \o <<Assistant(r)>>
    BY <1>9 DEF Complete, Completed
  <2>3. r \in Replies
    BY <1>types, <1>req DEF ReplyOf, TypeOK, Request, Replies, NoReply
  <2>. HIDE DEF r
  <2>4. /\ q.prev = req[h].prev /\ q.chain = req[h].chain /\ q.msgs = req[h].msgs
        /\ q.reply = r
    BY <1>req DEF Request
  <2>. HIDE DEF q
  <2>5. UserBlocks(Context(req[h])) = UserBlocks(req[h].msgs)
    BY DEF SaidInv, RequestSaid, Context
  <2>6. UserBlocks(upstream'[r].context) = UserBlocks(req[h].msgs)
    <3>1. Assistant(r) \in Message /\ ~IsUser(Assistant(r))
      <4>1. <<>> \in Conversations
        BY DEF Conversations
      <4>. QED  BY <2>3, <4>1, AssistantTyped DEF Assistant, IsUser
    <3>2. UserBlocks(<<Assistant(r)>>) = <<>> /\ <<Assistant(r)>> \in Conversations
      BY <3>1, SaidOne DEF Conversations
    <3>3. Context(req[h]) \in Conversations
      BY <1>types, ContextTyped
    <3>4. UserBlocks(upstream'[r].context) = UserBlocks(Context(req[h])) \o <<>>
      BY <2>2, <3>2, <3>3, SaidConcat
    <3>5. UserBlocks(Context(req[h])) \o <<>> = UserBlocks(Context(req[h]))
      BY <3>3, SpokenTyped, ConcatEmptySeq DEF Input
    <3>. QED  BY <2>5, <3>4, <3>5
  <2>7. req[h].prev # NoReply => req[h].prev \in DOMAIN upstream
    BY <1>types DEF TypeOK
  <2>8. RequestSaid(q, upstream')
    BY <1>kept, <2>4, <2>6, <2>7 DEF SaidInv, RequestSaid
  <2>. QED  BY <1>types, <1>kept, <2>1, <2>8, SaidOf
<1>10. ASSUME NEW h \in Handlers, Prepare(h) PROVE SaidInv'
  <2>. DEFINE Posted(c, on) ==
                [req EXCEPT ![h].pc = "post",
                            ![h].chain = c,
                            ![h].prev = IF ~req[h].force /\ on /\ c.resp # NoReply
                                          THEN c.resp ELSE NoReply,
                            ![h].keep = on,
                            ![h].posts = IF @ > MaxRetries + 2 THEN @ ELSE @ + 1]
              Found(st) == PreparedChains(st, req[h].session, req[h].profile, req[h].msgs)
              Did(c) == \E on \in ChainModes : req' = Posted(c, on)
  <2>1. PICK gone \in ExpiredSets(store) : \E c \in Found(Drop(store, gone)) : Did(c)
    BY <1>10, ZenonT(40) DEF Prepare
  <2>. DEFINE st == Drop(store, gone)
  <2>a. PICK c \in Found(st) : Did(c)
    BY <2>1
  <2>2. PICK on \in ChainModes : req' = Posted(c, on)
    BY <2>a
  <2>3. c \in PreparedChains(st, req[h].session, req[h].profile, req[h].msgs)
    OBVIOUS
  <2>4. /\ StoreOK(st)
        /\ \A k \in Keys(st) : k \in Keys(store) /\ st.entries[k] = store.entries[k]
    BY <1>types, DropGood, DropKeys DEF GoodStore
  <2>. HIDE DEF st
  <2>5. /\ StoreSaid(st, upstream)
        /\ \A k \in Keys(st) : st.entries[k].resp \in DOMAIN upstream
    BY <1>types, <2>4 DEF SaidInv, StoreSaid, TypeOK
  <2>6. req[h].msgs \in Conversations /\ req[h].msgs # <<>>
    BY <1>types, <1>10 DEF TypeOK, Prepare, Request
  <2>7. c # NoChain => UserBlocks(upstream[c.resp].context \o c.tail) = UserBlocks(req[h].msgs)
    BY <1>types, <2>3, <2>4, <2>5, <2>6, ChainSaid
  <2>8. c # NoChain => c.resp \in DOMAIN upstream
    BY <2>3, <2>4, <2>5, <2>6, PreparedChainsOwned
  <2>. DEFINE pv == IF ~req[h].force /\ on /\ c.resp # NoReply THEN c.resp ELSE NoReply
              n  == IF req[h].posts > MaxRetries + 2 THEN req[h].posts ELSE req[h].posts + 1
              q  == [req[h] EXCEPT !.pc = "post", !.chain = c, !.prev = pv,
                                   !.keep = on, !.posts = n]
  <2>9. req' = [req EXCEPT ![h] = q]
    BY <1>types, <2>2 DEF TypeOK
  <2>10. pv # NoReply => pv = c.resp /\ c # NoChain
    BY DEF NoChain
  <2>. HIDE DEF pv, n
  <2>11. /\ q.prev = pv /\ q.chain = c /\ q.msgs = req[h].msgs
         /\ q.completed = req[h].completed /\ q.reply = req[h].reply
    BY <1>req DEF Request
  <2>. HIDE DEF q
  <2>12. req[h].completed => req[h].reply \in DOMAIN upstream
    BY <1>types DEF TypeOK
  <2>13. RequestSaid(q, upstream')
    BY <1>kept, <2>7, <2>8, <2>10, <2>11, <2>12 DEF SaidInv, RequestSaid
  <2>. QED  BY <1>types, <1>kept, <2>9, <2>13, SaidOf
<1>11. ASSUME UNCHANGED req PROVE SaidInv'
  <2>1. ASSUME NEW h \in Handlers PROVE RequestSaid(req[h], upstream')
    BY <1>types, <1>kept, SaidKept
  <2>. QED  BY <1>11, <1>kept, <2>1 DEF SaidInv
<1>12. ASSUME NEW h \in Handlers, PostAccepted(h) PROVE SaidInv'
  BY <1>5, <1>12 DEF PostAccepted
<1>13. ASSUME NEW h \in Handlers, PostRefused(h) PROVE SaidInv'
  BY <1>5, <1>13 DEF PostRefused
<1>14. ASSUME NEW h \in Handlers,
              \/ PrepareFails(h) \/ PostFails(h) \/ StreamFails(h)
              \/ StreamEndsUncommitted(h) \/ Finish(h)
       PROVE  SaidInv'
  BY <1>4, <1>14 DEF PrepareFails, PostFails, StreamFails, StreamEndsUncommitted, Finish
<1>15. ASSUME NEW h \in Handlers, StreamEndsCompleted(h) PROVE SaidInv'
  BY <1>5, <1>15 DEF StreamEndsCompleted
<1>. QED
  BY <1>3, <1>6, <1>7, <1>8, <1>9, <1>10, <1>11, <1>12, <1>13, <1>14, <1>15
  DEF Next, Step, Forget, vars

\* What is stored, chained and completed agrees with what users said, always.
LEMMA SaidHolds == Spec => []OwnerInv /\ []SaidInv
<1>1. Spec => []OwnerInv
  BY OwnerInit, OwnerNext, ShapeHolds, PTL DEF Spec
<1>. QED  BY <1>1, SaidInit, SaidNext, ShapeHolds, PTL DEF Spec

\* Resuming a stored response and posting only a tail of the conversation puts
\* the same user input before the model as posting it all: whichever stored
\* prefix or widened question Prepare chains to, and whatever other handlers
\* commit, renew, evict or invalidate in between.
THEOREM UserInputKept == Spec => []UserInputPreserved
<1>1. SaidInv => UserInputPreserved
  BY DEF SaidInv, RequestSaid, Context, UserInputPreserved
<1>. QED  BY <1>1, SaidHolds, PTL

-----------------------------------------------------------------------------
(* What the store keeps may be continued *)

\* A request's messages, and the messages of an entry's key, were asked by the
\* session's client.
Asking(q, kn) == q.pc # "idle" => q.msgs \in kn[q.session]

AskedFor(k, e, kn) == k[2] \in kn[e.session] /\ k[1] = e.profile

AskedInv ==
  /\ \A h \in Handlers : Asking(req[h], known)
  /\ \A k \in Keys(store) : AskedFor(k, store.entries[k], known)

\* What Prepare leaves of its request.
LEMMA PrepareKeeps ==
  ASSUME TypeOK, NEW h \in Handlers, Prepare(h)
  PROVE  /\ req' = [req EXCEPT ![h] = req'[h]]
         /\ req[h].pc = "prepare" /\ req'[h].pc = "post"
         /\ req'[h].msgs = req[h].msgs /\ req'[h].session = req[h].session
         /\ req'[h].reply = req[h].reply
<1>. DEFINE Posted(c, on) ==
              [req EXCEPT ![h].pc = "post",
                          ![h].chain = c,
                          ![h].prev = IF ~req[h].force /\ on /\ c.resp # NoReply
                                        THEN c.resp ELSE NoReply,
                          ![h].keep = on,
                          ![h].posts = IF @ > MaxRetries + 2 THEN @ ELSE @ + 1]
<1>1. req[h].pc = "prepare" /\ \E c, on : req' = Posted(c, on)
  BY DEF Prepare
<1>2. PICK c, on : req' = Posted(c, on)
  BY <1>1
<1>. DEFINE pv == IF ~req[h].force /\ on /\ c.resp # NoReply THEN c.resp ELSE NoReply
            n  == IF req[h].posts > MaxRetries + 2 THEN req[h].posts ELSE req[h].posts + 1
            q  == [req[h] EXCEPT !.pc = "post", !.chain = c, !.prev = pv,
                                 !.keep = on, !.posts = n]
<1>3. req' = [req EXCEPT ![h] = q]
  BY <1>2 DEF TypeOK
<1>. HIDE DEF pv, n
<1>4. req[h] \in Request
  BY DEF TypeOK
<1>5. /\ q.pc = "post" /\ q.msgs = req[h].msgs /\ q.session = req[h].session
      /\ q.reply = req[h].reply
  BY <1>4 DEF Request
<1>. HIDE DEF q
<1>6. req'[h] = q
  BY <1>3 DEF TypeOK
<1>. QED  BY <1>1, <1>3, <1>5, <1>6

\* A handler's step keeps its request's owner and messages, or ends it.
LEMMA SameRequest ==
  ASSUME TypeOK, NEW h \in Handlers, Step(h)
  PROVE  \E q : /\ req' = [req EXCEPT ![h] = q]
                /\ \/ q = Idle
                   \/ /\ req[h].pc # "idle"
                      /\ q.msgs = req[h].msgs /\ q.session = req[h].session
<1>. DEFINE Goal(q) == /\ req' = [req EXCEPT ![h] = q]
                       /\ \/ q = Idle
                          \/ /\ req[h].pc # "idle"
                             /\ q.msgs = req[h].msgs /\ q.session = req[h].session
<1>1. CASE Finished(h)
  <2>1. Goal(Idle)
    BY <1>1 DEF Finished
  <2>. QED  BY <2>1
<1>2. CASE ~Finished(h)
  <2>1. req[h].pc # "idle"
    BY DEF Step, Prepare, PrepareFails, PostAccepted, PostRefused, PostFails, Invalidate,
        EmitContent, Complete, StreamRetry, StreamFails, StreamEndsCompleted,
        StreamEndsUncommitted, Finish
  <2>2. /\ req' = [req EXCEPT ![h] = req'[h]]
        /\ req'[h].msgs = req[h].msgs /\ req'[h].session = req[h].session
    <3>. req[h] \in Request
      BY DEF TypeOK
    <3>1. CASE Prepare(h)
      BY <3>1, PrepareKeeps
    <3>2. CASE PostAccepted(h) \/ PostRefused(h) \/ Invalidate(h) \/ StreamRetry(h)
      BY <3>2 DEF TypeOK, Request, PostAccepted, PostRefused, Invalidate, StreamRetry
    <3>3. CASE EmitContent(h) \/ Complete(h)
      <4>. DEFINE r == ReplyOf(req[h])
      <4>1. \/ req' = [req EXCEPT ![h].reply = r, ![h].completed = TRUE]
            \/ req' = [req EXCEPT ![h].reply = r, ![h].heard = @ \cup {r}]
        BY <3>3 DEF EmitContent, Complete
      <4>. HIDE DEF r
      <4>. QED  BY <4>1 DEF TypeOK, Request
    <3>4. CASE StreamEndsCompleted(h)
      BY <3>4 DEF TypeOK, Request, StreamEndsCompleted
    <3>. QED  BY <1>2, <3>1, <3>2, <3>3, <3>4
              DEF Step, PrepareFails, PostFails, StreamFails, StreamEndsUncommitted, Finish
  <2>3. Goal(req'[h])
    BY <2>1, <2>2
  <2>. QED  BY <2>3
<1>. QED  BY <1>1, <1>2

\* Nothing is asked or stored at first.
LEMMA AskedInit == Init => AskedInv
BY DEF Init, AskedInv, Asking, Idle, Fresh, Keys, EmptyStore

\* A request keeps the messages it was asked with, and Commit files the answer
\* under just these and the request's own session and profile.
LEMMA AskedNext == ShapeInv /\ AskedInv /\ [Next]_vars => AskedInv'
<1>. SUFFICES ASSUME ShapeInv, AskedInv, [Next]_vars PROVE AskedInv'
  OBVIOUS
<1>types. TypeOK /\ GoodStore(store) /\ StoreOK(store)
  BY DEF ShapeInv, GoodStore
<1>grow. \A s \in Sessions : known[s] \subseteq known'[s]
  BY <1>types, KnownGrows
<1>1. ASSUME NEW h \in Handlers, NEW q, req' = [req EXCEPT ![h] = q], Asking(q, known'),
             NEW g \in Handlers
      PROVE  Asking(req'[g], known')
  <2>1. CASE g = h
    BY <1>1, <1>types, <2>1 DEF TypeOK
  <2>2. CASE g # h
    <3>1. req'[g] = req[g]
      BY <1>1, <1>types, <2>2 DEF TypeOK
    <3>2. req[g].pc # "idle" => req[g].session \in Sessions
      BY <1>types DEF TypeOK
    <3>. QED  BY <1>grow, <3>1, <3>2 DEF AskedInv, Asking
  <2>. QED  BY <2>1, <2>2
<1>2. ASSUME NEW h \in Handlers, Step(h), NEW g \in Handlers
      PROVE  Asking(req'[g], known')
  <2>1. PICK q : /\ req' = [req EXCEPT ![h] = q]
                 /\ \/ q = Idle
                    \/ /\ req[h].pc # "idle"
                       /\ q.msgs = req[h].msgs /\ q.session = req[h].session
    BY <1>2, <1>types, SameRequest
  <2>2. CASE q = Idle
    BY <1>1, <2>1, <2>2 DEF Asking, Idle, Fresh
  <2>3. CASE q # Idle
    <3>1. req[h].session \in Sessions
      BY <1>types, <2>1, <2>3 DEF TypeOK
    <3>2. Asking(q, known')
      BY <1>grow, <2>1, <2>3, <3>1 DEF AskedInv, Asking
    <3>. QED  BY <1>1, <2>1, <3>2
  <2>. QED  BY <2>2, <2>3
<1>3. ASSUME NEW h \in Handlers, Arrive(h), NEW g \in Handlers
      PROVE  Asking(req'[g], known')
  <2>. DEFINE Sent(s, p, c) == /\ known' = [known EXCEPT ![s] = @ \cup {c}]
                               /\ req' = [req EXCEPT ![h] = Fresh("prepare", s, p, c)]
  <2>1. PICK s \in Sessions, p \in Profiles : \E c \in NextConversations(s) : Sent(s, p, c)
    BY <1>3 DEF Arrive
  <2>2. PICK c \in NextConversations(s) : Sent(s, p, c)
    BY <2>1
  <2>3. c \in known'[s]
    BY <1>types, <2>2 DEF TypeOK
  <2>4. Asking(Fresh("prepare", s, p, c), known')
    BY <2>3 DEF Asking, Fresh
  <2>. QED  BY <1>1, <2>2, <2>4
<1>4. ASSUME UNCHANGED req, NEW g \in Handlers PROVE Asking(req'[g], known')
  <2>1. req[g].pc # "idle" => req[g].session \in Sessions
    BY <1>types DEF TypeOK
  <2>. QED  BY <1>4, <1>grow, <2>1 DEF AskedInv, Asking
<1>5. ASSUME NEW g \in Handlers PROVE Asking(req'[g], known')
  BY <1>2, <1>3, <1>4 DEF Next, Forget, vars
<1>6. ASSUME NEW k \in Keys(store'), k \in Keys(store), store'.entries[k] = store.entries[k]
      PROVE  AskedFor(k, store'.entries[k], known')
  <2>1. store.entries[k].session \in Sessions
    BY <1>6, <1>types DEF StoreOK, Keys, Entry
  <2>. QED  BY <1>6, <1>grow, <2>1 DEF AskedInv, AskedFor
<1>7. ASSUME NEW h \in Handlers, StreamEndsCompleted(h),
             NEW k, k = Key(req[h].profile, req[h].msgs),
             store'.entries[k] = NewEntry(req[h].session, req[h].profile,
                                          req[h].msgs, req[h].reply)
      PROVE  AskedFor(k, store'.entries[k], known')
  <2>1. req[h].pc # "idle" /\ UNCHANGED known
    BY <1>7 DEF StreamEndsCompleted
  <2>. QED  BY <1>7, <2>1 DEF AskedInv, Asking, AskedFor, Key, NewEntry
<1>8. ASSUME NEW k \in Keys(store') PROVE AskedFor(k, store'.entries[k], known')
  BY <1>6, <1>7, <1>8, <1>types, StoreSteps DEF Part
<1>. QED  BY <1>5, <1>8 DEF AskedInv

\* A reply in progress has not broken off, and only a request that has come to
\* Finish has its reply in the store.
Apart(q, k) == q.pc # "finishing" => q.reply # store.entries[k].resp

WholeInv ==
  /\ \A h \in Handlers : req[h].reply \notin broken
  /\ \A k \in Keys(store) : /\ store.entries[k].resp \notin broken
                            /\ \A h \in Handlers : Apart(req[h], k)

\* There is no reply to break off at first.
LEMMA WholeInit == Init => WholeInv
BY DEF Init, WholeInv, Apart, Keys, EmptyStore

\* A step that brings nothing into the store, breaks nothing off and gives its
\* request at most a reply that has not been completed.
LEMMA WholeOf ==
  ASSUME TypeOK, WholeInv, Part(store', store), UNCHANGED broken,
         NEW h \in Handlers, NEW q, req' = [req EXCEPT ![h] = q],
         \/ q.reply \notin DOMAIN upstream
         \/ q.reply = req[h].reply /\ (q.pc # "finishing" => req[h].pc # "finishing")
  PROVE  WholeInv'
<1>1. \A g \in Handlers : req'[g] = IF g = h THEN q ELSE req[g]
  BY DEF TypeOK
<1>2. \A k \in Keys(store') : /\ k \in Keys(store)
                              /\ store'.entries[k].resp = store.entries[k].resp
                              /\ store.entries[k].resp \in DOMAIN upstream
  BY DEF Part, TypeOK
<1>3. \A g \in Handlers : req'[g].reply \notin broken
  BY <1>1 DEF WholeInv, TypeOK
<1>4. ASSUME NEW k \in Keys(store'), NEW g \in Handlers
      PROVE  req'[g].pc # "finishing" => req'[g].reply # store'.entries[k].resp
  BY <1>1, <1>2 DEF WholeInv, Apart
<1>. QED  BY <1>2, <1>3, <1>4 DEF WholeInv, Apart

\* Whatever stops a stream after response.completed, no later Commit files its
\* reply, and none did before.
LEMMA WholeNext == ShapeInv /\ OwnerInv /\ WholeInv /\ [Next]_vars => WholeInv'
<1>. SUFFICES ASSUME ShapeInv, OwnerInv, WholeInv, [Next]_vars PROVE WholeInv'
  OBVIOUS
<1>types. TypeOK /\ GoodStore(store)
  BY DEF ShapeInv
<1>no. NoReply \notin DOMAIN upstream
  BY <1>types DEF TypeOK, NoReply
<1>req. ASSUME NEW h \in Handlers PROVE req[h] \in Request
  BY <1>types DEF TypeOK
<1>fin. Idle.reply = NoReply
  BY DEF Idle, Fresh
<1>1. ASSUME NEW h \in Handlers, Arrive(h) PROVE WholeInv'
  <2>1. PICK s \in Sessions, p \in Profiles : \E c \in NextConversations(s) :
          req' = [req EXCEPT ![h] = Fresh("prepare", s, p, c)]
    BY <1>1 DEF Arrive
  <2>2. PICK c : req' = [req EXCEPT ![h] = Fresh("prepare", s, p, c)]
    BY <2>1
  <2>3. Fresh("prepare", s, p, c).reply = NoReply
    BY DEF Fresh
  <2>4. UNCHANGED <<store, broken>>
    BY <1>1 DEF Arrive
  <2>5. Part(store', store)
    BY <2>4 DEF Part
  <2>. QED  BY <1>types, <1>no, <2>2, <2>3, <2>4, <2>5, WholeOf
<1>2. ASSUME NEW h \in Handlers,
             \/ PrepareFails(h) \/ PostFails(h) \/ StreamEndsUncommitted(h) \/ Finish(h)
      PROVE  WholeInv'
  <2>1. req' = [req EXCEPT ![h] = Idle] /\ UNCHANGED broken
    BY <1>2 DEF PrepareFails, PostFails, StreamEndsUncommitted, Finish, Finished
  <2>2. Step(h) /\ ~StreamEndsCompleted(h)
    <3>1. req'[h].pc = "idle"
      BY <1>types, <2>1 DEF TypeOK, Idle, Fresh
    <3>2. StreamEndsCompleted(h) => req'[h].pc = "finishing"
      BY <1>types DEF StreamEndsCompleted, TypeOK, Request
    <3>. QED  BY <1>2, <3>1, <3>2 DEF Step
  <2>3. Part(store', store)
    BY <1>types, <2>2, StoreKept
  <2>. QED  BY <1>types, <1>no, <1>fin, <2>1, <2>3, WholeOf
<1>3. ASSUME NEW h \in Handlers,
             \/ Prepare(h) \/ PostAccepted(h) \/ PostRefused(h) \/ Invalidate(h)
             \/ EmitContent(h) \/ Complete(h)
      PROVE  WholeInv'
  <2>0. /\ req' = [req EXCEPT ![h] = req'[h]]
        /\ req[h].pc # "finishing" /\ req'[h].pc # "finishing"
        /\ req'[h].reply = req[h].reply \/ req'[h].reply = ReplyOf(req[h])
    <3>1. CASE Prepare(h)
      BY <3>1, <1>types, PrepareKeeps
    <3>2. CASE PostAccepted(h) \/ PostRefused(h) \/ Invalidate(h)
      BY <3>2, <1>types, <1>req DEF TypeOK, Request, PostAccepted, PostRefused, Invalidate
    <3>3. CASE EmitContent(h)
      BY <3>3, <1>types, <1>req DEF TypeOK, Request, EmitContent
    <3>4. CASE Complete(h)
      <4>. DEFINE r == ReplyOf(req[h])
      <4>1. /\ req' = [req EXCEPT ![h].reply = r, ![h].completed = TRUE]
            /\ req[h].pc = "streaming"
        BY <3>4 DEF Complete
      <4>. HIDE DEF r
      <4>2. /\ req' = [req EXCEPT ![h] = req'[h]] /\ req'[h].pc = "streaming"
            /\ req'[h].reply = r
        BY <4>1, <1>types, <1>req DEF TypeOK, Request
      <4>. QED  BY <4>1, <4>2 DEF r
    <3>. QED  BY <1>3, <3>1, <3>2, <3>3, <3>4
  <2>1. /\ req' = [req EXCEPT ![h] = req'[h]] /\ UNCHANGED broken
        /\ req[h].pc # "finishing" /\ req'[h].pc # "finishing"
    BY <1>3, <2>0 DEF Prepare, PostAccepted, PostRefused, Invalidate, EmitContent, Complete
  <2>2. Part(store', store)
    <3>1. StreamEndsCompleted(h) => req'[h].pc = "finishing"
      BY <1>types DEF StreamEndsCompleted, TypeOK, Request
    <3>. QED  BY <1>3, <1>types, <2>1, <3>1, StoreKept DEF Step
  <2>4. ReplyOf(req[h]) = req[h].reply \/ ReplyOf(req[h]) \notin DOMAIN upstream
    BY <1>types DEF ReplyOf, TypeOK
  <2>. QED  BY <1>types, <2>0, <2>1, <2>2, <2>4, WholeOf
<1>4. ASSUME NEW h \in Handlers, StreamRetry(h) \/ StreamFails(h) PROVE WholeInv'
  <2>1. /\ req[h].pc = "streaming" /\ UNCHANGED store /\ Breaks(req[h])
        /\ req'[h].reply = NoReply
        /\ \A g \in Handlers \ {h} : req'[g] = req[g]
    BY <1>4, <1>types, <1>req, <1>fin DEF StreamRetry, StreamFails, Finished, TypeOK, Request
  <2>2. \A r \in broken' : r \in broken \/ r = req[h].reply
    BY <2>1 DEF Breaks
  <2>3. broken' \subseteq DOMAIN upstream
    <3>1. UNCHANGED upstream
      BY <1>4 DEF StreamRetry, StreamFails
    <3>. QED  BY <1>types, <3>1, BrokenTyped
  <2>4. ASSUME NEW g \in Handlers PROVE req'[g].reply \notin broken'
    <3>1. CASE g = h
      BY <1>no, <2>1, <2>3, <3>1
    <3>2. CASE g # h /\ req[g].reply = NoReply
      BY <1>no, <2>1, <2>3, <3>2
    <3>3. CASE g # h /\ req[g].reply # NoReply
      <4>1. req[g].reply # req[h].reply
        BY <3>3 DEF OwnerInv, RepliesDistinct
      <4>. QED  BY <2>1, <2>2, <3>3, <4>1 DEF WholeInv
    <3>. QED  BY <3>1, <3>2, <3>3
  <2>5. ASSUME NEW k \in Keys(store)
        PROVE  /\ store.entries[k].resp \notin broken'
               /\ \A g \in Handlers :
                    req'[g].pc # "finishing" => req'[g].reply # store.entries[k].resp
    <3>1. store.entries[k].resp # req[h].reply /\ store.entries[k].resp \notin broken
      BY <2>1 DEF WholeInv, Apart
    <3>2. store.entries[k].resp # NoReply
      BY <1>types, <1>no DEF TypeOK
    <3>. QED  BY <2>1, <2>2, <3>1, <3>2 DEF WholeInv, Apart
  <2>. QED  BY <2>1, <2>4, <2>5 DEF WholeInv, Apart
<1>5. ASSUME NEW h \in Handlers, StreamEndsCompleted(h) PROVE WholeInv'
  <2>1. /\ UNCHANGED broken /\ req[h].completed
        /\ req'[h].pc = "finishing" /\ req'[h].reply = req[h].reply
        /\ \A g \in Handlers \ {h} : req'[g] = req[g]
    BY <1>5, <1>types, <1>req DEF StreamEndsCompleted, TypeOK, Request
  <2>2. req[h].reply \in DOMAIN upstream
    BY <1>types, <2>1 DEF TypeOK
  <2>3. ASSUME NEW k \in Keys(store')
        PROVE  \/ k \in Keys(store) /\ store'.entries[k].resp = store.entries[k].resp
               \/ store'.entries[k].resp = req[h].reply
    <3>1. \/ k \in Keys(store) /\ store'.entries[k] = store.entries[k]
          \/ store'.entries[k] = NewEntry(req[h].session, req[h].profile, req[h].msgs,
                                          req[h].reply)
      BY <1>5, <1>types, StoreFiles, Zenon
    <3>. QED  BY <3>1 DEF NewEntry
  <2>4. ASSUME NEW k \in Keys(store'), NEW g \in Handlers, req'[g].pc # "finishing"
        PROVE  req'[g].reply # store'.entries[k].resp
    <3>1. g # h /\ req'[g] = req[g]
      BY <2>1, <2>4
    <3>2. req[g].reply # req[h].reply
      BY <1>no, <2>2, <3>1 DEF OwnerInv, RepliesDistinct
    <3>. QED  BY <2>3, <2>4, <3>1, <3>2 DEF WholeInv, Apart
  <2>5. \A g \in Handlers : req'[g].reply \notin broken'
    BY <2>1 DEF WholeInv
  <2>6. \A k \in Keys(store') : store'.entries[k].resp \notin broken'
    BY <2>1, <2>3 DEF WholeInv
  <2>. QED  BY <2>4, <2>5, <2>6 DEF WholeInv, Apart
<1>6. ASSUME UNCHANGED <<store, broken, req>> PROVE WholeInv'
  BY <1>6 DEF WholeInv, Apart
<1>. QED  BY <1>1, <1>2, <1>3, <1>4, <1>5, <1>6 DEF Next, Step, Forget, vars

\* What the store keeps may be continued: each entry is an answer to the very
\* messages its key stands for, which its session's client asked, completed for
\* its session and profile by a stream that ended without an error, whatever
\* other handlers ask, retry, fail or commit meanwhile.
THEOREM StoredAnswers == Spec => []EntriesAreAnswers
<1>1. OwnerInv /\ SaidInv /\ AskedInv /\ WholeInv => EntriesAreAnswers
  <2>. SUFFICES ASSUME OwnerInv, SaidInv, AskedInv, WholeInv, NEW k \in Keys(store)
                PROVE  LET e      == store.entries[k]
                           answer == upstream[e.resp]
                       IN  /\ k[2] \in known[e.session]
                           /\ answer.session = e.session /\ answer.profile = k[1]
                           /\ UserBlocks(answer.context) = UserBlocks(k[2])
                           /\ e.resp \notin broken
    BY DEF EntriesAreAnswers
  <2>1. AskedFor(k, store.entries[k], known)
    BY DEF AskedInv
  <2>2. Owns(store.entries[k].session, store.entries[k].profile, store.entries[k].resp)
    BY DEF OwnerInv, EntriesOwned
  <2>3. UserBlocks(upstream[store.entries[k].resp].context) = UserBlocks(k[2])
    BY DEF SaidInv, StoreSaid, EntrySaid
  <2>4. store.entries[k].resp \notin broken
    BY DEF WholeInv
  <2>. QED  BY <2>1, <2>2, <2>3, <2>4 DEF AskedFor, Owns
<1>2. Spec => []AskedInv
  BY AskedInit, AskedNext, ShapeHolds, PTL DEF Spec
<1>3. Spec => []WholeInv
  BY WholeInit, WholeNext, SaidHolds, ShapeHolds, PTL DEF Spec
<1>. QED  BY <1>1, <1>2, <1>3, SaidHolds, PTL

=============================================================================
