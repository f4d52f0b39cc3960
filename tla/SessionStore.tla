---------------------------- MODULE SessionStore ----------------------------
(***************************************************************************)
(* The Responses session store (internal/session/session.go).              *)
(*                                                                         *)
(* A store is a value with two components: entries, the map from prefix    *)
(* fingerprints to entries, and older, the order of the entries' LastUsed  *)
(* times: <<j, k>> \in older says that entry j was used before entry k.    *)
(* Every exported method of the Go type runs under one mutex, so a method  *)
(* is one operator from a store to a store.                                *)
(*                                                                         *)
(* Abstractions.  A fingerprint is the value it hashes (a profile and a    *)
(* message prefix), so SHA-256 is taken to be injective.  A profile stands *)
(* for the tuple (provider, upstream model, instructions hash, tools       *)
(* hash), which the code always compares together.  A message is a role    *)
(* and a sequence of block values.  Wall-clock time only appears as the    *)
(* order of uses: which entries have outlived the TTL when an operation    *)
(* prunes is any set of least recently used ones.                          *)
(***************************************************************************)
EXTENDS Integers, Sequences, FiniteSets

CONSTANTS
  Sessions,    \* values of metadata.user_id.session_id
  NoSession,   \* the empty session id of clients that send none
  Profiles,    \* (provider, model, instructions, tools) combinations
  Blocks,      \* content blocks a user message is made of
  MaxEntries   \* the store's capacity (1000 in server.New)

ASSUME StoreAssumption == MaxEntries \in Nat \ {0}

Replies == Nat \ {0}    \* response ids; 0 is the empty id
NoReply == 0

Message == [role : {"user", "assistant"}, blocks : Seq(Blocks \cup Replies)]

User(bs)      == [role |-> "user", blocks |-> bs]
Assistant(r)  == [role |-> "assistant", blocks |-> <<r>>]

IsUser(m) == m.role = "user"

-----------------------------------------------------------------------------
(* Fingerprints *)

Conversations == Seq(Message)

Key(profile, msgs) == <<profile, msgs>>
NoKey              == <<>>
Fingerprints       == Profiles \X Conversations

\* The fingerprint of all messages but the last, empty for a single message.
ParentKey(profile, msgs) ==
  IF Len(msgs) > 1 THEN Key(profile, SubSeq(msgs, 1, Len(msgs) - 1)) ELSE NoKey

-----------------------------------------------------------------------------
(* Stores *)

Entry == [session : Sessions, profile : Profiles, parent : Fingerprints \cup {NoKey},
          count : Nat, last : Message, resp : Replies]

\* Entries under fingerprints, and a strict total order of their last uses.
StoreOK(st) ==
  /\ st = [entries |-> st.entries, older |-> st.older]
  /\ DOMAIN st.entries \subseteq Fingerprints
  /\ st.entries \in [DOMAIN st.entries -> Entry]
  /\ st.older \subseteq (DOMAIN st.entries) \X (DOMAIN st.entries)
  /\ \A j, k \in DOMAIN st.entries :
       (<<j, k>> \in st.older) <=> (j # k /\ <<k, j>> \notin st.older)

EmptyStore == [entries |-> <<>>, older |-> {}]

Keys(st) == DOMAIN st.entries

Drop(st, gone) ==
  [entries |-> [k \in Keys(st) \ gone |-> st.entries[k]],
   older   |-> {p \in st.older : p[1] \notin gone /\ p[2] \notin gone}]

\* e.LastUsed = time.Now(): k becomes the most recently used entry.
Touch(st, k) ==
  [entries |-> st.entries,
   older   |-> {p \in st.older : p[1] # k /\ p[2] # k}
                 \cup ((Keys(st) \ {k}) \X {k})]

\* Mutant of Put: the entry is stored without its LastUsed.
Put_Unused(st, k, e) ==
  [entries |-> [j \in Keys(st) \cup {k} |-> IF j = k THEN e ELSE st.entries[j]],
   older   |-> st.older]

Put(st, k, e) ==
  Touch([entries |-> [j \in Keys(st) \cup {k} |->
                        IF j = k THEN e ELSE st.entries[j]],
         older   |-> st.older], k)

\* pruneLocked: the sets of entries that may be past the TTL at some instant.
ExpiredSets(st) ==
  {gone \in SUBSET Keys(st) : \A p \in st.older : p[2] \in gone => p[1] \in gone}

\* Mutant of Oldest: the comparison of evictLRULocked the wrong way round.
Oldest_Newest(st) == {k \in Keys(st) : \A j \in Keys(st) : <<k, j>> \notin st.older}

Oldest(st) == {k \in Keys(st) : \A j \in Keys(st) : <<j, k>> \notin st.older}

\* Mutant of MakeRoom: evicts only when the store is already over its capacity.
MakeRoom_Late(st) ==
  IF Cardinality(Keys(st)) > MaxEntries THEN Drop(st, Oldest(st)) ELSE st

\* evictLRULocked, called by Commit when the store is full.
MakeRoom(st) ==
  IF Cardinality(Keys(st)) >= MaxEntries THEN Drop(st, Oldest(st)) ELSE st

-----------------------------------------------------------------------------
(* Prepare: which stored response may a request chain to?                  *)

\* A chain is the entry's key, its response id, and the messages to send.
Chains == [key : Fingerprints \cup {NoKey}, resp : Nat, tail : Conversations]

NoChain == [key |-> NoKey, resp |-> NoReply, tail |-> <<>>]

Chain(k, e, tail) == [key |-> k, resp |-> e.resp, tail |-> tail]

\* Mutant of SameOwner: trusts the key, which leaves the session out.
SameOwner_AnySession(e, session, profile) == e.profile = profile

SameOwner(e, session, profile) == e.profile = profile /\ e.session = session

\* appendedUserTail: the last user message is the stored one plus some blocks.
Extends(last, m) ==
  /\ IsUser(last) /\ IsUser(m)
  /\ Len(last.blocks) > 0
  /\ Len(last.blocks) < Len(m.blocks)
  /\ \A i \in 1 .. Len(last.blocks) : last.blocks[i] = m.blocks[i]

\* Mutant of ExtraBlocks: an off-by-one repeats the last stored block.
ExtraBlocks_Repeats(last, m) ==
  User(SubSeq(m.blocks, Len(last.blocks), Len(m.blocks)))

ExtraBlocks(last, m) ==
  User(SubSeq(m.blocks, Len(last.blocks) + 1, Len(m.blocks)))

\* findAppendedUserTailLocked: the entries for the same conversation up to a
\* shorter last message, of which the most recently used one is taken.
AppendedCandidates(st, session, profile, msgs) ==
  LET parent == ParentKey(profile, msgs)
  IN  {k \in Keys(st) :
         /\ ~(session = NoSession /\ parent = NoKey)
         /\ SameOwner(st.entries[k], session, profile)
         /\ st.entries[k].count = Len(msgs)
         /\ st.entries[k].parent = parent
         /\ Extends(st.entries[k].last, msgs[Len(msgs)])}

AppendedChains(st, session, profile, msgs) ==
  LET cands == AppendedCandidates(st, session, profile, msgs)
  IN  {Chain(k, st.entries[k],
             <<ExtraBlocks(st.entries[k].last, msgs[Len(msgs)])>>) :
         k \in {c \in cands : \A d \in cands : <<c, d>> \notin st.older}}

\* The messages after a stored prefix of length n split into the assistant
\* turn the upstream remembers, msgs[n+1 .. j-1], and a user tail msgs[j ..].
UserTailFrom(msgs, n, j) ==
  /\ \A i \in n + 1 .. j - 1 : ~IsUser(msgs[i])
  /\ \A i \in j .. Len(msgs) : IsUser(msgs[i])

PrefixLengths(st, session, profile, msgs) ==
  {n \in 1 .. Len(msgs) - 1 :
     LET k == Key(profile, SubSeq(msgs, 1, n))
     IN  /\ k \in Keys(st)
         /\ SameOwner(st.entries[k], session, profile)
         /\ \E j \in n + 1 .. Len(msgs) : UserTailFrom(msgs, n, j)}

\* Prepare's loop: the longest stored prefix whose remainder is chainable.
PrefixChains(st, session, profile, msgs) ==
  LET lengths == PrefixLengths(st, session, profile, msgs)
      longest == {n \in lengths : \A m \in lengths : m <= n}
  IN  UNION {LET k == Key(profile, SubSeq(msgs, 1, n))
             IN  {Chain(k, st.entries[k], SubSeq(msgs, j, Len(msgs))) :
                    j \in {i \in n + 1 .. Len(msgs) : UserTailFrom(msgs, n, i)}} :
             n \in longest}

\* The chains Prepare may return.  The order of uses is total and a tail starts
\* at one place, so there is exactly one.
PreparedChains(st, session, profile, msgs) ==
  LET appended == AppendedChains(st, session, profile, msgs)
      prefix   == PrefixChains(st, session, profile, msgs)
  IN  IF appended # {} THEN appended
      ELSE IF prefix # {} THEN prefix
      ELSE {NoChain}

\* The store after Prepare: a chained entry counts as used.
Prepared(st, chain) == IF chain = NoChain THEN st ELSE Touch(st, chain.key)

-----------------------------------------------------------------------------
(* Commit and Invalidate *)

NewEntry(session, profile, msgs, resp) ==
  [session |-> session,
   profile |-> profile,
   parent  |-> ParentKey(profile, msgs),
   count   |-> Len(msgs),
   last    |-> msgs[Len(msgs)],
   resp    |-> resp]

\* Commit after pruning: make room, even when the key is already there, then
\* store the entry under the fingerprint of the whole request.
Committed(st, session, profile, msgs, resp) ==
  Put(MakeRoom(st), Key(profile, msgs), NewEntry(session, profile, msgs, resp))

\* Invalidate deletes whatever is stored under the key.
Invalidated(st, k) == Drop(st, {k})

=============================================================================
