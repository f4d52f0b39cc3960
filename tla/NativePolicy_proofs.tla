------------------------- MODULE NativePolicy_proofs -------------------------
(***************************************************************************)
(* Proofs about NativePolicy for any number of upstream blocks and deltas, *)
(* and any order in which the upstream sends them.                         *)
(***************************************************************************)
EXTENDS NativePolicy, FiniteSetTheorems, TLAPS

-----------------------------------------------------------------------------
(* The inductive invariant *)

ClientBlock == [kind : Kinds, id : Blocks \cup {"none"}, input : Seq(Nat)]

Flaws == {"headless", "twice", "late", "index", "overlap", "closed", "unclosed"}

ClientView ==
  [begun : BOOLEAN, content : Seq(ClientBlock), open : SUBSET Nat,
   reason : {"none", "end_turn"}, ended : BOOLEAN, error : BOOLEAN, flaws : SUBSET Flaws]

Typed ==
  /\ pc \in {"post", "streaming", "ending", "ended", "failed", "failedLate", "done"}
  /\ enabled \in BOOLEAN
  /\ next \in Nat
  /\ DOMAIN seg \subseteq Blocks
  /\ seg \in [DOMAIN seg -> [down : Nat, open : BOOLEAN]]
  /\ dropped \subseteq Blocks /\ suppressed \subseteq Blocks
  /\ tracked \subseteq Nat /\ maxIndex \in Int /\ saw \in BOOLEAN
  /\ view \in ClientView
  /\ kind \in [Blocks -> Kinds]
  /\ up \in [Blocks -> {"none", "started", "headless", "stopped"}]
  /\ given \in [Blocks -> Nat]
  /\ signed \subseteq Blocks
  /\ tangled \in BOOLEAN

\* The policy numbers the client's blocks as the client does, and so does the
\* tracker.
Numbered ==
  /\ next = Len(view.content) /\ maxIndex = next - 1
  /\ \A i \in DOMAIN seg :
       /\ seg[i].down < next
       /\ view.content[seg[i].down + 1].id = i
       /\ \A n \in ClientBlocks(i) : n <= seg[i].down + 1
  /\ \A n \in DOMAIN view.content :
       /\ view.content[n].id \in DOMAIN seg
       /\ view.content[n].kind = kind[view.content[n].id]

\* Policy, tracker and client agree on which blocks are open.
Mirrored ==
  /\ view.open = Downs({j \in DOMAIN seg : seg[j].open})
  /\ tracked = view.open

\* What the policy knows of upstream block i, against what the upstream has sent.
Life(i) ==
  /\ i \in DOMAIN seg => up[i] # "none" /\ i \notin dropped
  /\ i \in DOMAIN seg /\ seg[i].open => Begun(i) /\ i \notin suppressed
  /\ i \in suppressed => i \in DOMAIN seg
  /\ i \in dropped => Hidden(kind[i])
  /\ up[i] = "started" => i \in dropped \/ i \in DOMAIN seg
  /\ i \in DOMAIN seg /\ Hidden(kind[i]) => i \in signed /\ up[i] # "started"

\* While the upstream has not tangled its blocks only the newest one can be open,
\* it stays open until it stops, and no block has been split.
Calm ==
  ~tangled =>
    /\ \A j \in DOMAIN seg : seg[j].open => newest = j \/ newest \in dropped
    /\ newest \in DOMAIN seg /\ Begun(newest) => seg[newest].open
    /\ \A i \in DOMAIN seg : \A n \in ClientBlocks(i) : n = seg[i].down + 1

\* Hidden thinking reaches the client as at most a signature.
SignedOnly ==
  \A n \in DOMAIN view.content :
    Hidden(view.content[n].kind) => view.content[n].input = <<0>>

\* Content C holds a delta of upstream block i as piece k of client block n.
Holds(C, i, n, k) ==
  /\ n \in DOMAIN C /\ C[n].id = i
  /\ k \in DOMAIN C[n].input /\ C[n].input[k] # 0

\* The deltas of block i in C are the first m, in order.
Kept(C, i, m) ==
  /\ \A n, k \in Nat : Holds(C, i, n, k) => C[n].input[k] \in 1 .. m
  /\ \A x \in 1 .. m : \E n, k \in Nat : Holds(C, i, n, k) /\ C[n].input[k] = x
  /\ \A n, k, o, l \in Nat :
       Holds(C, i, n, k) /\ Holds(C, i, o, l) /\ (n < o \/ (n = o /\ k < l))
         => C[n].input[k] < C[o].input[l]

\* How many deltas of block i the client is to have.
Due(i) == IF Hidden(kind[i]) THEN 0 ELSE given[i]

AllKept == \A i \in Blocks : Kept(view.content, i, Due(i))

\* How far the message is.
Phase ==
  /\ ~saw => view = Unread
  /\ pc = "post" => ~saw
  /\ pc \in {"post", "streaming", "ending"} => ~Over(view)
  /\ pc = "ending" => view.begun /\ view.open = {}
  /\ pc = "ended" => Over(view)
  /\ view.flaws \subseteq If(tangled, "overlap")

Failed == pc \in {"failed", "failedLate"}

Alive ==
  /\ Numbered /\ Mirrored /\ Calm /\ SignedOnly /\ Phase
  /\ \A i \in Blocks : Life(i)
  /\ AllKept

Promised == WellFormed /\ FailureEnds /\ AllKept /\ BlocksWhole /\ ThinkingHidden

IInv ==
  /\ Typed
  /\ ~Failed => Alive
  /\ Failed => Promised

-----------------------------------------------------------------------------
(* What the client makes of the frames *)

\* A start at the next index adds a block, open.
LEMMA StartedView ==
  ASSUME NEW v \in ClientView, NEW k \in Kinds, NEW i \in Blocks \cup {"none"},
         NEW n, n = Len(v.content),
         NEW w, w = BlockStart(v, n, k, i)
  PROVE  /\ w \in ClientView
         /\ w.content = Append(v.content, Block(k, i, <<>>))
         /\ w.open = v.open \cup {n}
         /\ w.flaws = v.flaws \cup Misplaced(v) \cup If(v.open # {}, "overlap")
         /\ w.begun = v.begun /\ Over(w) = Over(v)
<1>1. Block(k, i, <<>>) \in ClientBlock
  BY DEF Block, ClientBlock
<1>2. v.content \in Seq(ClientBlock) /\ n \in Nat
  BY DEF ClientView
<1>3. Append(v.content, Block(k, i, <<>>)) \in Seq(ClientBlock)
  BY <1>1, <1>2
<1>4. Misplaced(v) \cup If(v.open # {}, "overlap") \subseteq Flaws
  BY DEF Misplaced, If, Flaws
<1>. QED  BY <1>2, <1>3, <1>4 DEF BlockStart, ClientView, If, Over

\* A delta in an open block adds its piece.
LEMMA DeltaView ==
  ASSUME NEW v \in ClientView, NEW d \in v.open, d < Len(v.content), NEW x \in Nat,
         NEW w, w = InputDelta(v, d, x)
  PROVE  /\ w \in ClientView
         /\ w.content = Extended(v.content, d, x)
         /\ w.open = v.open
         /\ w.flaws = v.flaws \cup Misplaced(v)
         /\ w.begun = v.begun /\ Over(w) = Over(v)
<1>1. /\ v.content \in Seq(ClientBlock) /\ d \in Nat /\ d + 1 \in 1 .. Len(v.content)
      /\ v.open \subseteq Nat
  BY DEF ClientView
<1>2. v.content[d + 1] \in ClientBlock
  BY <1>1
<1>3. Append(v.content[d + 1].input, x) \in Seq(Nat)
  BY <1>2 DEF ClientBlock
<1>4. [v.content[d + 1] EXCEPT !.input = Append(@, x)] \in ClientBlock
  BY <1>2, <1>3 DEF ClientBlock
<1>5. Extended(v.content, d, x) \in Seq(ClientBlock)
  BY <1>1, <1>4 DEF Extended
<1>6. Misplaced(v) \subseteq Flaws
  BY DEF Misplaced, If, Flaws
<1>. QED  BY <1>1, <1>5, <1>6 DEF InputDelta, BlockDelta, ClientView, If, Over

\* Stops of open blocks close them.
LEMMA StoppedView ==
  ASSUME NEW v \in ClientView, NEW downs, downs \subseteq v.open,
         NEW w, w = Stopped(v, downs)
  PROVE  /\ w \in ClientView
         /\ w.content = v.content
         /\ w.open = v.open \ downs
         /\ w.flaws \subseteq v.flaws \cup Misplaced(v)
         /\ w.begun = v.begun /\ Over(w) = Over(v)
<1>1. Misplaced(v) \subseteq Flaws
  BY DEF Misplaced, If, Flaws
<1>. QED  BY <1>1 DEF Stopped, ClientView, If, Over

\* So does the stop of one.
LEMMA StopView ==
  ASSUME NEW v \in ClientView, NEW d \in v.open,
         NEW w, w = BlockStop(v, d)
  PROVE  /\ w \in ClientView
         /\ w.content = v.content
         /\ w.open = v.open \ {d}
         /\ w.flaws = v.flaws \cup Misplaced(v)
         /\ w.begun = v.begun /\ Over(w) = Over(v)
<1>1. Misplaced(v) \subseteq Flaws
  BY DEF Misplaced, If, Flaws
<1>. QED  BY <1>1 DEF BlockStop, ClientView, If, Over

\* The end of a message whose blocks are all stopped.
LEMMA EndedView ==
  ASSUME NEW v \in ClientView, v.open = {},
         NEW w, w = MessageEnd(v, "end_turn")
  PROVE  /\ w \in ClientView
         /\ w.content = v.content /\ w.open = {}
         /\ w.flaws = v.flaws \cup Misplaced(v)
         /\ w.begun = v.begun /\ w.ended
<1>1. Misplaced(v) \subseteq Flaws
  BY DEF Misplaced, If, Flaws
<1>. QED  BY <1>1 DEF MessageEnd, ClientView, If

\* Frames of a message under way are in their place.
LEMMA InPlace ==
  ASSUME NEW v \in ClientView, v.begun, ~Over(v)
  PROVE  Misplaced(v) = {}
BY DEF Misplaced, Over, If, ClientView

\* A piece in a block that has just been started.
LEMMA ReopenedView ==
  ASSUME NEW v \in ClientView, v.begun, ~Over(v),
         NEW k \in Kinds, NEW i \in Blocks, NEW x \in Nat, NEW n, n = Len(v.content),
         NEW w, w = InputDelta(BlockStart(v, n, k, i), n, x)
  PROVE  /\ w \in ClientView
         /\ w.content = Append(v.content, Block(k, i, <<x>>))
         /\ w.open = v.open \cup {n}
         /\ w.flaws = v.flaws \cup If(v.open # {}, "overlap")
         /\ w.begun /\ ~Over(w)
<1>. DEFINE u == BlockStart(v, n, k, i)
            C == v.content
<1>0. u = BlockStart(v, n, k, i) /\ w = InputDelta(u, n, x)
  OBVIOUS
<1>. HIDE DEF u
<1>1. /\ u \in ClientView /\ u.content = Append(C, Block(k, i, <<>>))
      /\ u.open = v.open \cup {n}
      /\ u.flaws = v.flaws \cup If(v.open # {}, "overlap")
      /\ u.begun /\ ~Over(u)
  <2>1. Misplaced(v) = {}
    BY InPlace
  <2>. QED  BY <1>0, <2>1, StartedView
<1>2. C \in Seq(ClientBlock) /\ n \in Nat /\ n = Len(C)
  BY DEF ClientView
<1>3. Len(u.content) = n + 1
  BY <1>1, <1>2
<1>4. /\ w \in ClientView
      /\ w.content = Extended(u.content, n, x)
      /\ w.open = u.open /\ w.flaws = u.flaws /\ w.begun /\ ~Over(w)
  <2>1. n \in u.open /\ n < Len(u.content) /\ Misplaced(u) = {}
    BY <1>1, <1>2, <1>3, InPlace
  <2>2. /\ w \in ClientView
        /\ w.content = Extended(u.content, n, x)
        /\ w.open = u.open /\ w.flaws = u.flaws \cup Misplaced(u)
        /\ w.begun = u.begun /\ Over(w) = Over(u)
    <3>1. ASSUME NEW z \in ClientView, n \in z.open, n < Len(z.content), w = InputDelta(z, n, x)
          PROVE  /\ w \in ClientView
                 /\ w.content = Extended(z.content, n, x)
                 /\ w.open = z.open /\ w.flaws = z.flaws \cup Misplaced(z)
                 /\ w.begun = z.begun /\ Over(w) = Over(z)
      BY <3>1, DeltaView
    <3>. QED  BY <1>0, <1>1, <2>1, <3>1
  <2>. QED  BY <1>1, <2>1, <2>2
<1>5. Extended(u.content, n, x) = Append(C, Block(k, i, <<x>>))
  <2>. DEFINE b == Block(k, i, <<>>)
              c == Block(k, i, <<x>>)
              A == Append(C, b)
  <2>1. c = [b EXCEPT !.input = Append(@, x)]
    BY DEF Block
  <2>a. b \in ClientBlock /\ c \in ClientBlock
    BY DEF Block, ClientBlock
  <2>. HIDE DEF C, b, c
  <2>2. A[n + 1] = b /\ A \in Seq(ClientBlock) /\ Len(A) = n + 1
    BY <1>2, <2>a
  <2>. HIDE DEF A
  <2>. DEFINE D == Append(C, c)
              E == [A EXCEPT ![n + 1] = c]
  <2>b. D \in Seq(ClientBlock) /\ Len(D) = n + 1 /\ E \in Seq(ClientBlock) /\ Len(E) = n + 1
    BY <1>2, <2>a, <2>2
  <2>c. D[n + 1] = c /\ E[n + 1] = c
    BY <1>2, <2>a, <2>2
  <2>d. \A j \in 1 .. n : D[j] = C[j] /\ A[j] = C[j]
    BY <1>2, <2>a DEF A
  <2>e. \A j \in 1 .. n : E[j] = A[j]
    BY <1>2, <2>2
  <2>. HIDE DEF A, D, E
  <2>3. E = D
    BY <1>2, <2>b, <2>c, <2>d, <2>e
  <2>4. [A EXCEPT ![n + 1].input = Append(@, x)] = [A EXCEPT ![n + 1] = c]
    BY <2>1, <2>2
  <2>. QED  BY <1>1, <2>3, <2>4 DEF A, D, E, b, c, Extended
<1>. QED  BY <1>1, <1>4, <1>5

-----------------------------------------------------------------------------
(* The deltas of a block *)

\* DeltasKept, block by block.
LEMMA KeptIs ==
  ASSUME Typed
  PROVE  DeltasKept <=> AllKept
<1>. DEFINE C == view.content
<1>. SUFFICES ASSUME NEW i \in Blocks
              PROVE  (/\ {Piece(p) : p \in Pieces(i)} = IF Hidden(kind[i]) THEN {} ELSE 1 .. given[i]
                      /\ \A p, q \in Pieces(i) : Before(p, q) => Piece(p) < Piece(q))
                     <=> Kept(C, i, Due(i))
  BY DEF DeltasKept, AllKept
<1>0. C \in Seq(ClientBlock) /\ \A n \in DOMAIN C : n \in Nat /\ C[n] \in ClientBlock
  BY DEF Typed, ClientView
<1>1. \A n, k : Holds(C, i, n, k) => n \in Nat /\ k \in Nat
  BY <1>0 DEF Holds, ClientBlock
<1>2. (IF Hidden(kind[i]) THEN {} ELSE 1 .. given[i]) = 1 .. Due(i)
  <2>1. 1 .. 0 = {}
    OBVIOUS
  <2>. QED  BY <2>1 DEF Due
<1>3. \A p : p \in Pieces(i) <=> \E n, k : p = <<n, k>> /\ Holds(C, i, n, k)
  BY DEF Pieces, Holds, ClientBlocks
<1>4. \A n, k : Piece(<<n, k>>) = C[n].input[k]
  BY DEF Piece
<1>5. \A n, k, o, l : Before(<<n, k>>, <<o, l>>) <=> (n < o \/ (n = o /\ k < l))
  BY DEF Before
<1>. DEFINE Values == {Piece(p) : p \in Pieces(i)}
            First == \A n, k \in Nat : Holds(C, i, n, k) => C[n].input[k] \in 1 .. Due(i)
            All == \A x \in 1 .. Due(i) : \E n, k \in Nat : Holds(C, i, n, k) /\ C[n].input[k] = x
            Ordered == \A n, k, o, l \in Nat :
                         Holds(C, i, n, k) /\ Holds(C, i, o, l) /\ (n < o \/ (n = o /\ k < l))
                           => C[n].input[k] < C[o].input[l]
<1>6. \A x : x \in Values <=> \E n, k : Holds(C, i, n, k) /\ x = C[n].input[k]
  <2>1. \A x : x \in Values <=> \E p \in Pieces(i) : x = Piece(p)
    OBVIOUS
  <2>2. ASSUME NEW x, NEW n, NEW k, Holds(C, i, n, k), x = C[n].input[k]
        PROVE  \E p \in Pieces(i) : x = Piece(p)
    <3>1. <<n, k>> \in Pieces(i) /\ x = Piece(<<n, k>>)
      BY <1>3, <1>4, <2>2
    <3>. QED  BY <3>1
  <2>3. ASSUME NEW x, NEW p \in Pieces(i), x = Piece(p)
        PROVE  \E n, k : Holds(C, i, n, k) /\ x = C[n].input[k]
    <3>1. PICK n, k : p = <<n, k>> /\ Holds(C, i, n, k)
      BY <1>3
    <3>2. x = C[n].input[k]
      BY <1>4, <2>3, <3>1
    <3>. QED  BY <3>1, <3>2
  <2>. HIDE DEF Values, C
  <2>. QED  BY <2>1, <2>2, <2>3
<1>7. Values \subseteq 1 .. Due(i) <=> First
  <2>. HIDE DEF Values, C
  <2>. QED  BY <1>1, <1>6
<1>8. 1 .. Due(i) \subseteq Values <=> All
  <2>. HIDE DEF Values, C
  <2>. QED  BY <1>1, <1>6
<1>9. (\A p, q \in Pieces(i) : Before(p, q) => Piece(p) < Piece(q)) <=> Ordered
  <2>1. ASSUME \A p, q \in Pieces(i) : Before(p, q) => Piece(p) < Piece(q) PROVE Ordered
    <3>. SUFFICES ASSUME NEW n \in Nat, NEW k \in Nat, NEW o \in Nat, NEW l \in Nat,
                         Holds(C, i, n, k), Holds(C, i, o, l), n < o \/ (n = o /\ k < l)
                  PROVE  C[n].input[k] < C[o].input[l]
      OBVIOUS
    <3>1. <<n, k>> \in Pieces(i) /\ <<o, l>> \in Pieces(i)
      BY <1>3
    <3>2. Before(<<n, k>>, <<o, l>>)
      BY <1>5
    <3>3. Piece(<<n, k>>) < Piece(<<o, l>>)
      BY <2>1, <3>1, <3>2
    <3>. QED  BY <3>3 DEF Piece
  <2>2. ASSUME Ordered, NEW p \in Pieces(i), NEW q \in Pieces(i), Before(p, q)
        PROVE  Piece(p) < Piece(q)
    <3>1. PICK n, k : p = <<n, k>> /\ Holds(C, i, n, k)
      BY <1>3
    <3>2. PICK o, l : q = <<o, l>> /\ Holds(C, i, o, l)
      BY <1>3
    <3>3. n < o \/ (n = o /\ k < l)
      BY <2>2, <3>1, <3>2 DEF Before
    <3>4. n \in Nat /\ k \in Nat /\ o \in Nat /\ l \in Nat
      BY <1>1, <3>1, <3>2
    <3>5. C[n].input[k] < C[o].input[l]
      BY <2>2, <3>1, <3>2, <3>3, <3>4
    <3>. QED  BY <3>1, <3>2, <3>5 DEF Piece
  <2>. QED  BY <2>1, <2>2
<1>10. Kept(C, i, Due(i)) <=> First /\ All /\ Ordered
  BY DEF Kept
<1>. HIDE DEF Values, First, All, Ordered
<1>. QED  BY <1>2, <1>7, <1>8, <1>9, <1>10 DEF Values

\* Content in which block i has the same pieces holds the same deltas.
LEMMA SameKept ==
  ASSUME NEW C, NEW D, NEW i, NEW m \in Nat, Kept(C, i, m),
         \A n, k \in Nat : /\ Holds(D, i, n, k) <=> Holds(C, i, n, k)
                           /\ Holds(C, i, n, k) => D[n].input[k] = C[n].input[k]
  PROVE  Kept(D, i, m)
<1>1. ASSUME NEW n \in Nat, NEW k \in Nat, Holds(D, i, n, k)
      PROVE  D[n].input[k] \in 1 .. m
  <2>1. Holds(C, i, n, k) /\ D[n].input[k] = C[n].input[k]
    BY <1>1
  <2>. QED  BY <2>1 DEF Kept
<1>2. ASSUME NEW x \in 1 .. m
      PROVE  \E n, k \in Nat : Holds(D, i, n, k) /\ D[n].input[k] = x
  <2>1. PICK n \in Nat, k \in Nat : Holds(C, i, n, k) /\ C[n].input[k] = x
    BY DEF Kept
  <2>. QED  BY <2>1
<1>3. ASSUME NEW n \in Nat, NEW k \in Nat, NEW o \in Nat, NEW l \in Nat,
             Holds(D, i, n, k), Holds(D, i, o, l), n < o \/ (n = o /\ k < l)
      PROVE  D[n].input[k] < D[o].input[l]
  <2>1. /\ Holds(C, i, n, k) /\ D[n].input[k] = C[n].input[k]
        /\ Holds(C, i, o, l) /\ D[o].input[l] = C[o].input[l]
    BY <1>3
  <2>2. C[n].input[k] < C[o].input[l]
    BY <1>3, <2>1 DEF Kept
  <2>. QED  BY <2>1, <2>2
<1>. QED  BY <1>1, <1>2, <1>3 DEF Kept

\* A piece added after all the others of block i is its next delta.
LEMMA NextKept ==
  ASSUME NEW C, NEW D, NEW i, NEW m \in Nat, Kept(C, i, m),
         NEW p \in Nat, NEW q \in Nat, Holds(D, i, p, q), D[p].input[q] = m + 1,
         \A n, k \in Nat : /\ Holds(D, i, n, k) <=> Holds(C, i, n, k) \/ (n = p /\ k = q)
                           /\ Holds(C, i, n, k) => /\ D[n].input[k] = C[n].input[k]
                                                   /\ n < p \/ (n = p /\ k < q)
  PROVE  Kept(D, i, m + 1)
<1>1. ASSUME NEW n \in Nat, NEW k \in Nat, Holds(D, i, n, k)
      PROVE  D[n].input[k] \in 1 .. (m + 1)
  <2>1. CASE Holds(C, i, n, k)
    <3>1. C[n].input[k] \in 1 .. m
      BY <2>1 DEF Kept
    <3>. QED  BY <2>1, <3>1
  <2>2. CASE n = p /\ k = q
    BY <2>2
  <2>. QED  BY <1>1, <2>1, <2>2
<1>2. ASSUME NEW x \in 1 .. (m + 1)
      PROVE  \E n, k \in Nat : Holds(D, i, n, k) /\ D[n].input[k] = x
  <2>1. CASE x = m + 1
    BY <2>1
  <2>2. CASE x \in 1 .. m
    <3>1. PICK n \in Nat, k \in Nat : Holds(C, i, n, k) /\ C[n].input[k] = x
      BY <2>2 DEF Kept
    <3>. QED  BY <3>1
  <2>. QED  BY <2>1, <2>2
<1>3. ASSUME NEW n \in Nat, NEW k \in Nat, NEW o \in Nat, NEW l \in Nat,
             Holds(D, i, n, k), Holds(D, i, o, l), n < o \/ (n = o /\ k < l)
      PROVE  D[n].input[k] < D[o].input[l]
  <2>1. CASE Holds(C, i, n, k) /\ Holds(C, i, o, l)
    BY <1>3, <2>1 DEF Kept
  <2>2. CASE Holds(C, i, n, k) /\ ~Holds(C, i, o, l)
    <3>1. C[n].input[k] \in 1 .. m
      BY <2>2 DEF Kept
    <3>2. D[o].input[l] = m + 1 /\ D[n].input[k] = C[n].input[k]
      BY <1>3, <2>2
    <3>. QED  BY <3>1, <3>2
  <2>3. CASE ~Holds(C, i, n, k)
    <3>1. n = p /\ k = q
      BY <1>3, <2>3
    <3>2. o < p \/ (o = p /\ l < q) \/ (o = p /\ l = q)
      BY <1>3
    <3>. QED  BY <1>3, <3>1, <3>2
  <2>. QED  BY <2>1, <2>2, <2>3
<1>. QED  BY <1>1, <1>2, <1>3 DEF Kept

\* A block that is added keeps the deltas of the others; if it holds the next
\* delta of its own, it keeps those too.
LEMMA AppendKeeps ==
  ASSUME NEW C \in Seq(ClientBlock), NEW b \in ClientBlock, NEW i, NEW m \in Nat,
         Kept(C, i, m)
  PROVE  /\ b.id # i \/ b.input \in {<<>>, <<0>>} => Kept(Append(C, b), i, m)
         /\ b.id = i /\ b.input = <<m + 1>> => Kept(Append(C, b), i, m + 1)
<1>. DEFINE D == Append(C, b)
            p == Len(C) + 1
<1>1. /\ DOMAIN D = 1 .. p /\ DOMAIN C = 1 .. (p - 1) /\ p \in Nat /\ p \in DOMAIN D
      /\ D[p] = b /\ \A n \in DOMAIN C : D[n] = C[n]
  OBVIOUS
<1>. HIDE DEF D, p
<1>2. ASSUME NEW n \in Nat, NEW k \in Nat
      PROVE  /\ Holds(C, i, n, k) => /\ Holds(D, i, n, k) /\ n < p
                                     /\ D[n].input[k] = C[n].input[k]
             /\ Holds(D, i, n, k) /\ n # p => Holds(C, i, n, k)
             /\ Holds(D, i, p, k) <=> b.id = i /\ k \in DOMAIN b.input /\ b.input[k] # 0
  <2>0. n \in 1 .. (p - 1) => n < p /\ n \in 1 .. p
    BY <1>1
  <2>a. n \in 1 .. p /\ n # p => n \in 1 .. (p - 1)
    BY <1>1
  <2>1. n \in DOMAIN C => n < p /\ n \in DOMAIN D
    BY <1>1, <2>0, Zenon
  <2>2. n \in DOMAIN D /\ n # p => n \in DOMAIN C
    BY <1>1, <2>a, Zenon
  <2>. QED  BY <1>1, <2>1, <2>2, Zenon DEF Holds
<1>3. ASSUME b.id # i \/ b.input \in {<<>>, << 0 >>}
      PROVE  Kept(D, i, m)
  <2>1. \A k \in Nat : ~Holds(D, i, p, k)
    <3>1. \A k \in DOMAIN <<0>> : <<0>>[k] = 0
      OBVIOUS
    <3>2. DOMAIN <<>> = {}
      OBVIOUS
    <3>. QED  BY <1>2, <1>3, <3>1, <3>2
  <2>2. \A n, k \in Nat : /\ Holds(D, i, n, k) <=> Holds(C, i, n, k)
                          /\ Holds(C, i, n, k) => D[n].input[k] = C[n].input[k]
    BY <1>2, <2>1
  <2>. QED  BY <2>2, SameKept
<1>4. ASSUME b.id = i, b.input = <<m + 1>>
      PROVE  Kept(D, i, m + 1)
  <2>1. DOMAIN b.input = {1} /\ b.input[1] = m + 1
    BY <1>4
  <2>2. Holds(D, i, p, 1) /\ D[p].input[1] = m + 1 /\ \A k \in Nat : Holds(D, i, p, k) => k = 1
    BY <1>1, <1>2, <1>4, <2>1
  <2>3. \A n, k \in Nat :
          /\ Holds(D, i, n, k) <=> Holds(C, i, n, k) \/ (n = p /\ k = 1)
          /\ Holds(C, i, n, k) => /\ D[n].input[k] = C[n].input[k]
                                  /\ n < p \/ (n = p /\ k < 1)
    BY <1>2, <2>2
  <2>4. p \in Nat /\ 1 \in Nat /\ Holds(D, i, p, 1) /\ D[p].input[1] = m + 1
    BY <1>1, <2>2
  <2>. HIDE DEF D, p
  <2>. QED  BY <2>3, <2>4, NextKept
<1>. QED  BY <1>3, <1>4 DEF D

\* So does a piece in a block: it is a signature, or the next delta of the
\* upstream block the client's block was made for last.
LEMMA ExtendKeeps ==
  ASSUME NEW C \in Seq(ClientBlock), NEW d \in Nat, d < Len(C), NEW x \in Nat,
         NEW i, NEW m \in Nat, Kept(C, i, m)
  PROVE  /\ C[d + 1].id # i \/ x = 0 => Kept(Extended(C, d, x), i, m)
         /\ /\ C[d + 1].id = i /\ x = m + 1
            /\ \A n \in DOMAIN C : C[n].id = i => n <= d + 1
            => Kept(Extended(C, d, x), i, m + 1)
<1>. DEFINE D == Extended(C, d, x)
            p == d + 1
            q == Len(C[p].input) + 1
<1>1. /\ DOMAIN D = DOMAIN C /\ p \in DOMAIN C /\ DOMAIN C \subseteq Nat
      /\ D[p] = [C[p] EXCEPT !.input = Append(@, x)]
      /\ \A n \in DOMAIN C : n # p => D[n] = C[n]
  <2>1. p \in DOMAIN C /\ DOMAIN C \subseteq Nat
    OBVIOUS
  <2>2. D = [C EXCEPT ![p] = [C[p] EXCEPT !.input = Append(C[p].input, x)]]
    BY DEF Extended
  <2>. HIDE DEF D, p
  <2>. QED  BY <2>1, <2>2
<1>2. C[p] \in ClientBlock /\ C[p].input \in Seq(Nat) /\ q \in Nat
  <2>1. C[p] \in ClientBlock
    BY <1>1
  <2>2. C[p].input \in Seq(Nat)
    BY <2>1 DEF ClientBlock
  <2>. QED  BY <2>1, <2>2
<1>3. /\ D[p].id = C[p].id /\ D[p].input = Append(C[p].input, x)
  BY <1>1, <1>2 DEF ClientBlock
<1>4. /\ DOMAIN D[p].input = 1 .. q /\ DOMAIN C[p].input = 1 .. (q - 1)
      /\ D[p].input[q] = x
      /\ \A k \in DOMAIN C[p].input : D[p].input[k] = C[p].input[k]
  BY <1>2, <1>3
<1>. HIDE DEF D, p, q
<1>5. ASSUME NEW n \in Nat, NEW k \in Nat
      PROVE  /\ Holds(C, i, n, k) => /\ Holds(D, i, n, k) /\ n \in DOMAIN C
                                     /\ D[n].input[k] = C[n].input[k]
                                     /\ n = p => k < q
             /\ Holds(D, i, n, k) /\ ~(n = p /\ k = q) => Holds(C, i, n, k)
             /\ Holds(D, i, p, q) <=> C[p].id = i /\ x # 0
  <2>1. CASE n = p
    <3>1. /\ Holds(C, i, p, k) <=> C[p].id = i /\ k \in DOMAIN C[p].input /\ C[p].input[k] # 0
          /\ Holds(D, i, p, k) <=> C[p].id = i /\ k \in DOMAIN D[p].input /\ D[p].input[k] # 0
      BY <1>1, <1>3 DEF Holds
    <3>2. /\ k \in DOMAIN C[p].input => k < q /\ k \in DOMAIN D[p].input
          /\ k \in DOMAIN D[p].input /\ k # q => k \in DOMAIN C[p].input
          /\ q \in DOMAIN D[p].input
      <4>1. /\ k \in 1 .. (q - 1) => k < q /\ k \in 1 .. q
            /\ k \in 1 .. q /\ k # q => k \in 1 .. (q - 1)
        BY <1>2
      <4>2. q \in 1 .. q
        <5>1. q > 0
          <6>1. Len(C[p].input) \in Nat
            BY <1>2
          <6>. QED  BY <6>1 DEF q
        <5>. QED  BY <1>2, <5>1
      <4>. QED  BY <1>4, <4>1, <4>2, Zenon
    <3>3. Holds(D, i, p, q) <=> C[p].id = i /\ q \in DOMAIN D[p].input /\ D[p].input[q] # 0
      BY <1>1, <1>3 DEF Holds
    <3>4. Holds(D, i, p, q) <=> C[p].id = i /\ x # 0
      BY <1>4, <3>2, <3>3
    <3>. QED  BY <1>1, <1>4, <2>1, <3>1, <3>2, <3>4
  <2>2. CASE n # p
    BY <1>1, <1>2, <1>3, <1>4, <2>2 DEF Holds
  <2>. QED  BY <2>1, <2>2
<1>6. ASSUME C[p].id # i \/ x = 0
      PROVE  Kept(D, i, m)
  <2>1. \A n, k \in Nat : /\ Holds(D, i, n, k) <=> Holds(C, i, n, k)
                          /\ Holds(C, i, n, k) => D[n].input[k] = C[n].input[k]
    BY <1>5, <1>6
  <2>. QED  BY <2>1, SameKept
<1>7. ASSUME C[p].id = i, x = m + 1, \A n \in DOMAIN C : C[n].id = i => n <= p
      PROVE  Kept(D, i, m + 1)
  <2>1. x # 0 /\ Holds(D, i, p, q) /\ D[p].input[q] = m + 1
    BY <1>1, <1>2, <1>4, <1>5, <1>7
  <2>2. ASSUME NEW n \in Nat, NEW k \in Nat
        PROVE  /\ Holds(D, i, n, k) <=> Holds(C, i, n, k) \/ (n = p /\ k = q)
               /\ Holds(C, i, n, k) => /\ D[n].input[k] = C[n].input[k]
                                       /\ n < p \/ (n = p /\ k < q)
    <3>1. Holds(C, i, n, k) => n <= p
      BY <1>7 DEF Holds
    <3>2. p \in Nat
      BY <1>1
    <3>. QED  BY <1>5, <2>1, <3>1, <3>2
  <2>. QED  BY <1>1, <1>2, <2>1, <2>2, NextKept
<1>. QED  BY <1>6, <1>7 DEF D, p

-----------------------------------------------------------------------------
(* The invariant *)

LEMMA Starting == Init => IInv
<1>. SUFFICES ASSUME Init PROVE IInv
  OBVIOUS
<1>1. DOMAIN seg = {} /\ view = Unread /\ view.content = <<>> /\ view.open = {}
  BY DEF Init, Unread
<1>2. Typed
  <2>1. view \in ClientView
    BY <1>1 DEF Unread, ClientView
  <2>2. seg \in [DOMAIN seg -> [down : Nat, open : BOOLEAN]]
    BY <1>1 DEF Init
  <2>3. kind \in [Blocks -> Kinds] /\ up \in [Blocks -> {"none", "started", "headless", "stopped"}]
          /\ given \in [Blocks -> Nat]
    BY DEF Init
  <2>4. maxIndex \in Int /\ next \in Nat
    BY DEF Init
  <2>. QED  BY <1>1, <2>1, <2>2, <2>3, <2>4 DEF Init, Typed
<1>3. Numbered /\ SignedOnly
  BY <1>1 DEF Init, Numbered, SignedOnly
<1>4. Mirrored
  BY <1>1 DEF Init, Mirrored, Downs
<1>5. Calm
  BY <1>1 DEF Init, Calm
<1>6. Phase
  <2>1. ~Over(view) /\ view.flaws = {}
    BY <1>1 DEF Unread, Over
  <2>. QED  BY <1>1, <2>1 DEF Init, Phase
<1>7. \A i \in Blocks : Life(i)
  BY <1>1 DEF Init, Life
<1>8. AllKept
  <2>1. \A i \in Blocks : Due(i) = 0
    BY DEF Init, Due
  <2>2. \A i, n, k : ~Holds(view.content, i, n, k)
    BY <1>1 DEF Holds
  <2>. QED  BY <2>1, <2>2 DEF Kept, AllKept
<1>. QED  BY <1>2, <1>3, <1>4, <1>5, <1>6, <1>7, <1>8 DEF Init, IInv, Alive, Failed

\* While the stream lives the invariant keeps what is promised.
LEMMA AliveKeepsPromises ==
  ASSUME Typed, Alive, ~Failed
  PROVE  Promised
<1>1. WellFormed
  BY DEF Alive, Phase, WellFormed
<1>2. FailureEnds
  BY DEF Failed, FailureEnds
<1>3. BlocksWhole
  <2>. SUFFICES ASSUME ~tangled, NEW i \in Blocks PROVE Cardinality(ClientBlocks(i)) <= 1
    BY DEF BlocksWhole
  <2>1. CASE i \in DOMAIN seg
    <3>1. ClientBlocks(i) \subseteq {seg[i].down + 1}
      BY <2>1 DEF Alive, Calm
    <3>2. IsFiniteSet({seg[i].down + 1}) /\ Cardinality({seg[i].down + 1}) = 1
      BY FS_Singleton
    <3>. QED  BY <3>1, <3>2, FS_Subset
  <2>2. CASE i \notin DOMAIN seg
    <3>1. ClientBlocks(i) = {}
      BY <2>2 DEF Alive, Numbered, ClientBlocks
    <3>. QED  BY <3>1, FS_EmptySet
  <2>. QED  BY <2>1, <2>2
<1>4. ThinkingHidden
  <2>. SUFFICES ASSUME ~enabled, NEW n \in DOMAIN view.content,
                       view.content[n].kind = "thinking"
                PROVE  up[view.content[n].id] \in {"headless", "stopped"}
                         /\ view.content[n].input = <<0>>
    BY DEF ThinkingHidden
  <2>. DEFINE i == view.content[n].id
  <2>1. Hidden(view.content[n].kind)
    BY DEF Hidden
  <2>2. i \in DOMAIN seg /\ Hidden(kind[i]) /\ i \in Blocks
    BY <2>1 DEF Alive, Numbered, Typed
  <2>3. up[i] # "none" /\ up[i] # "started"
    BY <2>2 DEF Alive, Life
  <2>. QED  BY <2>1, <2>2, <2>3 DEF Alive, SignedOnly, Typed
<1>. QED  BY <1>1, <1>2, <1>3, <1>4 DEF Alive, Promised

\* What an added block changes.
LEMMA AppendIs ==
  ASSUME NEW C \in Seq(ClientBlock), NEW b \in ClientBlock, NEW D, D = Append(C, b)
  PROVE  /\ D \in Seq(ClientBlock) /\ Len(D) = Len(C) + 1 /\ Len(C) \in Nat
         /\ DOMAIN C = 1 .. Len(C) /\ DOMAIN D = 1 .. (Len(C) + 1)
         /\ D[Len(C) + 1] = b /\ \A n \in DOMAIN C : D[n] = C[n]
OBVIOUS

\* What an added piece changes.
LEMMA ExtendIs ==
  ASSUME NEW C \in Seq(ClientBlock), NEW d \in Nat, d < Len(C), NEW x \in Nat,
         NEW D, D = Extended(C, d, x)
  PROVE  /\ DOMAIN D = DOMAIN C /\ Len(D) = Len(C)
         /\ \A n \in DOMAIN C : D[n].id = C[n].id /\ D[n].kind = C[n].kind
         /\ \A n \in DOMAIN C : n # d + 1 => D[n] = C[n]
<1>1. C[d + 1] \in ClientBlock
  OBVIOUS
<1>2. D = [C EXCEPT ![d + 1] = [C[d + 1] EXCEPT !.input = Append(C[d + 1].input, x)]]
  BY DEF Extended
<1>3. /\ D[d + 1].id = C[d + 1].id /\ D[d + 1].kind = C[d + 1].kind
      /\ \A n \in DOMAIN C : n # d + 1 => D[n] = C[n]
      /\ DOMAIN D = DOMAIN C
  BY <1>1, <1>2 DEF ClientBlock
<1>4. Len(D) = Len(C)
  BY <1>2
<1>. QED  BY <1>3, <1>4

\* A client that has read something has been sent something.
LEMMA Seen ==
  ASSUME Phase, view.begun
  PROVE  saw
BY DEF Phase, Unread

ErrorBlock == Block("text", "none", <<>>)

\* An error block that ends the message keeps what is promised.
LEMMA ErrorKeepsPromises ==
  ASSUME Typed, Alive, ~Failed, Failed', Typed', pc' = "failedLate" <=> Over(view),
         view'.content = Append(view.content, ErrorBlock),
         view'.open = {}, view'.ended,
         view'.flaws \subseteq view.flaws \cup If(Over(view), "late") \cup If(~view'.begun, "headless"),
         UNCHANGED <<kind, up, given, signed, tangled, enabled>>
  PROVE  Promised'
<1>. DEFINE C == view.content
            D == view'.content
<1>0. Promised
  BY AliveKeepsPromises
<1>1. ErrorBlock \in ClientBlock /\ ErrorBlock.id = "none" /\ ErrorBlock.input = <<>>
        /\ ErrorBlock.kind = "text"
  BY DEF ErrorBlock, Block, ClientBlock, Kinds
<1>2. C \in Seq(ClientBlock)
  BY DEF Typed, ClientView
<1>3. /\ D \in Seq(ClientBlock) /\ Len(D) = Len(C) + 1 /\ Len(C) \in Nat
      /\ DOMAIN C = 1 .. Len(C) /\ DOMAIN D = 1 .. (Len(C) + 1)
      /\ D[Len(C) + 1] = ErrorBlock /\ \A n \in DOMAIN C : D[n] = C[n]
  BY <1>1, <1>2, AppendIs
<1>4. WellFormed'
  BY DEF Alive, Phase, WellFormed, If, Failed
<1>5. FailureEnds'
  BY <1>3 DEF FailureEnds, ErrorBlock
<1>6. AllKept'
  <2>1. ASSUME NEW i \in Blocks PROVE Kept(D, i, Due(i))
    <3>1. Kept(C, i, Due(i))
      BY DEF Alive, AllKept
    <3>2. Due(i) \in Nat /\ i # "none"
      BY NativeAssumption DEF Due, Typed
    <3>. QED  BY <1>1, <1>2, <3>1, <3>2, AppendKeeps
  <2>2. \A i \in Blocks : Due(i)' = Due(i)
    BY DEF Due, Hidden
  <2>. QED  BY <2>1, <2>2 DEF AllKept
<1>7. BlocksWhole'
  <2>1. \A i \in Blocks : ClientBlocks(i)' = ClientBlocks(i)
    BY <1>1, <1>3, NativeAssumption DEF ClientBlocks
  <2>. QED  BY <1>0, <2>1 DEF Promised, BlocksWhole
<1>8. ThinkingHidden'
  BY <1>0, <1>1, <1>3 DEF Promised, ThinkingHidden
<1>. QED  BY <1>4, <1>5, <1>6, <1>7, <1>8 DEF Promised

\* The error block and the end of the message, once its blocks are stopped.
LEMMA ErrorView ==
  ASSUME NEW v \in ClientView, v.open = {}, NEW n, n = Len(v.content),
         NEW w, w = MessageEnd(BlockStop(BlockDelta(BlockStart(v, n, "text", "none"), n), n),
                               "end_turn")
  PROVE  /\ w \in ClientView
         /\ w.content = Append(v.content, ErrorBlock)
         /\ w.open = {} /\ w.ended /\ w.begun = v.begun
         /\ w.flaws = v.flaws \cup Misplaced(v)
<1>1. PICK t : t = BlockStart(v, n, "text", "none")
  OBVIOUS
<1>2. /\ t \in ClientView /\ t.content = Append(v.content, ErrorBlock)
      /\ t.open = {n} /\ t.flaws = v.flaws \cup Misplaced(v)
      /\ t.begun = v.begun /\ Over(t) = Over(v)
  <2>1. "text" \in Kinds /\ If(v.open # {}, "overlap") = {}
    BY DEF Kinds, If
  <2>2. /\ t \in ClientView /\ t.content = Append(v.content, ErrorBlock)
        /\ t.open = v.open \cup {n}
        /\ t.flaws = v.flaws \cup Misplaced(v) \cup If(v.open # {}, "overlap")
        /\ t.begun = v.begun /\ Over(t) = Over(v)
    BY <1>1, <2>1, StartedView DEF ErrorBlock
  <2>. QED  BY <2>1, <2>2
<1>3. \A u \in ClientView : u.begun = v.begun /\ Over(u) = Over(v) => Misplaced(u) = Misplaced(v)
  BY DEF Misplaced, Over, ClientView
<1>4. PICK u : u = BlockDelta(t, n)
  OBVIOUS
<1>5. /\ u \in ClientView /\ u.content = t.content /\ u.open = {n} /\ u.flaws = t.flaws
      /\ u.begun = v.begun /\ Over(u) = Over(v)
  <2>1. Misplaced(t) = Misplaced(v) /\ If(n \notin t.open, "closed") = {}
    BY <1>2, <1>3 DEF If
  <2>2. u = [t EXCEPT !.flaws = t.flaws]
    BY <1>2, <1>4, <2>1 DEF BlockDelta
  <2>3. u = t
    BY <1>2, <2>2 DEF ClientView
  <2>. QED  BY <1>2, <2>3
<1>6. PICK s : s = BlockStop(u, n)
  OBVIOUS
<1>7. /\ s \in ClientView /\ s.content = u.content /\ s.open = {} /\ s.flaws = u.flaws
      /\ s.begun = v.begun /\ Over(s) = Over(v)
  <2>1. Misplaced(u) = Misplaced(v) /\ n \in u.open
    BY <1>3, <1>5
  <2>2. /\ s \in ClientView /\ s.content = u.content /\ s.open = u.open \ {n}
        /\ s.flaws = u.flaws \cup Misplaced(u) /\ s.begun = u.begun /\ Over(s) = Over(u)
    BY <1>5, <1>6, <2>1, StopView
  <2>. QED  BY <1>2, <1>5, <2>1, <2>2
<1>8. w = MessageEnd(s, "end_turn")
  BY <1>1, <1>4, <1>6
<1>. QED  BY <1>2, <1>3, <1>5, <1>7, <1>8, EndedView

\* The error message written when nothing else has been.
LEMMA WholeErrorView ==
  ASSUME Typed, view = Unread,
         NEW w, w = WholeError(view)
  PROVE  /\ w \in ClientView
         /\ w.content = Append(view.content, ErrorBlock)
         /\ w.open = {} /\ w.ended
         /\ w.flaws \subseteq view.flaws
<1>1. view = Unread /\ view \in ClientView
  BY DEF Typed
<1>2. PICK v : v = MessageStart(view)
  OBVIOUS
<1>3. /\ v \in ClientView /\ v.content = view.content /\ v.open = {} /\ v.begun /\ ~Over(v)
      /\ v.flaws = view.flaws /\ Len(v.content) = 0
  <2>1. ~view.begun /\ ~Over(view) /\ view.content = <<>> /\ view.open = {}
    BY <1>1 DEF Unread, Over
  <2>2. If(view.begun, "twice") \cup If(Over(view), "late") = {}
    BY <2>1 DEF If
  <2>3. v = [view EXCEPT !.begun = TRUE, !.flaws = view.flaws]
    BY <1>2, <2>2 DEF MessageStart
  <2>. QED  BY <1>1, <2>1, <2>3 DEF ClientView, Over
<1>4. Misplaced(v) = {}
  BY <1>3, InPlace
<1>5. w = MessageEnd(BlockStop(BlockDelta(BlockStart(v, 0, "text", "none"), 0), 0), "end_turn")
  BY <1>2 DEF WholeError
<1>6. /\ w \in ClientView /\ w.content = Append(v.content, ErrorBlock)
      /\ w.open = {} /\ w.ended /\ w.flaws = v.flaws \cup Misplaced(v)
  BY <1>3, <1>5, ErrorView
<1>. QED  BY <1>3, <1>4, <1>6

\* The tail written after an error in the stream.
LEMMA ErrorTailView ==
  ASSUME Typed, Alive, ~Failed,
         NEW w, w = ErrorTail(view)
  PROVE  /\ w \in ClientView
         /\ w.content = Append(view.content, ErrorBlock)
         /\ w.open = {} /\ w.ended
         /\ w.flaws \subseteq view.flaws \cup If(Over(view), "late") \cup If(~w.begun, "headless")
<1>1. view \in ClientView /\ tracked = view.open /\ maxIndex + 1 = Len(view.content)
  <2>1. view \in ClientView /\ next \in Nat
    BY DEF Typed
  <2>2. tracked = view.open /\ next = Len(view.content) /\ maxIndex = next - 1
    BY DEF Alive, Mirrored, Numbered
  <2>. QED  BY <2>1, <2>2
<1>2. PICK v : v = Stopped(view, tracked)
  OBVIOUS
<1>3. /\ v \in ClientView /\ v.content = view.content /\ v.open = {}
      /\ v.flaws \subseteq view.flaws \cup Misplaced(view)
      /\ v.begun = view.begun /\ Over(v) = Over(view)
  <2>1. /\ v \in ClientView /\ v.content = view.content /\ v.open = view.open \ tracked
        /\ v.flaws \subseteq view.flaws \cup Misplaced(view)
        /\ v.begun = view.begun /\ Over(v) = Over(view)
    <3>1. ASSUME NEW u \in ClientView, NEW downs, downs \subseteq u.open, v = Stopped(u, downs)
          PROVE  /\ v \in ClientView /\ v.content = u.content /\ v.open = u.open \ downs
                 /\ v.flaws \subseteq u.flaws \cup Misplaced(u)
                 /\ v.begun = u.begun /\ Over(v) = Over(u)
      BY <3>1, StoppedView
    <3>. QED  BY <1>1, <1>2, <3>1
  <2>. QED  BY <1>1, <2>1
<1>4. /\ Misplaced(view) = If(~view.begun, "headless") \cup If(Over(view), "late")
      /\ Misplaced(v) = Misplaced(view)
  BY <1>1, <1>3 DEF Misplaced, ClientView
<1>5. w = MessageEnd(BlockStop(BlockDelta(BlockStart(v, maxIndex + 1, "text", "none"),
                                          maxIndex + 1), maxIndex + 1), "end_turn")
  BY <1>2 DEF ErrorTail
<1>6. /\ w \in ClientView /\ w.content = Append(v.content, ErrorBlock)
      /\ w.open = {} /\ w.ended /\ w.flaws = v.flaws \cup Misplaced(v) /\ w.begun = v.begun
  BY <1>1, <1>3, <1>5, ErrorView
<1>. QED  BY <1>3, <1>4, <1>6

LEMMA PostFailsStep ==
  ASSUME Typed, Alive, ~Failed, PostFails
  PROVE  IInv'
<1>1. view = Unread /\ ~Over(view)
  BY DEF PostFails, Alive, Phase
<1>2. /\ view' \in ClientView /\ view'.content = Append(view.content, ErrorBlock)
      /\ view'.open = {} /\ view'.ended /\ view'.flaws \subseteq view.flaws
  BY <1>1, WholeErrorView DEF PostFails
<1>3. Typed'
  BY <1>2 DEF Typed, PostFails, policy, tracker, upstream
<1>4. Failed' /\ pc' # "failedLate"
  BY DEF PostFails, Failed
<1>5. Promised'
  BY <1>1, <1>2, <1>3, <1>4, ErrorKeepsPromises DEF PostFails, upstream
<1>. QED  BY <1>3, <1>4, <1>5 DEF IInv

LEMMA ReadFailsStep ==
  ASSUME Typed, Alive, ~Failed, ReadFails
  PROVE  IInv'
<1>1. /\ ~saw => view = Unread
      /\ pc = "ended" <=> Over(view)
      /\ Failed' /\ (pc' = "failedLate" <=> pc = "ended")
  BY DEF ReadFails, Alive, Phase, Failed
<1>2. /\ view' \in ClientView /\ view'.content = Append(view.content, ErrorBlock)
      /\ view'.open = {} /\ view'.ended
      /\ view'.flaws \subseteq view.flaws \cup If(Over(view), "late") \cup If(~view'.begun, "headless")
  <2>1. CASE saw
    BY <1>1, <2>1, ErrorTailView DEF ReadFails
  <2>2. CASE ~saw
    <3>1. view' = WholeError(view) /\ view = Unread
      BY <1>1, <2>2 DEF ReadFails
    <3>. QED  BY <3>1, WholeErrorView
  <2>. QED  BY <2>1, <2>2
<1>3. Typed'
  BY <1>2 DEF Typed, ReadFails, policy, upstream
<1>4. Promised'
  BY <1>1, <1>2, <1>3, ErrorKeepsPromises DEF ReadFails, upstream
<1>. QED  BY <1>1, <1>3, <1>4 DEF IInv

\* Frames that start no block, stop none and hold no delta.
LEMMA QuietStep ==
  ASSUME Alive, Phase', view'.content = view.content, view'.open = view.open,
         UNCHANGED <<enabled, policy, tracked, maxIndex, upstream>>
  PROVE  Alive'
<1>1. Numbered'
  BY DEF Alive, Numbered, ClientBlocks, policy, upstream
<1>2. Mirrored'
  BY DEF Alive, Mirrored, Downs, policy
<1>3. Calm'
  BY DEF Alive, Calm, ClientBlocks, Begun, policy, upstream
<1>4. SignedOnly'
  BY DEF Alive, SignedOnly, Hidden
<1>5. \A i \in Blocks : Life(i)'
  BY DEF Alive, Life, Hidden, Begun, policy, upstream
<1>6. AllKept'
  BY DEF Alive, AllKept, Kept, Holds, Due, Hidden, upstream
<1>. QED  BY <1>1, <1>2, <1>3, <1>4, <1>5, <1>6 DEF Alive

LEMMA PostAcceptedStep ==
  ASSUME Typed, Alive, PostAccepted
  PROVE  IInv'
<1>1. Typed'
  BY DEF Typed, PostAccepted, policy, tracker, upstream
<1>2. Phase'
  BY DEF Alive, Phase, PostAccepted, tracker, upstream
<1>3. Alive'
  BY <1>2, QuietStep DEF PostAccepted, tracker
<1>. QED  BY <1>1, <1>3 DEF IInv, PostAccepted, Failed

LEMMA BodyEndsStep ==
  ASSUME Typed, Alive, BodyEnds
  PROVE  IInv'
<1>1. Typed'
  BY DEF Typed, BodyEnds, policy, tracker, upstream
<1>2. Phase'
  BY DEF Alive, Phase, BodyEnds, tracker, upstream
<1>3. Alive'
  BY <1>2, QuietStep DEF BodyEnds, tracker
<1>. QED  BY <1>1, <1>3 DEF IInv, BodyEnds, Failed

LEMMA StartsStep ==
  ASSUME Typed, Alive, Starts
  PROVE  IInv'
<1>1. view \in ClientView /\ ~view.begun /\ ~Over(view)
  BY DEF Typed, Starts, Alive, Phase
<1>2. /\ view' \in ClientView /\ view'.begun /\ ~Over(view') /\ view'.flaws = view.flaws
      /\ view'.content = view.content /\ view'.open = view.open
  <2>1. If(view.begun, "twice") \cup If(Over(view), "late") = {}
    BY <1>1 DEF If
  <2>2. view' = [view EXCEPT !.begun = TRUE, !.flaws = view.flaws]
    BY <2>1 DEF Starts, MessageStart
  <2>. QED  BY <1>1, <2>2 DEF ClientView, Over
<1>3. Typed'
  BY <1>2 DEF Typed, Starts, policy, upstream
<1>4. Phase'
  BY <1>2 DEF Alive, Phase, Starts, upstream
<1>5. Alive'
  BY <1>2, <1>4, QuietStep DEF Starts
<1>. QED  BY <1>3, <1>5 DEF IInv, Starts, Failed

LEMMA EndsStep ==
  ASSUME Typed, Alive, Ends
  PROVE  IInv'
<1>1. view \in ClientView /\ view.begun /\ ~Over(view) /\ saw
  BY Seen DEF Typed, Alive, Phase, Ends, Running
<1>2. view.open = {}
  BY DEF Typed, Alive, Mirrored, Downs, Life, Ends
<1>3. Misplaced(view) = {}
  BY <1>1, InPlace
<1>4. /\ view' \in ClientView /\ view'.content = view.content /\ view'.open = view.open
      /\ view'.flaws = view.flaws /\ view'.begun = view.begun /\ ~Over(view')
  BY <1>1, <1>3 DEF Ends, MessageDelta, ClientView, Over
<1>5. Typed'
  BY <1>4 DEF Typed, Ends, policy, tracker, upstream
<1>6. Phase'
  BY <1>1, <1>2, <1>4 DEF Alive, Phase, Ends, tracker, upstream
<1>7. Alive'
  BY <1>4, <1>6, QuietStep DEF Ends, tracker
<1>. QED  BY <1>5, <1>7 DEF IInv, Ends, Failed

LEMMA StopsStep ==
  ASSUME Typed, Alive, Stops
  PROVE  IInv'
<1>1. view \in ClientView /\ view.begun /\ ~Over(view) /\ view.open = {} /\ saw
  BY Seen DEF Typed, Alive, Phase, Stops
<1>2. Misplaced(view) = {} /\ If(view.open # {}, "unclosed") = {}
  BY <1>1, InPlace DEF If
<1>3. /\ view' \in ClientView /\ view'.content = view.content /\ view'.open = view.open
      /\ view'.flaws = view.flaws /\ view'.begun = view.begun /\ Over(view')
  BY <1>1, <1>2 DEF Stops, MessageStop, ClientView, Over
<1>4. Typed'
  BY <1>3 DEF Typed, Stops, policy, tracker, upstream
<1>5. Phase'
  BY <1>1, <1>3 DEF Alive, Phase, Stops, tracker, upstream
<1>6. Alive'
  BY <1>3, <1>5, QuietStep DEF Stops, tracker
<1>. QED  BY <1>4, <1>6 DEF IInv, Stops, Failed

LEMMA PingsStep ==
  ASSUME Typed, Alive, Pings
  PROVE  IInv'
<1>1. Typed'
  BY DEF Typed, Pings, policy, upstream
<1>2. Phase'
  BY DEF Alive, Phase, Pings, upstream
<1>3. Alive'
  BY <1>2, QuietStep DEF Pings
<1>. QED  BY <1>1, <1>3 DEF IInv, Pings, Failed

LEMMA ErrsStep ==
  ASSUME Typed, Alive, Errs
  PROVE  IInv'
<1>1. view \in ClientView /\ ~Over(view)
  BY DEF Typed, Alive, Phase, Errs
<1>2. /\ view' \in ClientView /\ view'.content = view.content /\ view'.open = view.open
      /\ view'.flaws = view.flaws /\ Over(view')
  <2>1. If(Over(view), "late") = {}
    BY <1>1 DEF If
  <2>2. view' = [view EXCEPT !.error = TRUE, !.flaws = view.flaws]
    BY <2>1 DEF Errs, ErrorEvent
  <2>. QED  BY <1>1, <2>2 DEF ClientView, Over
<1>3. Typed'
  BY <1>2 DEF Typed, Errs, policy, upstream
<1>4. Phase'
  BY <1>2 DEF Alive, Phase, Errs, upstream
<1>5. Alive'
  BY <1>2, <1>4, QuietStep DEF Errs
<1>. QED  BY <1>3, <1>5 DEF IInv, Errs, Failed

\* Different upstream blocks stand for different blocks of the client.
LEMMA DownsDiffer ==
  ASSUME Numbered, NEW i \in DOMAIN seg, NEW j \in DOMAIN seg, seg[i].down = seg[j].down
  PROVE  i = j
BY DEF Numbered

\* A stop that does not reach the client.
LEMMA StopUnseenStep ==
  ASSUME Typed, Alive, NEW i \in Blocks, BlockStops(i), UNCHANGED <<next, seg, dropped, tracker, view>>,
         i \notin DOMAIN seg \/ ~seg[i].open,
         suppressed' \subseteq suppressed
  PROVE  Typed' /\ Alive'
<1>1. /\ up' = [up EXCEPT ![i] = "stopped"]
      /\ UNCHANGED <<pc, enabled, kind, given, signed, newest, tangled>>
      /\ Begun(i)
  BY DEF BlockStops
<1>2. /\ up'[i] = "stopped" /\ \A j \in Blocks : j # i => up'[j] = up[j]
      /\ up' \in [Blocks -> {"none", "started", "headless", "stopped"}]
  BY <1>1 DEF Typed
<1>3. Typed'
  BY <1>1, <1>2 DEF Typed, tracker
<1>4. Numbered' /\ Mirrored' /\ SignedOnly' /\ AllKept'
  <2>1. Numbered'
    BY <1>1 DEF Alive, Numbered, ClientBlocks, tracker
  <2>2. Mirrored'
    BY DEF Alive, Mirrored, Downs, tracker
  <2>3. SignedOnly'
    BY <1>1 DEF Alive, SignedOnly, Hidden
  <2>4. AllKept'
    BY <1>1 DEF Alive, AllKept, Kept, Holds, Due, Hidden
  <2>. QED  BY <2>1, <2>2, <2>3, <2>4
<1>5. Phase'
  BY <1>1 DEF Alive, Phase, tracker
<1>6. \A j \in Blocks : Life(j)'
  <2>. SUFFICES ASSUME NEW j \in Blocks PROVE Life(j)'
    OBVIOUS
  <2>1. Life(j) /\ Life(i)
    BY DEF Alive
  <2>2. CASE j = i
    BY <1>1, <1>2, <2>1, <2>2 DEF Life, Begun, Hidden
  <2>3. CASE j # i
    BY <1>1, <1>2, <2>1, <2>3 DEF Life, Begun, Hidden
  <2>. QED  BY <2>2, <2>3
<1>7. Calm'
  <2>. SUFFICES ASSUME ~tangled PROVE Calm'
    BY <1>1 DEF Calm
  <2>1. newest \in DOMAIN seg /\ Begun(newest)' => Begun(newest)
    BY <1>1, <1>2 DEF Typed, Begun
  <2>2. Calm
    BY DEF Alive
  <2>3. \A j \in DOMAIN seg : ClientBlocks(j)' = ClientBlocks(j)
    BY DEF ClientBlocks
  <2>. QED  BY <1>1, <2>1, <2>2, <2>3 DEF Calm, Begun
<1>. QED  BY <1>3, <1>4, <1>5, <1>6, <1>7 DEF Alive

\* A stop that does.
LEMMA StopSeenStep ==
  ASSUME Typed, Alive, NEW i \in DOMAIN seg, seg[i].open, BlockStops(i)
  PROVE  Typed' /\ Alive'
<1>0. i \in Blocks /\ i \notin dropped /\ i \notin suppressed
  BY DEF Typed, Alive, Life
<1>1. /\ up' = [up EXCEPT ![i] = "stopped"]
      /\ view' = BlockStop(view, seg[i].down)
      /\ tracked' = tracked \ {seg[i].down}
      /\ seg' = [seg EXCEPT ![i].open = FALSE]
      /\ UNCHANGED <<next, dropped, suppressed, maxIndex, saw>>
      /\ UNCHANGED <<pc, enabled, kind, given, signed, newest, tangled>>
      /\ Running
  BY <1>0 DEF BlockStops
<1>2. /\ up'[i] = "stopped" /\ \A j \in Blocks : j # i => up'[j] = up[j]
      /\ up' \in [Blocks -> {"none", "started", "headless", "stopped"}]
  BY <1>0, <1>1 DEF Typed
<1>3. /\ DOMAIN seg' = DOMAIN seg
      /\ seg' \in [DOMAIN seg -> [down : Nat, open : BOOLEAN]]
      /\ \A j \in DOMAIN seg : seg'[j].down = seg[j].down
      /\ \A j \in DOMAIN seg : seg'[j].open <=> seg[j].open /\ j # i
  BY <1>1 DEF Typed
<1>4. seg[i].down \in view.open
  BY DEF Alive, Mirrored, Downs
<1>5. view \in ClientView /\ view.begun /\ ~Over(view) /\ Misplaced(view) = {}
  <2>1. view \in ClientView /\ view.begun /\ ~Over(view)
    BY <1>1 DEF Typed, Alive, Phase, Running
  <2>. QED  BY <2>1, InPlace
<1>6. /\ view' \in ClientView /\ view'.content = view.content
      /\ view'.open = view.open \ {seg[i].down}
      /\ view'.flaws = view.flaws /\ view'.begun = view.begun /\ Over(view') = Over(view)
  <2>1. ASSUME NEW v \in ClientView, NEW d, d \in v.open, NEW w, w = BlockStop(v, d)
        PROVE  /\ w \in ClientView /\ w.content = v.content /\ w.open = v.open \ {d}
               /\ w.flaws = v.flaws \cup Misplaced(v) /\ w.begun = v.begun /\ Over(w) = Over(v)
    BY <2>1, StopView
  <2>2. /\ view' \in ClientView /\ view'.content = view.content
        /\ view'.open = view.open \ {seg[i].down}
        /\ view'.flaws = view.flaws \cup Misplaced(view)
        /\ view'.begun = view.begun /\ Over(view') = Over(view)
    <3>1. view' = BlockStop(view, seg[i].down) /\ view \in ClientView /\ seg[i].down \in view.open
      BY <1>1, <1>4, <1>5
    <3>. HIDE DEF ClientView
    <3>. QED  BY <3>1, <2>1
  <2>. QED  BY <1>5, <2>2
<1>7. Typed'
  BY <1>1, <1>2, <1>3, <1>6 DEF Typed
<1>8. \A j \in DOMAIN seg : ClientBlocks(j)' = ClientBlocks(j)
  BY <1>6 DEF ClientBlocks
<1>9. Numbered'
  BY <1>1, <1>3, <1>6, <1>8 DEF Alive, Numbered
<1>10. Mirrored'
  <2>1. \A d : d \in view'.open <=> \E j \in DOMAIN seg' : seg'[j].open /\ d = seg'[j].down
    BY <1>3, <1>6, DownsDiffer DEF Alive, Mirrored, Downs
  <2>. QED  BY <1>1, <1>6, <2>1 DEF Alive, Mirrored, Downs
<1>11. SignedOnly'
  BY <1>1, <1>6 DEF Alive, SignedOnly, Hidden
<1>12. AllKept'
  BY <1>1, <1>6 DEF Alive, AllKept, Kept, Holds, Due, Hidden
<1>13. Phase'
  BY <1>1, <1>5, <1>6, Seen DEF Alive, Phase, Running
<1>14. \A j \in Blocks : Life(j)'
  <2>. SUFFICES ASSUME NEW j \in Blocks PROVE Life(j)'
    OBVIOUS
  <2>1. Life(j) /\ Life(i)
    BY <1>0 DEF Alive
  <2>2. CASE j = i
    BY <1>0, <1>1, <1>2, <1>3, <2>1, <2>2 DEF Life, Begun, Hidden
  <2>3. CASE j # i
    BY <1>1, <1>2, <1>3, <2>1, <2>3 DEF Life, Begun, Hidden
  <2>. QED  BY <2>2, <2>3
<1>15. Calm'
  <2>. SUFFICES ASSUME ~tangled PROVE Calm'
    BY <1>1 DEF Calm
  <2>1. newest \in DOMAIN seg /\ Begun(newest)' => Begun(newest) /\ newest # i
    BY <1>1, <1>2 DEF Typed, Begun
  <2>2. Calm
    BY DEF Alive
  <2>. QED  BY <1>1, <1>3, <1>8, <2>1, <2>2 DEF Calm, Begun
<1>. QED  BY <1>7, <1>9, <1>10, <1>11, <1>12, <1>13, <1>14, <1>15 DEF Alive

LEMMA BlockStopsStep ==
  ASSUME Typed, Alive, NEW i \in Blocks, BlockStops(i)
  PROVE  IInv'
<1>1. Life(i)
  BY DEF Alive
<1>2. pc' = "streaming"
  BY DEF BlockStops, Running
<1>3. CASE i \in DOMAIN seg /\ seg[i].open
  BY <1>2, <1>3, StopSeenStep DEF IInv, Failed
<1>4. CASE i \notin DOMAIN seg \/ ~seg[i].open
  <2>1. UNCHANGED <<next, seg, dropped, tracker, view>> /\ suppressed' \subseteq suppressed
    BY <1>1, <1>4 DEF BlockStops, Life, policy
  <2>. QED  BY <1>2, <1>4, <2>1, StopUnseenStep DEF IInv, Failed
<1>. QED  BY <1>3, <1>4

\* A start that is hidden.
LEMMA StartHiddenStep ==
  ASSUME Typed, Alive, NEW i \in Blocks, Hidden(kind[i]), BlockStarts(i)
  PROVE  Typed' /\ Alive'
<1>1. /\ Running /\ up[i] = "none"
      /\ up' = [up EXCEPT ![i] = "started"] /\ newest' = i
      /\ dropped' = dropped \cup {i}
      /\ UNCHANGED <<next, seg, suppressed, tracker, view>>
      /\ UNCHANGED <<pc, enabled, kind, given, signed, tangled>>
  BY DEF BlockStarts
<1>2. /\ up'[i] = "started" /\ \A j \in Blocks : j # i => up'[j] = up[j]
      /\ up' \in [Blocks -> {"none", "started", "headless", "stopped"}]
  BY <1>1 DEF Typed
<1>3. i \notin DOMAIN seg
  BY <1>1 DEF Alive, Life
<1>4. Typed'
  BY <1>1, <1>2 DEF Typed, tracker
<1>5. Numbered'
  BY <1>1 DEF Alive, Numbered, ClientBlocks, tracker
<1>6. Mirrored'
  BY <1>1 DEF Alive, Mirrored, Downs, tracker
<1>7. SignedOnly'
  BY <1>1 DEF Alive, SignedOnly, Hidden
<1>8. AllKept'
  BY <1>1 DEF Alive, AllKept, Kept, Holds, Due, Hidden
<1>9. Phase'
  BY <1>1 DEF Alive, Phase, tracker
<1>10. \A j \in Blocks : Life(j)'
  <2>. SUFFICES ASSUME NEW j \in Blocks PROVE Life(j)'
    OBVIOUS
  <2>1. Life(j) /\ Life(i)
    BY DEF Alive
  <2>2. CASE j = i
    BY <1>1, <1>2, <1>3, <2>1, <2>2 DEF Life, Begun, Hidden
  <2>3. CASE j # i
    BY <1>1, <1>2, <2>1, <2>3 DEF Life, Begun, Hidden
  <2>. QED  BY <2>2, <2>3
<1>11. Calm'
  <2>1. Calm /\ \A j \in DOMAIN seg : ClientBlocks(j)' = ClientBlocks(j)
    BY <1>1 DEF Alive, ClientBlocks
  <2>. QED  BY <1>1, <1>3, <2>1 DEF Calm
<1>. QED  BY <1>4, <1>5, <1>6, <1>7, <1>8, <1>9, <1>10, <1>11 DEF Alive

\* A start that reaches the client, after the stops of the blocks that are open.
LEMMA StartSeenStep ==
  ASSUME Typed, Alive, NEW i \in Blocks, ~Hidden(kind[i]), BlockStarts(i)
  PROVE  Typed' /\ Alive'
<1>. DEFINE js == OtherOpen(i)
            C == view.content
            b == Block(kind[i], i, <<>>)
<1>1. /\ Running /\ up[i] = "none"
      /\ up' = [up EXCEPT ![i] = "started"] /\ newest' = i
      /\ suppressed' = suppressed \cup js
      /\ next' = next + 1
      /\ tracked' = (tracked \ Downs(js)) \cup {next}
      /\ maxIndex' = Larger(maxIndex, next)
      /\ saw' = TRUE
      /\ view' = BlockStart(Stopped(view, Downs(js)), next, kind[i], i)
      /\ UNCHANGED <<dropped, pc, enabled, kind, given, signed, tangled>>
  BY DEF BlockStarts, TrackStart
<1>2. /\ up'[i] = "started" /\ \A j \in Blocks : j # i => up'[j] = up[j]
      /\ up' \in [Blocks -> {"none", "started", "headless", "stopped"}]
  BY <1>1 DEF Typed
<1>3. i \notin DOMAIN seg /\ i \notin suppressed
  BY <1>1 DEF Alive, Life
<1>4. js = {j \in DOMAIN seg : seg[j].open} /\ Downs(js) = view.open
  BY <1>3 DEF OtherOpen, Alive, Mirrored
<1>5. /\ DOMAIN seg' = DOMAIN seg \cup {i}
      /\ seg' \in [DOMAIN seg' -> [down : Nat, open : BOOLEAN]]
      /\ seg'[i] = [down |-> next, open |-> TRUE]
      /\ \A j \in DOMAIN seg : seg'[j].down = seg[j].down /\ seg'[j].open = FALSE
  <2>. DEFINE s == [j \in DOMAIN seg |-> [seg[j] EXCEPT !.open = @ /\ j \notin js]]
  <2>1. \A j \in DOMAIN seg : s[j] = [down |-> seg[j].down, open |-> FALSE]
    BY <1>4 DEF Typed
  <2>2. DOMAIN s = DOMAIN seg /\ \A j \in DOMAIN seg : seg[j].down \in Nat
    BY DEF Typed
  <2>3. seg' = [j \in DOMAIN seg \cup {i} |->
                  IF j = i THEN [down |-> next, open |-> TRUE] ELSE s[j]]
    BY <2>2 DEF Allocated, BlockStarts
  <2>. HIDE DEF s
  <2>4. DOMAIN seg' = DOMAIN seg \cup {i} /\ seg'[i] = [down |-> next, open |-> TRUE]
    BY <2>3
  <2>5. \A j \in DOMAIN seg : seg'[j] = [down |-> seg[j].down, open |-> FALSE]
    BY <1>3, <2>1, <2>3
  <2>6. next \in Nat
    BY DEF Typed
  <2>7. \A j \in DOMAIN seg' : seg'[j] \in [down : Nat, open : BOOLEAN]
    <3>1. \A d \in Nat, o \in BOOLEAN : [down |-> d, open |-> o] \in [down : Nat, open : BOOLEAN]
      OBVIOUS
    <3>. SUFFICES ASSUME NEW j \in DOMAIN seg' PROVE seg'[j] \in [down : Nat, open : BOOLEAN]
      OBVIOUS
    <3>2. CASE j = i
      BY <2>4, <2>6, <3>1, <3>2
    <3>3. CASE j \in DOMAIN seg
      <4>1. seg[j].down \in Nat /\ seg'[j] = [down |-> seg[j].down, open |-> FALSE]
        BY <2>2, <2>5, <3>3
      <4>. QED  BY <3>1, <4>1
    <3>. QED  BY <2>4, <3>2, <3>3
  <2>8. seg' = [j \in DOMAIN seg' |-> seg'[j]]
    BY <2>3
  <2>9. seg' \in [DOMAIN seg' -> [down : Nat, open : BOOLEAN]]
    BY <2>7, <2>8, Zenon
  <2>. QED  BY <2>4, <2>5, <2>9
<1>. HIDE DEF js
<1>6. view \in ClientView /\ view.begun /\ ~Over(view) /\ next = Len(C) /\ tracked = view.open
        /\ next \in Nat /\ maxIndex = next - 1
  BY <1>1 DEF Typed, Alive, Phase, Numbered, Mirrored, Running
<1>7. /\ view' \in ClientView /\ view'.content = Append(C, b)
      /\ view'.open = {next} /\ view'.flaws \subseteq view.flaws
      /\ view'.begun = view.begun /\ Over(view') = Over(view)
  <2>1. PICK v : v = Stopped(view, Downs(js))
    OBVIOUS
  <2>2. /\ v \in ClientView /\ v.content = view.content /\ v.open = {}
        /\ v.flaws \subseteq view.flaws \cup Misplaced(view)
        /\ v.begun = view.begun /\ Over(v) = Over(view)
    <3>1. ASSUME NEW u \in ClientView, NEW downs, downs \subseteq u.open, v = Stopped(u, downs)
          PROVE  /\ v \in ClientView /\ v.content = u.content /\ v.open = u.open \ downs
                 /\ v.flaws \subseteq u.flaws \cup Misplaced(u)
                 /\ v.begun = u.begun /\ Over(v) = Over(u)
      BY <3>1, StoppedView
    <3>2. view \in ClientView /\ Downs(js) = view.open
      BY <1>4, <1>6
    <3>3. /\ v \in ClientView /\ v.content = view.content /\ v.open = view.open \ Downs(js)
          /\ v.flaws \subseteq view.flaws \cup Misplaced(view)
          /\ v.begun = view.begun /\ Over(v) = Over(view)
      BY <2>1, <3>1, <3>2
    <3>. QED  BY <3>2, <3>3
  <2>3. Misplaced(view) = {} /\ Misplaced(v) = {}
    BY <1>6, <2>2, InPlace
  <2>4. view' = BlockStart(v, next, kind[i], i) /\ kind[i] \in Kinds /\ next = Len(v.content)
    BY <1>1, <1>6, <2>1, <2>2 DEF Typed
  <2>5. PICK w : w = BlockStart(v, next, kind[i], i)
    OBVIOUS
  <2>6. /\ w \in ClientView /\ w.content = Append(v.content, b) /\ w.open = v.open \cup {next}
        /\ w.flaws = v.flaws \cup Misplaced(v) \cup If(v.open # {}, "overlap")
        /\ w.begun = v.begun /\ Over(w) = Over(v)
    <3>1. ASSUME NEW k \in Kinds, w = BlockStart(v, next, k, i)
          PROVE  /\ w \in ClientView /\ w.content = Append(v.content, Block(k, i, <<>>))
                 /\ w.open = v.open \cup {next}
                 /\ w.flaws = v.flaws \cup Misplaced(v) \cup If(v.open # {}, "overlap")
                 /\ w.begun = v.begun /\ Over(w) = Over(v)
      BY <2>2, <2>4, <3>1, StartedView
    <3>. QED  BY <2>4, <2>5, <3>1
  <2>7. If(v.open # {}, "overlap") = {}
    BY <2>2 DEF If
  <2>. QED  BY <2>2, <2>3, <2>4, <2>5, <2>6, <2>7
<1>8. C \in Seq(ClientBlock) /\ b \in ClientBlock
        /\ b.id = i /\ b.kind = kind[i] /\ b.input = <<>>
  BY DEF Typed, ClientView, ClientBlock, Block
<1>9. /\ Len(view'.content) = next + 1
      /\ DOMAIN C = 1 .. next /\ DOMAIN view'.content = 1 .. (next + 1)
      /\ view'.content[next + 1] = b /\ \A n \in DOMAIN C : view'.content[n] = C[n]
  BY <1>6, <1>7, <1>8, AppendIs
<1>. HIDE DEF C, b
<1>10. Typed'
  <2>1. DOMAIN seg' \subseteq Blocks /\ dropped' \subseteq Blocks /\ suppressed' \subseteq Blocks
    BY <1>1, <1>4, <1>5 DEF Typed
  <2>2. next' \in Nat /\ tracked' \subseteq Nat /\ maxIndex' \in Int /\ saw' \in BOOLEAN
    BY <1>1, <1>6 DEF Typed, Larger
  <2>3. /\ pc' \in {"post", "streaming", "ending", "ended", "failed", "failedLate", "done"}
        /\ enabled' \in BOOLEAN /\ tangled' \in BOOLEAN
        /\ kind' \in [Blocks -> Kinds] /\ given' \in [Blocks -> Nat] /\ signed' \subseteq Blocks
    BY <1>1 DEF Typed
  <2>. QED  BY <1>2, <1>5, <1>7, <2>1, <2>2, <2>3 DEF Typed
<1>11. /\ \A j \in DOMAIN seg : ClientBlocks(j)' = ClientBlocks(j)
       /\ ClientBlocks(i)' = {next + 1}
  <2>1. \A n \in DOMAIN C : n \in DOMAIN view'.content /\ n # next + 1
    BY <1>6, <1>9
  <2>2. \A n \in DOMAIN view'.content : n \in DOMAIN C \/ n = next + 1
    BY <1>6, <1>9
  <2>3. \A n \in DOMAIN C : C[n].id \in DOMAIN seg
    BY DEF Alive, Numbered, C
  <2>4. next + 1 \in DOMAIN view'.content
    BY <1>6, <1>9
  <2>5. \A j \in DOMAIN seg : ClientBlocks(j)' = ClientBlocks(j)
    BY <1>3, <1>8, <1>9, <2>1, <2>2 DEF ClientBlocks, C
  <2>6. ClientBlocks(i)' = {next + 1}
    BY <1>3, <1>8, <1>9, <2>2, <2>3, <2>4 DEF ClientBlocks
  <2>. QED  BY <2>5, <2>6
<1>12. Numbered'
  <2>1. next' = Len(view'.content) /\ maxIndex' = next' - 1
    BY <1>1, <1>6, <1>9 DEF Larger
  <2>2. ASSUME NEW j \in DOMAIN seg
        PROVE  /\ seg'[j].down < next' /\ view'.content[seg'[j].down + 1].id = j
               /\ \A n \in ClientBlocks(j)' : n <= seg'[j].down + 1
    <3>1. /\ seg[j].down \in Nat /\ seg[j].down < next /\ C[seg[j].down + 1].id = j
          /\ \A n \in ClientBlocks(j) : n <= seg[j].down + 1
      BY DEF Typed, Alive, Numbered, C
    <3>2. seg[j].down + 1 \in DOMAIN C
      BY <1>6, <1>9, <3>1
    <3>3. seg'[j].down < next'
      BY <1>1, <1>5, <1>6, <3>1
    <3>. QED  BY <1>5, <1>9, <1>11, <3>1, <3>2, <3>3
  <2>3. /\ seg'[i].down < next' /\ view'.content[seg'[i].down + 1].id = i
        /\ \A n \in ClientBlocks(i)' : n <= seg'[i].down + 1
    BY <1>1, <1>5, <1>6, <1>8, <1>9, <1>11
  <2>4. ASSUME NEW n \in DOMAIN view'.content
        PROVE  /\ view'.content[n].id \in DOMAIN seg'
               /\ view'.content[n].kind = kind[view'.content[n].id]
    <3>1. CASE n \in DOMAIN C
      BY <1>5, <1>9, <3>1 DEF Alive, Numbered, C
    <3>2. CASE n = next + 1
      BY <1>5, <1>8, <1>9, <3>2
    <3>. QED  BY <1>6, <1>9, <3>1, <3>2
  <2>. QED  BY <1>1, <1>5, <2>1, <2>2, <2>3, <2>4 DEF Numbered
<1>13. Mirrored'
  <2>1. Downs({j \in DOMAIN seg : seg[j].open})' = {next}
    BY <1>3, <1>5 DEF Downs
  <2>. QED  BY <1>1, <1>4, <1>6, <1>7, <2>1 DEF Mirrored
<1>14. SignedOnly'
  <2>. SUFFICES ASSUME NEW n \in DOMAIN view'.content, Hidden(view.content[n].kind)'
                PROVE  view'.content[n].input = <<0>>
    BY DEF SignedOnly
  <2>1. n # next + 1
    BY <1>1, <1>8, <1>9 DEF Hidden
  <2>2. n \in DOMAIN C
    BY <1>6, <1>9, <2>1
  <2>. QED  BY <1>1, <1>9, <2>2 DEF Alive, SignedOnly, Hidden, C
<1>15. AllKept'
  <2>. SUFFICES ASSUME NEW j \in Blocks PROVE Kept(view'.content, j, Due(j))
    BY <1>1 DEF AllKept, Due, Hidden
  <2>1. Kept(C, j, Due(j)) /\ Due(j) \in Nat
    BY DEF Alive, AllKept, C, Due, Typed
  <2>. QED  BY <1>7, <1>8, <2>1, AppendKeeps
<1>16. Phase'
  BY <1>1, <1>6, <1>7 DEF Alive, Phase, Running
<1>17. \A j \in Blocks : Life(j)'
  <2>. SUFFICES ASSUME NEW j \in Blocks PROVE Life(j)'
    OBVIOUS
  <2>1. Life(j) /\ Life(i)
    BY DEF Alive
  <2>2. CASE j = i
    <3>1. i \notin dropped /\ i \notin suppressed'
      BY <1>1, <1>3, <1>4, <2>1 DEF Life
    <3>. QED  BY <1>1, <1>2, <1>5, <2>2, <3>1 DEF Life, Begun, Hidden
  <2>3. CASE j # i
    <3>1. j \in suppressed' => j \in DOMAIN seg
      BY <1>1, <1>4, <2>1 DEF Life
    <3>. QED  BY <1>1, <1>2, <1>5, <2>1, <2>3, <3>1 DEF Life, Begun, Hidden
  <2>. QED  BY <2>2, <2>3
<1>18. Calm'
  <2>1. \A j \in DOMAIN seg' : seg'[j].open => j = i
    BY <1>5
  <2>2. ~tangled => \A j \in DOMAIN seg' : \A n \in ClientBlocks(j)' : n = seg'[j].down + 1
    BY <1>5, <1>11 DEF Alive, Calm
  <2>. QED  BY <1>1, <1>5, <2>1, <2>2 DEF Calm
<1>. QED  BY <1>10, <1>12, <1>13, <1>14, <1>15, <1>16, <1>17, <1>18 DEF Alive

LEMMA BlockStartsStep ==
  ASSUME Typed, Alive, NEW i \in Blocks, BlockStarts(i)
  PROVE  IInv'
<1>1. pc' = "streaming"
  BY DEF BlockStarts, Running
<1>. QED  BY <1>1, StartHiddenStep, StartSeenStep DEF IInv, Failed

\* What the upstream's books say of a piece x of block i: a signature, or the next
\* delta the client is to have.
Counts(i, x) ==
  /\ x \in Nat
  /\ given' \in [Blocks -> Nat]
  /\ signed \subseteq signed' /\ signed' \subseteq Blocks
  /\ \A j \in Blocks : j # i => Due(j)' = Due(j)
  /\ \/ x = 0 /\ Due(i)' = Due(i)
     \/ x = Due(i) + 1 /\ Due(i)' = x

\* What a delivery changes at the upstream.
LEMMA DeliveryIs ==
  ASSUME Typed, NEW i \in Blocks, Delivers(i)
  PROVE  /\ pc = "streaming" /\ view.begun /\ UNCHANGED <<pc, enabled, dropped, kind>>
         /\ up' \in [Blocks -> {"none", "started", "headless", "stopped"}]
         /\ \A j \in Blocks : j # i => up'[j] = up[j]
         /\ up[i] = "none" => up'[i] = "headless" /\ newest' = i
         /\ up[i] # "none" => up'[i] = up[i] /\ newest' = newest
         /\ up[i] # "stopped" /\ Begun(i)'
         /\ tangled' \in BOOLEAN /\ (tangled => tangled')
         /\ up[i] = "none" /\ ~tangled' => \A j \in Blocks : ~Begun(j)
         /\ up[i] # "none" /\ ~tangled' => newest = i
<1>1. /\ pc = "streaming" /\ view.begun /\ UNCHANGED <<pc, enabled, dropped, kind>>
      /\ up[i] # "stopped"
      /\ newest' = IF up[i] = "none" THEN i ELSE newest
      /\ tangled' = (tangled \/ IF up[i] = "none" THEN \E j \in Blocks : Begun(j)
                                ELSE i # newest)
  BY DEF Delivers, Running
<1>2. up' = [up EXCEPT ![i] = IF up[i] = "none" THEN "headless" ELSE up[i]]
  BY DEF Delivers
<1>3. /\ up' \in [Blocks -> {"none", "started", "headless", "stopped"}]
      /\ \A j \in Blocks : j # i => up'[j] = up[j]
      /\ up'[i] = IF up[i] = "none" THEN "headless" ELSE up[i]
  BY <1>2 DEF Typed
<1>4. Begun(i)'
  BY <1>1, <1>3 DEF Typed, Begun
<1>5. tangled' \in BOOLEAN /\ (tangled => tangled')
  BY <1>1 DEF Typed
<1>. QED  BY <1>1, <1>3, <1>4, <1>5

\* A delta that does not reach the client.
LEMMA DeltaHiddenStep ==
  ASSUME Typed, Alive, NEW i \in Blocks, Delivers(i), Counts(i, 0),
         UNCHANGED <<next, seg, suppressed, tracker, view>>
  PROVE  Typed' /\ Alive'
<1>1. /\ pc = "streaming" /\ UNCHANGED <<pc, enabled, dropped, kind>>
      /\ up' \in [Blocks -> {"none", "started", "headless", "stopped"}]
      /\ \A j \in Blocks : j # i => up'[j] = up[j]
      /\ up[i] = "none" => up'[i] = "headless" /\ newest' = i
      /\ up[i] # "none" => up'[i] = up[i] /\ newest' = newest
      /\ tangled' \in BOOLEAN /\ (tangled => tangled')
      /\ up[i] = "none" /\ ~tangled' => \A j \in Blocks : ~Begun(j)
  BY DeliveryIs
<1>2. Due(i) \in Nat /\ \A j \in Blocks : Due(j)' = Due(j)
  BY DEF Counts, Due, Typed
<1>3. Typed'
  BY <1>1 DEF Typed, Counts, tracker
<1>4. Numbered'
  BY <1>1 DEF Alive, Numbered, ClientBlocks, tracker
<1>5. Mirrored'
  BY <1>1 DEF Alive, Mirrored, Downs, tracker
<1>6. SignedOnly'
  BY <1>1 DEF Alive, SignedOnly, Hidden
<1>7. AllKept'
  BY <1>1, <1>2, SMTT(30) DEF Alive, AllKept, Kept, Holds
<1>8. Phase'
  BY <1>1 DEF Alive, Phase, tracker, If
<1>9. \A j \in Blocks : Life(j)'
  <2>. SUFFICES ASSUME NEW j \in Blocks PROVE Life(j)'
    OBVIOUS
  <2>1. Life(j) /\ Life(i) /\ signed \subseteq signed'
    BY DEF Alive, Counts
  <2>2. CASE j = i /\ up[i] = "none"
    BY <1>1, <2>1, <2>2 DEF Life, Begun, Hidden
  <2>3. CASE ~(j = i /\ up[i] = "none")
    BY <1>1, <2>1, <2>3 DEF Life, Begun, Hidden
  <2>. QED  BY <2>2, <2>3
<1>10. Calm'
  <2>. SUFFICES ASSUME ~tangled' PROVE Calm'
    BY DEF Calm
  <2>1. Calm /\ ~tangled /\ \A j \in DOMAIN seg : ClientBlocks(j)' = ClientBlocks(j)
    BY <1>1 DEF Alive, ClientBlocks
  <2>2. CASE up[i] = "none"
    <3>1. i \notin DOMAIN seg /\ \A j \in DOMAIN seg : ~seg[j].open
      BY <1>1, <2>2 DEF Alive, Life, Typed
    <3>. QED  BY <1>1, <2>1, <2>2, <3>1 DEF Calm
  <2>3. CASE up[i] # "none"
    <3>1. \A j \in Blocks : Begun(j)' <=> Begun(j)
      BY <1>1, <2>3 DEF Begun
    <3>2. DOMAIN seg \subseteq Blocks
      BY DEF Typed
    <3>. QED  BY <1>1, <2>1, <2>3, <3>1, <3>2 DEF Calm
  <2>. QED  BY <2>2, <2>3
<1>. QED  BY <1>3, <1>4, <1>5, <1>6, <1>7, <1>8, <1>9, <1>10 DEF Alive

\* A delta for a block that is open.
LEMMA DeltaOpenStep ==
  ASSUME Typed, Alive, NEW i \in DOMAIN seg, seg[i].open, ~Hidden(kind[i]),
         NEW x, Delivers(i), Counts(i, x),
         view' = InputDelta(view, seg[i].down, x),
         UNCHANGED <<next, seg, suppressed, tracker>>
  PROVE  Typed' /\ Alive'
<1>. DEFINE C == view.content
            d == seg[i].down
<1>0. i \in Blocks /\ Life(i) /\ up[i] # "none" /\ x \in Nat
  BY DEF Typed, Alive, Life, Counts
<1>1. /\ pc = "streaming" /\ view.begun /\ UNCHANGED <<pc, enabled, dropped, kind>>
      /\ up' \in [Blocks -> {"none", "started", "headless", "stopped"}]
      /\ \A j \in Blocks : up'[j] = up[j]
      /\ newest' = newest
      /\ tangled' \in BOOLEAN /\ (tangled => tangled')
  BY <1>0, DeliveryIs
<1>2. /\ C \in Seq(ClientBlock) /\ d \in Nat /\ d < Len(C) /\ d \in view.open
      /\ C[d + 1].id = i /\ \A n \in DOMAIN C : C[n].id = i => n <= d + 1
      /\ \A n \in DOMAIN C : C[n].kind = kind[C[n].id]
  <2>1. C \in Seq(ClientBlock) /\ d \in Nat
    BY DEF Typed, ClientView
  <2>2. /\ d < Len(C) /\ C[d + 1].id = i /\ \A n \in DOMAIN C : C[n].id = i => n <= d + 1
        /\ \A n \in DOMAIN C : C[n].kind = kind[C[n].id]
    BY DEF Alive, Numbered, ClientBlocks
  <2>3. d \in view.open
    BY DEF Alive, Mirrored, Downs
  <2>. QED  BY <2>1, <2>2, <2>3
<1>3. /\ view' \in ClientView /\ view'.content = Extended(C, d, x) /\ view'.open = view.open
      /\ view'.flaws = view.flaws /\ view'.begun = view.begun /\ Over(view') = Over(view)
  <2>1. view \in ClientView /\ ~Over(view)
    BY <1>1 DEF Typed, Alive, Phase
  <2>2. Misplaced(view) = {}
    BY <1>1, <2>1, InPlace
  <2>3. ASSUME NEW v \in ClientView, NEW e, e \in v.open, e < Len(v.content),
               NEW w, w = InputDelta(v, e, x)
        PROVE  /\ w \in ClientView /\ w.content = Extended(v.content, e, x) /\ w.open = v.open
               /\ w.flaws = v.flaws \cup Misplaced(v) /\ w.begun = v.begun /\ Over(w) = Over(v)
    BY <1>0, <2>3, DeltaView
  <2>4. /\ view' \in ClientView /\ view'.content = Extended(C, d, x) /\ view'.open = view.open
        /\ view'.flaws = view.flaws \cup Misplaced(view)
        /\ view'.begun = view.begun /\ Over(view') = Over(view)
    <3>1. view \in ClientView /\ d \in view.open /\ d < Len(view.content)
      BY <1>2, <2>1
    <3>. QED  BY <2>3, <3>1
  <2>. QED  BY <2>2, <2>4
<1>4. /\ DOMAIN view'.content = DOMAIN C /\ Len(view'.content) = Len(C)
      /\ \A n \in DOMAIN C : view'.content[n].id = C[n].id /\ view'.content[n].kind = C[n].kind
      /\ \A n \in DOMAIN C : n # d + 1 => view'.content[n] = C[n]
  BY <1>0, <1>2, <1>3, ExtendIs
<1>5. \A j : ClientBlocks(j)' = ClientBlocks(j)
  BY <1>4 DEF ClientBlocks
<1>6. Typed'
  BY <1>1, <1>3 DEF Typed, Counts, tracker
<1>7. Numbered'
  <2>1. ASSUME NEW j \in DOMAIN seg
        PROVE  view'.content[seg[j].down + 1].id = j
    <3>1. seg[j].down \in Nat /\ seg[j].down < Len(C) /\ C[seg[j].down + 1].id = j
      BY DEF Typed, Alive, Numbered
    <3>2. seg[j].down + 1 \in DOMAIN C
      BY <1>2, <3>1
    <3>. QED  BY <1>4, <3>1, <3>2
  <2>2. ASSUME NEW n \in DOMAIN C
        PROVE  view'.content[n].id \in DOMAIN seg
                 /\ view'.content[n].kind = kind[view'.content[n].id]
    BY <1>4 DEF Alive, Numbered
  <2>. QED  BY <1>1, <1>4, <1>5, <2>1, <2>2 DEF Alive, Numbered, tracker
<1>8. Mirrored'
  BY <1>3 DEF Alive, Mirrored, Downs, tracker
<1>9. SignedOnly'
  <2>. SUFFICES ASSUME NEW n \in DOMAIN view'.content, Hidden(view.content[n].kind)'
                PROVE  view'.content[n].input = <<0>>
    BY DEF SignedOnly
  <2>1. n \in DOMAIN C /\ Hidden(C[n].kind)
    BY <1>1, <1>4 DEF Hidden
  <2>2. n # d + 1
    BY <1>2, <2>1
  <2>. QED  BY <1>4, <2>1, <2>2 DEF Alive, SignedOnly
<1>10. AllKept'
  <2>. SUFFICES ASSUME NEW j \in Blocks PROVE Kept(view'.content, j, Due(j)')
    BY DEF AllKept, Kept, Holds
  <2>1. Kept(C, j, Due(j)) /\ Due(j) \in Nat /\ Due(i) \in Nat
    BY <1>0 DEF Alive, AllKept, Due, Typed
  <2>2. CASE j # i
    <3>1. C[d + 1].id # j /\ Due(j)' = Due(j)
      BY <1>2, <2>2 DEF Counts
    <3>. QED  BY <1>0, <1>2, <1>3, <2>1, <3>1, ExtendKeeps
  <2>3. CASE j = i /\ x = 0 /\ Due(i)' = Due(i)
    BY <1>0, <1>2, <1>3, <2>1, <2>3, ExtendKeeps
  <2>4. CASE j = i /\ x = Due(i) + 1 /\ Due(i)' = x
    BY <1>0, <1>2, <1>3, <2>1, <2>4, ExtendKeeps
  <2>. QED  BY <2>2, <2>3, <2>4 DEF Counts
<1>11. Phase'
  BY <1>1, <1>3, Seen DEF Alive, Phase, tracker, If
<1>12. \A j \in Blocks : Life(j)'
  <2>. SUFFICES ASSUME NEW j \in Blocks PROVE Life(j)'
    OBVIOUS
  <2>1. Life(j) /\ signed \subseteq signed'
    BY DEF Alive, Counts
  <2>. QED  BY <1>1, <2>1 DEF Life, Begun, Hidden
<1>13. Calm'
  <2>1. \A j \in Blocks : Begun(j)' <=> Begun(j)
    BY <1>1 DEF Begun
  <2>2. DOMAIN seg \subseteq Blocks /\ Calm
    BY DEF Typed, Alive
  <2>. QED  BY <1>1, <1>5, <2>1, <2>2 DEF Calm
<1>. QED  BY <1>6, <1>7, <1>8, <1>9, <1>10, <1>11, <1>12, <1>13 DEF Alive

\* A delta that opens its block, or opens it again.  Another block is open at the
\* client only if the upstream has tangled its blocks.
LEMMA DeltaReopensStep ==
  ASSUME Typed, Alive, NEW i \in Blocks, i \notin DOMAIN seg \/ ~seg[i].open, i \notin dropped,
         NEW x, Delivers(i), Counts(i, x), Reopen(i, x),
         Hidden(kind[i]) => x = 0 /\ i \in signed'
  PROVE  Typed' /\ Alive'
<1>. DEFINE C == view.content
            b == Block(kind[i], i, <<x>>)
<1>0. Life(i) /\ x \in Nat /\ signed \subseteq signed'
  BY DEF Alive, Counts
<1>1. /\ pc = "streaming" /\ view.begun /\ UNCHANGED <<pc, enabled, dropped, kind>>
      /\ up' \in [Blocks -> {"none", "started", "headless", "stopped"}]
      /\ \A j \in Blocks : j # i => up'[j] = up[j]
      /\ up[i] = "none" => up'[i] = "headless" /\ newest' = i
      /\ up[i] # "none" => up'[i] = up[i] /\ newest' = newest
      /\ up[i] # "stopped" /\ Begun(i)'
      /\ tangled' \in BOOLEAN /\ (tangled => tangled')
      /\ up[i] = "none" /\ ~tangled' => \A j \in Blocks : ~Begun(j)
      /\ up[i] # "none" /\ ~tangled' => newest = i
  BY DeliveryIs
<1>2. /\ suppressed' = suppressed \ {i}
      /\ next' = next + 1
      /\ tracked' = tracked \cup {next}
      /\ maxIndex' = Larger(maxIndex, next)
      /\ saw' = TRUE
  BY DEF Reopen, TrackStart
<1>3. /\ DOMAIN seg' = DOMAIN seg \cup {i}
      /\ seg' \in [DOMAIN seg' -> [down : Nat, open : BOOLEAN]]
      /\ seg'[i] = [down |-> next, open |-> TRUE]
      /\ \A j \in DOMAIN seg : j # i => seg'[j] = seg[j]
  <2>1. seg' = [j \in DOMAIN seg \cup {i} |->
                  IF j = i THEN [down |-> next, open |-> TRUE] ELSE seg[j]]
    BY DEF Reopen, Allocated
  <2>2. [down |-> next, open |-> TRUE] \in [down : Nat, open : BOOLEAN]
    BY DEF Typed
  <2>3. \A j \in DOMAIN seg : seg[j] \in [down : Nat, open : BOOLEAN]
    BY DEF Typed
  <2>. QED  BY <2>1, <2>2, <2>3
<1>4. view \in ClientView /\ ~Over(view) /\ next = Len(C) /\ tracked = view.open
        /\ next \in Nat /\ maxIndex = next - 1
  BY <1>1 DEF Typed, Alive, Phase, Numbered, Mirrored
<1>5. ~tangled' => i \notin DOMAIN seg /\ view.open = {}
  <2>. SUFFICES ASSUME ~tangled' PROVE i \notin DOMAIN seg /\ view.open = {}
    OBVIOUS
  <2>1. Calm /\ ~tangled /\ Mirrored
    BY <1>1 DEF Alive
  <2>2. CASE up[i] = "none"
    <3>1. \A j \in DOMAIN seg : ~seg[j].open
      BY <1>1, <2>2 DEF Alive, Life, Typed
    <3>. QED  BY <1>0, <2>1, <2>2, <3>1 DEF Mirrored, Downs, Life
  <2>3. CASE up[i] # "none"
    <3>1. newest = i /\ Begun(i)
      BY <1>1, <2>3 DEF Begun
    <3>2. i \notin DOMAIN seg
      BY <2>1, <3>1 DEF Calm
    <3>3. \A j \in DOMAIN seg : ~seg[j].open
      BY <2>1, <3>1, <3>2 DEF Calm
    <3>. QED  BY <2>1, <3>2, <3>3 DEF Mirrored, Downs
  <2>. QED  BY <2>2, <2>3
<1>6. /\ view' \in ClientView /\ view'.content = Append(C, b)
      /\ view'.open = view.open \cup {next}
      /\ view'.flaws = view.flaws \cup If(view.open # {}, "overlap")
      /\ view'.begun = TRUE /\ ~Over(view')
  <2>1. ASSUME NEW v \in ClientView, v.begun, ~Over(v), NEW k \in Kinds, NEW n, n = Len(v.content),
               NEW w, w = InputDelta(BlockStart(v, n, k, i), n, x)
        PROVE  /\ w \in ClientView /\ w.content = Append(v.content, Block(k, i, <<x>>))
               /\ w.open = v.open \cup {n} /\ w.flaws = v.flaws \cup If(v.open # {}, "overlap")
               /\ w.begun /\ ~Over(w)
    BY <1>0, <2>1, ReopenedView
  <2>2. view' = InputDelta(BlockStart(view, next, kind[i], i), next, x) /\ kind[i] \in Kinds
    BY DEF Reopen, Typed
  <2>3. /\ view' \in ClientView /\ view'.content = Append(C, b)
        /\ view'.open = view.open \cup {next}
        /\ view'.flaws = view.flaws \cup If(view.open # {}, "overlap")
        /\ view'.begun /\ ~Over(view')
    BY <1>1, <1>4, <2>1, <2>2
  <2>. QED  BY <2>3 DEF ClientView
<1>7. C \in Seq(ClientBlock) /\ b \in ClientBlock
        /\ b.id = i /\ b.kind = kind[i] /\ b.input = <<x>>
  BY <1>0 DEF Typed, ClientView, ClientBlock, Block
<1>8. /\ Len(view'.content) = next + 1
      /\ DOMAIN C = 1 .. next /\ DOMAIN view'.content = 1 .. (next + 1)
      /\ view'.content[next + 1] = b /\ \A n \in DOMAIN C : view'.content[n] = C[n]
  BY <1>4, <1>6, <1>7, AppendIs
<1>. HIDE DEF C, b
<1>9. Typed'
  <2>1. DOMAIN seg' \subseteq Blocks /\ dropped' \subseteq Blocks /\ suppressed' \subseteq Blocks
    BY <1>1, <1>2, <1>3 DEF Typed
  <2>2. next' \in Nat /\ tracked' \subseteq Nat /\ maxIndex' \in Int /\ saw' \in BOOLEAN
    BY <1>2, <1>4 DEF Typed, Larger
  <2>3. /\ pc' \in {"post", "streaming", "ending", "ended", "failed", "failedLate", "done"}
        /\ enabled' \in BOOLEAN /\ kind' \in [Blocks -> Kinds]
        /\ given' \in [Blocks -> Nat] /\ signed' \subseteq Blocks
    BY <1>1 DEF Typed, Counts
  <2>. QED  BY <1>1, <1>3, <1>6, <2>1, <2>2, <2>3 DEF Typed
<1>10. /\ \A j \in DOMAIN seg : j # i => ClientBlocks(j)' = ClientBlocks(j)
       /\ ClientBlocks(i)' = ClientBlocks(i) \cup {next + 1}
       /\ i \notin DOMAIN seg => ClientBlocks(i) = {}
  <2>1. \A n \in DOMAIN C : n \in DOMAIN view'.content /\ n # next + 1
    BY <1>4, <1>8
  <2>2. \A n \in DOMAIN view'.content : n \in DOMAIN C \/ n = next + 1
    BY <1>4, <1>8
  <2>3. next + 1 \in DOMAIN view'.content
    BY <1>4, <1>8
  <2>4. \A j \in DOMAIN seg : j # i => ClientBlocks(j)' = ClientBlocks(j)
    BY <1>7, <1>8, <2>1, <2>2 DEF ClientBlocks, C
  <2>5. ClientBlocks(i)' = ClientBlocks(i) \cup {next + 1}
    BY <1>7, <1>8, <2>1, <2>2, <2>3 DEF ClientBlocks, C
  <2>6. i \notin DOMAIN seg => ClientBlocks(i) = {}
    BY DEF Alive, Numbered, ClientBlocks
  <2>. QED  BY <2>4, <2>5, <2>6
<1>11. Numbered'
  <2>1. next' = Len(view'.content) /\ maxIndex' = next' - 1
    BY <1>2, <1>4, <1>8 DEF Larger
  <2>2. ASSUME NEW j \in DOMAIN seg, j # i
        PROVE  /\ seg'[j].down < next' /\ view'.content[seg'[j].down + 1].id = j
               /\ \A n \in ClientBlocks(j)' : n <= seg'[j].down + 1
    <3>1. /\ seg[j].down \in Nat /\ seg[j].down < next /\ C[seg[j].down + 1].id = j
          /\ \A n \in ClientBlocks(j) : n <= seg[j].down + 1
      BY DEF Typed, Alive, Numbered, C
    <3>2. seg[j].down + 1 \in DOMAIN C
      BY <1>4, <1>8, <3>1
    <3>3. seg'[j].down = seg[j].down
      BY <1>3, <2>2
    <3>4. seg'[j].down < next'
      BY <1>2, <1>4, <3>1, <3>3
    <3>. QED  BY <1>8, <1>10, <2>2, <3>1, <3>2, <3>3, <3>4
  <2>3. /\ seg'[i].down < next' /\ view'.content[seg'[i].down + 1].id = i
        /\ \A n \in ClientBlocks(i)' : n <= seg'[i].down + 1
    <3>1. \A n \in ClientBlocks(i)' : n <= next + 1
      BY <1>4, <1>8 DEF ClientBlocks
    <3>. QED  BY <1>2, <1>3, <1>4, <1>7, <1>8, <3>1
  <2>4. ASSUME NEW n \in DOMAIN view'.content
        PROVE  /\ view'.content[n].id \in DOMAIN seg'
               /\ view'.content[n].kind = kind[view'.content[n].id]
    <3>1. CASE n \in DOMAIN C
      BY <1>3, <1>8, <3>1 DEF Alive, Numbered, C
    <3>2. CASE n = next + 1
      BY <1>3, <1>7, <1>8, <3>2
    <3>. QED  BY <1>4, <1>8, <3>1, <3>2
  <2>. QED  BY <1>1, <1>3, <2>1, <2>2, <2>3, <2>4 DEF Numbered
<1>12. Mirrored'
  <2>1. \A d : d \in view'.open <=> \E j \in DOMAIN seg' : seg'[j].open /\ d = seg'[j].down
    <3>1. \A d : d \in view.open <=> \E j \in DOMAIN seg : seg[j].open /\ d = seg[j].down
      BY DEF Alive, Mirrored, Downs
    <3>. QED  BY <1>3, <1>6, <3>1
  <2>. QED  BY <1>2, <1>4, <1>6, <2>1 DEF Mirrored, Downs
<1>13. SignedOnly'
  <2>. SUFFICES ASSUME NEW n \in DOMAIN view'.content, Hidden(view.content[n].kind)'
                PROVE  view'.content[n].input = <<0>>
    BY DEF SignedOnly
  <2>1. CASE n = next + 1
    BY <1>1, <1>7, <1>8, <2>1 DEF Hidden
  <2>2. CASE n \in DOMAIN C
    BY <1>1, <1>8, <2>2 DEF Alive, SignedOnly, Hidden, C
  <2>. QED  BY <1>4, <1>8, <2>1, <2>2
<1>14. AllKept'
  <2>. SUFFICES ASSUME NEW j \in Blocks PROVE Kept(view'.content, j, Due(j)')
    BY DEF AllKept, Kept, Holds
  <2>1. Kept(C, j, Due(j)) /\ Due(j) \in Nat
    BY DEF Alive, AllKept, Due, Typed, C
  <2>2. CASE j # i
    <3>1. b.id # j /\ Due(j)' = Due(j)
      BY <1>7, <2>2 DEF Counts
    <3>. QED  BY <1>6, <1>7, <2>1, <3>1, AppendKeeps
  <2>3. CASE j = i /\ x = 0 /\ Due(i)' = Due(i)
    <3>1. b.input \in {<<>>, <<0>>}
      BY <1>7, <2>3
    <3>2. Kept(Append(C, b), i, Due(i))
      BY <1>7, <2>1, <2>3, <3>1, AppendKeeps
    <3>. QED  BY <1>6, <2>3, <3>2
  <2>4. CASE j = i /\ x = Due(i) + 1 /\ Due(i)' = x
    BY <1>6, <1>7, <2>1, <2>4, AppendKeeps
  <2>. QED  BY <2>2, <2>3, <2>4 DEF Counts
<1>15. Phase'
  <2>1. view'.flaws \subseteq If(tangled', "overlap")
    BY <1>1, <1>5, <1>6 DEF Alive, Phase, If
  <2>. QED  BY <1>1, <1>2, <1>6, <2>1 DEF Phase
<1>16. \A j \in Blocks : Life(j)'
  <2>. SUFFICES ASSUME NEW j \in Blocks PROVE Life(j)'
    OBVIOUS
  <2>1. Life(j)
    BY DEF Alive
  <2>2. CASE j = i
    <3>1. up'[i] # "none" /\ i \notin dropped' /\ i \notin suppressed'
      BY <1>1, <1>2, <1>3 DEF Begun
    <3>2. Hidden(kind[i])' => i \in signed' /\ up'[i] # "started"
      BY <1>0, <1>1 DEF Life, Hidden
    <3>. QED  BY <1>1, <1>3, <2>2, <3>1, <3>2 DEF Life
  <2>3. CASE j # i
    BY <1>0, <1>1, <1>2, <1>3, <2>1, <2>3 DEF Life, Begun, Hidden
  <2>. QED  BY <2>2, <2>3
<1>17. Calm'
  <2>. SUFFICES ASSUME ~tangled' PROVE Calm'
    BY DEF Calm
  <2>1. newest' = i
    BY <1>1
  <2>2. \A j \in DOMAIN seg' : seg'[j].open => j = i
    <3>1. \A j \in DOMAIN seg : ~seg[j].open
      BY <1>5 DEF Alive, Mirrored, Downs
    <3>. QED  BY <1>3, <3>1
  <2>3. \A j \in DOMAIN seg' : \A n \in ClientBlocks(j)' : n = seg'[j].down + 1
    <3>1. \A j \in DOMAIN seg : j # i /\ \A n \in ClientBlocks(j) : n = seg[j].down + 1
      BY <1>1, <1>5 DEF Alive, Calm
    <3>2. \A n \in ClientBlocks(i)' : n = seg'[i].down + 1
      BY <1>3, <1>5, <1>10
    <3>. QED  BY <1>3, <1>10, <3>1, <3>2
  <2>. QED  BY <1>3, <2>1, <2>2, <2>3 DEF Calm
<1>. QED  BY <1>9, <1>11, <1>12, <1>13, <1>14, <1>15, <1>16, <1>17 DEF Alive

LEMMA DeltaStep ==
  ASSUME Typed, Alive, NEW i \in Blocks, Delta(i)
  PROVE  IInv'
<1>1. /\ i \notin signed /\ signed' = signed
      /\ given' = [given EXCEPT ![i] = given[i] + 1]
      /\ Delivers(i) /\ Transformed(i, Hidden(kind[i]), given[i] + 1)
  BY DEF Delta
<1>2. /\ given[i] \in Nat /\ given' \in [Blocks -> Nat] /\ given'[i] = given[i] + 1
      /\ \A j \in Blocks : j # i => given'[j] = given[j]
  BY <1>1 DEF Typed
<1>3. pc' = "streaming" /\ UNCHANGED <<enabled, kind>>
  BY <1>1 DEF Delivers, Running
<1>4. Life(i) /\ signed' \subseteq Blocks
  BY <1>1 DEF Alive, Typed
<1>5. CASE Hidden(kind[i])
  <2>1. \A j \in Blocks : Due(j)' = Due(j)
    BY <1>2, <1>3, <1>5 DEF Due, Hidden
  <2>2. Counts(i, 0)
    BY <1>1, <1>2, <1>4, <2>1 DEF Counts
  <2>3. UNCHANGED <<next, seg, suppressed, tracker, view>>
    BY <1>1, <1>5 DEF Transformed
  <2>. QED  BY <1>1, <1>3, <2>2, <2>3, DeltaHiddenStep DEF IInv, Failed
<1>6. CASE ~Hidden(kind[i])
  <2>1. /\ Due(i)' = given[i] + 1 /\ Due(i) = given[i]
        /\ \A j \in Blocks : j # i => Due(j)' = Due(j)
    BY <1>2, <1>3, <1>6 DEF Due, Hidden
  <2>2. Counts(i, given[i] + 1)
    BY <1>1, <1>2, <1>4, <2>1 DEF Counts
  <2>3. i \notin dropped
    BY <1>4, <1>6 DEF Life
  <2>4. CASE i \in DOMAIN seg /\ seg[i].open
    <3>1. /\ view' = InputDelta(view, seg[i].down, given[i] + 1)
          /\ UNCHANGED <<next, seg, suppressed, tracker>>
      BY <1>1, <1>6, <2>3, <2>4 DEF Transformed
    <3>. QED  BY <1>1, <1>3, <1>6, <2>2, <2>4, <3>1, DeltaOpenStep DEF IInv, Failed
  <2>5. CASE i \notin DOMAIN seg \/ ~seg[i].open
    <3>1. Reopen(i, given[i] + 1)
      BY <1>1, <1>6, <2>3, <2>5 DEF Transformed
    <3>. QED  BY <1>1, <1>3, <1>6, <2>2, <2>3, <2>5, <3>1, DeltaReopensStep DEF IInv, Failed
  <2>. QED  BY <2>4, <2>5
<1>. QED  BY <1>5, <1>6

LEMMA SignatureStep ==
  ASSUME Typed, Alive, NEW i \in Blocks, Signature(i)
  PROVE  IInv'
<1>1. /\ i \notin signed /\ signed' = signed \cup {i} /\ given' = given
      /\ Delivers(i) /\ Transformed(i, FALSE, 0)
  BY DEF Signature
<1>2. pc' = "streaming" /\ UNCHANGED <<enabled, kind>>
  BY <1>1 DEF Delivers, Running
<1>3. Life(i)
  BY DEF Alive
<1>4. Counts(i, 0)
  <2>1. \A j \in Blocks : Due(j)' = Due(j)
    BY <1>1, <1>2 DEF Due, Hidden
  <2>. QED  BY <1>1, <2>1 DEF Counts, Typed
<1>5. CASE i \in dropped
  <2>1. UNCHANGED <<next, seg, suppressed, tracker, view>>
    BY <1>1, <1>5 DEF Transformed
  <2>. QED  BY <1>1, <1>2, <1>4, <2>1, DeltaHiddenStep DEF IInv, Failed
<1>6. CASE i \notin dropped /\ i \in DOMAIN seg /\ seg[i].open
  <2>1. /\ view' = InputDelta(view, seg[i].down, 0)
        /\ UNCHANGED <<next, seg, suppressed, tracker>>
    BY <1>1, <1>6 DEF Transformed
  <2>2. ~Hidden(kind[i])
    BY <1>1, <1>3, <1>6 DEF Life
  <2>. QED  BY <1>1, <1>2, <1>4, <1>6, <2>1, <2>2, DeltaOpenStep DEF IInv, Failed
<1>7. CASE i \notin dropped /\ (i \notin DOMAIN seg \/ ~seg[i].open)
  <2>1. Reopen(i, 0)
    BY <1>1, <1>7 DEF Transformed
  <2>. QED  BY <1>1, <1>2, <1>4, <1>7, <2>1, DeltaReopensStep DEF IInv, Failed
<1>. QED  BY <1>5, <1>6, <1>7

-----------------------------------------------------------------------------
(* The theorems *)

LEMMA Stepping == IInv /\ [Next]_vars => IInv'
<1>. SUFFICES ASSUME IInv, [Next]_vars PROVE IInv'
  OBVIOUS
<1>1. CASE UNCHANGED vars
  <2>1. UNCHANGED <<pc, enabled, next, seg, dropped, suppressed, tracked, maxIndex, saw,
                    view, kind, up, given, signed, newest, tangled>>
    BY <1>1 DEF vars, policy, tracker, upstream
  <2>2. Typed'
    BY <2>1 DEF IInv, Typed
  <2>3. Failed' <=> Failed
    BY <2>1 DEF Failed
  <2>4. Alive => Alive'
    <3>1. Alive /\ Phase => Phase'
      BY <2>1 DEF Phase
    <3>. QED  BY <1>1, <2>1, <3>1, QuietStep DEF Alive, vars
  <2>5. Promised => Promised'
    <3>1. WellFormed => WellFormed'
      BY <2>1 DEF WellFormed
    <3>2. FailureEnds => FailureEnds'
      BY <2>1 DEF FailureEnds
    <3>3. AllKept => AllKept'
      BY <2>1 DEF AllKept, Kept, Holds, Due, Hidden
    <3>4. BlocksWhole => BlocksWhole'
      BY <2>1 DEF BlocksWhole, ClientBlocks
    <3>5. ThinkingHidden => ThinkingHidden'
      BY <2>1 DEF ThinkingHidden
    <3>. QED  BY <3>1, <3>2, <3>3, <3>4, <3>5 DEF Promised
  <2>. QED  BY <2>2, <2>3, <2>4, <2>5 DEF IInv
<1>2. CASE Next
  <2>1. Typed /\ Alive /\ ~Failed
    BY <1>2 DEF IInv, Failed, Next, PostFails, PostAccepted, Starts, Ends, Stops, Pings,
                Errs, BlockStarts, Delta,
                Signature, BlockStops, Delivers, Running, ReadFails, BodyEnds
  <2>. QED  BY <1>2, <2>1, PostFailsStep, PostAcceptedStep, StartsStep, EndsStep, StopsStep,
               PingsStep, ErrsStep, BlockStartsStep,
               DeltaStep, SignatureStep, BlockStopsStep, ReadFailsStep, BodyEndsStep DEF Next
<1>. QED  BY <1>1, <1>2

LEMMA Promising == IInv => Promised /\ DeltasKept
<1>. SUFFICES ASSUME IInv PROVE Promised /\ DeltasKept
  OBVIOUS
<1>1. Promised
  BY AliveKeepsPromises DEF IInv
<1>2. DeltasKept
  BY <1>1, KeptIs DEF IInv, Promised
<1>. QED  BY <1>1, <1>2

LEMMA Streams == Spec => []IInv
BY Starting, Stepping, PTL DEF Spec

\* Whatever the order of the upstream's frames, those that reach the client name
\* open blocks and are numbered without a gap; blocks overlap only if the upstream
\* tangles its own, only a read error after message_stop ends the message twice, and
\* only one before message_start leaves it without one.
THEOREM StreamWellFormed == Spec => []WellFormed
<1>1. IInv => WellFormed
  BY Promising DEF Promised
<1>. QED  BY <1>1, Streams, PTL

\* A failed post or read leaves the client a message that has ended, its blocks
\* stopped and the error in a block of its own.
THEOREM FailuresEnd == Spec => []FailureEnds
<1>1. IInv => FailureEnds
  BY Promising DEF Promised
<1>. QED  BY <1>1, Streams, PTL

\* However the policy drops, closes and reopens blocks, the client has every delta
\* of a block that is not hidden, once and in order.
THEOREM NothingLost == Spec => []DeltasKept
<1>1. IInv => DeltasKept
  BY Promising
<1>. QED  BY <1>1, Streams, PTL

\* An upstream that keeps its blocks apart has none of them split.
THEOREM Unsplit == Spec => []BlocksWhole
<1>1. IInv => BlocksWhole
  BY Promising DEF Promised
<1>. QED  BY <1>1, Streams, PTL

\* A request without thinking gets at most the signature of a thinking block.
THEOREM NoThinkingShown == Spec => []ThinkingHidden
<1>1. IInv => ThinkingHidden
  BY Promising DEF Promised
<1>. QED  BY <1>1, Streams, PTL
=============================================================================
