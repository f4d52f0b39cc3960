-------------------------- MODULE ToolGuard_proofs --------------------------
(***************************************************************************)
(* Proofs about ToolGuard, for any schema, any arguments and any relation  *)
(* of names: what a tool is run with was given to it, and what was given   *)
(* under a property's name stays; and the order of the map is irrelevant   *)
(* where names are alike in pairs only.                                    *)
(*                                                                         *)
(* A value carries the name it came with, so that everything follows from  *)
(* where each value is now.  For the order: at any turn of the loop the    *)
(* arguments are those it began with, the pairs moved whose property has   *)
(* been looked at.                                                         *)
(***************************************************************************)
EXTENDS ToolGuard, FiniteSetTheorems, TLAPS

\* What the upstream sent.
Given ==
  /\ args = [k \in DOMAIN args |-> args[k]]
  /\ DOMAIN args \subseteq Keys
  /\ \A k \in DOMAIN args : args[k] \in Values /\ args[k].from = k
  /\ Alias \in DOMAIN args => "type" \in Props

\* Each value of o is one the upstream sent, and in one place.
Moved(o) ==
  /\ o = [k \in DOMAIN o |-> o[k]]
  /\ DOMAIN o \subseteq Keys
  /\ \A k \in DOMAIN o : o[k].from \in DOMAIN args /\ o[k] = args[o[k].from]
  /\ \A k, l \in DOMAIN o : o[k].from = o[l].from => k = l

\* What was given under the name of a property p is in its place in o, or was
\* empty and optional.
Kept(o, p) ==
  \/ p \in DOMAIN o /\ Aliased(o[p].from) = p
  \/ \E j \in DOMAIN args :
       Aliased(j) = p /\ p \notin schema.required /\ args[j].kind \in {"empty", "null"}

Asked == {Aliased(k) : k \in DOMAIN args} \cap Props

GuardInv ==
  /\ TypeOK
  /\ Given
  /\ Moved(obj)
  /\ pc \in {"repairing", "accepted"} => \A p \in Asked : Kept(obj, p)

-----------------------------------------------------------------------------
(* The operators *)

\* A part of the arguments is still moved ones.
LEMMA WithoutMoves ==
  ASSUME NEW o, NEW S, Moved(o)
  PROVE  /\ Moved(Without(o, S))
         /\ DOMAIN Without(o, S) = DOMAIN o \ S
         /\ \A k \in DOMAIN o \ S : Without(o, S)[k] = o[k]
BY DEF Moved, Without

\* Stripping keeps what was given, but for what is empty.
LEMMA StrippedKeeps ==
  ASSUME NEW o, Moved(o), NEW p, Kept(o, p)
  PROVE  Moved(Stripped(o)) /\ Kept(Stripped(o), p)
<1> DEFINE S == {k \in DOMAIN o \ schema.required : o[k].kind \in {"empty", "null"}}
<1>1. Stripped(o) = Without(o, S)  BY DEF Stripped
<1>2. S = {k \in DOMAIN o \ schema.required : o[k].kind \in {"empty", "null"}}  OBVIOUS
<1> HIDE DEF S
<1>3. /\ Moved(Without(o, S))
      /\ DOMAIN Without(o, S) = DOMAIN o \ S
      /\ \A k \in DOMAIN o \ S : Without(o, S)[k] = o[k]
  BY WithoutMoves
<1>4. Kept(Stripped(o), p)
  <2>1. CASE p \in DOMAIN o /\ Aliased(o[p].from) = p /\ p \notin S
    BY <2>1, <1>1, <1>3 DEF Kept
  <2>2. CASE p \in DOMAIN o /\ Aliased(o[p].from) = p /\ p \in S
    <3>1. /\ o[p].from \in DOMAIN args /\ args[o[p].from] = o[p]
          /\ p \notin schema.required /\ o[p].kind \in {"empty", "null"}
      BY <2>2, <1>2 DEF Moved
    <3>. QED  BY <3>1, <2>2 DEF Kept
  <2>3. CASE ~(p \in DOMAIN o /\ Aliased(o[p].from) = p)
    BY <2>3 DEF Kept
  <2>. QED  BY <2>1, <2>2, <2>3
<1>. QED  BY <1>1, <1>3, <1>4

\* Restoring the aliases puts each value in the place of its property.
LEMMA RestoredMoves ==
  ASSUME Given, NEW o \in Restored(args)
  PROVE  /\ Moved(o)
         /\ DOMAIN o = {Aliased(k) : k \in DOMAIN args}
         /\ Alias \notin DOMAIN o
         /\ \A p \in DOMAIN o : Aliased(o[p].from) = p
<1>1. /\ o \in [{Aliased(k) : k \in DOMAIN args} -> {args[k] : k \in DOMAIN args}]
      /\ \A p \in DOMAIN o : \E k \in DOMAIN args : Aliased(k) = p /\ o[p] = args[k]
  BY DEF Restored
<1>2. DOMAIN o = {Aliased(k) : k \in DOMAIN args} /\ o = [k \in DOMAIN o |-> o[k]]
  BY <1>1
<1>3. \A p \in DOMAIN o :
        /\ o[p].from \in DOMAIN args /\ o[p] = args[o[p].from]
        /\ Aliased(o[p].from) = p
  BY <1>1 DEF Given
<1>4. \A k \in DOMAIN args : Aliased(k) \in Keys /\ Aliased(k) # Alias
  BY GuardAssumption DEF Given, Aliased, Keys
<1>5. DOMAIN o \subseteq Keys /\ Alias \notin DOMAIN o  BY <1>2, <1>4
<1>. QED  BY <1>2, <1>3, <1>5 DEF Moved

-----------------------------------------------------------------------------
(* The invariant *)

LEMMA InitInv == Init => GuardInv
<1> SUFFICES ASSUME Init PROVE GuardInv  OBVIOUS
<1>1. PICK given \in SUBSET Keys : \E kind \in [given -> Kinds] :
        /\ Alias \in given => "type" \in Props
        /\ args = [k \in given |-> [from |-> k, kind |-> kind[k]]]
  BY DEF Init
<1>2. PICK kind \in [given -> Kinds] :
        args = [k \in given |-> [from |-> k, kind |-> kind[k]]]
  BY <1>1
<1>3. Given  BY <1>1, <1>2 DEF Given, Values
<1>4. obj = args /\ todo = {} /\ pc = "start"  BY DEF Init
<1>5. Moved(obj)  BY <1>3, <1>4 DEF Moved, Given
<1>6. schema \in [required : SUBSET (Props \cup Extras), closed : BOOLEAN] /\ like \subseteq Props \X Extras
  BY DEF Init
<1>7. TypeOK  BY <1>3, <1>4, <1>6 DEF TypeOK, Given
<1>. QED  BY <1>3, <1>4, <1>5, <1>7 DEF GuardInv

\* One turn of the loop: an argument without a property moves to a property
\* without an argument.
LEMMA RenameMoves ==
  ASSUME GuardInv, NEW p \in Props, Rename(p)
  PROVE  \/ obj' = obj /\ (p \in DOMAIN obj \/ \A x : Candidates(p) # {x})
         \/ /\ p \notin DOMAIN obj
            /\ \E x \in DOMAIN obj \ Props :
                 /\ <<p, x>> \in like
                 /\ Candidates(p) = {x}
                 /\ obj' = [k \in (DOMAIN obj \cup {p}) \ {x} |->
                              IF k = p THEN obj[x] ELSE obj[k]]
<1>1. CASE ~(p \notin DOMAIN obj /\ Cardinality(Candidates(p)) = 1)
  <2>1. obj' = obj  BY <1>1 DEF Rename
  <2>2. \A x : Cardinality({x}) = 1  BY FS_Singleton
  <2>. QED  BY <1>1, <2>1, <2>2
<1>2. CASE p \notin DOMAIN obj /\ Cardinality(Candidates(p)) = 1
  <2>1. IsFiniteSet(Candidates(p))
    <3>1. IsFiniteSet(Extras) /\ Candidates(p) \subseteq Extras
      BY GuardAssumption DEF GuardInv, TypeOK, Candidates
    <3>. QED  BY <3>1, FS_Subset
  <2>2. PICK x : Candidates(p) = {x}  BY <1>2, <2>1, FS_Singleton
  <2>3. (CHOOSE y \in Candidates(p) : TRUE) = x  BY <2>2
  <2>4. x \in DOMAIN obj \ Props /\ <<p, x>> \in like  BY <2>2 DEF Candidates
  <2>5. obj' = [k \in (DOMAIN obj \cup {p}) \ {x} |-> IF k = p THEN obj[x] ELSE obj[k]]
    BY <1>2, <2>2, <2>3 DEF Rename
  <2>. QED  BY <1>2, <2>2, <2>4, <2>5
<1>. QED  BY <1>1, <1>2

\* A new obj that is well placed is all a step has to show.
LEMMA StepInv ==
  ASSUME GuardInv, UNCHANGED <<schema, repair, like, args>>,
         NEW q, obj' = q, Moved(q),
         todo' \subseteq Props,
         pc' \in {"start", "repairing", "accepted", "refused", "unread"},
         pc' \in {"repairing", "accepted"} =>
           Alias \notin DOMAIN q /\ \A p \in Asked : Kept(q, p)
  PROVE  GuardInv'
<1>1. Given'  BY DEF GuardInv, Given
<1>2. Moved(obj)'  BY DEF Moved
<1>3. \A k \in DOMAIN q : q[k] \in Values  BY DEF GuardInv, Moved, Given
<1>4. TypeOK'  BY <1>1, <1>3 DEF GuardInv, TypeOK, Moved, Given
<1>5. ASSUME pc' \in {"repairing", "accepted"}, NEW p \in Asked' PROVE Kept(obj, p)'
  <2>1. p \in Asked  BY DEF Asked
  <2>2. Kept(q, p)  BY <1>5, <2>1
  <2>. QED  BY <2>2 DEF Kept
<1>. QED  BY <1>1, <1>2, <1>4, <1>5 DEF GuardInv

LEMMA ValidateInv == GuardInv /\ Validate => GuardInv'
<1> SUFFICES ASSUME GuardInv, Validate PROVE GuardInv'  OBVIOUS
<1>1. PICK o \in Restored(args) :
        /\ obj' = Stripped(o)
        /\ pc' \in {"repairing", "accepted", "refused"}
  BY DEF Validate
<1>2. /\ Moved(o)
      /\ DOMAIN o = {Aliased(k) : k \in DOMAIN args}
      /\ Alias \notin DOMAIN o
      /\ \A p \in DOMAIN o : Aliased(o[p].from) = p
  BY RestoredMoves DEF GuardInv
<1>3. PICK q : q = Stripped(o)  OBVIOUS
<1>4. Moved(q) /\ DOMAIN q \subseteq DOMAIN o
  BY <1>2, <1>3, WithoutMoves DEF Stripped
<1>5. \A p \in Asked : Kept(q, p)
  <2>1. SUFFICES ASSUME NEW p \in Asked PROVE Kept(q, p)  OBVIOUS
  <2>2. Kept(o, p)  BY <1>2 DEF Kept, Asked
  <2>. QED  BY <1>2, <1>3, <2>2, StrippedKeeps
<1>6. UNCHANGED <<schema, repair, like, args>> /\ todo' \subseteq Props  BY DEF Validate
<1>. QED  BY <1>1, <1>2, <1>3, <1>4, <1>5, <1>6, StepInv

LEMMA RenameInv ==
  ASSUME GuardInv, NEW p \in Props, Rename(p)
  PROVE  GuardInv'
<1>inv. Moved(obj) /\ TypeOK /\ \A r \in Asked : Kept(obj, r)
  BY DEF GuardInv, Rename
<1>same. /\ UNCHANGED <<schema, repair, like, args>>
         /\ todo' \subseteq Props /\ pc' = "repairing" /\ pc = "repairing"
  BY <1>inv DEF Rename, TypeOK
<1>1. CASE obj' = obj
  BY <1>1, <1>inv, <1>same, StepInv DEF TypeOK
<1>2. CASE p \notin DOMAIN obj /\ \E x \in DOMAIN obj \ Props :
             obj' = [k \in (DOMAIN obj \cup {p}) \ {x} |-> IF k = p THEN obj[x] ELSE obj[k]]
  <2>1. PICK x \in DOMAIN obj \ Props :
          obj' = [k \in (DOMAIN obj \cup {p}) \ {x} |-> IF k = p THEN obj[x] ELSE obj[k]]
    BY <1>2
  <2>2. PICK q :
          q = [k \in (DOMAIN obj \cup {p}) \ {x} |-> IF k = p THEN obj[x] ELSE obj[k]]
    OBVIOUS
  <2>3. /\ q = [k \in DOMAIN q |-> q[k]]
        /\ DOMAIN q = (DOMAIN obj \cup {p}) \ {x}
        /\ \A k \in DOMAIN q : q[k] = IF k = p THEN obj[x] ELSE obj[k]
    BY <2>2
  <2>4. Moved(q)
    <3>1. DOMAIN q \subseteq Keys  BY <2>3, <1>inv DEF Moved, Keys
    <3>2. \A k \in DOMAIN q : q[k].from \in DOMAIN args /\ q[k] = args[q[k].from]
      BY <2>3, <1>inv DEF Moved
    <3>3. ASSUME NEW k \in DOMAIN q, NEW l \in DOMAIN q, q[k].from = q[l].from
          PROVE  k = l
      BY <3>3, <2>3, <1>2, <1>inv DEF Moved
    <3>. QED  BY <2>3, <3>1, <3>2, <3>3 DEF Moved
  <2>5. \A r \in Asked : Kept(q, r)
    BY <2>3, <1>2, <1>inv DEF Kept, Asked
  <2>6. Alias \notin DOMAIN q
    BY <2>3, <1>inv, <1>same, GuardAssumption DEF TypeOK
  <2>. QED  BY <2>1, <2>2, <2>4, <2>5, <2>6, <1>same, StepInv
<1>. QED  BY <1>1, <1>2, RenameMoves

LEMMA RepairedInv == GuardInv /\ Repaired => GuardInv'
<1> SUFFICES ASSUME GuardInv, Repaired PROVE GuardInv'  OBVIOUS
<1>inv. Moved(obj) /\ TypeOK /\ \A r \in Asked : Kept(obj, r)
  BY DEF GuardInv, Repaired
<1>same. /\ UNCHANGED <<schema, repair, like, args>>
         /\ todo' \subseteq Props /\ pc' \in {"accepted", "refused"} /\ pc = "repairing"
  BY <1>inv DEF Repaired, TypeOK
<1>1. CASE ~Renamed
  <2>1. obj' = obj  BY <1>1 DEF Repaired
  <2>. QED  BY <2>1, <1>inv, <1>same, StepInv DEF TypeOK
<1>2. CASE Renamed
  <2>1. PICK o : o = Without(obj, Extras)  OBVIOUS
  <2>2. PICK q : q = Stripped(o)  OBVIOUS
  <2>3. obj' = q  BY <1>2, <2>1, <2>2 DEF Repaired
  <2>4. /\ Moved(o)
        /\ DOMAIN o = DOMAIN obj \ Extras
        /\ \A k \in DOMAIN o : o[k] = obj[k]
    BY <2>1, <1>inv DEF Without, Moved
  <2>5. Moved(q) /\ DOMAIN q \subseteq DOMAIN o
    BY <2>2, <2>4 DEF Stripped, Without, Moved
  <2>6. \A r \in Asked : Kept(q, r)
    <3>1. SUFFICES ASSUME NEW r \in Asked PROVE Kept(q, r)  OBVIOUS
    <3>2. Kept(o, r)
      BY <2>4, <1>inv, GuardAssumption DEF Kept, Asked
    <3>. QED  BY <2>2, <2>4, <3>2, StrippedKeeps
  <2>7. Alias \notin DOMAIN q  BY <2>4, <2>5, <1>inv, <1>same DEF TypeOK
  <2>. QED  BY <2>3, <2>5, <2>6, <2>7, <1>same, StepInv
<1>. QED  BY <1>1, <1>2

LEMMA NextInv == GuardInv /\ [Next]_vars => GuardInv'
<1> SUFFICES ASSUME GuardInv, [Next]_vars PROVE GuardInv'  OBVIOUS
<1>1. CASE Refuse
  BY <1>1, StepInv DEF GuardInv, TypeOK, Refuse
<1>2. CASE Validate  BY <1>2, ValidateInv
<1>3. ASSUME NEW p \in Props, Rename(p) PROVE GuardInv'  BY <1>3, RenameInv
<1>4. CASE Repaired  BY <1>4, RepairedInv
<1>5. CASE UNCHANGED vars
  BY <1>5, StepInv DEF GuardInv, TypeOK, vars
<1>. QED  BY <1>1, <1>2, <1>3, <1>4, <1>5 DEF Next

LEMMA GuardInvHolds == Spec => []GuardInv
BY InitInv, NextInv, PTL DEF Spec

-----------------------------------------------------------------------------
(* What a tool is run with *)

\* The variables of Validate keep their types, and no alias is left in
\* arguments that are let through.
THEOREM Types == Spec => []TypeOK
<1>1. GuardInv => TypeOK  BY DEF GuardInv
<1>. QED  BY <1>1, GuardInvHolds, PTL

\* Stripping, renaming and cleaning up neither make up a value nor use one
\* twice, whatever the order of the map.
THEOREM NothingMadeUp == Spec => []ValuesMoved
<1>1. GuardInv => ValuesMoved  BY DEF GuardInv, Moved, ValuesMoved
<1>. QED  BY <1>1, GuardInvHolds, PTL

\* What the upstream gave under a property's name, or its alias, is what the
\* tool is run with, unless it was empty and optional.
THEOREM GivenStays == Spec => []GivenKept
<1>1. GuardInv => GivenKept  BY DEF GuardInv, Asked, Kept, GivenKept
<1>. QED  BY <1>1, GuardInvHolds, PTL

-----------------------------------------------------------------------------
(* The order of the map *)

\* The pairs of which the loop has looked at the property.
Seen == {pair \in Pairs : pair[1] \notin todo}

\* The loop has moved these and no others.
Turned ==
  /\ DOMAIN obj = (DOMAIN Base \ {pair[2] : pair \in Seen}) \cup {pair[1] : pair \in Seen}
  /\ \A k \in DOMAIN Base \ {pair[2] : pair \in Seen} : obj[k] = Base[k]
  /\ \A pair \in Seen : obj[pair[1]] = Base[pair[2]]

OrderInv ==
  /\ pc = "repairing" /\ Unambiguous => repair /\ ~Valid(Base) /\ Turned
  /\ OrderIrrelevant

\* What the call comes to, whatever the order.
Settled ==
  /\ (pc = "accepted") <=> (Valid(Base) \/ (repair /\ Pairs # {} /\ Valid(Mended)))
  /\ pc = "accepted" => obj = IF Valid(Base) THEN Base ELSE Mended

\* Base is what one order of restoring the aliases leads to.
LEMMA BaseMoves ==
  ASSUME Given
  PROVE  /\ Moved(Base)
         /\ Alias \notin DOMAIN Base
         /\ \A p \in DOMAIN Base :
              /\ Aliased(Base[p].from) = p
              /\ p \notin schema.required => Base[p].kind \notin {"empty", "null"}
<1>1. PICK r : r = [p \in {Aliased(k) : k \in DOMAIN args} |->
                      args[CHOOSE k \in DOMAIN args : Aliased(k) = p]]
  OBVIOUS
<1>2. r \in Restored(args)
  <2>1. r \in [{Aliased(k) : k \in DOMAIN args} -> {args[k] : k \in DOMAIN args}]
    BY <1>1
  <2>2. \A p \in DOMAIN r : \E k \in DOMAIN args : Aliased(k) = p /\ r[p] = args[k]
    BY <1>1
  <2>. QED  BY <2>1, <2>2 DEF Restored
<1>3. Base = Stripped(r)  BY <1>1 DEF Base
<1>4. Moved(r) /\ Alias \notin DOMAIN r /\ \A p \in DOMAIN r : Aliased(r[p].from) = p
  BY <1>2, RestoredMoves
<1>5. /\ Moved(Stripped(r)) /\ DOMAIN Stripped(r) \subseteq DOMAIN r
      /\ \A p \in DOMAIN Stripped(r) : Stripped(r)[p] = r[p]
      /\ \A p \in DOMAIN Stripped(r) :
           p \notin schema.required => r[p].kind \notin {"empty", "null"}
  BY <1>4 DEF Stripped, Without, Moved
<1>. QED  BY <1>3, <1>4, <1>5

\* All orders of restoring do, unless a property came under both its names.
LEMMA RestoredOnce ==
  ASSUME Given, Unambiguous, NEW o \in Restored(args)
  PROVE  Stripped(o) = Base
<1>1. PICK r : r = [p \in {Aliased(k) : k \in DOMAIN args} |->
                      args[CHOOSE k \in DOMAIN args : Aliased(k) = p]]
  OBVIOUS
<1>2. Base = Stripped(r)  BY <1>1 DEF Base
<1>3. \A k, l \in DOMAIN args : Aliased(k) = Aliased(l) => k = l
  BY DEF Given, Unambiguous, Aliased
<1>4. /\ o \in [{Aliased(k) : k \in DOMAIN args} -> {args[k] : k \in DOMAIN args}]
      /\ \A p \in DOMAIN o : \E k \in DOMAIN args : Aliased(k) = p /\ o[p] = args[k]
  BY DEF Restored
<1>5. \A p \in {Aliased(k) : k \in DOMAIN args} : o[p] = r[p]
  BY <1>1, <1>3, <1>4
<1>6. o = r  BY <1>1, <1>4, <1>5
<1>. QED  BY <1>2, <1>6

\* The two names of a pair.
LEMMA PairNames ==
  ASSUME TypeOK, NEW pair \in Pairs
  PROVE  /\ pair[1] \in Props /\ pair[1] \notin DOMAIN Base
         /\ pair[2] \in Extras /\ pair[2] \in DOMAIN Base
         /\ pair[2] \notin Props
         /\ pair = <<pair[1], pair[2]>>
BY GuardAssumption DEF TypeOK, Pairs

\* What Base and the pairs depend on does not change.
LEMMA Constant ==
  ASSUME UNCHANGED <<schema, repair, like, args>>
  PROVE  /\ Base' = Base /\ Pairs' = Pairs /\ Mended' = Mended
         /\ Unambiguous' <=> Unambiguous
         /\ Valid(Base)' <=> Valid(Base)
         /\ Valid(Mended)' <=> Valid(Mended)
<1>1. Base' = Base  BY DEF Base, Stripped, Without
<1>2. Pairs' = Pairs  BY <1>1 DEF Pairs
<1>3. Mended' = Mended  BY <1>1, <1>2 DEF Mended, Moves, Stripped, Without
<1>4. Unambiguous' <=> Unambiguous  BY <1>2 DEF Unambiguous
<1>. QED  BY <1>1, <1>2, <1>3, <1>4 DEF Valid

LEMMA ValidateOrder ==
  ASSUME GuardInv, Validate
  PROVE  OrderInv'
<1>1. PICK o \in Restored(args) :
        /\ obj' = Stripped(o)
        /\ pc' = CASE Valid(Stripped(o)) -> "accepted"
                   [] ~Valid(Stripped(o)) /\ repair /\ Props # {} -> "repairing"
                   [] OTHER -> "refused"
  BY DEF Validate
<1>2. todo' = Props /\ UNCHANGED <<schema, repair, like, args>>  BY DEF Validate
<1>3. SUFFICES ASSUME Unambiguous
               PROVE  /\ pc' = "repairing" => (repair /\ ~Valid(Base) /\ Turned)'
                      /\ pc' \in {"accepted", "refused"} => Settled'
  BY <1>2, Constant DEF OrderInv, OrderIrrelevant, Settled
<1>4. Stripped(o) = Base  BY <1>3, RestoredOnce DEF GuardInv
<1>5. obj' = Base /\ pc' = CASE Valid(Base) -> "accepted"
                             [] ~Valid(Base) /\ repair /\ Props # {} -> "repairing"
                             [] OTHER -> "refused"
  BY <1>1, <1>4
<1>6. \A pair \in Pairs : pair[1] \in Props  BY PairNames DEF GuardInv
<1>7. CASE Valid(Base)
  <2>1. pc' = "accepted"  BY <1>5, <1>7
  <2>. QED  BY <2>1, <1>2, <1>5, <1>7, Constant DEF Settled
<1>8. CASE ~Valid(Base) /\ repair /\ Props # {}
  <2>1. pc' = "repairing"  BY <1>5, <1>8
  <2>2. Seen' = {}  BY <1>2, <1>6, Constant DEF Seen
  <2>3. Turned'  BY <2>2, <1>2, <1>5, Constant DEF Turned
  <2>. QED  BY <2>1, <2>3, <1>2, <1>8, Constant
<1>9. CASE ~Valid(Base) /\ ~(repair /\ Props # {})
  <2>1. pc' = "refused"  BY <1>5, <1>9
  <2>2. ~(repair /\ Pairs # {})  BY <1>6, <1>9
  <2>. QED  BY <2>1, <2>2, <1>2, <1>9, Constant DEF Settled
<1>. QED  BY <1>7, <1>8, <1>9

\* A property that is missing and has its argument takes it, whatever was moved
\* before: no other property could have taken that argument.
LEMMA RenameTurns ==
  ASSUME GuardInv, Unambiguous, Turned, NEW p \in Props, Rename(p)
  PROVE  Turned'
<1>same. /\ UNCHANGED <<schema, repair, like, args>>
         /\ todo' = todo \ {p} /\ p \in todo
  BY DEF Rename
<1>names. \A pair \in Pairs :
            /\ pair[1] \in Props /\ pair[1] \notin DOMAIN Base
            /\ pair[2] \in Extras /\ pair[2] \in DOMAIN Base
            /\ pair[2] \notin Props
            /\ pair = <<pair[1], pair[2]>>
  BY PairNames DEF GuardInv
<1>alone. \A a, b \in Pairs : a[1] = b[1] \/ a[2] = b[2] => a = b
  BY DEF Unambiguous
<1>1. \A pair \in Seen : pair \in Pairs /\ pair[1] # p  BY <1>same DEF Seen
<1>2. ASSUME \A x : <<p, x>> \notin Pairs, obj' = obj PROVE Turned'
  <2>1. \A pair \in Pairs : pair[1] # p  BY <1>2, <1>names
  <2>2. Seen' = Seen  BY <2>1, <1>same, Constant DEF Seen
  <2>. QED  BY <2>2, <1>2, <1>same, Constant DEF Turned
<1>3. CASE p \in DOMAIN Base
  <2>1. \A x : <<p, x>> \notin Pairs  BY <1>3, <1>names
  <2>2. p \in DOMAIN obj  BY <1>1, <1>3, <1>names DEF Turned
  <2>. QED  BY <2>1, <2>2, <1>2, RenameMoves
<1>4. CASE p \notin DOMAIN Base
  <2>1. p \notin DOMAIN obj
    BY <1>1, <1>4 DEF Turned
  <2>2. ASSUME NEW x \in Candidates(p) PROVE <<p, x>> \in Pairs
    <3>1. x \in DOMAIN obj /\ x \notin Props /\ <<p, x>> \in like  BY DEF Candidates
    <3>2. x \in DOMAIN Base  BY <3>1, <1>1, <1>names DEF Turned
    <3>. QED  BY <3>1, <3>2, <1>4 DEF Pairs
  <2>3. ASSUME NEW x, <<p, x>> \in Pairs PROVE x \in Candidates(p)
    <3>1. x \in DOMAIN Base /\ x \notin Props /\ <<p, x>> \in like
      BY <2>3, <1>names DEF Pairs
    <3>2. \A pair \in Seen : pair[2] # x
      BY <2>3, <1>1, <1>alone
    <3>. QED  BY <3>1, <3>2 DEF Turned, Candidates
  <2>4. CASE \A x : <<p, x>> \notin Pairs
    <3>1. Candidates(p) = {}  BY <2>2, <2>4
    <3>. QED  BY <3>1, <2>4, <1>2, RenameMoves
  <2>5. CASE \E x : <<p, x>> \in Pairs
    <3>1. PICK x : <<p, x>> \in Pairs  BY <2>5
    <3>2. \A y : <<p, y>> \in Pairs => y = x
      <4>1. \A y : <<p, y>> \in Pairs => <<p, y>> = <<p, x>>  BY <3>1, <1>alone
      <4>. QED  BY <4>1
    <3>3. Candidates(p) = {x}  BY <3>1, <3>2, <2>2, <2>3
    <3>4. obj' = [k \in (DOMAIN obj \cup {p}) \ {x} |-> IF k = p THEN obj[x] ELSE obj[k]]
      <4>1. \A y : Candidates(p) = {y} => y = x  BY <3>3
      <4>2. obj' # obj => obj' = [k \in (DOMAIN obj \cup {p}) \ {x} |->
                                    IF k = p THEN obj[x] ELSE obj[k]]
        BY <4>1, RenameMoves
      <4>3. QED  BY <4>2, <3>3, <2>1, RenameMoves
    <3>5. \A pair : pair \in Seen' <=> pair \in Seen \/ pair = <<p, x>>
      <4>1. \A pair \in Pairs : pair[1] = p => pair = <<p, x>>  BY <3>2, <1>names
      <4>. QED  BY <4>1, <3>1, <1>same, Constant DEF Seen
    <3>6. /\ {pair[2] : pair \in Seen'} = {pair[2] : pair \in Seen} \cup {x}
          /\ {pair[1] : pair \in Seen'} = {pair[1] : pair \in Seen} \cup {p}
      <4>1. PICK M : M = Seen  OBVIOUS
      <4>2. Seen' = M \cup {<<p, x>>}  BY <3>5, <4>1
      <4>3. {pair[2] : pair \in M \cup {<<p, x>>}} = {pair[2] : pair \in M} \cup {x}
        <5>1. PICK q : q = <<p, x>>  OBVIOUS
        <5>2. q[2] = x  BY <5>1
        <5>3. {pair[2] : pair \in M \cup {q}} = {pair[2] : pair \in M} \cup {q[2]}
          OBVIOUS
        <5>. QED  BY <5>1, <5>2, <5>3
      <4>4. {pair[1] : pair \in M \cup {<<p, x>>}} = {pair[1] : pair \in M} \cup {p}
        <5>1. PICK q : q = <<p, x>>  OBVIOUS
        <5>2. q[1] = p  BY <5>1
        <5>3. {pair[1] : pair \in M \cup {q}} = {pair[1] : pair \in M} \cup {q[1]}
          OBVIOUS
        <5>. QED  BY <5>1, <5>2, <5>3
      <4>. QED  BY <4>1, <4>2, <4>3, <4>4
    <3>7. x \in DOMAIN Base /\ x \notin {pair[2] : pair \in Seen} /\ x \notin Props
      BY <3>1, <1>1, <1>names, <1>alone
    <3>8. \A pair \in Seen : pair[1] \in Props /\ pair[1] # p  BY <1>1, <1>names
    <3>9. DOMAIN obj' = (DOMAIN Base \ {pair[2] : pair \in Seen'})
                          \cup {pair[1] : pair \in Seen'}
      <4>1. PICK From, To : /\ From = {pair[2] : pair \in Seen}
                            /\ To = {pair[1] : pair \in Seen}
        OBVIOUS
      <4>2. DOMAIN obj = (DOMAIN Base \ From) \cup To  BY <4>1 DEF Turned
      <4>3. DOMAIN obj' = (DOMAIN obj \cup {p}) \ {x}  BY <3>4
      <4>4. x \notin To /\ x # p  BY <4>1, <3>7, <3>8
      <4>5. DOMAIN obj' = (DOMAIN Base \ (From \cup {x})) \cup (To \cup {p})
        BY <4>2, <4>3, <4>4
      <4>. QED  BY <4>1, <4>5, <3>6
    <3>10. \A k \in DOMAIN Base \ {pair[2] : pair \in Seen'} : obj'[k] = Base[k]
      BY <3>4, <3>6, <1>4 DEF Turned
    <3>11. ASSUME NEW pair \in Seen' PROVE obj'[pair[1]] = Base[pair[2]]
      <4>1. CASE pair = <<p, x>>
        <5>1. obj'[p] = obj[x]  BY <3>4, <3>7
        <5>2. obj[x] = Base[x]  BY <3>7 DEF Turned
        <5>. QED  BY <4>1, <5>1, <5>2
      <4>2. CASE pair \in Seen
        <5>1. pair[1] \in DOMAIN obj /\ obj[pair[1]] = Base[pair[2]]  BY <4>2 DEF Turned
        <5>2. pair[1] # x  BY <4>2, <3>7, <3>8
        <5>. QED  BY <5>1, <5>2, <4>2, <3>4, <3>8
      <4>. QED  BY <4>1, <4>2, <3>5
    <3>. QED  BY <3>9, <3>10, <3>11, <1>same, Constant DEF Turned
  <2>. QED  BY <2>4, <2>5
<1>. QED  BY <1>3, <1>4

\* After the loop every pair has been moved, and what else is left goes.
LEMMA RepairedOrder ==
  ASSUME GuardInv, OrderInv, Repaired
  PROVE  OrderInv'
<1>same. /\ UNCHANGED <<schema, repair, like, args>>
         /\ todo = {} /\ pc = "repairing" /\ pc' \in {"accepted", "refused"}
  BY DEF Repaired
<1>1. SUFFICES ASSUME Unambiguous PROVE Settled'
  BY <1>same, Constant DEF OrderInv, OrderIrrelevant, Settled
<1>2. repair /\ ~Valid(Base) /\ Turned  BY <1>1, <1>same DEF OrderInv
<1>3. Seen = Pairs  BY <1>same DEF Seen
<1>names. \A pair \in Pairs :
            /\ pair[1] \in Props /\ pair[1] \notin DOMAIN Base
            /\ pair[2] \in Extras /\ pair[2] \in DOMAIN Base
            /\ pair[2] \notin Props
  BY PairNames DEF GuardInv
<1>base. /\ Moved(Base)
         /\ Alias \notin DOMAIN Base
         /\ \A p \in DOMAIN Base :
              /\ Aliased(Base[p].from) = p
              /\ p \notin schema.required => Base[p].kind \notin {"empty", "null"}
  BY BaseMoves DEF GuardInv
<1>4. Renamed <=> Pairs # {}
  <2>1. ASSUME NEW pair \in Pairs PROVE Renamed
    <3>1. pair[1] \in DOMAIN obj /\ obj[pair[1]] = Base[pair[2]]
      BY <1>2, <1>3 DEF Turned
    <3>2. Aliased(Base[pair[2]].from) = pair[2]  BY <1>base, <1>names
    <3>3. Base[pair[2]].from \in Extras
      BY <3>2, <1>names, GuardAssumption DEF Aliased
    <3>. QED  BY <3>1, <3>3, <1>names DEF Renamed
  <2>2. ASSUME Pairs = {} PROVE ~Renamed
    <3>1. DOMAIN obj = DOMAIN Base /\ \A k \in DOMAIN Base : obj[k] = Base[k]
      BY <2>2, <1>2, <1>3 DEF Turned
    <3>2. \A p \in DOMAIN Base : Aliased(Base[p].from) = p  BY <1>base
    <3>3. \A p \in Props \cap DOMAIN Base : Base[p].from \notin Extras
      BY <3>2, GuardAssumption DEF Aliased
    <3>. QED  BY <3>1, <3>3 DEF Renamed
  <2>. QED  BY <2>1, <2>2
<1>5. CASE Pairs = {}
  <2>1. pc' = "refused"  BY <1>4, <1>5 DEF Repaired
  <2>. QED  BY <2>1, <1>2, <1>5, <1>same, Constant DEF Settled
<1>6. CASE Pairs # {}
  <2>1. PICK o : o = Without(obj, Extras)  OBVIOUS
  <2>2. /\ DOMAIN o = DOMAIN obj \ Extras
        /\ o = [k \in DOMAIN o |-> o[k]]
        /\ \A k \in DOMAIN o : o[k] = obj[k]
    BY <2>1 DEF Without
  <2>3. DOMAIN Moves = (DOMAIN Base \cap Props) \cup {pair[1] : pair \in Pairs}
    BY DEF Moves
  <2>4. DOMAIN o = DOMAIN Moves
    <3>1. DOMAIN Base \subseteq Props \cup Extras  BY <1>base DEF Moved, Keys
    <3>. QED  BY <3>1, <2>2, <2>3, <1>2, <1>3, <1>names, GuardAssumption DEF Turned
  <2>5. ASSUME NEW k \in DOMAIN o
        PROVE  o[k] = Moves[k]
    <3>1. CASE k \in DOMAIN Base
      <4>1. Moves[k] = Base[k]  BY <2>4, <3>1 DEF Moves
      <4>2. k \in Props
        BY <2>3, <2>4, <3>1, <1>names
      <4>3. obj[k] = Base[k]  BY <4>2, <3>1, <1>2, <1>3, <1>names DEF Turned
      <4>. QED  BY <4>1, <4>3, <2>2
    <3>2. CASE k \notin DOMAIN Base
      <4>1. PICK pair \in Pairs : pair[1] = k  BY <2>3, <2>4, <3>2
      <4>2. (CHOOSE q \in Pairs : q[1] = k) = pair  BY <4>1, <1>1 DEF Unambiguous
      <4>3. Moves[k] = Base[pair[2]]  BY <4>2, <2>4, <3>2 DEF Moves
      <4>4. obj[k] = Base[pair[2]]  BY <4>1, <1>2, <1>3 DEF Turned
      <4>. QED  BY <4>3, <4>4, <2>2
    <3>. QED  BY <3>1, <3>2
  <2>6. o = Moves
    <3>1. Moves = [k \in DOMAIN Moves |-> Moves[k]]  BY DEF Moves
    <3>. QED  BY <3>1, <2>2, <2>4, <2>5
  <2>7. /\ obj' = Mended
        /\ pc' = IF Valid(Mended) THEN "accepted" ELSE "refused"
    BY <1>4, <1>6, <2>1, <2>6 DEF Repaired, Mended
  <2>. QED  BY <2>7, <1>2, <1>6, <1>same, Constant DEF Settled
<1>. QED  BY <1>5, <1>6

LEMMA OrderHolds == Spec => []OrderInv
<1>1. Init => OrderInv  BY DEF Init, OrderInv, OrderIrrelevant
<1>2. GuardInv /\ OrderInv /\ [Next]_vars => OrderInv'
  <2> SUFFICES ASSUME GuardInv, OrderInv, [Next]_vars PROVE OrderInv'  OBVIOUS
  <2>1. CASE Refuse
    BY <2>1 DEF Refuse, OrderInv, OrderIrrelevant
  <2>2. CASE Validate  BY <2>2, ValidateOrder
  <2>3. ASSUME NEW p \in Props, Rename(p) PROVE OrderInv'
    <3>1. pc = "repairing" /\ pc' = "repairing" /\ UNCHANGED <<schema, repair, like, args>>
      BY <2>3 DEF Rename
    <3>2. Unambiguous => repair /\ ~Valid(Base) /\ Turned'
      BY <2>3, <3>1, RenameTurns DEF OrderInv
    <3>. QED  BY <3>1, <3>2, Constant DEF OrderInv, OrderIrrelevant
  <2>4. CASE Repaired  BY <2>4, RepairedOrder
  <2>5. CASE UNCHANGED vars
    <3>1. UNCHANGED <<schema, repair, like, args>> /\ UNCHANGED <<obj, todo, pc>>
      BY <2>5 DEF vars
    <3>2. Turned' <=> Turned  BY <3>1, Constant DEF Turned, Seen
    <3>. QED  BY <3>1, <3>2, Constant DEF OrderInv, OrderIrrelevant
  <2>. QED  BY <2>1, <2>2, <2>3, <2>4, <2>5 DEF Next
<1>. QED  BY <1>1, <1>2, GuardInvHolds, PTL DEF Spec

\* The arguments a tool is run with, and whether it is, are the same in every
\* order of the map, as long as missing properties and unknown arguments have
\* names alike in pairs only.
THEOREM AnyOrder == Spec => []OrderIrrelevant
<1>1. OrderInv => OrderIrrelevant  BY DEF OrderInv
<1>. QED  BY <1>1, OrderHolds, PTL
=============================================================================
