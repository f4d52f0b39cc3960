------------------------------ MODULE ToolGuard ------------------------------
(***************************************************************************)
(* Validate and repair of the arguments of one tool call                   *)
(* (internal/provider/toolguard/toolguard.go), with the aliases of         *)
(* internal/provider/toolargs restored first.                              *)
(*                                                                         *)
(* The repair gives a property that is missing the value of an argument    *)
(* the schema does not know, if exactly one has a name like it.  It goes   *)
(* through the properties in the order of a Go map, which is any.          *)
(*                                                                         *)
(* A schema is [required, closed]: the required names, be they properties  *)
(* or not, and whether names other than properties are refused; that they  *)
(* have a schema of their own (additionalProperties) and limits to their   *)
(* number are left out.  A value is [from, kind]: the argument it came     *)
(* with and "good" or "bad", for what its property accepts or not, "empty" *)
(* for "", which a property accepts, or "null", which it does not.  Nested *)
(* values are not told apart further.  Two names are alike when, letters   *)
(* and digits alone and in lower case, one contains the other; like may be *)
(* any relation here.                                                      *)
(***************************************************************************)
EXTENDS Integers, FiniteSets

CONSTANTS
  Props,    \* the properties of the schema, "type" among them or not
  Extras,   \* other names of arguments
  MaxArgs   \* bound: arguments of a call

Alias == "_fcc_arg_type"

Keys == Props \cup Extras \cup {Alias}

ASSUME GuardAssumption ==
  /\ Props \cap Extras = {} /\ Alias \notin Props \cup Extras
  /\ IsFiniteSet(Props) /\ IsFiniteSet(Extras) /\ MaxArgs \in Nat

VARIABLES
  schema,  \* the tool's input_schema
  repair,  \* malformed_arguments = "repair"
  like,    \* the pairs of a property and an extra with names alike
  args,    \* what the upstream sent
  obj,     \* what it is made to
  todo,    \* the properties repairObjectArgs has yet to look at
  pc       \* "start", "repairing", "accepted", "refused", "unread"

vars == <<schema, repair, like, args, obj, todo, pc>>

Kinds == {"good", "bad", "empty", "null"}

Values == [from : Keys, kind : Kinds]

\* SanitizeParameters: the upstream knows the property type by an alias.
Aliased(k) == IF k = Alias /\ "type" \in Props THEN "type" ELSE k

Init ==
  /\ schema \in [required : SUBSET (Props \cup Extras), closed : BOOLEAN]
  /\ repair \in BOOLEAN
  /\ like \in SUBSET (Props \X Extras)
  /\ \E given \in SUBSET Keys :
       /\ Cardinality(given) <= MaxArgs
       /\ Alias \in given => "type" \in Props
       /\ \E kind \in [given -> Kinds] :
            args = [k \in given |-> [from |-> k, kind |-> kind[k]]]
  /\ obj = args
  /\ todo = {}
  /\ pc = "start"

Without(o, dropped) == [k \in DOMAIN o \ dropped |-> o[k]]

\* restoreAliasValue: which value stays when a property comes under both its
\* names depends on the order of the map.
Restored(o) ==
  {r \in [{Aliased(k) : k \in DOMAIN o} -> {o[k] : k \in DOMAIN o}] :
     \A p \in DOMAIN r : \E k \in DOMAIN o : Aliased(k) = p /\ r[p] = o[k]}

\* stripEmptyOptionalArgs
Stripped(o) ==
  Without(o, {k \in DOMAIN o \ schema.required : o[k].kind \in {"empty", "null"}})

\* validAgainstSchema
Valid(o) ==
  /\ schema.required \subseteq DOMAIN o
  /\ schema.closed => DOMAIN o \subseteq Props
  /\ \A p \in DOMAIN o \cap Props : o[p].kind \in {"good", "empty"}

\* The tool is not known or the arguments are no JSON object.
Refuse ==
  /\ pc = "start"
  /\ pc' = "unread"
  /\ UNCHANGED <<schema, repair, like, args, obj, todo>>

\* Validate up to the first look at the schema.
Validate ==
  /\ pc = "start"
  /\ \E o \in Restored(args) :
       /\ obj' = Stripped(o)
       /\ pc' = CASE Valid(Stripped(o)) -> "accepted"
                  [] ~Valid(Stripped(o)) /\ repair /\ Props # {} -> "repairing"
                  [] OTHER -> "refused"
  /\ todo' = Props
  /\ UNCHANGED <<schema, repair, like, args>>

\* repairKeyCandidate: the extras a property may take its value from.
Candidates(p) == {x \in DOMAIN obj \ Props : <<p, x>> \in like}

\* Mutant of Rename: a property that is there is looked at as well.
Rename_Overwrites(p) ==
  /\ pc = "repairing" /\ p \in todo
  /\ todo' = todo \ {p}
  /\ IF Cardinality(Candidates(p)) = 1
       THEN obj' = [k \in (DOMAIN obj \cup {p}) \ Candidates(p) |->
              IF k = p THEN obj[CHOOSE x \in Candidates(p) : TRUE] ELSE obj[k]]
       ELSE UNCHANGED obj
  /\ UNCHANGED <<schema, repair, like, args, pc>>

\* Mutant of Rename: the value stays under its old name as well.
Rename_Copies(p) ==
  /\ pc = "repairing" /\ p \in todo
  /\ todo' = todo \ {p}
  /\ IF p \notin DOMAIN obj /\ Cardinality(Candidates(p)) = 1
       THEN obj' = [k \in DOMAIN obj \cup {p} |->
              IF k = p THEN obj[CHOOSE x \in Candidates(p) : TRUE] ELSE obj[k]]
       ELSE UNCHANGED obj
  /\ UNCHANGED <<schema, repair, like, args, pc>>

\* One turn of the loop in repairObjectArgs.
Rename(p) ==
  /\ pc = "repairing" /\ p \in todo
  /\ todo' = todo \ {p}
  /\ IF p \notin DOMAIN obj /\ Cardinality(Candidates(p)) = 1
       THEN obj' = [k \in (DOMAIN obj \cup {p}) \ Candidates(p) |->
              IF k = p THEN obj[CHOOSE x \in Candidates(p) : TRUE] ELSE obj[k]]
       ELSE UNCHANGED obj
  /\ UNCHANGED <<schema, repair, like, args, pc>>

Renamed == \E p \in Props \cap DOMAIN obj : obj[p].from \in Extras

\* Mutant of Repaired: the other extras stay.
Repaired_KeepsExtras ==
  /\ pc = "repairing" /\ todo = {}
  /\ obj' = IF Renamed THEN Stripped(obj) ELSE obj
  /\ pc' = IF Renamed /\ Valid(Stripped(obj)) THEN "accepted" ELSE "refused"
  /\ UNCHANGED <<schema, repair, like, args, todo>>

\* After a renaming the other extras go, empty values too, and the schema is
\* looked at once more.
Repaired ==
  /\ pc = "repairing" /\ todo = {}
  /\ obj' = IF Renamed THEN Stripped(Without(obj, Extras)) ELSE obj
  /\ pc' = IF Renamed /\ Valid(Stripped(Without(obj, Extras))) THEN "accepted" ELSE "refused"
  /\ UNCHANGED <<schema, repair, like, args, todo>>

Next ==
  \/ Refuse \/ Validate
  \/ \E p \in Props : Rename(p)
  \/ Repaired

Spec == Init /\ [][Next]_vars

-----------------------------------------------------------------------------
(* Properties *)

TypeOK ==
  /\ schema.required \subseteq Props \cup Extras
  /\ like \subseteq Props \X Extras
  /\ DOMAIN args \subseteq Keys /\ DOMAIN obj \subseteq Keys
  /\ \A k \in DOMAIN obj : obj[k] \in Values
  /\ todo \subseteq Props
  /\ pc \in {"start", "repairing", "accepted", "refused", "unread"}
  /\ pc \in {"repairing", "accepted"} => Alias \notin DOMAIN obj

\* Whatever the order of the map, the repair neither makes up a value nor uses
\* one twice.
ValuesMoved ==
  /\ \A k \in DOMAIN obj : \E j \in DOMAIN args : obj[k] = args[j]
  /\ \A k, l \in DOMAIN obj : obj[k] = obj[l] => k = l

\* What the upstream gave under a property's name, or its alias, is what the
\* tool is run with.  Only an empty value of an optional property is left out,
\* and then the property may get the value of an extra with a name like its own.
GivenKept ==
  pc = "accepted" => \A k \in DOMAIN args :
    LET p == Aliased(k)
    IN  p \in Props =>
          \/ p \in DOMAIN obj /\ Aliased(obj[p].from) = p
          \/ \E j \in DOMAIN args :
               Aliased(j) = p /\ p \notin schema.required /\ args[j].kind \in {"empty", "null"}

\* What is left of the arguments when names are restored and empty values gone.
Base ==
  LET restored == [p \in {Aliased(k) : k \in DOMAIN args} |->
                     args[CHOOSE k \in DOMAIN args : Aliased(k) = p]]
  IN  Stripped(restored)

\* The properties that are missing and the extras with names like theirs.
Pairs ==
  {pair \in like : pair[1] \notin DOMAIN Base /\ pair[2] \in DOMAIN Base}

Unambiguous ==
  /\ ~({Alias, "type"} \subseteq DOMAIN args)
  /\ \A a, b \in Pairs : a[1] = b[1] \/ a[2] = b[2] => a = b

Moves ==
  [p \in (DOMAIN Base \cap Props) \cup {pair[1] : pair \in Pairs} |->
     IF p \in DOMAIN Base THEN Base[p]
     ELSE Base[(CHOOSE pair \in Pairs : pair[1] = p)[2]]]

Mended == Stripped(Moves)

\* Which arguments the tool is run with, and whether it is, does not depend on
\* the order of the map (toolguard.go:102, 132), as long as missing properties
\* and unknown arguments have names alike in pairs only.
OrderIrrelevant ==
  pc \in {"accepted", "refused"} /\ Unambiguous =>
    LET expected == IF Valid(Base) THEN Base ELSE Mended
    IN  /\ (pc = "accepted") <=>
             (Valid(Base) \/ (repair /\ Pairs # {} /\ Valid(Mended)))
        /\ pc = "accepted" => obj = expected
=============================================================================
