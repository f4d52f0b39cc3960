---------------------------- MODULE DurableStore ----------------------------
(***************************************************************************)
(* What a persisted session store promises: a map in memory, a saved copy  *)
(* that is replaced as a whole by what is in memory, crashes that lose the *)
(* memory and nothing else, and restarts that begin with the saved copy,   *)
(* perhaps without the entries that have expired since.                    *)
(***************************************************************************)
CONSTANTS
  Keys,      \* fingerprints
  Responses  \* response ids

VARIABLES
  mem,    \* the entries in memory: the response id stored under each key
  saved,  \* the entries a restart would find
  up      \* is the process running?

vars == <<mem, saved, up>>

Maps == UNION {[S -> Responses] : S \in SUBSET Keys}

Part(m, S) == [k \in S |-> m[k]]

Init == mem = <<>> /\ saved = <<>> /\ up = TRUE

\* Entries leave memory, and at most one is written.
Update ==
  /\ up
  /\ mem' \in Maps
  /\ \E k \in Keys : \A j \in DOMAIN mem' \ {k} : j \in DOMAIN mem /\ mem'[j] = mem[j]
  /\ UNCHANGED <<saved, up>>

Save == up /\ saved' = mem /\ UNCHANGED <<mem, up>>

Crash == up /\ up' = FALSE /\ mem' = <<>> /\ UNCHANGED saved

Restart ==
  /\ ~up
  /\ up' = TRUE
  /\ \E S \in SUBSET DOMAIN saved : mem' = Part(saved, S)
  /\ UNCHANGED saved

Next == Update \/ Save \/ Crash \/ Restart

Spec == Init /\ [][Next]_vars

=============================================================================
