---------------------------- MODULE AdapterPool -----------------------------
(***************************************************************************)
(* The server's runtime state, its lazily built adapters and their         *)
(* concurrency slots (internal/server/server.go: Reload, adapterFor,       *)
(* handleMessages; the semaphore at the top of every adapter's Stream).    *)
(*                                                                         *)
(* A SIGHUP installs a new runtime state, with the new configuration and   *)
(* an empty map of adapters; requests keep the state they started with.    *)
(* adapterFor runs under the server's mutex.                               *)
(***************************************************************************)
EXTENDS Integers, Sequences, FiniteSets

CONSTANTS
  Handlers,   \* goroutines serving POST /v1/messages
  Providers,  \* provider names
  NoProvider, \* no provider yet
  Limits,     \* values of http.max_concurrency; 0 is no limit
  MaxStates   \* bound on the runtime states, the first one and reloads

ASSUME PoolAssumption == Limits \subseteq Nat /\ MaxStates \in Nat /\ IsFiniteSet(Handlers)

VARIABLES
  states,    \* the runtime states so far; the last one is current
  adapters,  \* the adapters built so far: their limit and the slots in use
  req        \* req[h]: the runtime state, provider and adapter of h's request

vars == <<states, adapters, req>>

NoAdapter == 0

Idle == [pc |-> "idle", state |-> 0, provider |-> NoProvider, adapter |-> NoAdapter]

\* buildRuntimeState, for a configuration with these limits.
NewState(limits) ==
  [limits |-> limits, adapters |-> [p \in Providers |-> NoAdapter]]

Configs == UNION {[P -> Limits] : P \in SUBSET Providers}

Init ==
  /\ \E limits \in Configs : states = <<NewState(limits)>>
  /\ adapters = <<>>
  /\ req = [h \in Handlers |-> Idle]

-----------------------------------------------------------------------------

\* Server.Reload.  A rejected configuration changes nothing.
Reload ==
  /\ Len(states) < MaxStates
  /\ \E limits \in Configs : states' = Append(states, NewState(limits))
  /\ UNCHANGED <<adapters, req>>

\* handleMessages takes the current state and resolves the model in it.
Arrive(h) ==
  /\ req[h].pc = "idle"
  /\ \E p \in DOMAIN states[Len(states)].limits :
       req' = [req EXCEPT ![h] = [pc |-> "resolved", state |-> Len(states),
                                  provider |-> p, adapter |-> NoAdapter]]
  /\ UNCHANGED <<states, adapters>>

\* Mutant of AdapterFor: builds an adapter without looking for one, as two
\* requests would that both looked before either had stored its own.
AdapterFor_Unshared(h) ==
  /\ req[h].pc = "resolved"
  /\ LET s == req[h].state
         p == req[h].provider
         a == Len(adapters) + 1
     IN  /\ states' = [states EXCEPT ![s].adapters[p] = a]
         /\ adapters' = Append(adapters, [limit |-> states[s].limits[p], used |-> 0])
         /\ req' = [req EXCEPT ![h].pc = "waiting", ![h].adapter = a]

\* adapterFor: the adapter of the request's own state, built when it has none.
AdapterFor(h) ==
  /\ req[h].pc = "resolved"
  /\ LET s     == req[h].state
         p     == req[h].provider
         found == states[s].adapters[p]
         a     == IF found # NoAdapter THEN found ELSE Len(adapters) + 1
     IN  /\ states' = [states EXCEPT ![s].adapters[p] = a]
         /\ adapters' = IF found # NoAdapter THEN adapters
                        ELSE Append(adapters, [limit |-> states[s].limits[p], used |-> 0])
         /\ req' = [req EXCEPT ![h].pc = "waiting", ![h].adapter = a]

\* The adapter cannot be built: the request is answered with an error.
AdapterFails(h) ==
  /\ req[h].pc = "resolved"
  /\ states[req[h].state].adapters[req[h].provider] = NoAdapter
  /\ req' = [req EXCEPT ![h] = Idle]
  /\ UNCHANGED <<states, adapters>>

Free(a) == adapters[a].limit = 0 \/ adapters[a].used < adapters[a].limit

\* a.sem <- struct{}{}
Acquire(h) ==
  /\ req[h].pc = "waiting"
  /\ Free(req[h].adapter)
  /\ adapters' = [adapters EXCEPT ![req[h].adapter].used = @ + 1]
  /\ req' = [req EXCEPT ![h].pc = "streaming"]
  /\ UNCHANGED states

\* Mutant of GiveUp: the deferred release is registered before the slot is taken.
GiveUp_Releases(h) ==
  /\ req[h].pc = "waiting"
  /\ adapters' = [adapters EXCEPT ![req[h].adapter].used = @ - 1]
  /\ req' = [req EXCEPT ![h] = Idle]
  /\ UNCHANGED states

\* <-ctx.Done(): the client has gone.
GiveUp(h) ==
  /\ req[h].pc = "waiting"
  /\ req' = [req EXCEPT ![h] = Idle]
  /\ UNCHANGED <<states, adapters>>

\* Mutant of Release: a way out of Stream that keeps its slot.
Release_Leaks(h) ==
  /\ req[h].pc = "streaming"
  /\ req' = [req EXCEPT ![h] = Idle]
  /\ UNCHANGED <<states, adapters>>

\* The deferred <-a.sem, on every way out of Stream.
Release(h) ==
  /\ req[h].pc = "streaming"
  /\ adapters' = [adapters EXCEPT ![req[h].adapter].used = @ - 1]
  /\ req' = [req EXCEPT ![h] = Idle]
  /\ UNCHANGED states

Step(h) ==
  \/ Arrive(h) \/ AdapterFor(h) \/ AdapterFails(h)
  \/ Acquire(h) \/ GiveUp(h) \/ Release(h)

Next == Reload \/ \E h \in Handlers : Step(h)

Spec == Init /\ [][Next]_vars

\* Streams end (http.timeout_seconds), and goroutines blocked on a channel are
\* served in the order they came, so a slot is not missed for ever.
FairSpec ==
  Spec /\ \A h \in Handlers : /\ WF_vars(AdapterFor(h)) /\ WF_vars(Release(h))
                              /\ SF_vars(Acquire(h))

-----------------------------------------------------------------------------
(* Properties *)

Requests ==
  [pc : {"idle", "resolved", "waiting", "streaming"}, state : Nat,
   provider : Providers \cup {NoProvider}, adapter : Nat]

\* Every variable has its type: a state has a place for the adapter of each of
\* its providers, an adapter knows its slots, and a request that has been given
\* an adapter was given one that exists.
TypeOK ==
  /\ states \in Seq([limits : Configs, adapters : [Providers -> Nat]]) \ {<<>>}
  /\ adapters \in Seq([limit : Limits, used : Nat])
  /\ req \in [Handlers -> Requests]
  /\ \A h \in Handlers :
       /\ req[h].pc # "idle" => /\ req[h].state \in DOMAIN states
                                /\ req[h].provider \in DOMAIN states[req[h].state].limits
       /\ req[h].pc \in {"waiting", "streaming"} => req[h].adapter \in DOMAIN adapters
  /\ \A s \in DOMAIN states : \A p \in Providers :
       states[s].adapters[p] \in {NoAdapter} \cup DOMAIN adapters

Streaming(s, p) ==
  {h \in Handlers : req[h].pc = "streaming" /\ req[h].state = s /\ req[h].provider = p}

\* The requests that were given one runtime state never exceed the limit it
\* sets for a provider: they share one adapter, whoever asks for it first, and
\* no way out of Stream leaks a slot or returns one twice.
LimitPerState ==
  \A s \in 1 .. Len(states) : \A p \in DOMAIN states[s].limits :
    states[s].limits[p] # 0 =>
      Cardinality(Streaming(s, p)) <= states[s].limits[p]

\* No slot is lost: an adapter nobody streams on has all of them.
SlotsReturned ==
  \A a \in 1 .. Len(adapters) :
    adapters[a].used =
      Cardinality({h \in Handlers : req[h].pc = "streaming" /\ req[h].adapter = a})

\* Whoever waits for a slot gets it, or gives up.
Served == \A h \in Handlers : req[h].pc = "waiting" ~> req[h].pc # "waiting"

=============================================================================
