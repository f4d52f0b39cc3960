---------------------------- MODULE Server_proofs ----------------------------
(***************************************************************************)
(* Proofs about AdapterPool and Server: slots are neither leaked nor       *)
(* returned twice and the requests of one runtime state keep its limits;   *)
(* and when the limits let one request at a time use the session store,    *)
(* its file implements DurableStore.  For any handlers, providers, keys,   *)
(* inodes and commits, and in the pool any limits and reloads.             *)
(***************************************************************************)
EXTENDS Server, FiniteSetTheorems, TLAPS

-----------------------------------------------------------------------------
(* The pool *)

Users(a) == {h \in Handlers : req[h].pc = "streaming" /\ req[h].adapter = a}

\* SlotsReturned, by adapter.
Counted == \A a \in DOMAIN adapters : adapters[a].used = Cardinality(Users(a))

\* No adapter has more slots in use than its limit.
LimitsKept ==
  \A a \in DOMAIN adapters : adapters[a].limit # 0 => adapters[a].used <= adapters[a].limit

\* A request uses the adapter its runtime state has for its provider.
Sharing ==
  \A h \in Handlers :
    req[h].pc \in {"waiting", "streaming"} =>
      req[h].adapter = states[req[h].state].adapters[req[h].provider]

\* A state's adapters have the limits of its configuration.
Configured ==
  \A s \in DOMAIN states : \A p \in DOMAIN states[s].limits :
    states[s].adapters[p] # NoAdapter =>
      adapters[states[s].adapters[p]].limit = states[s].limits[p]

PoolInv == TypeOK /\ Counted /\ LimitsKept /\ Sharing /\ Configured

-----------------------------------------------------------------------------

States  == [limits : Configs, adapters : [Providers -> Nat]]
Adapter == [limit : Limits, used : Nat]

\* A configuration maps some of the providers to limits.
LEMMA ConfigsType ==
  ASSUME NEW c \in Configs
  PROVE  /\ DOMAIN c \subseteq Providers
         /\ \A p \in DOMAIN c : c[p] \in Limits
BY DEF Configs

\* The numbers of an adapter are natural.
LEMMA AdapterType ==
  ASSUME NEW e \in Adapter
  PROVE  e.limit \in Nat /\ e.used \in Nat
<1>1. e.limit \in Limits /\ e.used \in Nat  BY DEF Adapter
<1> QED  BY <1>1, PoolAssumption

\* A runtime state starts with its configuration and no adapter.
LEMMA NewStateType ==
  ASSUME NEW c \in Configs
  PROVE  /\ NewState(c) \in States
         /\ NewState(c).limits = c
         /\ \A p \in Providers : NewState(c).adapters[p] = NoAdapter
BY DEF NewState, States, NoAdapter

\* An adapter is used by finitely many requests.
LEMMA UsersFinite ==
  ASSUME NEW a
  PROVE  IsFiniteSet(Users(a)) /\ Cardinality(Users(a)) \in Nat
<1>1. Users(a) \subseteq Handlers  BY DEF Users
<1>2. IsFiniteSet(Handlers)  BY PoolAssumption
<1> QED  BY <1>1, <1>2, FS_Subset, FS_CardinalityType

\* The initial states satisfy the invariant.
LEMMA InitInv == Init => PoolInv
<1> SUFFICES ASSUME Init PROVE PoolInv  OBVIOUS
<1>1. PICK c \in Configs : states = <<NewState(c)>>  BY DEF Init
<1>2. adapters = <<>> /\ req = [h \in Handlers |-> Idle]  BY DEF Init
<1>3. NewState(c) \in States  BY NewStateType
<1>4. states \in Seq(States) /\ DOMAIN states = {1} /\ states[1] = NewState(c)
  BY <1>1, <1>3
<1>5. Idle \in Requests  BY DEF Idle, Requests, NoAdapter
<1>6. adapters \in Seq(Adapter) /\ DOMAIN adapters = {} /\ Len(adapters) = 0
  BY <1>2
<1>7. \A h \in Handlers : req[h] = Idle /\ req[h].pc = "idle"  BY <1>2 DEF Idle
<1>8. TypeOK
  BY <1>2, <1>4, <1>5, <1>6, <1>7, NewStateType DEF TypeOK, States, Adapter
<1>9. Counted /\ LimitsKept /\ Sharing
  BY <1>6, <1>7 DEF Counted, LimitsKept, Sharing
<1>10. Configured
  <2>1. DOMAIN NewState(c).limits \subseteq Providers  BY NewStateType, ConfigsType
  <2> QED  BY <2>1, <1>4, NewStateType DEF Configured
<1> QED  BY <1>8, <1>9, <1>10 DEF PoolInv

-----------------------------------------------------------------------------

\* Requests that leave without a slot: AdapterFails and GiveUp.
LEMMA LeaveInv ==
  ASSUME PoolInv, NEW h \in Handlers, req[h].pc # "streaming",
         req' = [req EXCEPT ![h] = Idle], UNCHANGED <<states, adapters>>
  PROVE  PoolInv'
<1> USE DEF PoolInv
<1>1. req \in [Handlers -> Requests]  BY DEF TypeOK
<1>2. /\ req'[h] = Idle /\ Idle.pc = "idle"
      /\ \A g \in Handlers \ {h} : req'[g] = req[g]
  BY <1>1 DEF Idle
<1>3. Idle \in Requests  BY DEF Idle, Requests, NoAdapter
<1>4. req' \in [Handlers -> Requests]  BY <1>1, <1>3
<1>5. TypeOK'  BY <1>2, <1>4 DEF TypeOK
<1>6. \A a : Users(a)' = Users(a)  BY <1>2 DEF Users
<1>7. Counted' /\ LimitsKept'  BY <1>6 DEF Counted, LimitsKept, Users
<1>8. Sharing' /\ Configured'  BY <1>2 DEF Sharing, Configured
<1> QED  BY <1>5, <1>7, <1>8

\* A request that arrives has no adapter and no slot yet.
LEMMA ArriveInv ==
  ASSUME PoolInv, NEW h \in Handlers, Arrive(h)
  PROVE  PoolInv'
<1> USE DEF PoolInv
<1> DEFINE n == Len(states)
<1>1. PICK p \in DOMAIN states[n].limits :
        req' = [req EXCEPT ![h] = [pc |-> "resolved", state |-> n,
                                   provider |-> p, adapter |-> NoAdapter]]
  BY DEF Arrive
<1> DEFINE q == [pc |-> "resolved", state |-> n, provider |-> p, adapter |-> NoAdapter]
<1>2. states' = states /\ adapters' = adapters /\ req[h].pc = "idle"  BY DEF Arrive
<1>3. req \in [Handlers -> Requests]  BY DEF TypeOK
<1>4. states \in Seq(States) /\ n \in DOMAIN states  BY DEF TypeOK, States
<1>5. n \in Nat /\ states[n] \in States  BY <1>4
<1>6. p \in Providers  BY <1>5, ConfigsType DEF States
<1>7. q \in Requests  BY <1>5, <1>6 DEF Requests, NoAdapter
<1>8. /\ req'[h] = q /\ \A g \in Handlers \ {h} : req'[g] = req[g]
      /\ req' \in [Handlers -> Requests]
  BY <1>1, <1>3, <1>7
<1>9. q.pc = "resolved" /\ q.state = n /\ q.provider = p  OBVIOUS
<1> HIDE DEF q
<1>10. TypeOK'  BY <1>2, <1>4, <1>8, <1>9 DEF TypeOK
<1>11. \A a : Users(a)' = Users(a)  BY <1>2, <1>8, <1>9 DEF Users
<1>12. Counted' /\ LimitsKept'  BY <1>2, <1>11 DEF Counted, LimitsKept, Users
<1>13. Sharing' /\ Configured'  BY <1>2, <1>8, <1>9 DEF Sharing, Configured
<1> QED  BY <1>10, <1>12, <1>13

\* adapterFor gives a request the one adapter its state has for the provider, and
\* builds it with the limit configured there.
LEMMA AdapterForInv ==
  ASSUME PoolInv, NEW h \in Handlers, AdapterFor(h)
  PROVE  PoolInv'
<1> USE DEF PoolInv
<1> DEFINE s     == req[h].state
           p     == req[h].provider
           found == states[s].adapters[p]
           a     == IF found # NoAdapter THEN found ELSE Len(adapters) + 1
           q     == [req[h] EXCEPT !.pc = "waiting", !.adapter = a]
           new   == [states[s] EXCEPT !.adapters = [@ EXCEPT ![p] = a]]
<1>1. req \in [Handlers -> Requests] /\ states \in Seq(States) /\ adapters \in Seq(Adapter)
  BY DEF TypeOK, States, Adapter
<1>2. req[h] \in Requests /\ req[h].pc = "resolved"  BY <1>1 DEF AdapterFor
<1>3. s \in DOMAIN states /\ p \in DOMAIN states[s].limits  BY <1>2 DEF TypeOK
<1>4. states[s] \in States  BY <1>1, <1>3
<1>5. p \in Providers /\ states[s].limits[p] \in Limits  BY <1>3, <1>4, ConfigsType DEF States
<1>6. found \in {NoAdapter} \cup DOMAIN adapters  BY <1>3, <1>5 DEF TypeOK
<1>7. Len(adapters) \in Nat /\ DOMAIN adapters = 1 .. Len(adapters)  BY <1>1
<1>8. /\ adapters' \in Seq(Adapter)
      /\ DOMAIN adapters \subseteq DOMAIN adapters'
      /\ \A b \in DOMAIN adapters : adapters'[b] = adapters[b]
      /\ a \in DOMAIN adapters'
      /\ a # NoAdapter
      /\ adapters'[a].limit = states[s].limits[p]
      /\ \A b \in DOMAIN adapters' : b \in DOMAIN adapters \/ (b = a /\ adapters'[b].used = 0)
  <2>1. CASE found # NoAdapter
    BY <2>1, <1>1, <1>3, <1>6 DEF AdapterFor, Configured
  <2>2. CASE found = NoAdapter
    <3> DEFINE e == [limit |-> states[s].limits[p], used |-> 0]
    <3>1. adapters' = Append(adapters, e) /\ a = Len(adapters) + 1
      BY <2>2 DEF AdapterFor
    <3>2. e \in Adapter  BY <1>5 DEF Adapter
    <3>3. e.limit = states[s].limits[p] /\ e.used = 0  OBVIOUS
    <3> HIDE DEF e, a
    <3> QED  BY <3>1, <3>2, <3>3, <1>1, <1>7 DEF NoAdapter
  <2> QED  BY <2>1, <2>2
<1>9. states' = [states EXCEPT ![s] = new] /\ req' = [req EXCEPT ![h] = q]
  <2>1. states' = [states EXCEPT ![s].adapters[p] = a]  BY DEF AdapterFor
  <2>2. req' = [req EXCEPT ![h].pc = "waiting", ![h].adapter = a]  BY DEF AdapterFor
  <2> HIDE DEF a
  <2>3. [states EXCEPT ![s].adapters[p] = a] = [states EXCEPT ![s] = new]
    BY <1>1, <1>3
  <2>4. [req EXCEPT ![h].pc = "waiting", ![h].adapter = a] = [req EXCEPT ![h] = q]
    BY <1>1
  <2> QED  BY <2>1, <2>2, <2>3, <2>4
<1>10. a \in Nat
  <2>1. DOMAIN adapters' = 1 .. Len(adapters') /\ Len(adapters') \in Nat  BY <1>8, SMTT(30)
  <2> HIDE DEF a
  <2> QED  BY <2>1, <1>8
<1>11. q \in Requests /\ q.pc = "waiting" /\ q.state = s /\ q.provider = p /\ q.adapter = a
  <2> HIDE DEF a
  <2> QED  BY <1>2, <1>10 DEF Requests
<1>12. /\ new \in States /\ new.limits = states[s].limits
       /\ new.adapters[p] = a
       /\ \A r \in Providers : r # p => new.adapters[r] = states[s].adapters[r]
  <2> HIDE DEF a
  <2> QED  BY <1>4, <1>5, <1>10 DEF States
<1>s. s = req[h].state /\ p = req[h].provider /\ found = states[s].adapters[p]
  OBVIOUS
<1>a. found # NoAdapter => a = found  OBVIOUS
<1> HIDE DEF q, new, a, s, p, found
<1>13. /\ states' \in Seq(States) /\ DOMAIN states' = DOMAIN states
       /\ states'[s] = new /\ \A t \in DOMAIN states : t # s => states'[t] = states[t]
  BY <1>1, <1>3, <1>9, <1>12
<1>14. /\ req' \in [Handlers -> Requests]
       /\ req'[h] = q /\ \A g \in Handlers \ {h} : req'[g] = req[g]
  BY <1>1, <1>9, <1>11
<1>15. TypeOK'
  <2>1. states' # <<>>  BY <1>13, <1>3
  <2>2. \A t \in DOMAIN states' : \A r \in Providers :
          states'[t].adapters[r] \in {NoAdapter} \cup DOMAIN adapters'
    <3> SUFFICES ASSUME NEW t \in DOMAIN states, NEW r \in Providers
                 PROVE  states'[t].adapters[r] \in {NoAdapter} \cup DOMAIN adapters'
      BY <1>13
    <3>1. states[t].adapters[r] \in {NoAdapter} \cup DOMAIN adapters'
      BY <1>8 DEF TypeOK
    <3>2. states'[t].adapters[r] = states[t].adapters[r] \/ states'[t].adapters[r] = a
      BY <1>12, <1>13
    <3> QED  BY <3>1, <3>2, <1>8
  <2>3. \A g \in Handlers :
          /\ req'[g].pc # "idle" => /\ req'[g].state \in DOMAIN states'
                                    /\ req'[g].provider \in DOMAIN states'[req'[g].state].limits
          /\ req'[g].pc \in {"waiting", "streaming"} => req'[g].adapter \in DOMAIN adapters'
    <3> SUFFICES ASSUME NEW g \in Handlers
                 PROVE  /\ req'[g].pc # "idle" => /\ req'[g].state \in DOMAIN states'
                                                  /\ req'[g].provider \in DOMAIN states'[req'[g].state].limits
                        /\ req'[g].pc \in {"waiting", "streaming"} => req'[g].adapter \in DOMAIN adapters'
      OBVIOUS
    <3>1. CASE g = h  BY <3>1, <1>3, <1>8, <1>11, <1>12, <1>13, <1>14
    <3>2. CASE g # h
      <4>1. req'[g] = req[g]  BY <3>2, <1>14
      <4>2. \A t \in DOMAIN states : t \in DOMAIN states' /\ states'[t].limits = states[t].limits
        BY <1>12, <1>13
      <4>3. /\ req[g].pc # "idle" => /\ req[g].state \in DOMAIN states
                                     /\ req[g].provider \in DOMAIN states[req[g].state].limits
            /\ req[g].pc \in {"waiting", "streaming"} => req[g].adapter \in DOMAIN adapters
        BY DEF TypeOK
      <4> QED  BY <4>1, <4>2, <4>3, <1>8
    <3> QED  BY <3>1, <3>2
  <2> QED  BY <1>8, <1>13, <1>14, <2>1, <2>2, <2>3 DEF TypeOK, States, Adapter
<1>16. \A b : Users(b)' = Users(b)  BY <1>2, <1>11, <1>14 DEF Users
<1>17. Counted'
  <2> SUFFICES ASSUME NEW b \in DOMAIN adapters'
               PROVE  adapters'[b].used = Cardinality(Users(b))
    BY <1>16, <1>8 DEF Counted
  <2>1. CASE b \in DOMAIN adapters
    BY <2>1, <1>7, <1>8 DEF Counted
  <2>2. CASE b \notin DOMAIN adapters
    <3>1. Users(b) = {}  BY <2>2 DEF Users, TypeOK
    <3> QED  BY <3>1, <2>2, <1>8, FS_EmptySet
  <2> QED  BY <2>1, <2>2
<1>18. LimitsKept'
  <2> SUFFICES ASSUME NEW b \in DOMAIN adapters', adapters'[b].limit # 0
               PROVE  adapters'[b].used <= adapters'[b].limit
    BY DEF LimitsKept
  <2>1. CASE b \in DOMAIN adapters  BY <2>1, <1>8 DEF LimitsKept
  <2>2. CASE b \notin DOMAIN adapters
    <3>1. adapters'[b] \in Adapter /\ adapters'[b].used = 0  BY <2>2, <1>8
    <3>2. adapters'[b].limit \in Nat  BY <3>1, AdapterType
    <3> QED  BY <3>1, <3>2
  <2> QED  BY <2>1, <2>2
<1>19. Sharing'
  <2> SUFFICES ASSUME NEW g \in Handlers, req'[g].pc \in {"waiting", "streaming"}
               PROVE  req'[g].adapter = states'[req'[g].state].adapters[req'[g].provider]
    BY DEF Sharing
  <2>1. CASE g = h  BY <2>1, <1>11, <1>12, <1>13, <1>14
  <2>2. CASE g # h
    <3>1. /\ req'[g] = req[g]
          /\ req[g].adapter = states[req[g].state].adapters[req[g].provider]
          /\ req[g].adapter \in DOMAIN adapters
          /\ req[g].state \in DOMAIN states
          /\ req[g].provider \in DOMAIN states[req[g].state].limits
      BY <2>2, <1>14 DEF Sharing, TypeOK
    <3>2. states[req[g].state] \in States  BY <3>1, <1>1
    <3>3. req[g].provider \in Providers  BY <3>1, <3>2, ConfigsType DEF States
    <3>4. CASE req[g].state = s /\ req[g].provider = p
      <4>1. found # NoAdapter  BY <3>1, <3>4, <1>7, <1>s DEF NoAdapter
      <4> QED  BY <4>1, <3>1, <3>4, <1>12, <1>13, <1>a, <1>s
    <3>5. CASE ~(req[g].state = s /\ req[g].provider = p)
      BY <3>1, <3>3, <3>5, <1>12, <1>13
    <3> QED  BY <3>4, <3>5
  <2> QED  BY <2>1, <2>2
<1>20. Configured'
  <2> SUFFICES ASSUME NEW t \in DOMAIN states', NEW r \in DOMAIN states'[t].limits,
                      states'[t].adapters[r] # NoAdapter
               PROVE  adapters'[states'[t].adapters[r]].limit = states'[t].limits[r]
    BY DEF Configured
  <2>1. states'[t].limits = states[t].limits  BY <1>12, <1>13
  <2>2. r \in Providers
    <3>1. states[t] \in States  BY <1>1, <1>13
    <3> QED  BY <3>1, <2>1, ConfigsType DEF States
  <2>3. CASE t = s /\ r = p  BY <2>1, <2>3, <1>8, <1>12, <1>13
  <2>4. CASE ~(t = s /\ r = p)
    <3>1. states'[t].adapters[r] = states[t].adapters[r]
      BY <2>2, <2>4, <1>12, <1>13
    <3>2. states[t].adapters[r] \in DOMAIN adapters  BY <2>2, <3>1, <1>13 DEF TypeOK
    <3> QED  BY <2>1, <3>1, <3>2, <1>8, <1>13 DEF Configured
  <2> QED  BY <2>3, <2>4
<1> QED  BY <1>15, <1>17, <1>18, <1>19, <1>20

\* What Acquire and Release have in common: the slots in use on one adapter and
\* the pc of one request.
LEMMA SlotStep ==
  ASSUME PoolInv, NEW h \in Handlers, NEW q \in Requests, NEW u \in Nat,
         NEW a, a = req[h].adapter,
         req[h].pc \in {"waiting", "streaming"},
         req' = [req EXCEPT ![h] = q],
         adapters' = [adapters EXCEPT ![a].used = u],
         states' = states,
         q = Idle \/ q = [req[h] EXCEPT !.pc = "streaming"],
         u = Cardinality(Users(a)'),
         adapters[a].limit # 0 => u <= adapters[a].limit
  PROVE  PoolInv'
<1> USE DEF PoolInv
<1> DEFINE e == [adapters[a] EXCEPT !.used = u]
<1>1. req \in [Handlers -> Requests] /\ adapters \in Seq(Adapter)
  BY DEF TypeOK, Adapter
<1>2. a \in DOMAIN adapters /\ adapters[a] \in Adapter  BY <1>1 DEF TypeOK
<1>3. e \in Adapter /\ e.used = u /\ e.limit = adapters[a].limit  BY <1>2 DEF Adapter
<1>4. adapters' = [adapters EXCEPT ![a] = e]  BY <1>1
<1> HIDE DEF e
<1>5. /\ adapters' \in Seq(Adapter) /\ DOMAIN adapters' = DOMAIN adapters
      /\ adapters'[a] = e /\ \A b \in DOMAIN adapters : b # a => adapters'[b] = adapters[b]
  BY <1>1, <1>2, <1>3, <1>4
<1>6. /\ req' \in [Handlers -> Requests] /\ req'[h] = q
      /\ \A g \in Handlers \ {h} : req'[g] = req[g]
  BY <1>1
<1>7. \/ q.pc = "idle"
      \/ /\ q.pc = "streaming" /\ q.adapter = req[h].adapter
         /\ q.state = req[h].state /\ q.provider = req[h].provider
  BY <1>1 DEF Idle, Requests
<1>8. TypeOK'  BY <1>5, <1>6, <1>7 DEF TypeOK, Adapter
<1>9. \A b : b # a => Users(b)' = Users(b)
  BY <1>6, <1>7 DEF Users
<1>10. Counted'
  <2> SUFFICES ASSUME NEW b \in DOMAIN adapters'
               PROVE  adapters'[b].used = Cardinality(Users(b)')
    BY <1>5 DEF Counted
  <2>1. CASE b = a  BY <2>1, <1>3, <1>5
  <2>2. CASE b # a  BY <2>2, <1>1, <1>5, <1>9 DEF Counted
  <2> QED  BY <2>1, <2>2
<1>11. LimitsKept'  BY <1>3, <1>5 DEF LimitsKept
<1>12. Sharing'  BY <1>6, <1>7 DEF Sharing
<1>13. Configured'
  <2> SUFFICES ASSUME NEW t \in DOMAIN states, NEW r \in DOMAIN states[t].limits,
                      states[t].adapters[r] # NoAdapter
               PROVE  adapters'[states[t].adapters[r]].limit = states[t].limits[r]
    BY DEF Configured
  <2>1. states \in Seq(States)  BY DEF TypeOK, States
  <2>a. states[t] \in States  BY <2>1
  <2>2. r \in Providers  BY <2>a, ConfigsType DEF States
  <2>3. states[t].adapters[r] \in DOMAIN adapters  BY <2>2 DEF TypeOK
  <2> QED  BY <2>3, <1>3, <1>5 DEF Configured
<1> QED  BY <1>8, <1>10, <1>11, <1>12, <1>13

\* A slot is taken only when one is free.
LEMMA AcquireInv ==
  ASSUME PoolInv, NEW h \in Handlers, Acquire(h)
  PROVE  PoolInv'
<1>0. PICK a : a = req[h].adapter  OBVIOUS
<1> DEFINE q == [req[h] EXCEPT !.pc = "streaming"]
           u == adapters[a].used + 1
<1>1. req \in [Handlers -> Requests] /\ adapters \in Seq(Adapter)
  BY DEF PoolInv, TypeOK, Adapter
<1>2. req[h].pc = "waiting" /\ a \in DOMAIN adapters
  BY <1>0 DEF Acquire, PoolInv, TypeOK
<1>3. adapters[a] \in Adapter /\ adapters[a].used = Cardinality(Users(a))
  BY <1>1, <1>2 DEF PoolInv, Counted
<1>4. req' = [req EXCEPT ![h] = q] /\ q \in Requests
  BY <1>1 DEF Acquire, Requests
<1>5. q.pc = "streaming" /\ q.adapter = a  BY <1>0, <1>1 DEF Requests
<1>6. h \notin Users(a) /\ Users(a)' = Users(a) \cup {h}
  <2>1. req'[h] = q /\ \A g \in Handlers \ {h} : req'[g] = req[g]  BY <1>1, <1>4
  <2> HIDE DEF q
  <2> QED  BY <2>1, <1>0, <1>2, <1>5 DEF Users
<1>7. IsFiniteSet(Users(a))  BY UsersFinite
<1>8. u = Cardinality(Users(a)')  BY <1>3, <1>6, <1>7, FS_AddElement
<1>9. u \in Nat /\ (adapters[a].limit # 0 => u <= adapters[a].limit)
  BY <1>0, <1>3, PoolAssumption DEF Acquire, Free, Adapter
<1>10. adapters' = [adapters EXCEPT ![a].used = u] /\ states' = states
  BY <1>0 DEF Acquire
<1> QED  BY <1>0, <1>2, <1>4, <1>8, <1>9, <1>10, SlotStep, Zenon

\* A slot that was taken is given back.
LEMMA ReleaseInv ==
  ASSUME PoolInv, NEW h \in Handlers, Release(h)
  PROVE  PoolInv'
<1>0. PICK a : a = req[h].adapter  OBVIOUS
<1> DEFINE u == adapters[a].used - 1
<1>1. req \in [Handlers -> Requests] /\ adapters \in Seq(Adapter)
  BY DEF PoolInv, TypeOK, Adapter
<1>2. req[h].pc = "streaming" /\ a \in DOMAIN adapters
  BY <1>0 DEF Release, PoolInv, TypeOK
<1>3. adapters[a] \in Adapter /\ adapters[a].used = Cardinality(Users(a))
  BY <1>1, <1>2 DEF PoolInv, Counted
<1>4. req' = [req EXCEPT ![h] = Idle] /\ Idle \in Requests /\ Idle.pc = "idle"
  BY DEF Release, Requests, Idle, NoAdapter
<1>5. h \in Users(a) /\ Users(a)' = Users(a) \ {h}
  <2>1. req'[h] = Idle /\ \A g \in Handlers \ {h} : req'[g] = req[g]  BY <1>1, <1>4
  <2> QED  BY <2>1, <1>0, <1>2, <1>4 DEF Users
<1>6. IsFiniteSet(Users(a)) /\ Cardinality(Users(a)) \in Nat  BY UsersFinite
<1>7. u = Cardinality(Users(a)') /\ u \in Nat
  <2>1. IsFiniteSet(Users(a) \ {h}) /\ Cardinality(Users(a) \ {h}) = Cardinality(Users(a)) - 1
    BY <1>5, <1>6, FS_RemoveElement
  <2> QED  BY <2>1, <1>3, <1>5, FS_CardinalityType
<1>8. adapters[a].limit # 0 => u <= adapters[a].limit
  <2>1. adapters[a].limit # 0 => adapters[a].used <= adapters[a].limit
    BY <1>2 DEF PoolInv, LimitsKept
  <2>2. adapters[a].limit \in Nat /\ adapters[a].used \in Nat  BY <1>3, AdapterType
  <2> QED  BY <2>1, <2>2
<1>9. adapters' = [adapters EXCEPT ![a].used = u] /\ states' = states
  BY <1>0 DEF Release
<1> QED  BY <1>0, <1>2, <1>4, <1>7, <1>8, <1>9, SlotStep, Zenon

-----------------------------------------------------------------------------

\* Every step keeps the invariant.
LEMMA StepInv == PoolInv /\ [Next]_vars => PoolInv'
<1> SUFFICES ASSUME PoolInv, [Next]_vars PROVE PoolInv'  OBVIOUS
<1> USE DEF PoolInv
<1> /\ states \in Seq(States) /\ adapters \in Seq(Adapter)
    /\ req \in [Handlers -> Requests]
  BY DEF TypeOK, States, Adapter
<1>1. CASE Reload
  <2>1. PICK c \in Configs : states' = Append(states, NewState(c))  BY <1>1 DEF Reload
  <2>2. adapters' = adapters /\ req' = req  BY <1>1 DEF Reload
  <2> DEFINE n == Len(states) + 1
  <2>3. n \in Nat /\ DOMAIN states = 1 .. n - 1 /\ DOMAIN states' = 1 .. n  BY <2>1
  <2>4. /\ \A s \in DOMAIN states : s \in DOMAIN states' /\ states'[s] = states[s]
        /\ states'[n] = NewState(c)
        /\ \A s \in DOMAIN states' : s \in DOMAIN states \/ s = n
    BY <2>1, <2>3
  <2>5. NewState(c) \in States  BY NewStateType
  <2>6. states' \in Seq(States)  BY <2>1, <2>5
  <2>7. \A s \in DOMAIN states' : \A p \in Providers :
          states'[s].adapters[p] \in {NoAdapter} \cup DOMAIN adapters
    <3>1. \A p \in Providers : NewState(c).adapters[p] = NoAdapter  BY NewStateType
    <3> QED  BY <3>1, <2>2, <2>4 DEF TypeOK
  <2>8. TypeOK'  BY <2>2, <2>4, <2>6, <2>7 DEF TypeOK, States, Adapter
  <2>9. Counted' /\ LimitsKept'  BY <2>2 DEF Counted, Users, LimitsKept
  <2>10. Sharing'  BY <2>2, <2>4 DEF Sharing, TypeOK
  <2>11. Configured'
    <3>1. DOMAIN NewState(c).limits \subseteq Providers  BY NewStateType, ConfigsType
    <3> QED  BY <3>1, <2>2, <2>4, NewStateType DEF Configured
  <2> QED  BY <2>8, <2>9, <2>10, <2>11
<1>2. CASE UNCHANGED vars
  BY <1>2 DEF vars, TypeOK, Counted, Users, LimitsKept, Sharing, Configured
<1>3. ASSUME NEW h \in Handlers, Step(h) PROVE PoolInv'
  <2>1. CASE Arrive(h)  BY <2>1, ArriveInv
  <2>2. CASE AdapterFor(h)  BY <2>2, AdapterForInv
  <2>3. CASE AdapterFails(h)  BY <2>3, LeaveInv DEF AdapterFails
  <2>4. CASE Acquire(h)  BY <2>4, AcquireInv
  <2>5. CASE GiveUp(h)  BY <2>5, LeaveInv DEF GiveUp
  <2>6. CASE Release(h)  BY <2>6, ReleaseInv
  <2> QED  BY <1>3, <2>1, <2>2, <2>3, <2>4, <2>5, <2>6 DEF Step
<1> QED  BY <1>1, <1>2, <1>3 DEF Next

\* Who streams for one provider in one runtime state has a slot of one adapter.
LEMMA LimitsHold ==
  ASSUME PoolInv
  PROVE  LimitPerState
<1> SUFFICES ASSUME NEW s \in 1 .. Len(states), NEW p \in DOMAIN states[s].limits,
                    states[s].limits[p] # 0
             PROVE  Cardinality(Streaming(s, p)) <= states[s].limits[p]
  BY DEF LimitPerState
<1> DEFINE a == states[s].adapters[p]
<1> USE DEF PoolInv
<1>1. states \in Seq(States) /\ s \in DOMAIN states
  BY DEF TypeOK, States
<1>2. states[s] \in States  BY <1>1
<1>3. p \in Providers /\ states[s].limits[p] \in Limits
  BY <1>2, ConfigsType DEF States
<1>4. states[s].limits[p] \in Nat  BY <1>3, PoolAssumption
<1>5. \A h \in Streaming(s, p) : h \in Handlers /\ req[h].pc = "streaming" /\ req[h].adapter = a
  BY DEF Streaming, Sharing
<1>6. CASE Streaming(s, p) = {}
  BY <1>6, <1>4, FS_EmptySet
<1>7. CASE Streaming(s, p) # {}
  <2>1. PICK h \in Handlers : req[h].pc = "streaming" /\ req[h].adapter = a
    BY <1>5, <1>7
  <2>2. a \in DOMAIN adapters  BY <2>1 DEF TypeOK
  <2>3. a # NoAdapter  BY <2>2 DEF TypeOK, NoAdapter
  <2>4. adapters[a].limit = states[s].limits[p]  BY <1>1, <2>3 DEF Configured
  <2>5. adapters[a].used <= adapters[a].limit  BY <2>2, <2>4 DEF LimitsKept
  <2>6. adapters[a].used = Cardinality(Users(a))
    BY <2>2 DEF Counted
  <2>7. Streaming(s, p) \subseteq Users(a)  BY <1>5 DEF Users
  <2>8. IsFiniteSet(Users(a)) /\ Cardinality(Users(a)) \in Nat  BY UsersFinite
  <2>9. /\ IsFiniteSet(Streaming(s, p))
        /\ Cardinality(Streaming(s, p)) <= Cardinality(Users(a))
    BY <2>7, <2>8, FS_Subset
  <2>10. Cardinality(Streaming(s, p)) \in Nat  BY <2>9, FS_CardinalityType
  <2> HIDE DEF a
  <2> QED  BY <1>4, <2>4, <2>5, <2>6, <2>8, <2>9, <2>10
<1> QED  BY <1>6, <1>7

-----------------------------------------------------------------------------
(* The theorems *)

\* The invariant holds in every reachable state.
LEMMA PoolInvHolds == Spec => []PoolInv
BY InitInv, StepInv, PTL DEF Spec

\* Every variable of the server keeps its type: in particular a request that
\* waits or streams was given an adapter that exists (adapterFor).
THEOREM Types == Spec => []TypeOK
<1>1. PoolInv => TypeOK  BY DEF PoolInv
<1> QED  BY <1>1, PoolInvHolds, PTL

\* No way out of Stream leaks a slot of the semaphore or gives one back that was
\* not taken.
THEOREM Slots == Spec => []SlotsReturned
<1>1. PoolInv => SlotsReturned
  <2>1. adapters \in Seq(Adapter) => DOMAIN adapters = 1 .. Len(adapters)  OBVIOUS
  <2> QED  BY <2>1 DEF PoolInv, TypeOK, Adapter, Counted, SlotsReturned, Users
<1> QED  BY <1>1, PoolInvHolds, PTL

\* Whatever requests, reloads and first uses of an adapter interleave, the
\* requests that were given one runtime state keep its max_concurrency.
THEOREM LimitsPerState == Spec => []LimitPerState
BY LimitsHold, PoolInvHolds, PTL

-----------------------------------------------------------------------------
(* Whose turn it is *)

\* The session store is used through one adapter, with one slot: one provider of
\* the Responses API, max_concurrency 1 and no reload.
OneSlot(p) == Chaining \subseteq {p} /\ Limits \subseteq {1} /\ MaxStates <= 1

\* A request that may be in Commit or Invalidate.
OnTurn(h) == req[h].pc = "streaming" /\ req[h].provider \in Chaining

\* Who saves has a slot.
BusyOnTurn == \A h \in Savers : pc[h] # "idle" => OnTurn(h)

\* What is being written is still empty, what is about to be renamed is whole, and
\* both are what is in memory.
Between(s) ==
  /\ pc[s] \in {"write", "rename"} => dir.tmp # None
  /\ pc[s] = "write" => fd[s] = dir.tmp /\ data[dir.tmp] = Empty
  /\ pc[s] = "rename" => data[dir.tmp] = Whole(snap[s])
  /\ pc[s] \in {"open", "write", "rename"} => snap[s] = mem

\* path.tmp is not path.
FileHeld ==
  /\ Readable
  /\ dir.path # None => dir.path # dir.tmp
  /\ \A s \in Savers : Between(s) /\ (~up => pc[s] = "idle")

ServerInv == PoolInv /\ Len(states) = 1 /\ FileTypeOK /\ BusyOnTurn /\ FileHeld

\* With one slot two requests on turn are one.
LEMMA OneTurn ==
  ASSUME NEW p, OneSlot(p), PoolInv, Len(states) = 1,
         NEW g \in Savers, NEW h \in Savers, OnTurn(g), OnTurn(h)
  PROVE  g = h
<1>1. g \in Handlers /\ h \in Handlers /\ p \in Providers
  BY ServerAssumption DEF OneSlot, OnTurn
<1>2. g \in Streaming(1, p) /\ h \in Streaming(1, p) /\ p \in DOMAIN states[1].limits
  <2>1. /\ req[g].state \in DOMAIN states /\ req[h].state \in DOMAIN states
        /\ req[g].provider \in DOMAIN states[req[g].state].limits
    BY <1>1 DEF OnTurn, PoolInv, TypeOK
  <2>2. DOMAIN states = {1}
    BY DEF PoolInv, TypeOK
  <2>. QED  BY <1>1, <2>1, <2>2 DEF OneSlot, OnTurn, Streaming
<1>3. states[1].limits[p] = 1
  <2>1. states \in Seq(States) /\ Len(states) = 1
    BY DEF PoolInv, TypeOK, States
  <2>2. states[1] \in States
    BY <2>1
  <2>. QED  BY <1>2, <2>2, ConfigsType DEF States, OneSlot
<1>4. Cardinality(Streaming(1, p)) <= 1
  BY <1>2, <1>3, LimitsHold DEF LimitPerState
<1>5. IsFiniteSet(Streaming(1, p)) /\ Cardinality(Streaming(1, p)) \in Nat
  BY PoolAssumption, FS_Subset, FS_CardinalityType DEF Streaming
<1>6. SUFFICES ASSUME g # h PROVE FALSE
  OBVIOUS
<1>7. Cardinality({g, h}) = 2
  <2>1. {g, h} = {g} \cup {h} /\ h \notin {g}
    BY <1>6
  <2>2. IsFiniteSet({g}) /\ Cardinality({g}) = 1
    BY FS_Singleton
  <2>. QED  BY <2>1, <2>2, FS_AddElement
<1>8. Cardinality({g, h}) <= Cardinality(Streaming(1, p))
  BY <1>2, <1>5, FS_Subset
<1>. QED  BY <1>4, <1>5, <1>7, <1>8

-----------------------------------------------------------------------------
(* The file *)

\* The empty map and the parts of a map are maps, and files hold what they may.
LEMMA MapsTyped ==
  /\ NoEntries \in Maps
  /\ \A m \in Maps : m = [k \in DOMAIN m |-> m[k]] /\ DOMAIN m \subseteq Keys
  /\ \A m \in Maps : \A S : S \subseteq DOMAIN m => Part(m, S) \in Maps
  /\ {Empty, Garbage} \subseteq Contents
  /\ \A m \in Maps : Whole(m) \in Contents
<1>1. NoEntries \in Maps
  <2>1. NoEntries \in [{} -> Responses]
    BY DEF NoEntries
  <2>. QED  BY <2>1 DEF Maps
<1>2. ASSUME NEW m \in Maps
      PROVE  m = [k \in DOMAIN m |-> m[k]] /\ DOMAIN m \subseteq Keys
             /\ \A k \in DOMAIN m : m[k] \in Responses
  BY DEF Maps
<1>3. ASSUME NEW m \in Maps, NEW S, S \subseteq DOMAIN m PROVE Part(m, S) \in Maps
  <2>1. Part(m, S) \in [S -> Responses] /\ S \in SUBSET Keys
    BY <1>2, <1>3 DEF Part
  <2>. QED  BY <2>1 DEF Maps
<1>. QED  BY <1>1, <1>2, <1>3 DEF Contents, Empty, Garbage, Whole

\* Everything starts in order.
LEMMA ServerStarts ==
  ASSUME ServerInit
  PROVE  ServerInv
<1>1. PoolInv /\ Len(states) = 1
  BY InitInv DEF ServerInit, Init
<1>. QED
  BY <1>1, MapsTyped, FileAssumption
  DEF ServerInit, FileInit, ServerInv, FileTypeOK, BusyOnTurn, FileHeld, Between, Readable, File, Whole

\* A saver on turn is alone, and keeps the file.
LEMMA SavingHolds ==
  ASSUME FileTypeOK, FileHeld, NEW s \in Savers, Saving(s),
         \A g \in Savers \ {s} : pc[g] = "idle"
  PROVE  FileTypeOK' /\ FileHeld'
<1>inv. Between(s) /\ Readable /\ (dir.path # None => dir.path # dir.tmp)
  BY DEF FileHeld
<1>0. up /\ up' /\ \A g \in Savers \ {s} : pc'[g] = "idle"
  BY DEF Saving, Prepare, Commit, Invalidate, Snapshot, OpenTmp, Write, Rename, SaveFails, FileTypeOK
<1>. SUFFICES FileTypeOK' /\ Readable' /\ (dir'.path # None => dir'.path # dir'.tmp) /\ Between(s)'
  BY <1>0 DEF FileHeld, Between
<1>1. CASE Commit(s)
  <2>1. PICK k \in Keys, S \in SUBSET DOMAIN mem :
          mem' = [j \in S \cup {k} |-> IF j = k THEN commits + 1 ELSE mem[j]]
    BY <1>1 DEF Commit
  <2>2. commits + 1 \in Responses /\ commits' \in 0 .. MaxCommits
    BY <1>1, FileAssumption DEF Commit, FileTypeOK, Responses
  <2>3. mem' \in Maps
    <3>1. /\ \A j \in S : mem[j] \in Responses
          /\ S \cup {k} \in SUBSET Keys
      BY DEF FileTypeOK, Maps
    <3>2. mem' \in [S \cup {k} -> Responses]
      BY <2>1, <2>2, <3>1
    <3>. QED  BY <3>1, <3>2 DEF Maps
  <2>. QED  BY <1>1, <1>inv, <2>2, <2>3
       DEF Commit, FileTypeOK, Between, Readable, File
<1>2. CASE Invalidate(s)
  BY <1>2, <1>inv, MapsTyped DEF Invalidate, FileTypeOK, Between, Readable, File
<1>3. CASE Snapshot(s)
  <2>1. PICK S \in SUBSET DOMAIN mem : /\ mem' = Part(mem, S)
                                       /\ snap' = [snap EXCEPT ![s] = Part(mem, S)]
    BY <1>3 DEF Snapshot
  <2>2. mem' \in Maps /\ snap' \in [Savers -> Maps] /\ snap'[s] = mem'
    BY <2>1, MapsTyped DEF FileTypeOK
  <2>. QED  BY <1>3, <1>inv, <2>2
       DEF Snapshot, FileTypeOK, Between, Readable, File
<1>4. CASE OpenTmp(s)
  <2>1. PICK i \in Inodes :
          /\ IF dir.tmp = None THEN i # dir.path ELSE i = dir.tmp
          /\ dir' = [dir EXCEPT !.tmp = i]
          /\ data' = [data EXCEPT ![i] = Empty]
          /\ fd' = [fd EXCEPT ![s] = i]
    BY <1>4 DEF OpenTmp
  <2>2. i # dir.path /\ i # None
    BY <1>inv, <2>1, FileAssumption DEF FileTypeOK
  <2>3. /\ dir'.path = dir.path /\ dir'.tmp = i /\ dir' \in [path : Inodes \cup {None}, tmp : Inodes \cup {None}]
        /\ data' \in [Inodes -> Contents] /\ data'[i] = Empty
        /\ fd' \in [Savers -> Inodes \cup {None}] /\ fd'[s] = i
        /\ dir.path # None => data'[dir.path] = data[dir.path]
    BY <2>1, <2>2, MapsTyped DEF FileTypeOK
  <2>4. Readable'
    BY <1>inv, <2>3 DEF Readable, File
  <2>5. /\ pc' = [pc EXCEPT ![s] = "write"] /\ UNCHANGED <<mem, commits, up, snap, behind>>
        /\ up /\ pc[s] = "open"
    BY <1>4 DEF OpenTmp
  <2>. QED  BY <1>inv, <2>2, <2>3, <2>4, <2>5 DEF FileTypeOK, Between
<1>5. CASE Write(s)
  <2>1. /\ data' = [data EXCEPT ![dir.tmp] = Whole(snap[s])]
        /\ dir.tmp \in Inodes /\ dir.tmp # dir.path
    BY <1>5, <1>inv DEF Write, Between, FileTypeOK
  <2>2. /\ data' \in [Inodes -> Contents] /\ data'[dir.tmp] = Whole(snap[s])
        /\ dir.path # None => data'[dir.path] = data[dir.path]
    BY <2>1, MapsTyped DEF FileTypeOK
  <2>3. Readable'
    BY <1>5, <1>inv, <2>2 DEF Write, Readable, File
  <2>. QED  BY <1>5, <1>inv, <2>1, <2>2, <2>3 DEF Write, FileTypeOK, Between
<1>6. CASE Rename(s)
  <2>1. /\ dir' = [path |-> dir.tmp, tmp |-> None] /\ dir.tmp \in Inodes
        /\ data[dir.tmp] = Whole(snap[s]) /\ data' = data
    BY <1>6, <1>inv DEF Rename, Between, FileTypeOK
  <2>2. Readable'
    BY <2>1 DEF Readable, File, Whole
  <2>. QED  BY <1>6, <1>inv, <2>1, <2>2, MapsTyped, FileAssumption
       DEF Rename, FileTypeOK, Between
<1>7. CASE SaveFails(s)
  <2>1. /\ data' \in [Inodes -> Contents]
        /\ dir.path # None => data'[dir.path] = data[dir.path]
    BY <1>7, <1>inv, MapsTyped DEF SaveFails, FileTypeOK, Between
  <2>2. Readable'
    BY <1>7, <1>inv, <2>1 DEF SaveFails, Readable, File
  <2>. QED  BY <1>7, <1>inv, <2>1, <2>2, MapsTyped DEF SaveFails, FileTypeOK, Between
<1>8. CASE Prepare(s)
  BY <1>8, <1>inv, MapsTyped DEF Prepare, FileTypeOK, Between, Readable, File
<1>. QED  BY <1>1, <1>2, <1>3, <1>4, <1>5, <1>6, <1>7, <1>8 DEF Saving

-----------------------------------------------------------------------------
(* The process *)

\* While the pool moves, savers and files stand still, and who saves keeps its slot.
LEMMA PoolMoves ==
  ASSUME ServerInv, UNCHANGED fileVars, PoolInv', Len(states') = 1,
         \A h \in Savers : pc[h] # "idle" => req'[h] = req[h]
  PROVE  ServerInv'
BY DEF ServerInv, fileVars, FileTypeOK, BusyOnTurn, OnTurn, FileHeld, Between, Readable, File

\* With one slot every step of the process keeps the invariant.
LEMMA ServerSteps ==
  ASSUME NEW p, OneSlot(p), ServerInv, [ServerNext]_serverVars
  PROVE  ServerInv'
<1>1. CASE Reload /\ UNCHANGED fileVars
  <2>1. FALSE
    BY <1>1, PoolAssumption DEF Reload, OneSlot, ServerInv
  <2>. QED  BY <2>1
<1>2. ASSUME NEW h \in Handlers, Step(h), h \in Savers => pc[h] = "idle", UNCHANGED fileVars
      PROVE  ServerInv'
  <2>1. PoolInv'
    BY <1>2, StepInv DEF ServerInv, Next
  <2>2. Len(states') = 1 /\ \A g \in Handlers \ {h} : req'[g] = req[g]
    BY <1>2
    DEF Step, Arrive, AdapterFor, AdapterFails, Acquire, GiveUp, Release, ServerInv, PoolInv, TypeOK
  <2>. QED  BY <1>2, <2>1, <2>2, PoolMoves, ServerAssumption
<1>3. ASSUME NEW s \in Savers, OnTurn(s), Saving(s), UNCHANGED vars
      PROVE  ServerInv'
  <2>1. \A g \in Savers \ {s} : pc[g] = "idle"
    BY <1>3, OneTurn DEF ServerInv, BusyOnTurn
  <2>2. FileTypeOK' /\ FileHeld'
    BY <1>3, <2>1, SavingHolds DEF ServerInv
  <2>3. PoolInv' /\ Len(states') = 1
    BY <1>3, StepInv DEF ServerInv, vars
  <2>4. \A g \in Savers \ {s} : pc'[g] = pc[g]
    BY <1>3 DEF Saving, Prepare, Commit, Invalidate, Snapshot, OpenTmp, Write, Rename, SaveFails,
                ServerInv, FileTypeOK
  <2>5. BusyOnTurn'
    BY <1>3, <2>1, <2>4 DEF BusyOnTurn, OnTurn, vars
  <2>. QED  BY <2>2, <2>3, <2>5 DEF ServerInv
<1>4. CASE ServerCrash
  <2>1. Init'
    BY <1>4 DEF ServerCrash, Init
  <2>2. Init' => PoolInv'
    BY InitInv, PTL
  <2>3. Len(states') = 1
    BY <2>1 DEF Init
  <2>. QED
    BY <1>4, <2>1, <2>2, <2>3, MapsTyped
    DEF ServerCrash, Crash, ServerInv, FileTypeOK, BusyOnTurn, FileHeld, Between, Readable, File
<1>5. CASE ServerStart
  <2>1. mem' \in Maps
    BY <1>5, MapsTyped DEF ServerStart, Start, ServerInv, FileTypeOK, File, Whole, Contents
  <2>2. PoolInv' /\ Len(states') = 1 /\ UNCHANGED req
    BY <1>5, StepInv DEF ServerStart, ServerInv, vars
  <2>. QED
    BY <1>5, <2>1, <2>2
    DEF ServerStart, Start, ServerInv, FileTypeOK, BusyOnTurn, OnTurn, FileHeld, Between, Readable, File
<1>6. CASE UNCHANGED serverVars
  <2>1. PoolInv' /\ UNCHANGED <<vars, fileVars>>
    BY <1>6, StepInv DEF serverVars, ServerInv
  <2>. QED  BY <2>1, PoolMoves DEF vars, ServerInv
<1>. QED
  BY <1>1, <1>2, <1>3, <1>4, <1>5, <1>6 DEF ServerNext, Serve, OnTurn

\* With one slot the invariant always holds.
LEMMA ServerHolds ==
  ASSUME NEW p, OneSlot(p)
  PROVE  ServerSpec => []ServerInv
BY ServerStarts, ServerSteps, PTL DEF ServerSpec

\* With one slot for the requests that use the session store, a process that stopped
\* at any step of SaveFile leaves a file the next one can read.
THEOREM RestartsWithOneSlot ==
  ASSUME NEW p, OneSlot(p)
  PROVE  ServerSpec => []Restartable
<1>1. ServerInv => Restartable
  BY DEF ServerInv, FileHeld, Restartable
<1>. QED  BY <1>1, ServerHolds, PTL

\* A saver that is done after a save that worked left its snapshot under path,
\* and a process that has just started has only what it read there.
LEMMA PersistedNext ==
  ASSUME NEW p, OneSlot(p), ServerInv, Persisted, [ServerNext]_serverVars
  PROVE  Persisted'
<1>. DEFINE Holds == \A k \in DOMAIN mem : k \in DOMAIN File.entries /\ File.entries[k] = mem[k]
<1>inv. FileTypeOK /\ FileHeld /\ Readable'
  BY ServerSteps DEF ServerInv, FileHeld
<1>1. ASSUME NEW s \in Savers, Saving(s) PROVE Persisted'
  <2>1. ASSUME NEW step, pc' = [pc EXCEPT ![s] = step], step # "idle" PROVE Persisted'
    BY <2>1, <1>inv DEF FileTypeOK, Persisted
  <2>2. CASE Commit(s) \/ Invalidate(s) \/ Snapshot(s) \/ OpenTmp(s) \/ Write(s)
    BY <2>1, <2>2 DEF Commit, Invalidate, Snapshot, OpenTmp, Write
  <2>3. CASE Rename(s)
    <3>1. Between(s)
      BY <1>inv DEF FileHeld
    <3>2. File'.entries = mem /\ mem' = mem
      BY <2>3, <3>1 DEF Rename, Between, File, Whole
    <3>. QED  BY <1>inv, <3>2 DEF Persisted
  <2>4. CASE SaveFails(s)
    <3>1. s \in behind'
      BY <2>4 DEF SaveFails
    <3>. QED  BY <3>1 DEF Persisted
  <2>5. CASE Prepare(s)
    <3>1. \A k \in DOMAIN mem' : k \in DOMAIN mem /\ mem'[k] = mem[k]
      BY <2>5 DEF Prepare, Part
    <3>2. File' = File /\ UNCHANGED <<up, behind, pc>>
      BY <2>5 DEF Prepare, File
    <3>. QED  BY <1>inv, <3>1, <3>2 DEF Persisted
  <2>. QED  BY <1>1, <2>2, <2>3, <2>4, <2>5 DEF Saving
<1>2. CASE ServerCrash
  BY <1>2 DEF ServerCrash, Crash, Persisted
<1>3. CASE ServerStart
  <2>1. PICK S \in SUBSET DOMAIN File.entries : mem' = Part(File.entries, S)
    BY <1>3 DEF ServerStart, Start
  <2>2. File' = File
    BY <1>3 DEF ServerStart, Start, File
  <2>3. Holds'
    BY <2>1, <2>2 DEF Part
  <2>. QED  BY <1>inv, <2>3 DEF Persisted
<1>4. CASE UNCHANGED fileVars
  BY <1>4 DEF fileVars, Persisted, Readable, File
<1>. QED  BY <1>1, <1>2, <1>3, <1>4 DEF ServerNext, Serve, serverVars

\* With one slot, a Commit or Invalidate that returned after a save that worked is on
\* disk as a whole, and so is all that was stored before it: what a restart loses was
\* lost by a save that failed or was under way.
THEOREM PersistsWithOneSlot ==
  ASSUME NEW p, OneSlot(p)
  PROVE  ServerSpec => []Persisted
<1>1. ServerInit => Persisted
  BY DEF ServerInit, FileInit, Persisted, Readable, File, Whole, NoEntries
<1>2. ServerInv /\ Persisted /\ [ServerNext]_serverVars => Persisted'
  BY PersistedNext
<1>. QED  BY <1>1, <1>2, ServerHolds, PTL DEF ServerSpec

-----------------------------------------------------------------------------
(* The refinement *)

\* A lone saver's steps are those of DurableStore: only Rename saves.
LEMMA SavingRefines ==
  ASSUME FileTypeOK, FileHeld, NEW s \in Savers, Saving(s)
  PROVE  [Durable!Next]_(Durable!vars)
<1>. USE DEF Durable!Next, Durable!vars
<1>inv. Between(s) /\ (dir.path # None => dir.path # dir.tmp)
  BY DEF FileHeld
<1>1. CASE Commit(s)
  <2>0. PICK k \in Keys, S \in SUBSET DOMAIN mem :
          mem' = [j \in S \cup {k} |-> IF j = k THEN commits + 1 ELSE mem[j]]
    BY <1>1 DEF Commit
  <2>1. mem' \in Maps
    <3>1. commits + 1 \in Responses
      BY <1>1, FileAssumption DEF Commit, FileTypeOK, Responses
    <3>2. (\A j \in S : mem[j] \in Responses) /\ S \cup {k} \in SUBSET Keys
      BY DEF FileTypeOK, Maps
    <3>3. mem' \in [S \cup {k} -> Responses]
      BY <2>0, <3>1, <3>2
    <3>. QED  BY <3>2, <3>3 DEF Maps
  <2>2. \A j \in DOMAIN mem' \ {k} : j \in DOMAIN mem /\ mem'[j] = mem[j]
    BY <2>0
  <2>3. mem' \in Durable!Maps /\ up /\ UNCHANGED <<File.entries, up>>
    BY <1>1, <2>1 DEF Maps, Durable!Maps, Commit, File
  <2>. QED  BY <2>2, <2>3 DEF Durable!Update
<1>2. CASE Invalidate(s)
  <2>1. PICK k \in Keys : mem' = Part(mem, DOMAIN mem \ {k})
    BY <1>2 DEF Invalidate
  <2>2. \A j \in DOMAIN mem' \ {k} : j \in DOMAIN mem /\ mem'[j] = mem[j]
    BY <2>1 DEF Part
  <2>3. mem' \in Maps
    BY <2>1, MapsTyped DEF FileTypeOK
  <2>4. mem' \in Durable!Maps /\ up /\ UNCHANGED <<File.entries, up>>
    BY <1>2, <2>3 DEF Maps, Durable!Maps, Invalidate, File
  <2>. QED  BY <2>2, <2>4 DEF Durable!Update
<1>3. CASE Snapshot(s) \/ Prepare(s)
  <2>1. PICK S \in SUBSET DOMAIN mem : mem' = Part(mem, S)
    BY <1>3 DEF Snapshot, Prepare
  <2>2. \A j \in DOMAIN mem' : j \in DOMAIN mem /\ mem'[j] = mem[j]
    BY <2>1 DEF Part
  <2>3. mem' \in Maps
    BY <2>1, MapsTyped DEF FileTypeOK
  <2>4. mem' \in Durable!Maps /\ up /\ UNCHANGED <<File.entries, up>>
    BY <1>3, <2>3 DEF Maps, Durable!Maps, Snapshot, Prepare, File
  <2>5. CASE mem' = mem
    BY <2>4, <2>5
  <2>6. CASE mem' # mem
    <3>1. Keys # {}
      BY <2>1, <2>6 DEF Part, FileTypeOK, Maps
    <3>. QED  BY <2>2, <2>4, <3>1 DEF Durable!Update
  <2>. QED  BY <2>5, <2>6
<1>4. CASE OpenTmp(s)
  <2>1. UNCHANGED <<mem, File, up>>
    BY <1>4, <1>inv, FileAssumption DEF OpenTmp, FileTypeOK, File
  <2>. QED  BY <2>1
<1>5. CASE Write(s)
  <2>1. UNCHANGED <<mem, File, up>>
    BY <1>5, <1>inv DEF Write, Between, FileTypeOK, File
  <2>. QED  BY <2>1
<1>6. CASE Rename(s)
  <2>1. File'.entries = mem /\ up /\ UNCHANGED <<mem, up>>
    BY <1>6, <1>inv DEF Rename, Between, File, Whole
  <2>. QED  BY <2>1 DEF Durable!Save
<1>7. CASE SaveFails(s)
  <2>1. UNCHANGED <<mem, File, up>>
    BY <1>7, <1>inv DEF SaveFails, Between, FileTypeOK, File
  <2>. QED  BY <2>1
<1>. QED  BY <1>1, <1>2, <1>3, <1>4, <1>5, <1>6, <1>7 DEF Saving

\* With one slot, what the file holds is replaced as a whole, by what is in memory at
\* that moment, and nothing else changes it: the process with its requests implements
\* the atomic save of DurableStore.
THEOREM DurableWithOneSlot ==
  ASSUME NEW p, OneSlot(p)
  PROVE  ServerSpec => ImplementsDurable
<1>1. ServerInit => Durable!Init
  BY DEF ServerInit, FileInit, Durable!Init, File, Whole, NoEntries
<1>2. ServerInv /\ [ServerNext]_serverVars => [Durable!Next]_(Durable!vars)
  <2>. SUFFICES ASSUME ServerInv, [ServerNext]_serverVars
                PROVE  [Durable!Next]_(Durable!vars)
    OBVIOUS
  <2>1. ASSUME NEW s \in Savers, Saving(s) PROVE [Durable!Next]_(Durable!vars)
    BY <2>1, SavingRefines DEF ServerInv
  <2>2. CASE ServerCrash
    BY <2>2 DEF ServerCrash, Crash, Durable!Next, Durable!Crash, File, NoEntries
  <2>3. CASE ServerStart
    BY <2>3 DEF ServerStart, Start, Durable!Next, Durable!Restart, Durable!Part, Part, File
  <2>4. CASE UNCHANGED fileVars
    BY <2>4 DEF fileVars, Durable!vars, File
  <2>. QED  BY <2>1, <2>2, <2>3, <2>4 DEF ServerNext, Serve, serverVars
<1>. QED  BY <1>1, <1>2, ServerHolds, PTL DEF ServerSpec, ImplementsDurable, Durable!Spec

=============================================================================
