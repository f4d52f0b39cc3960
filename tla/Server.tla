------------------------------- MODULE Server -------------------------------
(***************************************************************************)
(* The process: the requests on their adapters (AdapterPool), the session  *)
(* store they share and its file (SessionFile), crashes and restarts.      *)
(*                                                                         *)
(* The server has one store (Server.sessions, internal/server/server.go),  *)
(* which every adapter of the Responses API is given (SetSession).  Stream *)
(* calls Commit and Invalidate while it has its slot, and gives it back    *)
(* after they have returned: the semaphores are all that keeps two savers  *)
(* apart.  A reload keeps the store.                                       *)
(***************************************************************************)
EXTENDS AdapterPool, SessionFile

CONSTANT Chaining  \* the providers whose adapters are given the store

ASSUME ServerAssumption == Savers \subseteq Handlers /\ Chaining \subseteq Providers

serverVars == <<vars, fileVars>>

ServerInit == Init /\ FileInit

\* Mutant of Serve: the slot is given back while the save goes on, by another
\* goroutine.
Serve_Detached ==
  /\ up
  /\ \/ Next /\ UNCHANGED fileVars
     \/ \E h \in Savers : Saving(h) /\ UNCHANGED vars

\* A reload, a request that gets on, or one that is in Commit or Invalidate, which
\* Stream waits for.
Serve ==
  /\ up
  /\ \/ Reload /\ UNCHANGED fileVars
     \/ \E h \in Handlers :
          Step(h) /\ (h \in Savers => pc[h] = "idle") /\ UNCHANGED fileVars
     \/ \E h \in Savers :
          /\ req[h].pc = "streaming" /\ req[h].provider \in Chaining
          /\ Saving(h) /\ UNCHANGED vars

\* The requests and the adapters go down with the process.  The next one reads
\* its configuration anew.
ServerCrash ==
  /\ Crash
  /\ \E limits \in Configs : states' = <<NewState(limits)>>
  /\ adapters' = <<>>
  /\ req' = [h \in Handlers |-> Idle]

ServerStart == Start /\ UNCHANGED vars

ServerNext == Serve \/ ServerCrash \/ ServerStart

ServerSpec == ServerInit /\ [][ServerNext]_serverVars

=============================================================================
