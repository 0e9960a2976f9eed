---------------------------- MODULE ServerShutdown ----------------------------
(***************************************************************************)
(* How the process serves and stops, internal/app/server.go: two servers,  *)
(* of which either may fail; the drain of both; and the stores, closed by  *)
(* the deferred calls of Run when servePair has returned.                  *)
(*                                                                         *)
(* A request is tracked, so that Shutdown waits for it, or its connection  *)
(* was taken over from the server: a terminal session, and every request   *)
(* of cleartext HTTP/2 on the token server.                                *)
(***************************************************************************)
EXTENDS Integers, FiniteSets

CONSTANTS Servers,   \* browserServer, tokenServer
          Requests

ASSUME ServersAssumption == IsFiniteSet(Servers)

VARIABLES main,         \* Run
          signalled,    \* ctx of NotifyContext is done
          listening,    \* ListenAndServe has not returned
          results,      \* servers whose goroutine has sent its result
          received,     \* results that servePair has taken
          shutdown,     \* the goroutine of shutdownAll for a server
          deadline,     \* shutdownTimeout has passed
          requests,
          audits, tokens,   \* the store is open
          lost          \* history: requests whose outcome came after audits.Close

serverVars == <<main, signalled, listening, results, received, shutdown,
                deadline, requests, audits, tokens, lost>>

Request == [server : Servers, tracked : BOOLEAN, state : {"none", "active", "done"}]

ServerTypeOK ==
  /\ main \in {"serving", "draining", "collecting", "closing audits", "closing tokens",
               "returned"}
  /\ {signalled, deadline, audits, tokens} \subseteq BOOLEAN
  /\ listening \subseteq Servers /\ results \subseteq Servers
  /\ received \in 0 .. Cardinality(Servers)
  /\ shutdown \in [Servers -> {"idle", "waiting", "drained", "cut off"}]
  /\ requests \in [Requests -> Request]
  /\ lost \subseteq Requests

ServerInit ==
  /\ main = "serving" /\ signalled = FALSE
  /\ listening = Servers /\ results = {} /\ received = 0
  /\ shutdown = [s \in Servers |-> "idle"] /\ deadline = FALSE
  /\ requests \in [Requests -> {r \in Request : r.state = "none"}]
  /\ audits = TRUE /\ tokens = TRUE /\ lost = {}

process == <<main, signalled, received, shutdown, deadline, audits, tokens>>
-----------------------------------------------------------------------------
(* The servers *)

\* On a connection that is there, if its listener has failed; on one that was taken over
\* (of the token server) also when that has been shut down.
RequestArrives(r) ==
  /\ requests[r].state = "none" /\ main # "returned"
  /\ requests[r].tracked => shutdown[requests[r].server] = "idle"
  /\ requests' = [requests EXCEPT ![r].state = "active"]
  /\ UNCHANGED <<process, listening, results, lost>>

\* The handler returns, and the middleware or the bridge hands its outcome to the store.
RequestEnds(r) ==
  /\ requests[r].state = "active" /\ main # "returned"
  /\ requests' = [requests EXCEPT ![r].state = "done"]
  /\ lost' = IF audits THEN lost ELSE lost \cup {r}
  /\ UNCHANGED <<process, listening, results>>

\* ListenAndServe returns with an error of its own.
ListenerFails(s) ==
  /\ s \in listening
  /\ listening' = listening \ {s}
  /\ UNCHANGED <<process, results, requests, lost>>

\* The goroutine of servePair puts what ListenAndServe returned into results.
Result(s) ==
  /\ s \notin listening /\ s \notin results
  /\ results' = results \cup {s}
  /\ UNCHANGED <<process, listening, requests, lost>>

Signal ==
  /\ ~signalled
  /\ signalled' = TRUE
  /\ UNCHANGED <<main, listening, results, received, shutdown, deadline, requests,
                 audits, tokens, lost>>
-----------------------------------------------------------------------------
(* servePair and shutdownAll *)

\* select: the first result or the signal, whichever is found.
StopServing ==
  /\ main = "serving"
  /\ \/ signalled /\ UNCHANGED received
     \/ results # {} /\ received' = 1
  /\ main' = "draining"
  /\ UNCHANGED <<signalled, listening, results, shutdown, deadline, requests, audits, tokens,
                 lost>>

\* Shutdown closes the listener first.
Shutdown(s) ==
  /\ main = "draining" /\ shutdown[s] = "idle"
  /\ shutdown' = [shutdown EXCEPT ![s] = "waiting"]
  /\ listening' = listening \ {s}
  /\ UNCHANGED <<main, signalled, results, received, deadline, requests, audits, tokens, lost>>

Deadline ==
  /\ main = "draining" /\ ~deadline
  /\ deadline' = TRUE
  /\ UNCHANGED <<main, signalled, listening, results, received, shutdown, requests,
                 audits, tokens, lost>>

Busy(s) == {r \in Requests : requests[r] = [server |-> s, tracked |-> TRUE, state |-> "active"]}

\* Shutdown returns when no request that it tracks is left, or with the deadline; Close
\* then cuts the connections and waits for nobody.
Drained(s) ==
  /\ shutdown[s] = "waiting"
  /\ \/ Busy(s) = {} /\ shutdown' = [shutdown EXCEPT ![s] = "drained"]
     \/ deadline /\ Busy(s) # {} /\ shutdown' = [shutdown EXCEPT ![s] = "cut off"]
  /\ UNCHANGED <<main, signalled, listening, results, received, deadline,
                 requests, audits, tokens, lost>>

\* Mutant of AllDrained: the goroutines are not waited for.
SomeDrained == TRUE

AllDrained == \A s \in Servers : shutdown[s] \in {"drained", "cut off"}

\* wg.Wait
ShutdownAll ==
  /\ main = "draining" /\ AllDrained
  /\ main' = "collecting"
  /\ UNCHANGED <<signalled, listening, results, received, shutdown, deadline,
                 requests, audits, tokens, lost>>

\* Mutant of TakeResult: the one that StopServing has taken is not reckoned with.
TakeResultAgain ==
  /\ main = "collecting" /\ results # {}
  /\ received' = received + 1
  /\ UNCHANGED <<main, signalled, listening, results, shutdown, deadline, requests,
                 audits, tokens, lost>>

\* A result that StopServing has not taken, of as many as there are servers.
TakeResult ==
  /\ main = "collecting" /\ received < Cardinality(Servers)
  /\ Cardinality(results) > received
  /\ received' = received + 1
  /\ UNCHANGED <<main, signalled, listening, results, shutdown, deadline, requests,
                 audits, tokens, lost>>

ServePairReturns ==
  /\ main = "collecting" /\ received = Cardinality(Servers)
  /\ main' = "closing audits"
  /\ UNCHANGED <<signalled, listening, results, received, shutdown, deadline,
                 requests, audits, tokens, lost>>
-----------------------------------------------------------------------------
(* The deferred calls of Run, the last first *)

CloseAudits ==
  /\ main = "closing audits"
  /\ audits' = FALSE /\ main' = "closing tokens"
  /\ UNCHANGED <<signalled, listening, results, received, shutdown, deadline,
                 requests, tokens, lost>>

CloseTokens ==
  /\ main = "closing tokens"
  /\ tokens' = FALSE /\ main' = "returned"
  /\ UNCHANGED <<signalled, listening, results, received, shutdown, deadline,
                 requests, audits, lost>>

StoppingStep ==
  \/ StopServing \/ Deadline \/ ShutdownAll \/ TakeResult \/ ServePairReturns
  \/ CloseAudits \/ CloseTokens

ServerNext ==
  \/ Signal \/ StoppingStep
  \/ \E r \in Requests : RequestArrives(r) \/ RequestEnds(r)
  \/ \E s \in Servers : ListenerFails(s) \/ Result(s) \/ Shutdown(s) \/ Drained(s)

ServerSpec == ServerInit /\ [][ServerNext]_serverVars

\* The goroutines of the process run; the deadline is a timer.  Requests need not end.
ServerFairness ==
  /\ WF_serverVars(StoppingStep)
  /\ \A s \in Servers : WF_serverVars(Result(s) \/ Shutdown(s) \/ Drained(s))
-----------------------------------------------------------------------------
(* Properties *)

Stopping == signalled \/ results # {}

\* An outcome comes too late for the audit store only where nobody waited for it: its
\* connection had been taken over from the server, or the drain was cut off.
OnlyUntrackedLost ==
  \A r \in lost : ~requests[r].tracked \/ shutdown[requests[r].server] = "cut off"

\* Once a signal came or a listener failed the process ends, whatever requests do and
\* whichever of the two was seen first; and the stores are closed behind the requests that
\* somebody waits for (server.go:275-308, audit/store.go:260).
StopsInOrder == (Stopping ~> main = "returned") /\ []OnlyUntrackedLost
=============================================================================
