------------------------------- MODULE MCServices -------------------------------
(***************************************************************************)
(* Three parts of the server whose steps must come to an end, and which    *)
(* share no state in these models: the audit store (AuditStore), how the   *)
(* process stops (ServerShutdown) and a session of the terminal bridge     *)
(* (TerminalSession).  A behaviour is about one of them, which shown       *)
(* names; the others stay in an initial state, in which nothing that       *)
(* fairness asks for is enabled.                                           *)
(***************************************************************************)
EXTENDS AuditStore, ServerShutdown, TerminalSession

VARIABLE shown

MCInit ==
  /\ shown \in {"audit", "server", "session"}
  /\ Init /\ ServerInit /\ SessionInit
  /\ shown # "server" =>
       requests = [r \in Requests |-> CHOOSE q \in Request : q.state = "none"]

\* How old a row is when it is deleted is of no account here.
AuditStep ==
  /\ shown = "audit" /\ Next
  /\ \A e \in Events : age'[e] # "expired"
  /\ UNCHANGED <<shown, serverVars, sessionVars>>
ServerStep ==
  /\ shown = "server" /\ ServerNext
  /\ UNCHANGED <<shown, vars, sessionVars>>
SessionStep ==
  /\ shown = "session" /\ SessionNext
  /\ UNCHANGED <<shown, vars, serverVars>>

MCNext == AuditStep \/ ServerStep \/ SessionStep
MCSpec ==
  /\ MCInit /\ [][MCNext]_<<shown, vars, serverVars, sessionVars>>
  /\ WF_vars(shown = "audit" /\ WriterStep)
  /\ AuditFairness /\ ServerFairness /\ SessionFairness

MCTypeOK == ServerTypeOK /\ SessionTypeOK
=============================================================================
