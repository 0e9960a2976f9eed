------------------------------ MODULE AuditTrail ------------------------------
(***************************************************************************)
(* What internal/audit promises about one audit event, seen from outside:  *)
(* the request it stands for (req) and the row of audit_event that carries *)
(* its id (row).  Queues, batches, retries and barriers are invisible      *)
(* here; AuditStore shows that it implements this module.                  *)
(***************************************************************************)
CONSTANT Events

VARIABLES
  finished,   \* finished[e]: the outcome of e's request has been accepted
  row,        \* row[e]: "none", "started" (a placeholder) or "final"
  age         \* age[e]: "fresh", "slow" (past startFallback), "expired" (past retention)

trail == <<finished, row, age>>

Init ==
  /\ finished = [e \in Events |-> FALSE]
  /\ row = [e \in Events |-> "none"]
  /\ age = [e \in Events |-> "fresh"]

\* The outcome of a request becomes known, once.
Outcome(e) ==
  /\ ~finished[e]
  /\ finished' = [finished EXCEPT ![e] = TRUE]
  /\ UNCHANGED <<row, age>>

\* The clock passes the fallback or the retention limit of e.
Elapse(e) ==
  /\ age[e] # "expired"
  /\ age' = [age EXCEPT ![e] = IF @ = "fresh" THEN "slow" ELSE "expired"]
  /\ UNCHANGED <<finished, row>>

\* A transaction writes placeholders and outcomes.  A placeholder never
\* replaces an outcome, and an outcome is written only once it is known.
Persist(placeholders, outcomes) ==
  /\ \A e \in placeholders : row[e] # "final"
  /\ \A e \in outcomes : finished[e]
  /\ row' = [e \in Events |-> IF e \in outcomes THEN "final"
                              ELSE IF e \in placeholders THEN "started"
                              ELSE row[e]]
  /\ UNCHANGED <<finished, age>>

\* Retention deletes exactly the rows that have expired.
Expire ==
  /\ row' = [e \in Events |-> IF age[e] = "expired" THEN "none" ELSE row[e]]
  /\ UNCHANGED <<finished, age>>

Next ==
  \/ \E e \in Events : Outcome(e) \/ Elapse(e)
  \/ \E placeholders, outcomes \in SUBSET Events : Persist(placeholders, outcomes)
  \/ Expire

Spec == Init /\ [][Next]_trail
===============================================================================
