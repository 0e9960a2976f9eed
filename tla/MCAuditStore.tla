----------------------------- MODULE MCAuditStore -----------------------------
(***************************************************************************)
(* The audit store and the migrations of its database, which share no      *)
(* state in these models.  A behaviour is about one of three things, which *)
(* shown names: the queue of the store, with all requests and nobody who   *)
(* waits for the writer; its barriers, with callers and few requests; and  *)
(* the migrations.  What is not shown stays in an initial state.           *)
(***************************************************************************)
EXTENDS AuditStore, Migrations, TLC

VARIABLE shown

MCInit ==
  /\ shown \in {"queue", "barrier", "migrations"}
  /\ Init /\ MigrationsInit
  /\ shown # "migrations" =>
       ~tables /\ build = [o \in Openers |-> CHOOSE b \in Builds : 2 \in DOMAIN b]

Arrived == {e \in Events : req[e] # "new"}
Older == {e \in Events : age[e] # "fresh"}

\* One request grows old.
QueueStep ==
  /\ shown = "queue"
  /\ (\E e \in Events : Handler(e)) \/ Server
  /\ Cardinality(Older') <= 1
  /\ UNCHANGED <<shown, migrationVars>>

\* Two requests, or one that may grow old.
BarrierStep ==
  /\ shown = "barrier" /\ Next
  /\ Cardinality(Arrived') <= IF Older' = {} THEN 2 ELSE 1
  /\ UNCHANGED <<shown, migrationVars>>
MigrationsStep ==
  /\ shown = "migrations" /\ MigrationsNext
  /\ UNCHANGED <<shown, vars>>

MCNext == QueueStep \/ BarrierStep \/ MigrationsStep
MCSpec == MCInit /\ [][MCNext]_<<shown, vars, migrationVars>>

Symmetry == Permutations(Events)
=============================================================================
