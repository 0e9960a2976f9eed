------------------------------ MODULE MCRunViews ------------------------------
(***************************************************************************)
(* The views of runs.  The browser shows one page at a time, so that one   *)
(* variable tells which of them a behaviour is about: the list of runs     *)
(* (RunsPage), one run (RunDetailPage), or the coordinator alone           *)
(* (RunStream) with more streams and longer ones than the page of one run  *)
(* leaves room for.  The others stay in an initial state.                  *)
(***************************************************************************)
EXTENDS RunDetailPage, RunsPage, TLC

VARIABLE shown

AllRunsInOneSandbox == [r \in Runs |-> CHOOSE s \in Sandboxes : TRUE]
MatchDef == [q \in Queries |-> IF q = "all" THEN RunIds ELSE RunIds \ {2}]

MCInit ==
  /\ shown \in {"runs", "run", "coordinator"}
  /\ RunsInit
  /\ shown # "runs" => query = "all" /\ wide = FALSE /\ newest = 0
  /\ Init
  /\ shown # "run" => runId = (CHOOSE r \in Runs : TRUE) /\ activeRuns = {}

\* Bound: a third run is only started while the inspector has no room.
ListStep ==
  /\ shown = "runs" /\ RunsNext
  /\ newest' > 2 => ~wide /\ ~wide'
  /\ UNCHANGED <<shown, vars>>

\* Bound: the page of one run sees one stream, without items.
PageStep ==
  /\ shown = "run" /\ Next
  /\ Cardinality(Begun') <= 1 /\ \A o \in Begun' : streams'[o].received = 0
  /\ UNCHANGED <<shown, runsVars>>

CoordinatorStep ==
  /\ shown = "coordinator" /\ CoordinatorNext
  /\ UNCHANGED <<shown, runsVars, page, asked, activeRuns>>

MCNext == ListStep \/ PageStep \/ CoordinatorStep
MCSpec == MCInit /\ [][MCNext]_<<shown, vars, runsVars>>

\* Neither the runs nor the streams are told apart by their names.
Symmetry == Permutations(Runs) \cup Permutations(Ops)

MCTypeOK == TypeOK /\ RunsTypeOK
=============================================================================
