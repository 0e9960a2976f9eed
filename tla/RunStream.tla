------------------------------ MODULE RunStream ------------------------------
(***************************************************************************)
(* The coordinator of the agent runs this browser has started,             *)
(* src/src/lib/run-stream.svelte.ts: one entry of streams per call of      *)
(* start, found by its operation, its run and its sandbox.  Output and     *)
(* transcript items are counted, not named: received of them have come,    *)
(* the first shown of them are in the reactive state.                      *)
(***************************************************************************)
EXTENDS Integers, FiniteSets, Absent

CONSTANTS Ops, Runs, Sandboxes,
          MaxItems     \* bound: output and transcript items of a stream

VARIABLES streams,      \* AgentStreamState of every operation begun
          byOperation, byRun, bySandbox

coordinator == <<streams, byOperation, byRun, bySandbox>>

Final == {"completed", "failed", "canceled"}

Stream == [phase : {"starting", "streaming"} \cup Final,
           run : Runs \cup {None}, sandbox : Sandboxes \cup {None},
           received : 0 .. MaxItems, shown : 0 .. MaxItems, firstChunk : BOOLEAN,
           flushTimer : BOOLEAN,
           open : BOOLEAN,        \* for await runs and the controller is kept
           aborted : BOOLEAN, cleanup : BOOLEAN]

ASSUME RunStreamAssumption ==
  /\ MaxItems \in Nat
  /\ None \notin Ops \cup Runs \cup Sandboxes \cup Stream

Begun == {o \in Ops : streams[o] # None}
Running(o) == streams[o].phase \notin Final

CoordinatorTypeOK ==
  /\ streams \in [Ops -> Stream \cup {None}]
  /\ byOperation \subseteq Begun
  /\ byRun \in [Runs -> Begun \cup {None}]
  /\ bySandbox \in [Sandboxes -> Begun \cup {None}]

CoordinatorInit ==
  /\ streams = [o \in Ops |-> None]
  /\ byOperation = {}
  /\ byRun = [r \in Runs |-> None]
  /\ bySandbox = [s \in Sandboxes |-> None]

-----------------------------------------------------------------------------

\* start up to its await.  The sandbox is None where the daemon shall make one; the views
\* that name one do not send while a stream that they know of runs in it.
StartStream(o, sandbox) ==
  /\ o \notin Begun
  /\ \A p \in Begun : sandbox # None /\ bySandbox[sandbox] = p => ~Running(p)
  /\ streams' = [streams EXCEPT ![o] =
       [phase |-> "starting", run |-> None, sandbox |-> sandbox, received |-> 0,
        shown |-> 0, firstChunk |-> FALSE, flushTimer |-> FALSE, open |-> TRUE,
        aborted |-> FALSE, cleanup |-> FALSE]]
  /\ byOperation' = byOperation \cup {o}
  /\ bySandbox' = IF sandbox = None THEN bySandbox ELSE [bySandbox EXCEPT ![sandbox] = o]
  /\ UNCHANGED byRun

FlushedAgain(st) == [st EXCEPT !.shown = @ + st.received, !.flushTimer = FALSE]

Flushed(st) == [st EXCEPT !.shown = st.received, !.flushTimer = FALSE]

\* Every event carries the run, and those about the run its sandbox.
Registered(st, o, run, sandbox) ==
  /\ byRun' = IF run = st.run THEN byRun ELSE [byRun EXCEPT ![run] = o]
  /\ bySandbox' = IF sandbox \in {None, st.sandbox} THEN bySandbox
                  ELSE [bySandbox EXCEPT ![sandbox] = o]

Identified(st, run, sandbox) ==
  [st EXCEPT !.run = run, !.sandbox = IF sandbox = None THEN @ ELSE sandbox]

\* External: the run the daemon begins for a stream is a new one, in the sandbox that was
\* asked for or in a new one.
RunOf(o) ==
  IF streams[o].run # None THEN {streams[o].run}
  ELSE {r \in Runs : \A p \in Begun : streams[p].run # r}
SandboxOf(o) ==
  IF streams[o].sandbox # None THEN {streams[o].sandbox}
  ELSE {s \in Sandboxes : \A p \in Begun : streams[p].sandbox # s}

\* STARTED
Started(o) ==
  /\ streams[o].open /\ streams[o].phase = "starting"
  /\ \E run \in RunOf(o), sandbox \in SandboxOf(o) \cup {None} :
       /\ Registered(streams[o], o, run, sandbox)
       /\ streams' = [streams EXCEPT ![o] =
                        [Identified(@, run, sandbox) EXCEPT !.phase = "streaming"]]
  /\ UNCHANGED byOperation

OutputUnscheduled(o) ==
  LET st == streams[o]
      more == [st EXCEPT !.received = @ + 1, !.firstChunk = TRUE]
  IN  /\ st.open /\ st.phase = "streaming" /\ st.received < MaxItems
      /\ streams' = [streams EXCEPT ![o] = IF st.firstChunk THEN more ELSE Flushed(more)]
      /\ UNCHANGED <<byOperation, byRun, bySandbox>>

\* OUTPUT: the first chunk is shown at once, the next ones with the timer.
Output(o) ==
  LET st == streams[o]
      more == [st EXCEPT !.received = @ + 1, !.firstChunk = TRUE]
  IN  /\ st.open /\ st.phase = "streaming" /\ st.received < MaxItems
      /\ streams' = [streams EXCEPT ![o] =
                       IF st.firstChunk THEN [more EXCEPT !.flushTimer = TRUE]
                       ELSE Flushed(more)]
      /\ UNCHANGED <<byOperation, byRun, bySandbox>>

\* An event with a transcript, which an event of any type may have.
Transcript(o) ==
  /\ streams[o].open /\ streams[o].received < MaxItems
  /\ streams[o].run # None
  /\ streams' = [streams EXCEPT ![o].received = @ + 1, ![o].flushTimer = TRUE]
  /\ UNCHANGED <<byOperation, byRun, bySandbox>>

\* COMPLETED, with the run's status and sandbox.
Completed(o) ==
  /\ streams[o].open /\ streams[o].phase = "streaming"
  /\ \E sandbox \in SandboxOf(o), phase \in {"completed", "failed"} :
       /\ Registered(streams[o], o, streams[o].run, sandbox)
       /\ streams' = [streams EXCEPT ![o] =
            [Flushed(Identified(@, @.run, sandbox)) EXCEPT !.phase = phase]]
  /\ UNCHANGED byOperation

\* The stream ends in the order of the protocol, or early.
Ended(o) ==
  /\ streams[o].open
  /\ streams' = [streams EXCEPT ![o] =
       [Flushed(@) EXCEPT !.phase = IF Running(o) THEN "failed" ELSE streams[o].phase,
                          !.open = FALSE, !.cleanup = TRUE]]
  /\ UNCHANGED <<byOperation, byRun, bySandbox>>

\* The stream breaks, or was aborted.
Broken(o) ==
  /\ streams[o].open
  /\ streams' = [streams EXCEPT ![o] =
       [Flushed(@) EXCEPT !.phase = IF streams[o].aborted THEN "canceled" ELSE "failed",
                          !.open = FALSE, !.cleanup = TRUE]]
  /\ UNCHANGED <<byOperation, byRun, bySandbox>>

FlushTimer(o) ==
  /\ streams[o].flushTimer
  /\ streams' = [streams EXCEPT ![o] = Flushed(@)]
  /\ UNCHANGED <<byOperation, byRun, bySandbox>>

Cancel(o) ==
  /\ streams[o].open
  /\ streams' = [streams EXCEPT ![o].aborted = TRUE]
  /\ UNCHANGED <<byOperation, byRun, bySandbox>>

DismissedFromOperations(o) ==
  /\ byOperation' = byOperation \ {o}
  /\ UNCHANGED <<byRun, bySandbox>>

DismissedBlindly(o) ==
  LET st == streams[o]
  IN  /\ byOperation' = byOperation \ {o}
      /\ byRun' = IF st.run # None THEN [byRun EXCEPT ![st.run] = None] ELSE byRun
      /\ bySandbox' = IF st.sandbox # None THEN [bySandbox EXCEPT ![st.sandbox] = None]
                      ELSE bySandbox

\* dismiss, by the view that has taken over what the stream showed: only an index that
\* still points at this stream is cleared.
Dismissed(o) ==
  LET st == streams[o]
  IN  /\ byOperation' = byOperation \ {o}
      /\ byRun' = IF st.run # None /\ byRun[st.run] = o
                  THEN [byRun EXCEPT ![st.run] = None] ELSE byRun
      /\ bySandbox' = IF st.sandbox # None /\ bySandbox[st.sandbox] = o
                      THEN [bySandbox EXCEPT ![st.sandbox] = None] ELSE bySandbox

Dismiss(o) ==
  IF Running(o) THEN UNCHANGED <<byOperation, byRun, bySandbox>> ELSE Dismissed(o)

\* The timer of scheduleCleanup.
Cleanup(o) ==
  /\ streams[o].cleanup
  /\ streams' = [streams EXCEPT ![o].cleanup = FALSE]
  /\ IF o \in byOperation THEN Dismiss(o) ELSE UNCHANGED <<byOperation, byRun, bySandbox>>

StreamStep(o) ==
  \/ Started(o) \/ Output(o) \/ Transcript(o) \/ Completed(o) \/ Ended(o)
  \/ Broken(o) \/ FlushTimer(o) \/ Cancel(o) \/ Cleanup(o)

DismissStep(o) == Dismiss(o) /\ UNCHANGED streams

\* What the views may do with the coordinator: start, cancel and dismiss.
CoordinatorNext ==
  \/ \E o \in Ops, s \in Sandboxes \cup {None} : StartStream(o, s)
  \/ \E o \in Begun : StreamStep(o) \/ DismissStep(o)

CoordinatorSpec == CoordinatorInit /\ [][CoordinatorNext]_coordinator

-----------------------------------------------------------------------------
(* Properties *)

\* When the stream is over nothing of it is left in the pending variables, whether it
\* ended, broke or was canceled, and meanwhile what is pending has a timer
\* (run-stream.svelte.ts:108-124, 169, 175).
OutputComplete ==
  \A o \in Begun : streams[o].shown < streams[o].received =>
                     streams[o].open /\ streams[o].flushTimer

\* A page that asks for the stream of a run or of a sandbox gets one that is registered
\* and is about it (run-stream.svelte.ts:137-144, 192-193).
IndexesAgree ==
  /\ \A r \in Runs : byRun[r] # None =>
       byRun[r] \in byOperation /\ streams[byRun[r]].run = r
  /\ \A s \in Sandboxes : bySandbox[s] # None =>
       bySandbox[s] \in byOperation /\ streams[bySandbox[s]].sandbox = s

\* What is still running can be found by its run and in its sandbox: forgetting one
\* stream does not hide another that has taken its place (run-stream.svelte.ts:188-195).
RunningFound ==
  \A o \in Begun : Running(o) =>
    /\ o \in byOperation
    /\ streams[o].run # None => byRun[streams[o].run] = o
    /\ streams[o].sandbox # None => bySandbox[streams[o].sandbox] = o

=============================================================================
