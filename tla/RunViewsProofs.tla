--------------------------- MODULE RunViewsProofs ---------------------------
(***************************************************************************)
(* What RunStream promises for any number of operations, runs, sandboxes   *)
(* and items, and the page of one run over it, for any number of requests  *)
(* under way.                                                              *)
(*                                                                         *)
(* The coordinator: CInv is inductive.  The indexes agree with the streams *)
(* only because a new run or sandbox of a stream is not already another's, *)
(* and a running stream is found only because the indexes agree, so that   *)
(* neither is inductive alone.                                             *)
(*                                                                         *)
(* The page: its steps are steps of the coordinator or leave it alone, so  *)
(* that what the coordinator promises holds under the page too; there is   *)
(* one chain of polls; and the run shown is the one of the address.        *)
(***************************************************************************)
EXTENDS MCRunViews, RunsPageProofs, TLAPS

CInv == CoordinatorTypeOK /\ OutputComplete /\ IndexesAgree /\ RunningFound

USE DEF Final

-----------------------------------------------------------------------------
(* Lemmas: one for every way in which a step changes the streams and indexes *)

\* What st may be where it takes the place of streams[o].
Succeeds(st, o) ==
  /\ st \in Stream
  /\ st.run = streams[o].run /\ st.sandbox = streams[o].sandbox
  /\ st.phase \notin Final => streams[o].phase \notin Final
  /\ st.shown < st.received => st.open /\ st.flushTimer

\* The invariant says of a stream that was begun what CoordinatorTypeOK says of streams.
LEMMA BegunTyped ==
  ASSUME CoordinatorTypeOK, NEW o \in Begun
  PROVE  o \in Ops /\ streams[o] \in Stream /\ streams[o] # None
BY DEF CoordinatorTypeOK, Begun

\* flush leaves nothing to show and all else as it was.
LEMMA FlushedStream ==
  ASSUME NEW st \in Stream
  PROVE  /\ Flushed(st) \in Stream
         /\ Flushed(st).shown = st.received /\ Flushed(st).received = st.received
         /\ ~(Flushed(st).shown < Flushed(st).received)
         /\ Flushed(st).run = st.run /\ Flushed(st).sandbox = st.sandbox
         /\ Flushed(st).phase = st.phase
<1> DEFINE f == [st EXCEPT !.shown = st.received]
           g == [f EXCEPT !.flushTimer = FALSE]
<1>1. f \in Stream /\ f.shown = st.received /\ f.received = st.received
      /\ f.run = st.run /\ f.sandbox = st.sandbox /\ f.phase = st.phase
  BY DEF Stream
<1>2. g \in Stream /\ g.shown = st.received /\ g.received = st.received
      /\ g.run = st.run /\ g.sandbox = st.sandbox /\ g.phase = st.phase
  <2> HIDE DEF f
  <2> QED BY <1>1 DEF Stream
<1>3. Flushed(st) = g
  BY DEF Flushed
<1>4. st.received \in 0 .. MaxItems
  BY DEF Stream
<1>5. ~(st.received < st.received)
  BY <1>4, RunStreamAssumption
<1> HIDE DEF g
<1> QED BY <1>2, <1>3, <1>5

\* A step that replaces one stream by a successor leaves Begun alone.
LEMMA SameBegun ==
  ASSUME CoordinatorTypeOK, NEW o \in Begun, NEW st \in Stream,
         streams' = [streams EXCEPT ![o] = st]
  PROVE  /\ Begun' = Begun
         /\ streams' \in [Ops -> Stream \cup {None}]
         /\ streams'[o] = st
         /\ \A p \in Ops : p # o => streams'[p] = streams[p]
BY RunStreamAssumption DEF CoordinatorTypeOK, Begun

\* A stream that is over stays so and keeps its run.
OverKept ==
  \A o \in Begun : /\ o \in Begun'
                   /\ ~Running(o) => ~Running(o)' /\ streams'[o].run = streams[o].run

LEMMA ReplacedKept ==
  ASSUME CoordinatorTypeOK, NEW o \in Begun, NEW st \in Stream,
         streams' = [streams EXCEPT ![o] = st],
         ~Running(o) => st.phase \in Final /\ st.run = streams[o].run
  PROVE  OverKept
BY SameBegun, BegunTyped DEF OverKept, Running

\* Events that do not concern the indexes.
LEMMA StreamChange ==
  ASSUME CInv, NEW o \in Begun, NEW st, Succeeds(st, o),
         streams' = [streams EXCEPT ![o] = st],
         UNCHANGED <<byOperation, byRun, bySandbox>>
  PROVE  CInv' /\ OverKept
<1> USE RunStreamAssumption DEF CInv
<1>1. /\ Begun' = Begun
      /\ streams' \in [Ops -> Stream \cup {None}]
      /\ streams'[o] = st
      /\ \A p \in Ops : p # o => streams'[p] = streams[p]
      /\ o \in Ops
  BY SameBegun, BegunTyped DEF Succeeds
<1>2. CoordinatorTypeOK'
  BY <1>1 DEF CoordinatorTypeOK
<1>3. OutputComplete'
  BY <1>1, BegunTyped DEF OutputComplete, Succeeds
<1>4. IndexesAgree'
  BY <1>1 DEF IndexesAgree, Succeeds, CoordinatorTypeOK, Begun
<1>5. RunningFound'
  BY <1>1, BegunTyped DEF RunningFound, Succeeds, Running, Begun
<1>6. OverKept
  BY ReplacedKept DEF Succeeds, Running
<1> QED BY <1>2, <1>3, <1>4, <1>5, <1>6

\* STARTED and COMPLETED: the stream gets a run and a sandbox that no other stream has.
LEMMA IdentifiedChange ==
  ASSUME CInv, NEW o \in Begun, NEW run \in RunOf(o) \cup {streams[o].run},
         NEW sandbox \in SandboxOf(o) \cup {None}, NEW st \in Stream,
         Running(o),
         st.run = run,
         st.sandbox = IF sandbox = None THEN streams[o].sandbox ELSE sandbox,
         st.shown < st.received => st.open /\ st.flushTimer,
         Registered(streams[o], o, run, sandbox),
         streams' = [streams EXCEPT ![o] = st],
         byOperation' = byOperation
  PROVE  CInv' /\ OverKept
<1> USE RunStreamAssumption DEF CInv
<1>1. /\ Begun' = Begun
      /\ streams' \in [Ops -> Stream \cup {None}]
      /\ streams'[o] = st
      /\ \A p \in Ops : p # o => streams'[p] = streams[p]
      /\ o \in Ops /\ streams[o] \in Stream
      /\ o \in byOperation
  BY SameBegun, BegunTyped DEF RunningFound
<1>2. run \in Runs \cup {None} /\ sandbox \in Sandboxes \cup {None}
  BY <1>1 DEF RunOf, SandboxOf, Stream
<1>3. /\ streams[o].run # None => run = streams[o].run
      /\ \A p \in Begun : p # o /\ run # None => streams[p].run # run \/ run = streams[o].run
      /\ run # streams[o].run => run # None
  BY <1>1, <1>2 DEF RunOf, CoordinatorTypeOK
<1>4. CoordinatorTypeOK'
  <2>1. byRun' \in [Runs -> Begun \cup {None}]
    BY <1>1, <1>2, <1>3 DEF Registered, CoordinatorTypeOK
  <2>2. bySandbox' \in [Sandboxes -> Begun \cup {None}]
    BY <1>1, <1>2 DEF Registered, CoordinatorTypeOK
  <2> QED BY <1>1, <2>1, <2>2 DEF CoordinatorTypeOK
<1>5. OutputComplete'
  BY <1>1, BegunTyped DEF OutputComplete
<1>6. /\ sandbox \notin {None, streams[o].sandbox} =>
             streams[o].sandbox = None /\ \A p \in Begun : streams[p].sandbox # sandbox
      /\ st.sandbox # streams[o].sandbox => st.sandbox = sandbox /\ sandbox # None
  BY <1>1 DEF SandboxOf
<1>7. IndexesAgree'
  <2>1. \A r \in Runs : byRun'[r] # None =>
          byRun'[r] \in byOperation' /\ streams'[byRun'[r]].run = r
    BY <1>1, <1>2, <1>3 DEF IndexesAgree, Registered, CoordinatorTypeOK, Begun
  <2>2. \A s \in Sandboxes : bySandbox'[s] # None =>
          bySandbox'[s] \in byOperation' /\ streams'[bySandbox'[s]].sandbox = s
    BY <1>1, <1>2, <1>6 DEF IndexesAgree, Registered, CoordinatorTypeOK, Begun
  <2> QED BY <2>1, <2>2 DEF IndexesAgree
<1>8. RunningFound'
  <2> SUFFICES ASSUME NEW p \in Begun, Running(p)'
               PROVE  /\ p \in byOperation
                      /\ streams'[p].run # None => byRun'[streams'[p].run] = p
                      /\ streams'[p].sandbox # None => bySandbox'[streams'[p].sandbox] = p
    BY <1>1 DEF RunningFound
  <2>0. p \in Ops /\ streams[p] \in Stream
    BY BegunTyped
  <2>1. CASE p = o
    <3>1. p \in byOperation
      BY <1>1, <2>1
    <3>2. streams'[p].run # None => byRun'[streams'[p].run] = p
      BY <1>1, <1>2, <1>3, <2>1 DEF RunningFound, Registered, CoordinatorTypeOK
    <3>3. streams'[p].sandbox # None => bySandbox'[streams'[p].sandbox] = p
      BY <1>1, <1>2, <1>6, <2>1 DEF RunningFound, Registered, CoordinatorTypeOK
    <3> QED BY <3>1, <3>2, <3>3
  <2>2. CASE p # o
    <3>1. Running(p)
      BY <1>1, <2>0, <2>2 DEF Running
    <3>2. streams'[p].run # None => byRun'[streams'[p].run] = p
      BY <1>1, <1>2, <1>3, <2>0, <2>2, <3>1
      DEF RunningFound, Registered, CoordinatorTypeOK, Stream
    <3>3. streams'[p].sandbox # None => bySandbox'[streams'[p].sandbox] = p
      BY <1>1, <1>2, <1>6, <2>0, <2>2, <3>1
      DEF RunningFound, Registered, CoordinatorTypeOK, Stream
    <3>4. p \in byOperation
      BY <3>1 DEF RunningFound
    <3> QED BY <3>2, <3>3, <3>4
  <2> QED BY <2>1, <2>2
<1>9. OverKept
  BY ReplacedKept
<1> QED BY <1>4, <1>5, <1>7, <1>8, <1>9

\* dismiss, where the stream was not replaced or only by a successor that is not running.
LEMMA DismissChange ==
  ASSUME CInv, NEW o \in Begun, NEW st, Succeeds(st, o), ~Running(o),
         streams' = [streams EXCEPT ![o] = st],
         Dismissed(o)
  PROVE  CInv' /\ OverKept
<1> USE RunStreamAssumption DEF CInv
<1>1. /\ Begun' = Begun
      /\ streams' \in [Ops -> Stream \cup {None}]
      /\ streams'[o] = st /\ st \in Stream
      /\ \A p \in Ops : p # o => streams'[p] = streams[p]
      /\ o \in Ops /\ streams[o] \in Stream
  BY SameBegun, BegunTyped DEF Succeeds
<1>2. CoordinatorTypeOK'
  BY <1>1 DEF CoordinatorTypeOK, Dismissed, Stream
<1>3. OutputComplete'
  BY <1>1, BegunTyped DEF OutputComplete, Succeeds
<1>4. IndexesAgree'
  <2>1. \A r \in Runs : byRun'[r] # None =>
          byRun'[r] \in byOperation' /\ streams'[byRun'[r]].run = r
    BY <1>1 DEF IndexesAgree, Dismissed, CoordinatorTypeOK, Begun, Succeeds, Stream
  <2>2. \A s \in Sandboxes : bySandbox'[s] # None =>
          bySandbox'[s] \in byOperation' /\ streams'[bySandbox'[s]].sandbox = s
    BY <1>1 DEF IndexesAgree, Dismissed, CoordinatorTypeOK, Begun, Succeeds, Stream
  <2> QED BY <2>1, <2>2 DEF IndexesAgree
<1>5. RunningFound'
  <2> SUFFICES ASSUME NEW p \in Begun, Running(p)'
               PROVE  /\ p \in byOperation'
                      /\ streams'[p].run # None => byRun'[streams'[p].run] = p
                      /\ streams'[p].sandbox # None => bySandbox'[streams'[p].sandbox] = p
    BY <1>1 DEF RunningFound
  <2>1. p # o /\ p \in Ops
    BY <1>1, BegunTyped DEF Running, Succeeds
  <2>2. Running(p) /\ streams'[p] = streams[p] /\ streams[p] \in Stream
    BY <1>1, <2>1, BegunTyped DEF Running
  <2> QED BY <1>1, <2>1, <2>2 DEF RunningFound, Dismissed, CoordinatorTypeOK, Stream
<1>6. OverKept
  BY ReplacedKept DEF Succeeds, Running
<1> QED BY <1>2, <1>3, <1>4, <1>5, <1>6

\* A stream begins in a sandbox in which no stream runs.
LEMMA StartChange ==
  ASSUME CInv, NEW o \in Ops, NEW s \in Sandboxes \cup {None}, StartStream(o, s)
  PROVE  CInv' /\ OverKept
<1> USE RunStreamAssumption DEF CInv
<1> DEFINE new == [phase |-> "starting", run |-> None, sandbox |-> s, received |-> 0,
                   shown |-> 0, firstChunk |-> FALSE, flushTimer |-> FALSE, open |-> TRUE,
                   aborted |-> FALSE, cleanup |-> FALSE]
<1>1. new \in Stream
  BY DEF Stream
<1>2. /\ streams' = [streams EXCEPT ![o] = new] /\ o \notin Begun
      /\ byOperation' = byOperation \cup {o} /\ byRun' = byRun
      /\ bySandbox' = IF s = None THEN bySandbox ELSE [bySandbox EXCEPT ![s] = o]
  BY DEF StartStream
<1>3. /\ streams'[o] = new
      /\ \A p \in Ops : p # o => streams'[p] = streams[p]
      /\ Begun' = Begun \cup {o}
  <2> HIDE DEF new
  <2> QED BY <1>1, <1>2 DEF CoordinatorTypeOK, Begun
<1>4. \A p \in Begun : Running(p) => s = None \/ streams[p].sandbox # s
  BY DEF StartStream, RunningFound
<1>5. CoordinatorTypeOK'
  <2> HIDE DEF new
  <2> QED BY <1>1, <1>2, <1>3 DEF CoordinatorTypeOK
<1>6. OutputComplete'
  BY <1>3, BegunTyped DEF OutputComplete
<1>7. IndexesAgree'
  BY <1>2, <1>3, BegunTyped DEF IndexesAgree, CoordinatorTypeOK
<1>8. RunningFound'
  <2> SUFFICES ASSUME NEW p \in Begun \cup {o}, Running(p)'
               PROVE  /\ p \in byOperation'
                      /\ streams'[p].run # None => byRun'[streams'[p].run] = p
                      /\ streams'[p].sandbox # None => bySandbox'[streams'[p].sandbox] = p
    BY <1>3 DEF RunningFound
  <2>1. CASE p = o
    BY <1>2, <1>3, <2>1 DEF CoordinatorTypeOK
  <2>2. CASE p # o
    <3>1. p \in Begun /\ p \in Ops /\ streams'[p] = streams[p] /\ streams[p] \in Stream
      BY <1>3, <2>2, BegunTyped
    <3>2. Running(p)
      BY <3>1 DEF Running
    <3> QED BY <1>2, <1>4, <3>1, <3>2 DEF RunningFound, CoordinatorTypeOK, Stream
  <2> QED BY <2>1, <2>2
<1>9. OverKept
  BY <1>2, <1>3, BegunTyped DEF OverKept, Running
<1> QED BY <1>5, <1>6, <1>7, <1>8, <1>9

LEMMA StreamStepChange ==
  ASSUME CInv, NEW o \in Begun, StreamStep(o)
  PROVE  CInv' /\ OverKept
<1> DEFINE st == streams[o]
<1>1. st \in Stream /\ o \in Ops /\ MaxItems \in Nat
  BY BegunTyped, RunStreamAssumption DEF CInv
<1>2. OutputComplete /\ CoordinatorTypeOK
  BY DEF CInv
<1>12. st.received \in Nat /\ (st.received < MaxItems => st.received + 1 \in 0 .. MaxItems)
  BY <1>1 DEF Stream
<1>3. CASE Started(o)
  <2>1. PICK run \in RunOf(o), sandbox \in SandboxOf(o) \cup {None} :
          /\ Registered(st, o, run, sandbox)
          /\ streams' = [streams EXCEPT ![o] =
                            [Identified(st, run, sandbox) EXCEPT !.phase = "streaming"]]
    BY <1>3, <1>1 DEF Started
  <2> DEFINE new == [Identified(st, run, sandbox) EXCEPT !.phase = "streaming"]
  <2>2. run \in Runs \cup {None} /\ sandbox \in Sandboxes \cup {None}
    BY <1>1 DEF RunOf, SandboxOf, Stream
  <2>3. /\ new \in Stream /\ new.run = run
        /\ new.sandbox = IF sandbox = None THEN st.sandbox ELSE sandbox
        /\ new.shown = st.shown /\ new.received = st.received
        /\ new.open = st.open /\ new.flushTimer = st.flushTimer
    BY <1>1, <2>2 DEF Identified, Stream
  <2>4. new.shown < new.received => new.open /\ new.flushTimer
    BY <1>2, <2>3 DEF OutputComplete
  <2>5. Running(o) /\ byOperation' = byOperation
    BY <1>3 DEF Started, Running
  <2> HIDE DEF new
  <2> QED BY <2>1, <2>3, <2>4, <2>5, IdentifiedChange DEF new
<1>4. CASE Output(o)
  <2> DEFINE more == [st EXCEPT !.received = @ + 1, !.firstChunk = TRUE]
             new == IF st.firstChunk THEN [more EXCEPT !.flushTimer = TRUE] ELSE Flushed(more)
  <2>1. /\ st.open /\ st.received < MaxItems
        /\ streams' = [streams EXCEPT ![o] = new] /\ UNCHANGED <<byOperation, byRun, bySandbox>>
    BY <1>4 DEF Output
  <2>2. /\ more \in Stream /\ more.open /\ more.run = st.run
        /\ more.sandbox = st.sandbox /\ more.phase = st.phase
    BY <1>1, <1>12, <2>1 DEF Stream
  <2>3. Succeeds([more EXCEPT !.flushTimer = TRUE], o)
    <3> HIDE DEF more
    <3> QED BY <2>2 DEF Succeeds, Stream
  <2>4. Succeeds(Flushed(more), o)
    <3> HIDE DEF more
    <3> QED BY <2>2, FlushedStream DEF Succeeds
  <2>5. Succeeds(new, o)
    BY <2>3, <2>4
  <2> HIDE DEF new
  <2> QED BY <2>1, <2>5, StreamChange
<1>5. CASE Transcript(o)
  <2> DEFINE more == [st EXCEPT !.received = @ + 1]
             new == [more EXCEPT !.flushTimer = TRUE]
  <2>3. st.open /\ st.received < MaxItems
    BY <1>5 DEF Transcript
  <2>4. /\ more \in Stream /\ more.open /\ more.run = st.run
        /\ more.sandbox = st.sandbox /\ more.phase = st.phase
    BY <1>1, <1>12, <2>3 DEF Stream
  <2>1. Succeeds(new, o)
    <3> HIDE DEF more
    <3> QED BY <2>4 DEF Succeeds, Stream
  <2>2. streams' = [streams EXCEPT ![o] = new] /\ UNCHANGED <<byOperation, byRun, bySandbox>>
    BY <1>1, <1>2, <1>5 DEF Transcript, CoordinatorTypeOK, Stream
  <2> QED BY <2>1, <2>2, StreamChange
<1>6. CASE Completed(o)
  <2>1. PICK sandbox \in SandboxOf(o), phase \in {"completed", "failed"} :
          /\ Registered(st, o, st.run, sandbox)
          /\ streams' = [streams EXCEPT ![o] =
                            [Flushed(Identified(st, st.run, sandbox)) EXCEPT !.phase = phase]]
    BY <1>1, <1>6 DEF Completed, Identified
  <2> DEFINE new == [Flushed(Identified(st, st.run, sandbox)) EXCEPT !.phase = phase]
  <2>2. sandbox \in Sandboxes \cup {None}
    BY <1>1 DEF SandboxOf, Stream
  <2>3. /\ new \in Stream /\ new.run = st.run
        /\ new.sandbox = IF sandbox = None THEN st.sandbox ELSE sandbox
        /\ ~(new.shown < new.received)
    <3>1. /\ Identified(st, st.run, sandbox) \in Stream
          /\ Identified(st, st.run, sandbox).run = st.run
          /\ Identified(st, st.run, sandbox).sandbox =
               IF sandbox = None THEN st.sandbox ELSE sandbox
      BY <1>1, <2>2 DEF Identified, Stream
    <3>2. Flushed(Identified(st, st.run, sandbox)) \in Stream
      BY <3>1, FlushedStream
    <3> QED BY <3>1, <3>2, FlushedStream DEF Stream
  <2>4. Running(o) /\ byOperation' = byOperation
    BY <1>6 DEF Completed, Running
  <2> HIDE DEF new
  <2> QED BY <2>1, <2>3, <2>4, IdentifiedChange DEF new
<1>7. CASE Ended(o)
  <2> DEFINE new == [Flushed(st) EXCEPT !.phase = IF Running(o) THEN "failed" ELSE streams[o].phase,
                                        !.open = FALSE, !.cleanup = TRUE]
  <2>1. Succeeds(new, o)
    BY <1>1, FlushedStream DEF Succeeds, Stream, Running
  <2>2. streams' = [streams EXCEPT ![o] = new] /\ UNCHANGED <<byOperation, byRun, bySandbox>>
    BY <1>7 DEF Ended
  <2> QED BY <2>1, <2>2, StreamChange
<1>8. CASE Broken(o)
  <2> DEFINE new == [Flushed(st) EXCEPT !.phase = IF st.aborted THEN "canceled" ELSE "failed",
                                        !.open = FALSE, !.cleanup = TRUE]
  <2>1. Succeeds(new, o)
    BY <1>1, FlushedStream DEF Succeeds, Stream
  <2>2. streams' = [streams EXCEPT ![o] = new] /\ UNCHANGED <<byOperation, byRun, bySandbox>>
    BY <1>8 DEF Broken
  <2> QED BY <2>1, <2>2, StreamChange
<1>9. CASE FlushTimer(o)
  <2>1. Succeeds(Flushed(st), o)
    BY <1>1, FlushedStream DEF Succeeds, Stream
  <2>2. streams' = [streams EXCEPT ![o] = Flushed(st)]
        /\ UNCHANGED <<byOperation, byRun, bySandbox>>
    BY <1>9 DEF FlushTimer
  <2> QED BY <2>1, <2>2, StreamChange
<1>10. CASE Cancel(o)
  <2> DEFINE new == [st EXCEPT !.aborted = TRUE]
  <2>1. Succeeds(new, o)
    BY <1>1, <1>2 DEF Succeeds, Stream, OutputComplete
  <2>2. streams' = [streams EXCEPT ![o] = new] /\ UNCHANGED <<byOperation, byRun, bySandbox>>
    BY <1>10 DEF Cancel
  <2> QED BY <2>1, <2>2, StreamChange
<1>11. CASE Cleanup(o)
  <2> DEFINE new == [st EXCEPT !.cleanup = FALSE]
  <2>1. Succeeds(new, o)
    BY <1>1, <1>2 DEF Succeeds, Stream, OutputComplete
  <2>2. streams' = [streams EXCEPT ![o] = new]
    BY <1>11 DEF Cleanup
  <2>3. UNCHANGED <<byOperation, byRun, bySandbox>> \/ (~Running(o) /\ Dismissed(o))
    BY <1>11 DEF Cleanup, Dismiss
  <2> HIDE DEF new
  <2> QED BY <2>1, <2>2, <2>3, StreamChange, DismissChange
<1> QED BY <1>3, <1>4, <1>5, <1>6, <1>7, <1>8, <1>9, <1>10, <1>11 DEF StreamStep

LEMMA DismissStepChange ==
  ASSUME CInv, NEW o \in Begun, DismissStep(o)
  PROVE  CInv' /\ OverKept
<1>1. Succeeds(streams[o], o)
  BY BegunTyped DEF Succeeds, CInv, OutputComplete
<1>2. streams' = [streams EXCEPT ![o] = streams[o]]
  BY BegunTyped DEF DismissStep, CInv, CoordinatorTypeOK
<1>3. UNCHANGED <<byOperation, byRun, bySandbox>> \/ (~Running(o) /\ Dismissed(o))
  BY DEF DismissStep, Dismiss
<1> QED BY <1>1, <1>2, <1>3, StreamChange, DismissChange

-----------------------------------------------------------------------------
(* The theorems *)

LEMMA CInvInit == CoordinatorInit => CInv
BY RunStreamAssumption
DEF CoordinatorInit, CInv, CoordinatorTypeOK, OutputComplete, IndexesAgree, RunningFound, Begun

LEMMA CInvStutter == CInv /\ UNCHANGED coordinator => CInv' /\ OverKept
BY DEF coordinator, CInv, CoordinatorTypeOK, OutputComplete, IndexesAgree, RunningFound,
       Begun, Running, OverKept

\* The invariant is kept by every step of the coordinator, whoever takes it, and what is
\* over stays over.
THEOREM CInvStep == CInv /\ [CoordinatorNext]_coordinator => CInv' /\ OverKept
<1> SUFFICES ASSUME CInv, [CoordinatorNext]_coordinator PROVE CInv' /\ OverKept
  OBVIOUS
<1>1. CASE \E o \in Ops, s \in Sandboxes \cup {None} : StartStream(o, s)
  BY <1>1, StartChange
<1>2. CASE \E o \in Begun : StreamStep(o) \/ DismissStep(o)
  BY <1>2, StreamStepChange, DismissStepChange
<1>3. CASE UNCHANGED coordinator
  BY <1>3, CInvStutter
<1> QED BY <1>1, <1>2, <1>3 DEF CoordinatorNext

THEOREM CoordinatorInvariant == CoordinatorSpec => []CInv
BY CInvInit, CInvStep, PTL DEF CoordinatorSpec

\* The state of the coordinator has its type (run-stream.svelte.ts:78-83).
THEOREM CoordinatorTyped == CoordinatorSpec => []CoordinatorTypeOK
BY CoordinatorInvariant, PTL DEF CInv

\* A stream that is over has nothing left that was not shown, and one that is not has a
\* timer for it (run-stream.svelte.ts:108-124, 169, 175).
THEOREM OutputShown == CoordinatorSpec => []OutputComplete
BY CoordinatorInvariant, PTL DEF CInv

\* What is found by a run or in a sandbox is about it (run-stream.svelte.ts:137-144, 192-193).
THEOREM IndexesRight == CoordinatorSpec => []IndexesAgree
BY CoordinatorInvariant, PTL DEF CInv

\* What still runs is found by its run and in its sandbox, whatever other streams of the
\* sandbox were dismissed or cleaned up before (run-stream.svelte.ts:188-195).
THEOREM RunningStreamsFound == CoordinatorSpec => []RunningFound
BY CoordinatorInvariant, PTL DEF CInv

-----------------------------------------------------------------------------
(* The page of one run *)

\* The requests whose answer the page will still look at, the one for the conversation of
\* a run that has ended among them: it too may end in a poll.
Late == {r \in asked : r.current /\ r.kind # "finalize"}

OneLate ==
  /\ \A r, q \in Late : r = q
  /\ statusPollTimer # None => Late = {}

\* A stream that is over and is of the run.
OverFor(run) == \E o \in Begun : streams[o].run = run /\ ~Running(o)

\* Once the effect of the address has run, all that is late is about its run.
LateIsShown ==
  loadedRunId = runId =>
    /\ statusPollTimer # None => statusPollTimer = runId
    /\ \A r \in Late : r.run = runId
    /\ detail # None => detail.run = runId \/ OverFor(detail.run)

FinalizedIsOver ==
  \A r \in asked : r.kind = "finalize" =>
    r.op \in Begun /\ ~Running(r.op) /\ (r.current => streams[r.op].run = r.run)

PageInv == OneLate /\ LateIsShown /\ FinalizedIsOver

-----------------------------------------------------------------------------
(* Lemmas *)

LEMMA AskTyped ==
  ASSUME NEW kind \in {"load", "sandbox", "poll", "turns", "finalize"},
         NEW run \in Runs, NEW op \in Ops \cup {None}
  PROVE  /\ Ask(kind, run, op) \in Request
         /\ Ask(kind, run, op).kind = kind /\ Ask(kind, run, op).run = run
         /\ Ask(kind, run, op).op = op /\ Ask(kind, run, op).current = TRUE
BY DEF Ask, Request

\* Of the outdated requests only finalize may still be current.
LEMMA OutdatedTyped ==
  ASSUME asked \subseteq Request
  PROVE  /\ Outdated(asked) \subseteq Request
         /\ \A r \in Outdated(asked) :
              /\ r.kind # "finalize" => ~r.current
              /\ r.kind = "finalize" => r \in asked
<1> SUFFICES ASSUME NEW q \in asked,
                    NEW r, r = IF q.kind = "finalize" THEN q ELSE [q EXCEPT !.current = FALSE]
             PROVE  /\ r \in Request
                    /\ r.kind # "finalize" => ~r.current
                    /\ r.kind = "finalize" => r \in asked
  BY DEF Outdated
<1>1. q \in Request
  OBVIOUS
<1> QED BY <1>1 DEF Request

LEMMA OverForKept ==
  ASSUME OverKept, NEW run, OverFor(run)
  PROVE  OverFor(run)'
BY DEF OverKept, OverFor, Running

\* Streams may change where the page does not.
LEMMA PageKept ==
  ASSUME OverKept, PageInv, UNCHANGED <<page, asked>>
  PROVE  PageInv'
<1>1. OneLate'
  BY DEF PageInv, OneLate, Late, page
<1>2. LateIsShown'
  BY OverForKept DEF PageInv, LateIsShown, Late, page
<1>3. FinalizedIsOver'
  BY DEF PageInv, FinalizedIsOver, OverKept, Running
<1> QED BY <1>1, <1>2, <1>3 DEF PageInv

\* A request is answered or dropped, and nothing that depends on it changes.
LEMMA PageDrops ==
  ASSUME OverKept, PageInv, asked' \subseteq asked,
         UNCHANGED <<runId, loadedRunId, detail, statusPollTimer>>
  PROVE  PageInv'
<1>1. OneLate'
  BY DEF PageInv, OneLate, Late
<1>2. LateIsShown'
  BY OverForKept DEF PageInv, LateIsShown, Late
<1>3. FinalizedIsOver'
  BY DEF PageInv, FinalizedIsOver, OverKept, Running
<1> QED BY <1>1, <1>2, <1>3 DEF PageInv

-----------------------------------------------------------------------------
(* The steps of the page: the coordinator under them, and their types *)

IInv == TypeOK /\ CInv /\ PageInv

\* A step of the page that starts, moves or forgets a stream is a step of the coordinator.
LEMMA PageStepsCoordinator ==
  ASSUME IInv, [Next]_vars
  PROVE  [CoordinatorNext]_coordinator
<1>1. ASSUME NEW o \in Begun, StreamEvent(o) PROVE CoordinatorNext
  BY <1>1 DEF StreamEvent, CoordinatorNext
<1>2. CASE SendMessage
  <2>1. Home[detail.run] \in Sandboxes
    BY <1>2, RunDetailAssumption DEF SendMessage, IInv, TypeOK, Detail
  <2> QED BY <1>2, <2>1 DEF SendMessage, CoordinatorNext
<1>3. CASE StartElsewhere
  BY <1>3 DEF StartElsewhere, CoordinatorNext
<1>4. ASSUME NEW r \in asked, FinalizeAnswer(r) \/ FinalizeFails(r)
      PROVE  [CoordinatorNext]_coordinator
  <2>1. r.op \in Begun /\ ~Running(r.op)
    BY <1>4 DEF IInv, PageInv, FinalizedIsOver, FinalizeAnswer, FinalizeFails
  <2>2. DismissStep(r.op) \/ UNCHANGED coordinator
    BY <1>4 DEF FinalizeAnswer, FinalizeFails, DismissStep, coordinator
  <2> QED BY <2>1, <2>2 DEF CoordinatorNext
<1>5. CASE Navigate \/ LoadEffect \/ Stopped \/ PollTimer \/ SendEnds \/ Finalize \/ RunEnds
  BY <1>5 DEF Navigate, LoadEffect, Stopped, PollTimer, SendEnds, Finalize, RunEnds
<1>6. ASSUME NEW r \in asked,
             \/ Serve(r) \/ LoadAnswer(r) \/ LoadFails(r) \/ SandboxAnswer(r)
             \/ PollAnswer(r) \/ PollFails(r) \/ TurnsAnswer(r)
      PROVE  UNCHANGED coordinator
  BY <1>6 DEF Serve, LoadAnswer, LoadFails, SandboxAnswer, PollAnswer, PollFails, TurnsAnswer
<1>7. CASE UNCHANGED vars
  BY <1>7 DEF vars
<1> QED BY <1>1, <1>2, <1>3, <1>4, <1>5, <1>6, <1>7 DEF Next, Answer

\* The stream that is shown is one that was begun.
LEMMA ActiveTyped ==
  ASSUME TypeOK
  PROVE  ActiveStream \in Begun \cup {None}
<1>1. byRun[runId] \in Begun \cup {None}
  BY DEF TypeOK, CoordinatorTypeOK
<1>2. detail # None => bySandbox[Home[detail.run]] \in Begun \cup {None}
  BY RunDetailAssumption DEF TypeOK, CoordinatorTypeOK, Detail
<1> QED BY <1>1, <1>2 DEF ActiveStream

\* A reload leaves the page typed.
LEMMA LoadTyped ==
  ASSUME TypeOK, NEW run \in Runs, Load(run)
  PROVE  /\ loading' \in BOOLEAN /\ error' \in BOOLEAN
         /\ detail' \in Detail \cup {None}
         /\ statusPollTimer' \in Runs \cup {None}
         /\ asked' \subseteq Request
<1>1. Ask("load", run, None) \in Request
  BY AskTyped
<1>2. Outdated(asked) \subseteq Request
  BY OutdatedTyped DEF TypeOK
<1> QED BY <1>1, <1>2 DEF Load

LEMMA ScheduledTyped ==
  ASSUME NEW run \in Runs, NEW d
  PROVE  Scheduled(run, d) \in Runs \cup {None}
BY DEF Scheduled

LEMMA PageTypeStep ==
  ASSUME TypeOK, CoordinatorTypeOK', OverKept, [Next]_vars
  PROVE  TypeOK'
<1> USE DEF TypeOK, page
<1>1. CASE Navigate
  BY <1>1 DEF Navigate
<1>2. CASE LoadEffect
  BY <1>2, LoadTyped DEF LoadEffect
<1>3. CASE Stopped
  BY <1>3, LoadTyped DEF Stopped
<1>4. CASE PollTimer
  <2>1. Ask("poll", statusPollTimer, None) \in Request
    BY <1>4, AskTyped DEF PollTimer
  <2> QED BY <1>4, <2>1 DEF PollTimer
<1>5. CASE SendMessage
  BY <1>5 DEF SendMessage
<1>6. CASE SendEnds
  BY <1>6 DEF SendEnds
<1>7. CASE StartElsewhere
  BY <1>7 DEF StartElsewhere
<1>8. CASE Finalize
  <2> DEFINE o == ActiveStream
             ask == [Ask("finalize", runId, o) EXCEPT !.current = (streams[o].run = runId)]
  <2>1. o \in Ops
    BY <1>8, ActiveTyped DEF Finalize, Begun
  <2>2. Ask("finalize", runId, o) \in Request
    BY <2>1, AskTyped
  <2>3. ask \in Request
    BY <2>2 DEF Request
  <2>4. asked' = asked \cup {ask} /\ finalized' = o
    BY <1>8 DEF Finalize
  <2> HIDE DEF ask, o
  <2> QED BY <1>8, <2>1, <2>3, <2>4 DEF Finalize
<1>9. CASE RunEnds
  BY <1>9 DEF RunEnds
<1>10. ASSUME NEW o \in Begun, StreamEvent(o) PROVE TypeOK'
  <2>1. streams'[o].run \in Runs \cup {None}
    <3>1. o \in Ops /\ streams[o] \in Stream
      BY BegunTyped
    <3>2. streams'[o] \in Stream
      BY <3>1 DEF OverKept, Begun, CoordinatorTypeOK
    <3> QED BY <3>2 DEF Stream
  <2> QED BY <1>10, <2>1 DEF StreamEvent
<1>11. ASSUME NEW r \in asked, Answer(r) PROVE TypeOK'
  <2>1. r \in Request /\ r.run \in Runs
    BY DEF Request
  <2>2. CASE Serve(r)
    <3>1. [r EXCEPT !.active = r.run \in activeRuns] \in Request
      <4>1. \A b \in BOOLEAN : [r EXCEPT !.active = b] \in Request
        BY <2>1 DEF Request
      <4>2. (r.run \in activeRuns) \in BOOLEAN
        OBVIOUS
      <4> QED BY <4>1, <4>2, Zenon
    <3> QED BY <2>2, <3>1 DEF Serve
  <2>3. CASE LoadAnswer(r)
    <3>1. Ask("sandbox", r.run, None) \in Request
      BY <2>1, AskTyped
    <3>2. [run |-> r.run, active |-> r.active] \in Detail
      BY <2>1, <2>3 DEF LoadAnswer, Request, Detail
    <3> QED BY <2>3, <3>1, <3>2 DEF LoadAnswer
  <2>4. CASE LoadFails(r)
    BY <2>4 DEF LoadFails
  <2>5. CASE SandboxAnswer(r)
    BY <2>1, <2>5, ScheduledTyped DEF SandboxAnswer
  <2>6. CASE PollAnswer(r)
    <3>1. Ask("turns", r.run, None) \in Request
      BY <2>1, AskTyped
    <3>2. [run |-> r.run, active |-> r.active] \in Detail
      BY <2>1, <2>6 DEF PollAnswer, Request, Detail
    <3> QED BY <2>1, <2>6, <3>1, <3>2 DEF PollAnswer
  <2>7. CASE PollFails(r)
    BY <2>1, <2>7, ScheduledTyped DEF PollFails
  <2>8. CASE TurnsAnswer(r)
    BY <2>8 DEF TurnsAnswer
  <2>9. CASE FinalizeAnswer(r)
    <3>1. [run |-> r.run, active |-> r.active] \in Detail
      BY <2>1, <2>9 DEF FinalizeAnswer, Request, Detail
    <3> QED BY <2>9, <3>1 DEF FinalizeAnswer
  <2>10. CASE FinalizeFails(r)
    BY <2>10 DEF FinalizeFails
  <2> QED BY <1>11, <2>2, <2>3, <2>4, <2>5, <2>6, <2>7, <2>8, <2>9, <2>10 DEF Answer
<1>12. CASE UNCHANGED vars
  BY <1>12 DEF vars
<1> QED BY <1>1, <1>2, <1>3, <1>4, <1>5, <1>6, <1>7, <1>8, <1>9, <1>10, <1>11, <1>12
        DEF Next

-----------------------------------------------------------------------------
(* The steps of the page: what is late *)

\* A reload makes all but finalizeStream's requests outdated, and asks anew.
LEMMA LoadedPage ==
  ASSUME TypeOK, OverKept, PageInv, Load(runId), runId' = runId
  PROVE  PageInv'
<1> DEFINE ask == Ask("load", runId, None)
<1>1. ask.kind = "load" /\ ask.run = runId
  BY DEF Ask
<1>2. asked' = Outdated(asked) \cup {ask} /\ statusPollTimer' = None /\ detail' = None
  BY DEF Load
<1>3. \A r \in Outdated(asked) :
        /\ r.kind # "finalize" => ~r.current
        /\ r.kind = "finalize" => r \in asked
  BY OutdatedTyped DEF TypeOK
<1> HIDE DEF ask
<1>4. \A r \in Late' : r = ask
  BY <1>2, <1>3 DEF Late
<1>5. OneLate' /\ LateIsShown'
  BY <1>1, <1>2, <1>4 DEF OneLate, LateIsShown
<1>6. FinalizedIsOver'
  BY <1>1, <1>2, <1>3 DEF PageInv, FinalizedIsOver, OverKept, Running
<1> QED BY <1>5, <1>6 DEF PageInv

\* The answer to what was late is taken: one request or a timer takes its place.
LEMMA LateTaken ==
  ASSUME TypeOK, OverKept, PageInv, NEW r \in Late,
         asked' = asked \ {r} \/ \E kind \in {"sandbox", "turns"} :
           asked' = (asked \ {r}) \cup {Ask(kind, r.run, None)} /\ statusPollTimer' = None,
         statusPollTimer' \in {r.run, None},
         detail' = detail \/ detail' = [run |-> r.run, active |-> r.active],
         UNCHANGED <<runId, loadedRunId>>
  PROVE  PageInv'
<1>1. r \in asked /\ r.current /\ r.kind # "finalize" /\ r.run \in Runs
  BY DEF Late, TypeOK, Request
<1>2. statusPollTimer = None /\ \A q \in Late : q = r
  BY DEF PageInv, OneLate
<1>3. \A kind \in {"sandbox", "turns"} :
        Ask(kind, r.run, None).kind = kind /\ Ask(kind, r.run, None).run = r.run
  BY DEF Ask
<1>4. CASE asked' = asked \ {r}
  <2>1. Late' = {}
    BY <1>2, <1>4 DEF Late
  <2>2. OneLate'
    BY <2>1 DEF OneLate
  <2>3. LateIsShown'
    BY <2>1, OverForKept DEF PageInv, LateIsShown
  <2>4. FinalizedIsOver'
    BY <1>4 DEF PageInv, FinalizedIsOver, OverKept, Running
  <2> QED BY <2>2, <2>3, <2>4 DEF PageInv
<1>5. ASSUME NEW kind \in {"sandbox", "turns"}, statusPollTimer' = None,
             asked' = (asked \ {r}) \cup {Ask(kind, r.run, None)}
      PROVE  PageInv'
  <2> DEFINE ask == Ask(kind, r.run, None)
  <2>1. ask.kind = kind /\ ask.run = r.run
    BY <1>3
  <2> HIDE DEF ask
  <2>2. \A q \in Late' : q = ask
    BY <1>2, <1>5 DEF Late, ask
  <2>3. OneLate'
    BY <1>5, <2>2 DEF OneLate
  <2>4. LateIsShown'
    BY <1>5, <2>1, <2>2, OverForKept DEF PageInv, LateIsShown
  <2>5. FinalizedIsOver'
    BY <1>5, <2>1 DEF PageInv, FinalizedIsOver, OverKept, Running, ask
  <2> QED BY <2>3, <2>4, <2>5 DEF PageInv
<1> QED BY <1>4, <1>5

LEMMA PageKeeps ==
  ASSUME TypeOK, OverKept, PageInv, [Next]_vars
  PROVE  PageInv'
<1>1. CASE Navigate
  <2>1. loadedRunId' # runId'
    BY <1>1 DEF Navigate, TypeOK
  <2>2. OneLate' /\ FinalizedIsOver'
    BY <1>1 DEF Navigate, PageInv, OneLate, Late, FinalizedIsOver, OverKept, Running
  <2> QED BY <2>1, <2>2 DEF PageInv, LateIsShown
<1>2. CASE LoadEffect
  BY <1>2, LoadedPage DEF LoadEffect
<1>3. CASE Stopped
  <2>1. CASE Load(runId)
    BY <1>3, <2>1, LoadedPage DEF Stopped
  <2>2. CASE ~Load(runId)
    <3>1. UNCHANGED <<runId, loadedRunId, detail, statusPollTimer, asked>>
      BY <1>3, <2>2 DEF Stopped
    <3> QED BY <3>1, PageDrops
  <2> QED BY <2>1, <2>2
<1>4. CASE PollTimer
  <2> DEFINE ask == Ask("poll", statusPollTimer, None)
  <2>1. ask.kind = "poll" /\ ask.run = statusPollTimer
    BY DEF Ask
  <2> HIDE DEF ask
  <2>2. /\ asked' = asked \cup {ask} /\ statusPollTimer # None /\ statusPollTimer' = None
        /\ UNCHANGED <<runId, loadedRunId, detail>>
    BY <1>4 DEF PollTimer, ask
  <2>3. \A r \in Late' : r = ask
    BY <2>2 DEF PageInv, OneLate, Late
  <2>4. OneLate'
    BY <2>2, <2>3 DEF OneLate
  <2>5. LateIsShown'
    BY <2>1, <2>2, <2>3, OverForKept DEF PageInv, LateIsShown
  <2>6. FinalizedIsOver'
    BY <2>1, <2>2 DEF PageInv, FinalizedIsOver, OverKept, Running
  <2> QED BY <2>4, <2>5, <2>6 DEF PageInv
<1>5. CASE SendMessage \/ SendEnds
  <2>1. UNCHANGED <<runId, loadedRunId, detail, statusPollTimer, asked>>
    BY <1>5 DEF SendMessage, SendEnds
  <2> QED BY <2>1, PageDrops
<1>6. CASE StartElsewhere
  BY <1>6, PageKept DEF StartElsewhere
<1>7. CASE Finalize
  <2> DEFINE o == ActiveStream
             ask == [Ask("finalize", runId, o) EXCEPT !.current = (streams[o].run = runId)]
  <2>1. o \in Begun /\ ~Running(o) /\ asked' = asked \cup {ask}
    BY <1>7, ActiveTyped DEF Finalize
  <2>2. /\ ask.kind = "finalize" /\ ask.run = runId /\ ask.op = o
        /\ ask.current => streams[o].run = runId
    BY DEF Ask
  <2> HIDE DEF o, ask
  <2>3. UNCHANGED <<runId, loadedRunId, detail, statusPollTimer>>
    BY <1>7 DEF Finalize
  <2>4. Late' = Late
    BY <2>1, <2>2 DEF Late
  <2>5. OneLate' /\ LateIsShown'
    BY <2>3, <2>4, OverForKept DEF PageInv, OneLate, LateIsShown
  <2>6. FinalizedIsOver'
    BY <2>1, <2>2 DEF PageInv, FinalizedIsOver, OverKept, Running
  <2> QED BY <2>5, <2>6 DEF PageInv
<1>8. CASE RunEnds
  BY <1>8, PageKept DEF RunEnds
<1>9. ASSUME NEW o \in Begun, StreamEvent(o) PROVE PageInv'
  BY <1>9, PageKept DEF StreamEvent
<1>10. ASSUME NEW r \in asked, Answer(r) PROVE PageInv'
  <2>1. CASE Serve(r)
    <3> DEFINE served == [r EXCEPT !.active = r.run \in activeRuns]
    <3>1. /\ served.kind = r.kind /\ served.run = r.run /\ served.op = r.op
          /\ served.current = r.current
      BY DEF TypeOK, Request
    <3> HIDE DEF served
    <3>2. asked' = (asked \ {r}) \cup {served} /\ UNCHANGED <<coordinator, page>>
      BY <2>1 DEF Serve, served
    <3>3. OneLate'
      BY <3>1, <3>2 DEF PageInv, OneLate, Late, page
    <3>4. LateIsShown'
      BY <3>1, <3>2, OverForKept DEF PageInv, LateIsShown, Late, page
    <3>5. FinalizedIsOver'
      BY <3>1, <3>2 DEF PageInv, FinalizedIsOver, OverKept, Running
    <3> QED BY <3>3, <3>4, <3>5 DEF PageInv
  <2>2. CASE LoadAnswer(r)
    <3>1. CASE r.current
      <4>1. r \in Late /\ statusPollTimer' = None
        BY <2>2, <3>1 DEF LoadAnswer, Late, PageInv, OneLate
      <4> QED BY <2>2, <3>1, <4>1, LateTaken DEF LoadAnswer
    <3>2. CASE ~r.current
      BY <2>2, <3>2, PageDrops DEF LoadAnswer
    <3> QED BY <3>1, <3>2
  <2>3. CASE LoadFails(r) \/ TurnsAnswer(r)
    BY <2>3, PageDrops DEF LoadFails, TurnsAnswer, page
  <2>4. CASE SandboxAnswer(r)
    <3>1. CASE r.current
      <4>1. r \in Late
        BY <2>4, <3>1 DEF SandboxAnswer, Late
      <4> QED BY <2>4, <3>1, <4>1, LateTaken DEF SandboxAnswer, Scheduled
    <3>2. CASE ~r.current
      BY <2>4, <3>2, PageDrops DEF SandboxAnswer
    <3> QED BY <3>1, <3>2
  <2>5. CASE PollAnswer(r)
    <3>1. CASE PollOfThisPage(r)
      <4>1. r \in Late /\ statusPollTimer = None
        BY <2>5, <3>1 DEF PollAnswer, PollOfThisPage, Late, PageInv, OneLate
      <4> QED BY <2>5, <3>1, <4>1, LateTaken DEF PollAnswer
    <3>2. CASE ~PollOfThisPage(r)
      BY <2>5, <3>2, PageDrops DEF PollAnswer
    <3> QED BY <3>1, <3>2
  <2>6. CASE PollFails(r)
    <3>1. CASE PollOfThisPage(r)
      <4>1. r \in Late
        BY <2>6, <3>1 DEF PollFails, PollOfThisPage, Late
      <4> QED BY <2>6, <3>1, <4>1, LateTaken DEF PollFails, Scheduled
    <3>2. CASE ~PollOfThisPage(r)
      BY <2>6, <3>2, PageDrops DEF PollFails
    <3> QED BY <3>1, <3>2
  <2>7. CASE FinalizeAnswer(r)
    <3>1. r.op \in Begun /\ ~Running(r.op) /\ (r.current => streams[r.op].run = r.run)
      BY <2>7 DEF FinalizeAnswer, PageInv, FinalizedIsOver
    <3>2. detail' = detail \/ (detail'.run = r.run /\ OverFor(r.run)')
      BY <2>7, <3>1 DEF FinalizeAnswer, OverFor, OverKept, Running
    <3>3. asked' = asked \ {r} /\ UNCHANGED <<runId, loadedRunId, statusPollTimer>>
      BY <2>7 DEF FinalizeAnswer
    <3>4. OneLate' /\ FinalizedIsOver'
      BY <3>3 DEF PageInv, OneLate, Late, FinalizedIsOver, OverKept, Running
    <3>5. LateIsShown'
      BY <3>2, <3>3, OverForKept DEF PageInv, LateIsShown, Late
    <3> QED BY <3>4, <3>5 DEF PageInv
  <2>8. CASE FinalizeFails(r)
    BY <2>8, PageDrops DEF FinalizeFails
  <2> QED BY <1>10, <2>1, <2>2, <2>3, <2>4, <2>5, <2>6, <2>7, <2>8 DEF Answer
<1>11. CASE UNCHANGED vars
  BY <1>11, PageKept DEF vars
<1> QED BY <1>1, <1>2, <1>3, <1>4, <1>5, <1>6, <1>7, <1>8, <1>9, <1>10, <1>11 DEF Next

-----------------------------------------------------------------------------
(* The theorems *)

LEMMA IInvInit == Init => IInv
<1> SUFFICES ASSUME Init PROVE IInv
  OBVIOUS
<1>1. CInv
  BY CInvInit DEF Init
<1>2. TypeOK
  BY <1>1 DEF Init, TypeOK, CInv
<1>3. PageInv
  BY RunStreamAssumption DEF Init, PageInv, OneLate, Late, LateIsShown, FinalizedIsOver
<1> QED BY <1>1, <1>2, <1>3 DEF IInv

LEMMA IInvStep == IInv /\ [Next]_vars => IInv' /\ [CoordinatorNext]_coordinator
<1> SUFFICES ASSUME IInv, [Next]_vars PROVE IInv' /\ [CoordinatorNext]_coordinator
  OBVIOUS
<1>1. [CoordinatorNext]_coordinator
  BY PageStepsCoordinator
<1>2. CInv' /\ OverKept
  BY <1>1, CInvStep DEF IInv
<1>3. TypeOK'
  BY <1>2, PageTypeStep DEF IInv, CInv
<1>4. PageInv'
  BY <1>2, PageKeeps DEF IInv
<1> QED BY <1>1, <1>2, <1>3, <1>4 DEF IInv

THEOREM PageInvariant == Spec => []IInv
BY IInvInit, IInvStep, PTL DEF Spec

\* The state of the page has its type, whatever the coordinator under it goes through.
THEOREM PageTyped == Spec => []TypeOK
BY PageInvariant, PTL DEF IInv

\* The page uses the coordinator as its views may: it starts streams only where none runs
\* and forgets only what is over, so that all that is shown of the coordinator alone holds
\* under the page too (RunDetail.svelte:198-228, 284-309).
THEOREM PageUsesCoordinator == Spec => CoordinatorSpec
<1>1. Init => CoordinatorInit
  BY DEF Init
<1> QED BY <1>1, PageInvariant, IInvStep, PTL DEF Spec, CoordinatorSpec

\* However often a run is left, opened again or reloaded, the page has one timer or one
\* request that goes on to poll (RunDetail.svelte:134, 168, 176).
THEOREM OneChain == Spec => []OnePollChain
<1>1. IInv => OnePollChain
  BY DEF IInv, PageInv, OneLate, Late, OnePollChain, Chain
<1> QED BY <1>1, PageInvariant, PTL

\* The run that is shown is the one of the address, or one whose stream is over and was
\* finalized late (RunDetail.svelte:145, 177, 298).
THEOREM ShownRunRight == Spec => []ShownRun
<1>1. IInv => ShownRun
  BY DEF IInv, PageInv, LateIsShown, OverFor, ShownRun
<1> QED BY <1>1, PageInvariant, PTL

-----------------------------------------------------------------------------
(* The page: that an active run is followed *)

BrokenOff(o) == streams[o].phase \in {"failed", "canceled"}
BrokenFor(run) == \E o \in Begun : streams[o].run = run /\ BrokenOff(o)

\* COMPLETED is only sent after the daemon has ended the run, and no stream begins it again.
CompletedIsOver == \A o \in Begun : streams[o].phase = "completed" => streams[o].run \notin activeRuns

\* finalizeStream finds a run active only where its stream broke off.
LateIsBroken ==
  \A r \in asked : r.kind = "finalize" /\ r.current /\ r.active # None /\ r.active => BrokenOff(r.op)

\* RunFollowed without the load: it shows no run until it is answered, unless finalizeStream does.
Watched ==
  detail # None /\ detail.active /\ loadedRunId = runId =>
    \/ statusPollTimer # None
    \/ \E r \in Chain : r.kind # "load"
    \/ BrokenFor(detail.run)

FollowInv == CompletedIsOver /\ LateIsBroken /\ Watched

\* An event leaves the other streams alone; it gives its own a run that no other has, and
\* lets it complete only from an open one.
LEMMA EventFollows ==
  ASSUME CoordinatorTypeOK, NEW o \in Begun, StreamStep(o)
  PROVE  /\ \A p \in Ops : p # o => streams'[p] = streams[p]
         /\ Begun' = Begun
         /\ BrokenOff(o) => BrokenOff(o)'
         /\ streams'[o].run \in RunOf(o) \cup {streams[o].run}
         /\ streams'[o].phase = "completed" =>
              /\ streams'[o].run = streams[o].run
              /\ streams[o].phase # "completed" =>
                   streams[o].phase \notin Final /\ streams[o].open /\ streams'[o].open
<1> DEFINE st == streams[o]
<1>1. st \in Stream /\ o \in Ops /\ streams \in [Ops -> Stream \cup {None}] /\ None \notin Stream
  BY BegunTyped, RunStreamAssumption DEF CoordinatorTypeOK
<1> DEFINE Fits(new) ==
             /\ new # None
             /\ BrokenOff(o) => new.phase \in {"failed", "canceled"}
             /\ new.run \in RunOf(o) \cup {st.run}
             /\ new.phase = "completed" =>
                  /\ new.run = st.run
                  /\ st.phase # "completed" => st.phase \notin Final /\ st.open /\ new.open
<1>2. ASSUME NEW new, Fits(new), streams' = [streams EXCEPT ![o] = new]
      PROVE  /\ \A p \in Ops : p # o => streams'[p] = streams[p]
             /\ Begun' = Begun
             /\ streams'[o] = new
  BY <1>1, <1>2 DEF Begun
<1>3. \E new : Fits(new) /\ streams' = [streams EXCEPT ![o] = new]
  <2>1. CASE Started(o)
    <3>1. PICK run \in RunOf(o), sandbox \in SandboxOf(o) \cup {None} :
            streams' = [streams EXCEPT ![o] =
                          [Identified(st, run, sandbox) EXCEPT !.phase = "streaming"]]
      BY <1>1, <2>1 DEF Started
    <3> DEFINE new == [Identified(st, run, sandbox) EXCEPT !.phase = "streaming"]
    <3>2. run \in Runs \cup {None} /\ sandbox \in Sandboxes \cup {None}
      BY <1>1 DEF RunOf, SandboxOf, Stream
    <3>3. new \in Stream /\ new.run = run /\ new.phase = "streaming"
      BY <1>1, <3>2 DEF Identified, Stream
    <3>4. ~BrokenOff(o)
      BY <2>1 DEF Started, BrokenOff
    <3> HIDE DEF new
    <3>5. Fits(new)
      BY <1>1, <3>3, <3>4
    <3> QED BY <3>1, <3>5 DEF new
  <2>2. CASE Completed(o)
    <3>1. PICK sandbox \in SandboxOf(o), phase \in {"completed", "failed"} :
            streams' = [streams EXCEPT ![o] =
                          [Flushed(Identified(st, st.run, sandbox)) EXCEPT !.phase = phase]]
      BY <1>1, <2>2 DEF Completed, Identified
    <3> DEFINE idd == Identified(st, st.run, sandbox)
               new == [Flushed(idd) EXCEPT !.phase = phase]
    <3>2. sandbox \in Sandboxes \cup {None}
      BY <1>1 DEF SandboxOf, Stream
    <3>3. idd \in Stream /\ idd.run = st.run /\ idd.open = st.open
      BY <1>1, <3>2 DEF Identified, Stream
    <3>4. new \in Stream /\ new.run = st.run /\ new.phase = phase /\ new.open = st.open
      <4> HIDE DEF idd
      <4> QED BY <3>3 DEF Flushed, Stream
    <3>5. ~BrokenOff(o) /\ st.open /\ st.phase = "streaming"
      BY <2>2 DEF Completed, BrokenOff
    <3> HIDE DEF new
    <3>6. Fits(new)
      BY <1>1, <3>4, <3>5
    <3> QED BY <3>1, <3>6 DEF new
  <2>3. CASE Ended(o) \/ Broken(o)
    <3>1. PICK phase : /\ phase \in {"failed", "canceled"} \/ (phase = st.phase /\ ~Running(o))
                       /\ BrokenOff(o) => phase \in {"failed", "canceled"}
                       /\ streams' = [streams EXCEPT ![o] =
                            [Flushed(st) EXCEPT !.phase = phase, !.open = FALSE, !.cleanup = TRUE]]
      BY <1>1, <2>3 DEF Ended, Broken, BrokenOff
    <3> DEFINE new == [Flushed(st) EXCEPT !.phase = phase, !.open = FALSE, !.cleanup = TRUE]
    <3>2. new \in Stream /\ new.run = st.run /\ new.phase = phase
      BY <1>1, <3>1 DEF Flushed, Stream
    <3> HIDE DEF new
    <3>3. Fits(new)
      BY <1>1, <3>1, <3>2
    <3> QED BY <3>1, <3>3 DEF new
  <2>4. CASE Output(o) \/ Transcript(o) \/ FlushTimer(o) \/ Cancel(o) \/ Cleanup(o)
    <3>1. ASSUME NEW new \in Stream, new.phase = st.phase, new.run = st.run PROVE Fits(new)
      BY <1>1, <3>1 DEF BrokenOff
    <3>2. \E new \in Stream : /\ new.phase = st.phase /\ new.run = st.run
                              /\ streams' = [streams EXCEPT ![o] = new]
      <4>1. st.received < MaxItems => st.received + 1 \in 0 .. MaxItems
        BY <1>1, RunStreamAssumption DEF Stream
      <4>2. CASE Output(o) \/ Transcript(o)
        <5> DEFINE more == [st EXCEPT !.received = @ + 1]
                   chunk == [more EXCEPT !.firstChunk = TRUE]
        <5>1. st.received < MaxItems
          BY <4>2 DEF Output, Transcript
        <5>2. more \in Stream /\ more.phase = st.phase /\ more.run = st.run
          BY <1>1, <4>1, <5>1 DEF Stream
        <5>3. chunk \in Stream /\ chunk.phase = st.phase /\ chunk.run = st.run
          <6> HIDE DEF more
          <6> QED BY <5>2 DEF Stream
        <5>4. ASSUME NEW one \in Stream, one.phase = st.phase, one.run = st.run,
                     NEW new \in {[one EXCEPT !.flushTimer = TRUE], Flushed(one)}
              PROVE  new \in Stream /\ new.phase = st.phase /\ new.run = st.run
          <6>1. CASE new = [one EXCEPT !.flushTimer = TRUE]
            BY <5>4, <6>1 DEF Stream
          <6>2. CASE new = Flushed(one)
            BY <5>4, <6>2, FlushedStream
          <6> QED BY <6>1, <6>2
        <5>5. \E one \in {more, chunk} :
                \E new \in {[one EXCEPT !.flushTimer = TRUE], Flushed(one)} :
                  streams' = [streams EXCEPT ![o] = new]
          <6>1. CASE Output(o)
            <7>1. streams' = [streams EXCEPT ![o] =
                    IF st.firstChunk THEN [chunk EXCEPT !.flushTimer = TRUE] ELSE Flushed(chunk)]
              BY <6>1 DEF Output
            <7> HIDE DEF chunk
            <7> QED BY <7>1
          <6>2. CASE Transcript(o)
            <7>1. streams' = [streams EXCEPT ![o] = [more EXCEPT !.flushTimer = TRUE]]
              BY <1>1, <6>2 DEF Transcript, Stream
            <7> HIDE DEF more
            <7> QED BY <7>1
          <6> QED BY <4>2, <6>1, <6>2
        <5> HIDE DEF more, chunk
        <5> QED BY <5>2, <5>3, <5>4, <5>5
      <4>3. CASE FlushTimer(o)
        BY <1>1, <4>3 DEF FlushTimer, Flushed, Stream
      <4>4. CASE Cancel(o)
        <5> DEFINE new == [st EXCEPT !.aborted = TRUE]
        <5>1. new \in Stream /\ new.phase = st.phase /\ new.run = st.run
          BY <1>1 DEF Stream
        <5>2. streams' = [streams EXCEPT ![o] = new]
          BY <4>4 DEF Cancel
        <5> HIDE DEF new
        <5> QED BY <5>1, <5>2
      <4>5. CASE Cleanup(o)
        <5> DEFINE new == [st EXCEPT !.cleanup = FALSE]
        <5>1. new \in Stream /\ new.phase = st.phase /\ new.run = st.run
          BY <1>1 DEF Stream
        <5>2. streams' = [streams EXCEPT ![o] = new]
          BY <4>5 DEF Cleanup
        <5> HIDE DEF new
        <5> QED BY <5>1, <5>2
      <4> QED BY <2>4, <4>2, <4>3, <4>4, <4>5
    <3> QED BY <3>1, <3>2
  <2> QED BY <2>1, <2>2, <2>3, <2>4 DEF StreamStep
<1> QED BY <1>2, <1>3 DEF BrokenOff

\* What has broken off stays so and keeps its run, whatever the page or the coordinator does.
BrokenKept ==
  \A o \in Begun : BrokenOff(o) => /\ o \in Begun' /\ BrokenOff(o)'
                                   /\ streams'[o].run = streams[o].run

LEMMA StepFollows ==
  ASSUME IInv, [Next]_vars, CompletedIsOver
  PROVE  BrokenKept /\ CompletedIsOver'
<1> USE DEF IInv
<1>1. ASSUME NEW o \in Begun, StreamEvent(o) PROVE BrokenKept /\ CompletedIsOver'
  <2>1. /\ \A p \in Ops : p # o => streams'[p] = streams[p]
        /\ Begun' = Begun /\ o \in Ops
        /\ BrokenOff(o) => BrokenOff(o)'
        /\ streams'[o].run \in RunOf(o) \cup {streams[o].run}
        /\ streams'[o].phase = "completed" =>
             /\ streams'[o].run = streams[o].run
             /\ streams[o].phase # "completed" =>
                  streams[o].phase \notin Final /\ streams[o].open /\ streams'[o].open
    BY <1>1, EventFollows, BegunTyped DEF StreamEvent, TypeOK
  <2>2. BrokenKept
    <3>1. OverKept
      BY PageStepsCoordinator, CInvStep
    <3>2. ASSUME NEW p \in Begun, BrokenOff(p)
          PROVE  p \in Begun' /\ BrokenOff(p)' /\ streams'[p].run = streams[p].run
      <4>1. p \in Ops /\ ~Running(p)
        BY <3>2 DEF Begun, BrokenOff, Running
      <4>2. p \in Begun' /\ streams'[p].run = streams[p].run
        BY <3>1, <4>1 DEF OverKept
      <4>3. BrokenOff(p)'
        BY <2>1, <3>2, <4>1 DEF BrokenOff
      <4> QED BY <4>2, <4>3
    <3> QED BY <3>2 DEF BrokenKept
  <2>3. CompletedIsOver'
    <3> SUFFICES ASSUME NEW p \in Begun, streams'[p].phase = "completed"
                 PROVE  streams'[p].run \notin activeRuns'
      BY <2>1 DEF CompletedIsOver
    <3>1. p \in Ops
      BY DEF Begun
    <3>2. activeRuns' = IF streams[o].run = None /\ streams'[o].run # None
                        THEN activeRuns \cup {streams'[o].run} ELSE activeRuns
      BY <1>1 DEF StreamEvent
    <3>3. CASE p = o
      <4>1. activeRuns' = activeRuns
        BY <2>1, <3>2, <3>3
      <4>2. CASE streams[o].phase = "completed"
        BY <2>1, <3>3, <4>1, <4>2 DEF CompletedIsOver
      <4>3. CASE streams[o].phase # "completed"
        BY <1>1, <2>1, <3>3, <4>1, <4>3 DEF StreamEvent
      <4> QED BY <4>2, <4>3
    <3>4. CASE p # o
      <4>1. streams'[p] = streams[p] /\ streams[p].run \notin activeRuns
        BY <2>1, <3>1, <3>4 DEF CompletedIsOver
      <4>2. streams[o].run = None /\ streams'[o].run # None => streams'[o].run # streams[p].run
        BY <2>1 DEF RunOf
      <4> QED BY <3>2, <4>1, <4>2
    <3> QED BY <3>3, <3>4
  <2> QED BY <2>2, <2>3
<1>2. ASSUME NEW o \in Ops, NEW s, StartStream(o, s), activeRuns' = activeRuns
      PROVE  BrokenKept /\ CompletedIsOver'
  <2>1. o \notin Begun /\ \A p \in Ops : p # o => streams'[p] = streams[p]
    BY <1>2 DEF StartStream, TypeOK, CoordinatorTypeOK
  <2>2. streams'[o].phase = "starting"
    BY <1>2 DEF StartStream, TypeOK, CoordinatorTypeOK
  <2>3. \A p \in Begun : p \in Ops /\ p # o /\ streams'[p] = streams[p] /\ p \in Begun'
    BY <2>1 DEF Begun
  <2>4. \A p \in Begun' : p = o \/ p \in Begun
    BY <2>1 DEF Begun
  <2> QED BY <1>2, <2>2, <2>3, <2>4 DEF BrokenKept, BrokenOff, CompletedIsOver
<1>3. ASSUME UNCHANGED streams, activeRuns' \subseteq activeRuns
      PROVE  BrokenKept /\ CompletedIsOver'
  BY <1>3 DEF BrokenKept, BrokenOff, CompletedIsOver, Begun
<1>4. CASE SendMessage \/ StartElsewhere
  BY <1>2, <1>4 DEF SendMessage, StartElsewhere
<1>5. CASE Navigate \/ LoadEffect \/ Stopped \/ PollTimer \/ SendEnds \/ Finalize \/ RunEnds
  <2>1. UNCHANGED streams /\ activeRuns' \subseteq activeRuns
    BY <1>5 DEF Navigate, LoadEffect, Stopped, PollTimer, SendEnds, Finalize, RunEnds, coordinator
  <2> QED BY <1>3, <2>1
<1>6. ASSUME NEW r \in asked, Answer(r) PROVE BrokenKept /\ CompletedIsOver'
  <2>1. UNCHANGED streams /\ activeRuns' = activeRuns
    BY <1>6 DEF Answer, Serve, LoadAnswer, LoadFails, SandboxAnswer, PollAnswer, PollFails,
                TurnsAnswer, FinalizeAnswer, FinalizeFails, DismissStep, coordinator
  <2> QED BY <1>3, <2>1
<1>7. CASE UNCHANGED vars
  BY <1>3, <1>7 DEF vars, coordinator
<1> QED BY <1>1, <1>4, <1>5, <1>6, <1>7 DEF Next

LEMMA LateIsBrokenStep ==
  ASSUME IInv, FollowInv, BrokenKept, [Next]_vars
  PROVE  LateIsBroken'
<1> SUFFICES ASSUME NEW r \in asked', r.kind = "finalize", r.current, r.active # None, r.active
             PROVE  BrokenOff(r.op)'
  BY DEF LateIsBroken
<1>1. CASE r \in asked
  <2>1. r.op \in Begun /\ BrokenOff(r.op)
    BY <1>1 DEF FollowInv, LateIsBroken, IInv, PageInv, FinalizedIsOver
  <2> QED BY <2>1 DEF BrokenKept
<1>2. CASE r \notin asked
  <2>1. PICK q \in asked : Serve(q) /\ r = [q EXCEPT !.active = q.run \in activeRuns]
    <3>1. \A kind \in {"load", "sandbox", "poll", "turns"} : \A run : Ask(kind, run, None).kind # "finalize"
      BY DEF Ask
    <3>2. \A q \in Outdated(asked) : q.kind = "finalize" => q \in asked
      BY OutdatedTyped DEF IInv, TypeOK
    <3>3. [Ask("finalize", runId, ActiveStream) EXCEPT
             !.current = (streams[ActiveStream].run = runId)].active = None
      BY DEF Ask
    <3>4. ~Navigate /\ ~LoadEffect /\ ~Stopped /\ ~PollTimer /\ ~SendMessage /\ ~SendEnds
          /\ ~StartElsewhere /\ ~RunEnds /\ ~UNCHANGED vars
      BY <1>2, <3>1, <3>2 DEF Navigate, LoadEffect, Stopped, Load, PollTimer, SendMessage,
                             SendEnds, StartElsewhere, RunEnds, vars
    <3>5. ~Finalize
      BY <1>2, <3>3 DEF Finalize
    <3>6. \A o \in Begun : ~StreamEvent(o)
      BY <1>2 DEF StreamEvent
    <3>7. ASSUME NEW q \in asked, Answer(q) PROVE Serve(q)
      BY <1>2, <3>1, <3>7 DEF Answer, LoadAnswer, LoadFails, SandboxAnswer, PollAnswer,
                             PollFails, TurnsAnswer, FinalizeAnswer, FinalizeFails
    <3>8. PICK q \in asked : Serve(q)
      BY <3>4, <3>5, <3>6, <3>7 DEF Next
    <3> QED BY <1>2, <3>8 DEF Serve
  <2>2. q \in Request /\ q.kind = "finalize" /\ q.current /\ r.op = q.op
        /\ r.active = (q.run \in activeRuns)
    BY <2>1 DEF IInv, TypeOK, Request
  <2>3. q.op \in Begun /\ ~Running(q.op) /\ streams[q.op].run = q.run
    BY <2>1, <2>2 DEF IInv, PageInv, FinalizedIsOver
  <2>4. BrokenOff(q.op)
    BY <2>2, <2>3 DEF Running, BrokenOff, FollowInv, CompletedIsOver
  <2> QED BY <2>2, <2>3, <2>4 DEF BrokenKept
<1> QED BY <1>1, <1>2

\* An unchanged run is still watched where a timer or a request other than a load is left.
LEMMA StillWatched ==
  ASSUME FollowInv, BrokenKept, UNCHANGED <<runId, loadedRunId, detail>>,
         loadedRunId = runId =>
           /\ statusPollTimer # None =>
                statusPollTimer' # None \/ \E r \in Chain' : r.kind # "load"
           /\ \A r \in Chain : r.kind # "load" =>
                \/ statusPollTimer' # None \/ detail = None \/ ~detail.active
                \/ \E q \in Chain' : q.kind # "load"
  PROVE  Watched'
<1>1. BrokenFor(detail.run) => BrokenFor(detail.run)'
  BY DEF BrokenKept, BrokenFor
<1> QED BY <1>1 DEF FollowInv, Watched

\* A request that is dropped was not the one that goes on to poll.
LEMMA DroppedWatched ==
  ASSUME FollowInv, BrokenKept, NEW r \in asked, asked' = asked \ {r},
         UNCHANGED <<runId, loadedRunId, detail, statusPollTimer>>,
         r \in Chain /\ r.kind # "load" => loadedRunId # runId
  PROVE  Watched'
BY StillWatched DEF Chain

LEMMA WatchedStep ==
  ASSUME IInv, FollowInv, BrokenKept, [Next]_vars
  PROVE  Watched'
<1>1. CASE Navigate
  BY <1>1 DEF Navigate, Watched
<1>2. CASE LoadEffect
  BY <1>2 DEF LoadEffect, Load, Watched
<1>3. CASE Stopped
  <2>1. CASE Load(runId)
    BY <2>1 DEF Load, Watched
  <2>2. CASE ~Load(runId)
    BY <1>3, <2>2, StillWatched DEF Stopped, Chain
  <2> QED BY <2>1, <2>2
<1>4. CASE PollTimer
  <2> DEFINE ask == Ask("poll", statusPollTimer, None)
  <2>1. ask.kind = "poll" /\ ask.current
    BY DEF Ask
  <2> HIDE DEF ask
  <2>2. asked' = asked \cup {ask} /\ UNCHANGED <<runId, loadedRunId, detail>>
    BY <1>4 DEF PollTimer, ask
  <2> QED BY <2>1, <2>2, StillWatched DEF Chain
<1>5. CASE Finalize
  <2>1. asked \subseteq asked' /\ UNCHANGED <<runId, loadedRunId, detail, statusPollTimer>>
    BY <1>5 DEF Finalize
  <2> QED BY <2>1, StillWatched DEF Chain
<1>6. CASE SendMessage \/ SendEnds \/ StartElsewhere \/ RunEnds \/ UNCHANGED vars
           \/ \E o \in Begun : StreamEvent(o)
  <2>1. UNCHANGED <<asked, runId, loadedRunId, detail, statusPollTimer>>
    BY <1>6 DEF SendMessage, SendEnds, StartElsewhere, RunEnds, StreamEvent, vars, page
  <2> QED BY <2>1, StillWatched DEF Chain
<1>7. ASSUME NEW r \in asked, Answer(r) PROVE Watched'
  <2>0. loadedRunId = runId /\ r \in Late => r.run = runId
    BY DEF IInv, PageInv, LateIsShown
  <2>1. CASE Serve(r)
    <3> DEFINE served == [r EXCEPT !.active = r.run \in activeRuns]
    <3>1. served.kind = r.kind /\ served.current = r.current
      BY DEF IInv, TypeOK, Request
    <3> HIDE DEF served
    <3>2. asked' = (asked \ {r}) \cup {served}
          /\ UNCHANGED <<runId, loadedRunId, detail, statusPollTimer>>
      BY <2>1 DEF Serve, page, served
    <3> QED BY <3>1, <3>2, StillWatched DEF Chain
  <2>2. CASE LoadAnswer(r)
    <3>1. CASE r.current
      <4> DEFINE ask == Ask("sandbox", r.run, None)
      <4>1. ask.kind = "sandbox" /\ ask.current
        BY DEF Ask
      <4> HIDE DEF ask
      <4>2. ask \in asked'
        BY <2>2, <3>1 DEF LoadAnswer, ask
      <4> QED BY <4>1, <4>2 DEF Watched, Chain
    <3>2. CASE ~r.current
      BY <2>2, <3>2, DroppedWatched DEF LoadAnswer, Chain
    <3> QED BY <3>1, <3>2
  <2>3. CASE LoadFails(r)
    BY <2>3, DroppedWatched DEF LoadFails
  <2>4. CASE SandboxAnswer(r)
    <3>1. CASE r.current
      <4>1. r.run # None
        BY RunStreamAssumption DEF IInv, TypeOK, Request
      <4>2. detail' = detail /\ statusPollTimer' = Scheduled(r.run, detail)
        BY <2>4, <3>1 DEF SandboxAnswer
      <4> QED BY <4>1, <4>2 DEF Watched, Scheduled
    <3>2. CASE ~r.current
      BY <2>4, <3>2, DroppedWatched DEF SandboxAnswer, Chain
    <3> QED BY <3>1, <3>2
  <2>5. CASE PollAnswer(r)
    <3>1. CASE PollOfThisPage(r)
      <4>1. r.run # None
        BY RunStreamAssumption DEF IInv, TypeOK, Request
      <4>2. detail'.active = r.active /\ (r.active => statusPollTimer' = r.run)
        BY <2>5, <3>1 DEF PollAnswer
      <4> QED BY <4>1, <4>2 DEF Watched
    <3>2. CASE ~PollOfThisPage(r)
      <4>1. r \in Chain => loadedRunId # runId
        BY <2>0, <2>5, <3>2 DEF PollAnswer, PollOfThisPage, Chain, Late
      <4> QED BY <2>5, <3>2, <4>1, DroppedWatched DEF PollAnswer
    <3> QED BY <3>1, <3>2
  <2>6. CASE PollFails(r)
    <3>1. CASE PollOfThisPage(r)
      <4>1. r.run # None
        BY RunStreamAssumption DEF IInv, TypeOK, Request
      <4>2. detail' = detail /\ statusPollTimer' = Scheduled(r.run, detail)
        BY <2>6, <3>1 DEF PollFails
      <4> QED BY <4>1, <4>2 DEF Watched, Scheduled
    <3>2. CASE ~PollOfThisPage(r)
      <4>1. r \in Chain => loadedRunId # runId
        BY <2>0, <2>6, <3>2 DEF PollFails, PollOfThisPage, Chain, Late
      <4> QED BY <2>6, <3>2, <4>1, DroppedWatched DEF PollFails
    <3> QED BY <3>1, <3>2
  <2>7. CASE TurnsAnswer(r)
    BY <2>7, DroppedWatched DEF TurnsAnswer, page, Chain
  <2>8. CASE FinalizeAnswer(r)
    <3>1. r.op \in Begun /\ (r.current => streams[r.op].run = r.run)
      BY <2>8 DEF FinalizeAnswer, IInv, PageInv, FinalizedIsOver
    <3>2. CASE r.current
      <4>1. detail' = [run |-> r.run, active |-> r.active] /\ r.active # None
        BY <2>8, <3>2 DEF FinalizeAnswer
      <4>2. detail'.run = r.run /\ detail'.active = r.active
        BY <4>1
      <4>3. r.active => BrokenOff(r.op)
        BY <2>8, <3>2 DEF FinalizeAnswer, FollowInv, LateIsBroken
      <4>4. r.active => r.op \in Begun' /\ BrokenOff(r.op)' /\ streams'[r.op].run = r.run
        BY <3>1, <3>2, <4>3 DEF BrokenKept
      <4> QED BY <4>2, <4>4 DEF Watched, BrokenFor
    <3>3. CASE ~r.current
      BY <2>8, <3>3, DroppedWatched DEF FinalizeAnswer, Chain
    <3> QED BY <3>2, <3>3
  <2>9. CASE FinalizeFails(r)
    BY <2>9, DroppedWatched DEF FinalizeFails, Chain
  <2> QED BY <1>7, <2>1, <2>2, <2>3, <2>4, <2>5, <2>6, <2>7, <2>8, <2>9 DEF Answer
<1> QED BY <1>1, <1>2, <1>3, <1>4, <1>5, <1>6, <1>7 DEF Next

\* A run that is shown as active is polled, or its stream broke off, however polls fail and
\* whatever the page is sent to meanwhile (RunDetail.svelte:159, 179, 185, 298).
THEOREM ActiveRunFollowed == Spec => []RunFollowed
<1>1. Init => IInv /\ FollowInv
  BY IInvInit DEF Init, CoordinatorInit, FollowInv, CompletedIsOver, LateIsBroken, Watched, Begun
<1>2. IInv /\ FollowInv /\ [Next]_vars => (IInv /\ FollowInv)'
  BY IInvStep, StepFollows, LateIsBrokenStep, WatchedStep DEF FollowInv
<1>3. FollowInv => RunFollowed
  BY DEF FollowInv, Watched, BrokenFor, BrokenOff, RunFollowed
<1> QED BY <1>1, <1>2, <1>3, PTL DEF Spec

-----------------------------------------------------------------------------
(* The views together *)

VInv == IInv /\ LInv

LEMMA VInvInit == MCInit => VInv
BY IInvInit, LInvInit DEF MCInit, VInv

\* One view is shown at a time: a step of it leaves what the others have alone.
LEMMA VInvStep == VInv /\ [MCNext]_<<shown, vars, runsVars>> => VInv'
<1> SUFFICES ASSUME VInv, [MCNext]_<<shown, vars, runsVars>> PROVE VInv'
  OBVIOUS
<1>1. CASE [RunsNext]_runsVars /\ UNCHANGED vars
  BY <1>1, LInvStep, IInvStep DEF VInv
<1>2. CASE [Next]_vars /\ UNCHANGED runsVars
  BY <1>2, LInvStep, IInvStep DEF VInv
<1>3. CASE CoordinatorStep
  <2>1. CInv' /\ OverKept
    BY <1>3, CInvStep DEF CoordinatorStep, VInv, IInv
  <2>2. PageInv'
    BY <1>3, <2>1, PageKept DEF CoordinatorStep, VInv, IInv
  <2>3. TypeOK'
    BY <1>3, <2>1 DEF CoordinatorStep, VInv, IInv, TypeOK, CInv, page
  <2>4. LInv'
    BY <1>3, LInvStep DEF CoordinatorStep, VInv
  <2> QED BY <2>1, <2>2, <2>3, <2>4 DEF VInv, IInv
<1> QED BY <1>1, <1>2, <1>3 DEF MCNext, ListStep, PageStep

\* All three views have their types whichever of them is shown, the coordinator under the
\* page of one run and alone.
THEOREM ViewsTyped == MCSpec => []MCTypeOK
<1>1. VInv => MCTypeOK
  BY ListTypes DEF VInv, IInv, LInv, Good, MCTypeOK
<1> QED BY <1>1, VInvInit, VInvStep, PTL DEF MCSpec
=============================================================================
