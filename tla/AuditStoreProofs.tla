--------------------------- MODULE AuditStoreProofs ---------------------------
(***************************************************************************)
(* AuditStore keeps its safety properties for every number of events and   *)
(* callers, and every limit.                                               *)
(***************************************************************************)
EXTENDS AuditStore, FiniteSetTheorems, TLAPS

\* The empty store is well typed.
LEMMA TypeInit == Init => TypeOK
<1> SUFFICES ASSUME Init PROVE TypeOK
  OBVIOUS
<1> USE AuditStoreAssumption DEF Init, NoItems
<1>1. batches \in Nat /\ batches < MaxBatchesPerPass
  OBVIOUS
<1>2. /\ attempts \in [Events -> Nat] /\ ready \in [Events -> Nat]
      /\ failed \in [Events -> Nat] /\ finals \in [Events -> Nat]
  OBVIOUS
<1>3. /\ finished \in [Events -> BOOLEAN] /\ written \in [Events -> BOOLEAN]
      /\ age \in [Events -> Ages]
  BY DEF Ages
<1>4. /\ owed \in [Callers -> SUBSET Events] /\ missed \in [Callers -> SUBSET Events]
      /\ owedOpen \in [Callers -> SUBSET Events]
  OBVIOUS
<1> QED
  BY <1>1, <1>2, <1>3, <1>4 DEF TypeOK

EndBatchTypes ==
  /\ owedOpen \in [Callers -> SUBSET Events]
  /\ finals \in [Events -> Nat] /\ placeholders \subseteq Events
  /\ wpc \in {"select", "take", "advance"}
  /\ covered \subseteq Callers
  /\ batches \in Nat /\ batches < MaxBatchesPerPass
  /\ force \in BOOLEAN /\ complete \in BOOLEAN

\* The part of a batch's end that a commit and a failure share.
LEMMA EndBatchTyped == TypeOK /\ EndBatch => EndBatchTypes'
<1> SUFFICES ASSUME TypeOK, EndBatch PROVE EndBatchTypes'
  OBVIOUS
<1> USE AuditStoreAssumption DEF TypeOK, EndBatch
<1>1. owedOpen' \in [Callers -> SUBSET Events]
  OBVIOUS
<1>2. finals' \in [Events -> Nat] /\ placeholders' \subseteq Events
  BY DEF NoItems
<1>3. wpc' \in {"select", "take", "advance"} /\ covered' \subseteq Callers
  OBVIOUS
<1>4. batches' \in Nat /\ batches' < MaxBatchesPerPass
  BY DEF MoreBatches
<1>5. force' \in BOOLEAN /\ complete' \in BOOLEAN
  OBVIOUS
<1> QED
  BY <1>1, <1>2, <1>3, <1>4, <1>5 DEF EndBatchTypes

\* A turn of barrier's loop keeps the types.
LEMMA BarrierTyped ==
  ASSUME TypeOK, NEW c \in Callers, NEW k \in {"sync", "cleanup"}, Barrier(c, k)
  PROVE  TypeOK'
<1>1. /\ caller \in [Callers -> {"idle", "waiting", "again", "returned"}]
      /\ op \in [Callers -> {"sync", "cleanup"}]
      /\ owed \in [Callers -> SUBSET Events] /\ missed \in [Callers -> SUBSET Events]
      /\ owedOpen \in [Callers -> SUBSET Events] /\ owedDelete \subseteq Callers /\ late \subseteq Callers
      /\ covered \subseteq Callers /\ settled \subseteq Callers /\ woken \subseteq Callers
      /\ cleanupReq \in BOOLEAN /\ forceFlush \in BOOLEAN
  BY DEF TypeOK
<1>2. Unflushed \subseteq Events /\ Unplaced \subseteq Events
  BY DEF Unflushed, Unplaced, TypeOK
<1>3. /\ caller' \in [Callers -> {"idle", "waiting", "again", "returned"}]
      /\ op' \in [Callers -> {"sync", "cleanup"}]
  BY <1>1 DEF Barrier, Return
<1>4. missed' \in [Callers -> SUBSET Events]
  BY <1>1 DEF Barrier, Return
<1>5. owed' \in [Callers -> SUBSET Events]
  BY <1>1, <1>2 DEF Barrier, Return
<1>6. owedOpen' \in [Callers -> SUBSET Events]
  BY <1>1, <1>2 DEF Barrier, Return
<1>7. /\ covered' \subseteq Callers /\ settled' \subseteq Callers /\ woken' \subseteq Callers
      /\ owedDelete' \subseteq Callers /\ late' \subseteq Callers
  BY <1>1 DEF Barrier, Return
<1>8. cleanupReq' \in BOOLEAN /\ forceFlush' \in BOOLEAN
  BY <1>1 DEF Barrier, flags
<1>9. UNCHANGED <<handlers, events, local, control, age, closing, row>>
  BY DEF Barrier
<1> QED
  BY <1>3, <1>4, <1>5, <1>6, <1>7, <1>8, <1>9 DEF TypeOK, handlers, events, local, control

\* Every step keeps the types, action by action.
LEMMA TypeNext == TypeOK /\ [Next]_vars => TypeOK'
<1> SUFFICES ASSUME TypeOK, [Next]_vars PROVE TypeOK'
  OBVIOUS
<1> USE AuditStoreAssumption DEF TypeOK
<1> USE DEF handlers, clients, barrier, events, local, control, flags
<1>1. ASSUME NEW e \in Events, Start(e) PROVE TypeOK'
  BY <1>1 DEF Start
<1>2. ASSUME NEW e \in Events, Finish(e) PROVE TypeOK'
  <2>1. /\ req' \in [Events -> {"new", "running", "done", "dropped"}]
        /\ pending' \subseteq Events
        /\ finished' \in [Events -> BOOLEAN]
    BY <1>2 DEF Finish
  <2>2. ready' \in [Events -> Nat]
    BY <1>2 DEF Finish
  <2> QED
    BY <1>2, <2>1, <2>2 DEF Finish
<1>3. ASSUME NEW e \in Events, Record(e) PROVE TypeOK'
  <2>1. /\ req' \in [Events -> {"new", "running", "done", "dropped"}]
        /\ finished' \in [Events -> BOOLEAN]
    BY <1>3 DEF Record
  <2>2. ready' \in [Events -> Nat]
    BY <1>3 DEF Record
  <2> QED
    BY <1>3, <2>1, <2>2 DEF Record
<1>4. ASSUME NEW e \in Events, Elapse(e) PROVE TypeOK'
  BY <1>4 DEF Elapse, Ages
<1>5. ASSUME NEW c \in Callers, NEW k \in {"sync", "cleanup"}, Barrier(c, k) PROVE TypeOK'
  BY Zenon, <1>5, BarrierTyped
<1>6. ASSUME NEW c \in Callers, Recheck(c) PROVE TypeOK'
  <2>1. CASE Return(c)
    BY <1>6, <2>1 DEF Recheck, Return
  <2>2. CASE caller' = [caller EXCEPT ![c] = "again"] /\ UNCHANGED <<op, barrier, owed, missed, owedOpen, owedDelete, late>>
    BY <1>6, <2>2 DEF Recheck
  <2> QED
    BY Zenon, <1>6, <2>1, <2>2 DEF Recheck
<1>7. ASSUME NEW c \in Callers, GiveUp(c) PROVE TypeOK'
  BY <1>7 DEF GiveUp, Return
<1>8. CASE Tick
  BY <1>8 DEF Tick, Pass
<1>9. CASE TakeStop
  BY <1>9 DEF TakeStop
<1>10. CASE DrainPass
  BY <1>10 DEF DrainPass, Pass
<1>11. CASE SpendBudget
  BY <1>11 DEF SpendBudget
<1>12. CASE Exit
  BY <1>12 DEF Exit, ReleaseBarrier, AdvanceBarrier, Waiting
<1>13. CASE CleanupNow
  BY <1>13 DEF CleanupNow, DeleteExpired
<1>14. CASE RetentionTick
  BY <1>14 DEF RetentionTick, DeleteExpired
<1>15. CASE ConsumeForce
  <2>1. /\ batches' \in Nat /\ batches' < MaxBatchesPerPass
    BY <1>15 DEF ConsumeForce
  <2>2. force' \in BOOLEAN /\ forceFlush' \in BOOLEAN
    BY <1>15 DEF ConsumeForce
  <2> QED
    BY <1>15, <2>1, <2>2 DEF ConsumeForce
<1>16. CASE TakeBatch
  <2> PICK taken \in [Events -> Copies], started \in SUBSET Eligible :
         /\ \A e \in Events : taken[e] <= ready[e]
         /\ finals' = taken
         /\ placeholders' = started
         /\ ready' = [e \in Events |-> ready[e] - taken[e]]
         /\ attempts' = [e \in Events |-> attempts[e] + taken[e] + (IF e \in started THEN 1 ELSE 0)]
         /\ complete' = (taken = ready /\ started = Eligible)
    BY <1>16 DEF TakeBatch
  <2>1. finals' \in [Events -> Nat]
    BY DEF Copies
  <2>2. placeholders' \subseteq Events /\ complete' \in BOOLEAN
    BY DEF Eligible, Unplaced
  <2>3. ready' \in [Events -> Nat]
    BY DEF Copies
  <2>4. attempts' \in [Events -> Nat]
    BY DEF Copies
  <2> QED
    BY <1>16, <2>1, <2>2, <2>3, <2>4 DEF TakeBatch, Waiting
<1>17. CASE Commit
  BY <1>17 DEF Commit
<1>18. CASE MarkWritten
  <2>1. written' \in [Events -> BOOLEAN] /\ attempts' \in [Events -> Nat]
    BY <1>18 DEF MarkWritten
  <2>2. EndBatchTypes'
    BY <1>18, EndBatchTyped DEF MarkWritten
  <2> QED
    BY <1>18, <2>1, <2>2 DEF MarkWritten, EndBatch, EndBatchTypes
<1>19. CASE FailBatch
  <2>1. failed' \in [Events -> Nat]
    BY <1>19 DEF FailBatch, Items
  <2>2. ready' \in [Events -> Nat]
    BY <1>19 DEF FailBatch, Items
  <2>3. pending' \subseteq Events
    BY <1>19 DEF FailBatch
  <2>4. EndBatchTypes'
    BY <1>19, EndBatchTyped DEF FailBatch
  <2>5. missed' \in [Callers -> SUBSET Events]
    BY <1>19 DEF FailBatch
  <2> QED
    BY <1>19, <2>1, <2>2, <2>3, <2>4, <2>5 DEF FailBatch, EndBatch, EndBatchTypes
<1>20. CASE Advance
  <2>1. batches' \in Nat /\ batches' < MaxBatchesPerPass
    BY <1>20 DEF Advance
  <2> QED
    BY <1>20, <2>1 DEF Advance, AdvanceBarrier, Waiting
<1>21. CASE Close
  BY <1>21 DEF Close, MarkClosed, StopWriter, CloseHandles
<1>22. CASE UNCHANGED vars
  BY <1>22 DEF vars
<1> QED
  BY <1>1, <1>2, <1>3, <1>4, <1>5, <1>6, <1>7, <1>8, <1>9, <1>10, <1>11, <1>12, <1>13, <1>14,
     <1>15, <1>16, <1>17, <1>18, <1>19, <1>20, <1>21, <1>22
     DEF Next, Server, Handler, Client, WriterStep, Sync, Cleanup

\* Every variable keeps its type, and flush never runs more than
\* maxBatchesPerPass batches in a pass.
THEOREM TypeCorrect == Spec => []TypeOK
BY TypeInit, TypeNext, PTL DEF Spec
-------------------------------------------------------------------------------
(* The queues.  What is true of one event between any two steps: where it is *)
(* says what is known of it, and its copies and attempts share one budget.   *)

\* Unknown events are nowhere; a pending one has no outcome anywhere; queued
\* or final means finished.
WhereItIs(e) ==
  /\ req[e] \in {"new", "dropped"} => /\ e \notin pending /\ e \notin placeholders
                                       /\ ready[e] = 0 /\ finals[e] = 0
                                       /\ ~finished[e] /\ attempts[e] = 0
  /\ e \in pending => ~finished[e] /\ ready[e] = 0 /\ finals[e] = 0
  /\ ready[e] > 0 \/ finals[e] > 0 \/ row[e] = "final" => finished[e]

\* The batch exists while it is written and marked; its placeholders are of
\* events without a final row, queued at most once since; its outcomes are in
\* the database once it is committed.
InTheBatch(e) ==
  /\ wpc \notin {"write", "mark"} => finals[e] = 0 /\ e \notin placeholders
  /\ e \in placeholders => finals[e] = 0 /\ ready[e] <= 1
  /\ wpc = "write" /\ e \in placeholders => row[e] # "final"
  /\ wpc = "mark" /\ finals[e] > 0 => row[e] = "final"

\* At most two copies, and no more copies than attempts left.
Budget(e) ==
  /\ ready[e] + finals[e] <= 2
  /\ attempts[e] + ready[e] <= MaxFlushAttempts + 1
  /\ e \in pending => attempts[e] <= MaxFlushAttempts

EventInv(e) == WhereItIs(e) /\ InTheBatch(e) /\ Budget(e)
QueueInv == \A e \in Events : EventInv(e)

\* What the steps below need of TypeOK.
QueueTypes ==
  /\ ready \in [Events -> Nat] /\ finals \in [Events -> Nat] /\ attempts \in [Events -> Nat]
  /\ req \in [Events -> {"new", "running", "done", "dropped"}]
  /\ finished \in [Events -> BOOLEAN]
  /\ row \in [Events -> {"none", "started", "final"}]
  /\ MaxFlushAttempts \in Nat \ {0}

\* The part of TypeOK the queue lemmas need.
LEMMA QueueTyped == TypeOK => QueueTypes
BY AuditStoreAssumption DEF TypeOK, QueueTypes

\* Steps that leave the queues, the batch and the rows alone, and end neither
\* inside nor outside of a batch they did not start in.
Elsewhere ==
  /\ UNCHANGED <<req, finished, pending, ready, attempts, finals, placeholders, row>>
  /\ wpc' = wpc \/ (wpc \notin {"write", "mark"} /\ wpc' \notin {"write", "mark"})

\* A step that leaves the queues, the batch and the rows alone, and does not
\* enter or leave a transaction, keeps the queues' invariant.
LEMMA QueueElsewhere == QueueInv /\ Elsewhere => QueueInv'
BY DEF QueueInv, EventInv, WhereItIs, InTheBatch, Budget, Elsewhere

\* Init establishes the invariant of the queues.
LEMMA QueueInit == Init => QueueInv
BY AuditStoreAssumption DEF Init, NoItems, QueueInv, EventInv, WhereItIs, InTheBatch, Budget

\* The invariant of the queues is inductive.
LEMMA QueueNext == TypeOK /\ QueueInv /\ [Next]_vars => QueueInv'
<1> SUFFICES ASSUME TypeOK, QueueInv, [Next]_vars PROVE QueueInv'
  OBVIOUS
<1> QueueTypes
  BY QueueTyped
<1> USE DEF handlers, clients, barrier, events, local, control, flags, QueueTypes
<1>1. ASSUME NEW x \in Events, Start(x) PROVE QueueInv'
  <2> SUFFICES ASSUME NEW e \in Events PROVE EventInv(e)'
    BY DEF QueueInv
  <2> EventInv(e)
    BY DEF QueueInv
  <2>1. WhereItIs(e)'
    BY <1>1 DEF Start, EventInv, WhereItIs
  <2>2. InTheBatch(e)'
    BY <1>1 DEF Start, EventInv, InTheBatch
  <2>3. Budget(e)'
    BY <1>1 DEF Start, EventInv, WhereItIs, Budget
  <2> QED
    BY <2>1, <2>2, <2>3 DEF EventInv
<1>2. ASSUME NEW x \in Events, Finish(x) PROVE QueueInv'
  <2> SUFFICES ASSUME NEW e \in Events PROVE EventInv(e)'
    BY DEF QueueInv
  <2> EventInv(e)
    BY DEF QueueInv
  <2>1. WhereItIs(e)'
    BY <1>2 DEF Finish, EventInv, WhereItIs
  <2>2. InTheBatch(e)'
    BY <1>2 DEF Finish, EventInv, InTheBatch, WhereItIs
  <2>3. Budget(e)'
    BY <1>2 DEF Finish, EventInv, WhereItIs, Budget
  <2> QED
    BY <2>1, <2>2, <2>3 DEF EventInv
<1>3. ASSUME NEW x \in Events, Record(x) PROVE QueueInv'
  <2> SUFFICES ASSUME NEW e \in Events PROVE EventInv(e)'
    BY DEF QueueInv
  <2> EventInv(e)
    BY DEF QueueInv
  <2>1. WhereItIs(e)'
    BY <1>3 DEF Record, EventInv, WhereItIs
  <2>2. InTheBatch(e)'
    BY <1>3 DEF Record, EventInv, InTheBatch, WhereItIs
  <2>3. Budget(e)'
    BY <1>3 DEF Record, EventInv, WhereItIs, Budget
  <2> QED
    BY <2>1, <2>2, <2>3 DEF EventInv
<1>4. ASSUME NEW x \in Events, Elapse(x) PROVE QueueInv'
  BY <1>4, QueueElsewhere DEF Elapse, Elsewhere
<1>5. ASSUME NEW c \in Callers, NEW k \in {"sync", "cleanup"}, Barrier(c, k) PROVE QueueInv'
  BY <1>5, QueueElsewhere DEF Barrier, Elsewhere
<1>6. ASSUME NEW c \in Callers, Recheck(c) \/ GiveUp(c) PROVE QueueInv'
  BY <1>6, QueueElsewhere DEF Recheck, GiveUp, Elsewhere
<1>7. CASE Tick \/ TakeStop \/ DrainPass \/ SpendBudget \/ Exit
  BY <1>7, QueueElsewhere DEF Tick, TakeStop, DrainPass, SpendBudget, Exit, Pass, Elsewhere
<1>8. ASSUME DeleteExpired, UNCHANGED <<req, finished, pending, ready, attempts, finals, placeholders>>,
             wpc \notin {"write", "mark"}, wpc' \notin {"write", "mark"}
      PROVE QueueInv'
  <2> SUFFICES ASSUME NEW e \in Events PROVE EventInv(e)'
    BY DEF QueueInv
  <2>1. row'[e] = row[e] \/ row'[e] = "none"
    BY <1>8 DEF DeleteExpired
  <2> QED
    BY <1>8, <2>1 DEF QueueInv, EventInv, WhereItIs, InTheBatch, Budget
<1>9. CASE CleanupNow \/ RetentionTick
  BY <1>8, <1>9 DEF CleanupNow, RetentionTick
<1>10. CASE ConsumeForce \/ Advance
  BY <1>10, QueueElsewhere DEF ConsumeForce, Advance, Elsewhere
<1>11. CASE TakeBatch
  <2> PICK taken \in [Events -> Copies], started \in SUBSET Eligible :
         /\ \A e \in Events : taken[e] <= ready[e]
         /\ finals' = taken
         /\ placeholders' = started
         /\ ready' = [e \in Events |-> ready[e] - taken[e]]
         /\ attempts' = [e \in Events |-> attempts[e] + taken[e] + (IF e \in started THEN 1 ELSE 0)]
    BY <1>11 DEF TakeBatch
  <2> SUFFICES ASSUME NEW e \in Events PROVE EventInv(e)'
    BY DEF QueueInv
  <2> EventInv(e)
    BY DEF QueueInv
  <2>1. /\ wpc = "take" /\ wpc' \in {"advance", "write"}
        /\ UNCHANGED <<req, finished, pending, row>>
    BY <1>11 DEF TakeBatch
  <2>2. /\ taken[e] \in Nat /\ taken[e] <= ready[e] /\ taken[e] <= 2
        /\ finals'[e] = taken[e] /\ ready'[e] = ready[e] - taken[e]
        /\ attempts'[e] = attempts[e] + taken[e] + (IF e \in started THEN 1 ELSE 0)
    BY DEF Copies
  <2>3. e \in started => e \in pending /\ attempts[e] < MaxFlushAttempts
    BY DEF Eligible, Unplaced
  <2>4. wpc' = "advance" => taken[e] = 0 /\ e \notin started
    BY <1>11, <2>2 DEF TakeBatch, NoItems
  <2>5. WhereItIs(e)'
    BY <2>1, <2>2, <2>3 DEF EventInv, WhereItIs
  <2>6. InTheBatch(e)'
    BY <2>1, <2>2, <2>3, <2>4 DEF EventInv, WhereItIs, InTheBatch
  <2>7. Budget(e)'
    <3>1. finals[e] = 0 /\ (e \in started => ready[e] = 0 /\ taken[e] = 0)
      BY <2>1, <2>2, <2>3 DEF EventInv, WhereItIs, InTheBatch
    <3>2. CASE e \in started
      <4>1. attempts'[e] = attempts[e] + 1 /\ ready'[e] = 0 /\ finals'[e] = 0
        BY <2>2, <3>1, <3>2
      <4> QED
        BY <2>3, <3>2, <4>1 DEF Budget
    <3>3. CASE e \notin started
      <4>1. attempts'[e] + ready'[e] = attempts[e] + ready[e]
        BY <2>2, <3>3
      <4>2. ready'[e] + finals'[e] = ready[e]
        BY <2>2
      <4>3. e \in pending => attempts'[e] = attempts[e]
        BY <2>2, <3>3 DEF EventInv, WhereItIs
      <4> QED
        BY <2>1, <3>1, <4>1, <4>2, <4>3 DEF EventInv, Budget
    <3> QED
      BY <3>2, <3>3
  <2> QED
    BY <2>5, <2>6, <2>7 DEF EventInv
<1>12. CASE Commit
  <2> SUFFICES ASSUME NEW e \in Events PROVE EventInv(e)'
    BY DEF QueueInv
  <2> EventInv(e)
    BY DEF QueueInv
  <2>1. row'[e] = IF e \in placeholders THEN "started" ELSE IF finals[e] > 0 THEN "final" ELSE row[e]
    BY <1>12 DEF Commit
  <2> QED
    BY <1>12, <2>1 DEF Commit, EventInv, WhereItIs, InTheBatch, Budget
<1>13. CASE MarkWritten
  <2> SUFFICES ASSUME NEW e \in Events PROVE EventInv(e)'
    BY DEF QueueInv
  <2> EventInv(e)
    BY DEF QueueInv
  <2>1. /\ finals'[e] = 0 /\ e \notin placeholders' /\ wpc' \notin {"write", "mark"}
        /\ attempts'[e] \in {0, attempts[e]}
        /\ UNCHANGED <<req, finished, pending, ready, row>>
    BY <1>13 DEF MarkWritten, EndBatch, NoItems
  <2> QED
    BY <2>1 DEF EventInv, WhereItIs, InTheBatch, Budget
<1>14. CASE FailBatch
  <2> SUFFICES ASSUME NEW e \in Events PROVE EventInv(e)'
    BY DEF QueueInv
  <2> EventInv(e)
    BY DEF QueueInv
  <2>1. /\ finals'[e] = 0 /\ e \notin placeholders' /\ wpc' \notin {"write", "mark"}
        /\ pending' \subseteq pending
        /\ UNCHANGED <<req, finished, attempts, row>>
    BY <1>14 DEF FailBatch, EndBatch, NoItems
  <2>2. /\ Items[e] \in Nat
        /\ Items[e] = finals[e] + (IF e \in placeholders THEN 1 ELSE 0)
    BY DEF Items
  <2>3. \/ ready'[e] = ready[e]
        \/ finished[e] /\ Items[e] > 0 /\ attempts[e] < MaxFlushAttempts /\ ready'[e] = ready[e] + Items[e]
    BY <1>14, <2>2 DEF FailBatch, Requeued, Abandoned
  <2>4. WhereItIs(e)'
    BY <2>1, <2>2, <2>3 DEF EventInv, WhereItIs
  <2>5. InTheBatch(e)'
    BY <2>1 DEF InTheBatch
  <2>6. Budget(e)'
    BY <1>14, <2>1, <2>2, <2>3 DEF EventInv, WhereItIs, InTheBatch, Budget
  <2> QED
    BY <2>4, <2>5, <2>6 DEF EventInv
<1>15. CASE Close
  BY <1>15, QueueElsewhere DEF Close, MarkClosed, StopWriter, CloseHandles, Elsewhere
<1>16. CASE UNCHANGED vars
  BY <1>16, QueueElsewhere DEF vars, Elsewhere
<1> QED
  BY <1>1, <1>2, <1>3, <1>4, <1>5, <1>6, <1>7, <1>9, <1>10, <1>11, <1>12, <1>13, <1>14, <1>15, <1>16
     DEF Next, Server, Handler, Client, WriterStep, Sync, Cleanup

\* The types and the queues' invariant hold throughout.
LEMMA QueueCorrect == Spec => [](TypeOK /\ QueueInv)
<1>1. TypeOK /\ QueueInv /\ [Next]_vars => (TypeOK /\ QueueInv)'
  BY TypeNext, QueueNext
<1> QED
  BY <1>1, TypeInit, QueueInit, PTL DEF Spec

\* However often Finish races a failing batch, no event is attempted more
\* often between two successes than maxFlushAttempts and once.
THEOREM RetriesBounded == Spec => []RetryBudget
<1>1. TypeOK /\ QueueInv => RetryBudget
  BY QueueTyped DEF QueueInv, EventInv, Budget, RetryBudget, QueueTypes
<1> QED
  BY <1>1, QueueCorrect, PTL

\* takeBatch may be modelled with bags of at most two copies: there are never
\* more of an event, queued and in the batch together.
THEOREM QueuedTwice == Spec => [](\A e \in Events : ready[e] + finals[e] \in Copies)
<1>1. TypeOK /\ QueueInv => \A e \in Events : ready[e] + finals[e] \in Copies
  <2> SUFFICES ASSUME TypeOK, QueueInv, NEW e \in Events PROVE ready[e] + finals[e] \in Copies
    OBVIOUS
  <2>1. ready[e] \in Nat /\ finals[e] \in Nat
    BY QueueTyped DEF QueueTypes
  <2>2. ready[e] + finals[e] <= 2
    BY DEF QueueInv, EventInv, Budget
  <2> QED
    BY <2>1, <2>2 DEF Copies
<1> QED
  BY <1>1, QueueCorrect, PTL
-------------------------------------------------------------------------------
(* No accepted event is lost. *)

\* A step that disturbs neither queues, rows nor counters loses nothing.
LEMMA LostElsewhere ==
  ASSUME NothingLost,
         UNCHANGED <<req, finished, pending, ready, finals, row, failed>>,
         \A e \in Events : age[e] = "expired" => age'[e] = "expired"
  PROVE  NothingLost'
BY DEF NothingLost

\* No step of a handler, the writer or Close loses an accepted event.
LEMMA LostNext == TypeOK /\ QueueInv /\ NothingLost /\ [Next]_vars => NothingLost'
<1> SUFFICES ASSUME TypeOK, QueueInv, NothingLost, [Next]_vars PROVE NothingLost'
  OBVIOUS
<1> QueueTypes
  BY QueueTyped
<1> failed \in [Events -> Nat] /\ age \in [Events -> Ages]
  BY DEF TypeOK
<1> USE DEF handlers, clients, barrier, events, local, control, flags, QueueTypes
<1>1. ASSUME NEW x \in Events, Start(x) PROVE NothingLost'
  BY <1>1 DEF Start, NothingLost
<1>2. ASSUME NEW x \in Events, Finish(x) PROVE NothingLost'
  <2>1. /\ UNCHANGED <<finals, row, failed, age>>
        /\ \A e \in Events : e # x => UNCHANGED <<req[e], finished[e], ready[e]>>
                                     /\ (e \in pending => e \in pending')
    BY <1>2 DEF Finish
  <2>2. req'[x] # "running" /\ (finished'[x] => finished[x] \/ ready'[x] > 0)
        /\ ready'[x] >= ready[x]
    BY <1>2 DEF Finish
  <2>3. ready' \in [Events -> Nat]
    BY TypeNext DEF TypeOK
  <2> QED
    BY <2>1, <2>2, <2>3 DEF NothingLost
<1>3. ASSUME NEW x \in Events, Record(x) PROVE NothingLost'
  BY <1>3 DEF Record, NothingLost
<1>4. ASSUME NEW x \in Events, Elapse(x) PROVE NothingLost'
  BY <1>4, LostElsewhere DEF Elapse
<1>5. ASSUME NEW c \in Callers, NEW k \in {"sync", "cleanup"}, Barrier(c, k) PROVE NothingLost'
  BY <1>5, LostElsewhere DEF Barrier
<1>6. ASSUME NEW c \in Callers, Recheck(c) \/ GiveUp(c) PROVE NothingLost'
  BY <1>6, LostElsewhere DEF Recheck, GiveUp
<1>7. CASE Tick \/ TakeStop \/ DrainPass \/ SpendBudget \/ Exit
  BY <1>7, LostElsewhere DEF Tick, TakeStop, DrainPass, SpendBudget, Exit
<1>8. ASSUME DeleteExpired, UNCHANGED <<req, finished, pending, ready, finals, failed, age>>
      PROVE NothingLost'
  BY <1>8 DEF DeleteExpired, NothingLost
<1>9. CASE CleanupNow \/ RetentionTick
  BY <1>8, <1>9 DEF CleanupNow, RetentionTick
<1>10. CASE ConsumeForce \/ Advance
  BY <1>10, LostElsewhere DEF ConsumeForce, Advance
<1>11. CASE TakeBatch
  <2> PICK taken \in [Events -> Copies] :
         /\ \A e \in Events : taken[e] <= ready[e]
         /\ finals' = taken
         /\ ready' = [e \in Events |-> ready[e] - taken[e]]
    BY <1>11 DEF TakeBatch
  <2>1. \A e \in Events : finals[e] = 0
    BY <1>11 DEF TakeBatch, QueueInv, EventInv, InTheBatch
  <2>2. \A e \in Events : ready'[e] + finals'[e] = ready[e] + finals[e]
    BY <2>1 DEF Copies
  <2> QED
    BY <1>11, <2>2 DEF TakeBatch, NothingLost
<1>12. CASE Commit
  <2> SUFFICES ASSUME NEW e \in Events, row[e] = "final" PROVE row'[e] = "final"
    BY <1>12 DEF Commit, NothingLost
  <2> QED
    BY <1>12 DEF Commit, QueueInv, EventInv, InTheBatch
<1>13. CASE MarkWritten
  <2>1. \A e \in Events : finals[e] > 0 => row[e] = "final"
    BY <1>13 DEF MarkWritten, QueueInv, EventInv, InTheBatch
  <2>2. /\ UNCHANGED <<req, finished, pending, ready, row, failed, age>>
        /\ finals' = NoItems
    BY <1>13 DEF MarkWritten, EndBatch
  <2> QED
    BY <2>1, <2>2 DEF NothingLost, NoItems
<1>14. CASE FailBatch
  <2>1. /\ UNCHANGED <<req, finished, row, age>>
        /\ finals' = NoItems
        /\ pending' = pending \ Abandoned
    BY <1>14 DEF FailBatch, EndBatch
  <2>2. \A e \in Events : Items[e] \in Nat /\ Items[e] >= finals[e]
    BY DEF Items
  <2>3. \A e \in Events : failed'[e] >= failed[e] /\ (e \in Abandoned => failed'[e] > 0)
    BY <1>14, <2>2 DEF FailBatch, Abandoned
  <2>4. \A e \in Events : finished[e] /\ ready[e] + finals[e] > 0 =>
                            ready'[e] + finals'[e] > 0 \/ failed'[e] > 0
    BY <1>14, <2>1, <2>2, <2>3 DEF FailBatch, Requeued, NoItems
  <2>5. failed' \in [Events -> Nat] /\ ready' \in [Events -> Nat]
    BY TypeNext DEF TypeOK
  <2> QED
    BY <2>1, <2>3, <2>4, <2>5 DEF NothingLost
<1>15. CASE Close
  BY <1>15, LostElsewhere DEF Close, MarkClosed, StopWriter, CloseHandles
<1>16. CASE UNCHANGED vars
  BY <1>16, LostElsewhere DEF vars
<1> QED
  BY <1>1, <1>2, <1>3, <1>4, <1>5, <1>6, <1>7, <1>9, <1>10, <1>11, <1>12, <1>13, <1>14, <1>15, <1>16
     DEF Next, Server, Handler, Client, WriterStep, Sync, Cleanup

\* A running request is queued until it is abandoned; an accepted outcome is
\* queued, in the batch, in the database until it expires, or counted.
THEOREM NothingIsLost == Spec => []NothingLost
<1>1. Init => NothingLost
  BY DEF Init, NothingLost
<1>2. TypeOK /\ QueueInv /\ NothingLost /\ [Next]_vars => NothingLost'
  BY LostNext
<1> QED
  BY <1>1, <1>2, QueueCorrect, PTL DEF Spec
-------------------------------------------------------------------------------
(* AuditStore implements AuditTrail. *)

\* The empty store is an empty trail.
LEMMA TrailInit == Init => Trail!Init
BY DEF Init, Trail!Init

\* Every step of the store is a step of the trail or invisible in it.
LEMMA TrailNext == TypeOK /\ QueueInv /\ [Next]_vars => [Trail!Next]_(Trail!trail)
<1> SUFFICES ASSUME TypeOK, QueueInv, [Next]_vars PROVE [Trail!Next]_(Trail!trail)
  OBVIOUS
<1> QueueTypes /\ age \in [Events -> Ages]
  BY QueueTyped DEF TypeOK
<1> USE DEF handlers, clients, barrier, events, local, control, flags, QueueTypes
<1>0. ASSUME UNCHANGED <<finished, row, age>> PROVE [Trail!Next]_(Trail!trail)
  BY <1>0 DEF Trail!trail
<1>1. ASSUME NEW x \in Events, Start(x) PROVE [Trail!Next]_(Trail!trail)
  BY <1>0, <1>1 DEF Start
<1>2. ASSUME NEW x \in Events, Finish(x) PROVE [Trail!Next]_(Trail!trail)
  <2>1. x \in pending => ~finished[x]
    BY DEF QueueInv, EventInv, WhereItIs
  <2>2. Trail!Outcome(x) \/ UNCHANGED <<finished, row, age>>
    BY <1>2, <2>1 DEF Finish, Trail!Outcome
  <2> QED
    BY <1>0, <2>2 DEF Trail!Next
<1>3. ASSUME NEW x \in Events, Record(x) PROVE [Trail!Next]_(Trail!trail)
  <2>1. ~finished[x]
    BY <1>3 DEF Record, QueueInv, EventInv, WhereItIs
  <2>2. Trail!Outcome(x) \/ UNCHANGED <<finished, row, age>>
    BY <1>3, <2>1 DEF Record, Trail!Outcome
  <2> QED
    BY <1>0, <2>2 DEF Trail!Next
<1>4. ASSUME NEW x \in Events, Elapse(x) PROVE [Trail!Next]_(Trail!trail)
  BY <1>4 DEF Elapse, Trail!Elapse, Trail!Next
<1>5. ASSUME NEW c \in Callers, NEW k \in {"sync", "cleanup"}, Barrier(c, k)
      PROVE [Trail!Next]_(Trail!trail)
  BY <1>0, <1>5 DEF Barrier
<1>6. ASSUME NEW c \in Callers, Recheck(c) \/ GiveUp(c) PROVE [Trail!Next]_(Trail!trail)
  BY <1>0, <1>6 DEF Recheck, GiveUp
<1>7. CASE Tick \/ TakeStop \/ DrainPass \/ SpendBudget \/ Exit \/ ConsumeForce \/ Advance
  BY <1>0, <1>7 DEF Tick, TakeStop, DrainPass, SpendBudget, Exit, ConsumeForce, Advance
<1>8. CASE CleanupNow \/ RetentionTick
  <2>1. DeleteExpired /\ UNCHANGED <<finished, age>>
    BY <1>8 DEF CleanupNow, RetentionTick
  <2>2. Trail!Expire \/ UNCHANGED <<finished, row, age>>
    BY <2>1 DEF DeleteExpired, Trail!Expire
  <2> QED
    BY <1>0, <2>2 DEF Trail!Next
<1>9. CASE TakeBatch \/ MarkWritten \/ FailBatch
  BY <1>0, <1>9 DEF TakeBatch, MarkWritten, FailBatch, EndBatch
<1>10. CASE Commit
  <2> DEFINE outcomes == {e \in Events : finals[e] > 0}
  <2>1. \A e \in placeholders : row[e] # "final" /\ finals[e] = 0
    BY <1>10 DEF Commit, QueueInv, EventInv, InTheBatch, TypeOK
  <2>2. \A e \in outcomes : finished[e]
    BY DEF QueueInv, EventInv, WhereItIs
  <2>3. placeholders \in SUBSET Events /\ outcomes \in SUBSET Events
    BY DEF TypeOK
  <2>4. row' = [e \in Events |-> IF e \in outcomes THEN "final"
                                 ELSE IF e \in placeholders THEN "started" ELSE row[e]]
    BY <1>10, <2>1 DEF Commit
  <2>5. Trail!Persist(placeholders, outcomes)
    BY <1>10, <2>1, <2>2, <2>4 DEF Commit, Trail!Persist
  <2> QED
    BY <2>3, <2>5 DEF Trail!Next
<1>11. CASE Close \/ UNCHANGED vars
  BY <1>0, <1>11 DEF Close, MarkClosed, StopWriter, CloseHandles, vars
<1> QED
  BY <1>1, <1>2, <1>3, <1>4, <1>5, <1>6, <1>7, <1>8, <1>9, <1>10, <1>11
     DEF Next, Server, Handler, Client, WriterStep, Sync, Cleanup

\* Seen through the rows of audit_event the store does what AuditTrail allows:
\* no placeholder replaces an outcome, no outcome precedes its Finish, and only
\* retention deletes.
THEOREM StoreImplementsTrail == Spec => ImplementsTrail
<1>1. TypeOK /\ QueueInv /\ [Next]_vars => [Trail!Next]_(Trail!trail)
  BY TrailNext
<1> QED
  BY <1>1, TrailInit, QueueCorrect, PTL DEF Spec, ImplementsTrail, Trail!Spec
-------------------------------------------------------------------------------
(* The barrier. *)

\* What the caller c waits for has happened to the outcome e, as far as the barrier goes.
Done(c, e) == row[e] = "final" \/ age[e] = "expired" \/ e \in missed[c]

\* What a waiting caller's target tells of the work it was promised: what is not done is
\* queued or in the batch; it is in the batch once that batch drained the queue and captured
\* the target; all is done when the target is published, unless the drain ran out of time.
Promise(c) ==
  /\ \A e \in owed[c] : ready[e] > 0 \/ finals[e] > 0 \/ Done(c, e)
  /\ wpc \in {"write", "mark"} /\ complete /\ c \in covered
       => \A e \in owed[c] : finals[e] > 0 \/ Done(c, e)
  /\ wpc = "advance" /\ c \in covered => (\A e \in owed[c] : Done(c, e)) \/ spent
  /\ c \in settled => (\A e \in owed[c] : Done(c, e)) \/ spent

PromiseInv == \A c \in Callers : Promise(c)

\* A step outside the barrier and the batches keeps every caller's promise.
LEMMA PromiseElsewhere ==
  ASSUME PromiseInv,
         UNCHANGED <<finals, owed, covered, settled, complete>>,
         \A e \in Events : ready[e] > 0 => ready'[e] > 0,
         \A c \in Callers : \A e \in owed[c] : Done(c, e) => Done(c, e)',
         owed \in [Callers -> SUBSET Events],
         spent => spent',
         wpc' = wpc \/ wpc' \notin {"write", "mark", "advance"}
  PROVE  PromiseInv'
BY DEF PromiseInv, Promise

\* The turns of barrier's loop: a promise is made with a fresh target, or the
\* caller leaves with none.
LEMMA PromiseClient ==
  ASSUME TypeOK, PromiseInv, NEW c \in Callers,
         \/ Return(c)
         \/ /\ covered' = covered \ {c} /\ settled' = settled \ {c} /\ missed' = missed
            /\ owed' = owed \/ owed' = [owed EXCEPT ![c] = Unflushed],
         UNCHANGED <<ready, finals, row, age, wpc, complete, spent>>
  PROVE  PromiseInv'
<1> SUFFICES ASSUME NEW d \in Callers PROVE Promise(d)'
  BY DEF PromiseInv
<1> Promise(d)
  BY DEF PromiseInv
<1> /\ owed \in [Callers -> SUBSET Events] /\ missed \in [Callers -> SUBSET Events]
    /\ ready \in [Events -> Nat] /\ finals \in [Events -> Nat]
  BY DEF TypeOK
<1>1. Unflushed \subseteq Events /\ \A e \in Unflushed : ready[e] > 0 \/ finals[e] > 0
  BY DEF Unflushed
<1>2. CASE d # c
  <2>1. owed'[d] = owed[d] /\ missed'[d] = missed[d]
    BY <1>2 DEF Return
  <2>2. (d \in covered' => d \in covered) /\ (d \in settled' => d \in settled)
    BY DEF Return
  <2> QED
    BY <2>1, <2>2 DEF Promise, Done
<1>3. CASE d = c
  <2>1. d \notin covered' /\ d \notin settled'
    BY <1>3 DEF Return
  <2>2. \/ owed'[d] = {}
        \/ missed' = missed /\ owed'[d] \in {owed[d], Unflushed}
    BY <1>3 DEF Return
  <2> QED
    BY <1>1, <2>1, <2>2 DEF Promise, Done
<1> QED
  BY <1>2, <1>3

\* The end of a batch keeps every promise: what the batch carried is done by then, by the
\* commit or because the batch failed.
LEMMA PromiseEndBatch ==
  ASSUME TypeOK, PromiseInv, EndBatch, wpc \in {"write", "mark"},
         UNCHANGED <<row, age>>,
         \A c \in Callers : \A e \in owed[c] :
           (e \in missed[c] => e \in missed'[c]) /\ (finals[e] > 0 => Done(c, e)'),
         \A e \in Events : ready'[e] >= ready[e],
         ready' \in [Events -> Nat]
  PROVE  PromiseInv'
<1> SUFFICES ASSUME NEW c \in Callers PROVE Promise(c)'
  BY DEF PromiseInv
<1> Promise(c)
  BY DEF PromiseInv
<1> /\ owed \in [Callers -> SUBSET Events] /\ ready \in [Events -> Nat] /\ finals \in [Events -> Nat]
    /\ covered \subseteq Callers
  BY DEF TypeOK
<1>1. owed' = owed /\ \A e \in owed[c] : Done(c, e) \/ finals[e] > 0 => Done(c, e)'
  BY DEF EndBatch, Done
<1>2. /\ wpc' \in {"advance", "take", "select"}
      /\ wpc' = "advance" => complete \/ spent
      /\ wpc' = "advance" => covered' = covered
      /\ UNCHANGED <<settled, spent>>
  BY DEF EndBatch
<1>3. \A e \in owed'[c] : ready'[e] > 0 \/ Done(c, e)'
  BY <1>1 DEF Promise
<1>4. wpc' = "advance" /\ c \in covered' => (\A e \in owed'[c] : Done(c, e)') \/ spent'
  BY <1>1, <1>2 DEF Promise
<1>5. c \in settled' => (\A e \in owed'[c] : Done(c, e)') \/ spent'
  BY <1>1, <1>2 DEF Promise
<1> QED
  BY <1>2, <1>3, <1>4, <1>5 DEF Promise

\* The barrier's promises are inductive.
LEMMA PromiseNext == TypeOK /\ QueueInv /\ PromiseInv /\ [Next]_vars => PromiseInv'
<1> SUFFICES ASSUME TypeOK, QueueInv, PromiseInv, [Next]_vars PROVE PromiseInv'
  OBVIOUS
<1> QueueTypes /\ owed \in [Callers -> SUBSET Events] /\ age \in [Events -> Ages]
  BY QueueTyped DEF TypeOK
<1> USE DEF handlers, clients, barrier, events, local, control, flags, QueueTypes
<1>0. UNCHANGED <<row, age, missed>>
        => \A c \in Callers : \A e \in owed[c] : Done(c, e) => Done(c, e)'
  BY DEF Done
<1>1. ASSUME NEW x \in Events, Start(x) \/ Finish(x) \/ Record(x) PROVE PromiseInv'
  <2>1. \A e \in Events : ready[e] > 0 => ready'[e] > 0
    BY <1>1 DEF Start, Finish, Record
  <2> QED
    BY <1>0, <1>1, <2>1, PromiseElsewhere DEF Start, Finish, Record
<1>2. ASSUME NEW x \in Events, Elapse(x) PROVE PromiseInv'
  <2>1. \A c \in Callers : \A e \in owed[c] : Done(c, e) => Done(c, e)'
    BY <1>2 DEF Elapse, Done
  <2> QED
    BY <1>2, <2>1, PromiseElsewhere DEF Elapse
<1>3. ASSUME NEW c \in Callers, NEW k \in {"sync", "cleanup"}, Barrier(c, k) PROVE PromiseInv'
  <2>1. \/ Return(c)
        \/ /\ covered' = covered \ {c} /\ settled' = settled \ {c} /\ missed' = missed
           /\ owed' = owed \/ owed' = [owed EXCEPT ![c] = Unflushed]
    BY <1>3 DEF Barrier
  <2> QED
    BY <1>3, <2>1, PromiseClient DEF Barrier
<1>4. ASSUME NEW c \in Callers, Recheck(c) PROVE PromiseInv'
  BY <1>0, <1>4, PromiseClient, PromiseElsewhere DEF Recheck
<1>5. ASSUME NEW c \in Callers, GiveUp(c) PROVE PromiseInv'
  BY <1>5, PromiseClient DEF GiveUp
<1>6. CASE Tick \/ TakeStop \/ DrainPass \/ SpendBudget
  BY <1>0, <1>6, PromiseElsewhere DEF Tick, TakeStop, DrainPass, SpendBudget, Pass
<1>7. CASE Exit
  <2>1. \A e \in Events : finals[e] = 0
    BY <1>7 DEF Exit, QueueInv, EventInv, InTheBatch
  <2>2. ~spent => \A e \in Events : ready[e] = 0
    BY <1>7 DEF Exit, HasWork
  <2>3. \A c \in Callers : (\A e \in owed[c] : Done(c, e)) \/ spent
    BY <2>1, <2>2 DEF PromiseInv, Promise
  <2>4. /\ UNCHANGED <<ready, finals, owed, missed, row, age, spent>>
        /\ wpc' = "exited"
    BY <1>7 DEF Exit
  <2> QED
    BY <2>3, <2>4 DEF PromiseInv, Promise, Done
<1>8. CASE CleanupNow \/ RetentionTick
  <2>1. DeleteExpired /\ UNCHANGED <<missed, age, owed>>
    BY <1>8 DEF CleanupNow, RetentionTick
  <2>2. \A c \in Callers : \A e \in owed[c] : Done(c, e) => Done(c, e)'
    BY <2>1 DEF DeleteExpired, Done
  <2> QED
    BY <1>8, <2>2, PromiseElsewhere DEF CleanupNow, RetentionTick
<1>9. CASE ConsumeForce
  BY <1>9 DEF ConsumeForce, PromiseInv, Promise, Done
<1>10. CASE TakeBatch
  <2> PICK taken \in [Events -> Copies] :
         /\ \A e \in Events : taken[e] <= ready[e]
         /\ finals' = taken
         /\ ready' = [e \in Events |-> ready[e] - taken[e]]
         /\ complete' => taken = ready
    BY <1>10 DEF TakeBatch
  <2> SUFFICES ASSUME NEW c \in Callers PROVE Promise(c)'
    BY DEF PromiseInv
  <2> Promise(c)
    BY DEF PromiseInv
  <2>1. \A e \in owed[c] : ready[e] > 0 \/ Done(c, e)
    BY <1>10 DEF TakeBatch, QueueInv, EventInv, InTheBatch, Promise
  <2>2. UNCHANGED <<owed, settled, spent>> /\ wpc' \in {"advance", "write"}
    BY <1>10 DEF TakeBatch
  <2>3. \A e \in owed[c] : Done(c, e)' <=> Done(c, e)
    BY <1>10 DEF TakeBatch, Done
  <2>4. \A e \in owed[c] : ready'[e] > 0 \/ finals'[e] > 0 \/ Done(c, e)
    BY <2>1 DEF Copies
  <2>5. complete' => \A e \in owed[c] : finals'[e] > 0 \/ Done(c, e)
    BY <2>1
  <2>6. wpc' = "advance" => \A e \in owed[c] : Done(c, e)
    BY <1>10, <2>1 DEF TakeBatch, NoItems
  <2> HIDE DEF Done
  <2> QED
    BY <2>2, <2>3, <2>4, <2>5, <2>6 DEF Promise
<1>11. CASE Commit
  <2>1. \A c \in Callers : \A e \in owed[c] : Done(c, e) => Done(c, e)'
    BY <1>11 DEF Commit, Done, QueueInv, EventInv, InTheBatch
  <2>2. UNCHANGED <<ready, finals, owed, covered, settled, complete, spent>> /\ wpc' = "mark"
        /\ wpc = "write"
    BY <1>11 DEF Commit
  <2> HIDE DEF Done
  <2> QED
    BY <2>1, <2>2 DEF PromiseInv, Promise
<1>12. CASE MarkWritten
  <2>1. \A e \in Events : finals[e] > 0 => row[e] = "final"
    BY <1>12 DEF MarkWritten, QueueInv, EventInv, InTheBatch
  <2>2. \A c \in Callers : \A e \in owed[c] :
          (e \in missed[c] => e \in missed'[c]) /\ (finals[e] > 0 => Done(c, e)')
    BY <1>12, <2>1 DEF MarkWritten, EndBatch, Done
  <2>3. UNCHANGED <<row, age, ready>> /\ wpc = "mark" /\ EndBatch
    BY <1>12 DEF MarkWritten, EndBatch
  <2> HIDE DEF Done
  <2> QED
    BY <2>2, <2>3, PromiseEndBatch
<1>13. CASE FailBatch
  <2>1. \A e \in Events : Items[e] \in Nat
    BY DEF Items
  <2>2. (\A e \in Events : ready'[e] >= ready[e]) /\ ready' \in [Events -> Nat]
    BY <1>13, <2>1 DEF FailBatch
  <2>3. \A c \in Callers : \A e \in owed[c] :
          (e \in missed[c] => e \in missed'[c]) /\ (finals[e] > 0 => Done(c, e)')
    BY <1>13 DEF FailBatch, Done
  <2>4. UNCHANGED <<row, age>> /\ wpc = "write" /\ EndBatch
    BY <1>13 DEF FailBatch, EndBatch
  <2> HIDE DEF Done
  <2> QED
    BY <2>2, <2>3, <2>4, PromiseEndBatch
<1>14. CASE Advance
  <2>1. UNCHANGED <<ready, finals, owed, missed, row, age, spent>> /\ wpc = "advance"
        /\ wpc' = "select" /\ settled' \subseteq settled \cup covered
    BY <1>14 DEF Advance, AdvanceBarrier
  <2> QED
    BY <2>1 DEF PromiseInv, Promise, Done
<1>15. CASE Close \/ UNCHANGED vars
  BY <1>0, <1>15, PromiseElsewhere DEF Close, MarkClosed, StopWriter, CloseHandles, vars
<1> QED
  BY <1>1, <1>2, <1>3, <1>4, <1>5, <1>6, <1>7, <1>8, <1>9, <1>10, <1>11, <1>12, <1>13, <1>14, <1>15
     DEF Next, Server, Handler, Client, WriterStep, Sync, Cleanup

\* For any number of requests and callers: a barrier that the writer has released returns
\* behind the commit of what was queued, or in a batch, when it was called, but for outcomes
\* in a batch that failed since and for what a drain out of time left
\* (store.go:316-318, 390-405).
THEOREM BarrierIsSound == Spec => []BarrierCommits
<1>1. Init => PromiseInv
  BY DEF Init, PromiseInv, Promise
<1>2. TypeOK /\ QueueInv /\ PromiseInv /\ [Next]_vars => PromiseInv'
  BY PromiseNext
<1>3. PromiseInv => BarrierCommits
  BY DEF PromiseInv, Promise, BarrierCommits, Waiting, Done
<1> QED
  BY <1>1, <1>2, <1>3, QueueCorrect, PTL DEF Spec

\* A Cleanup without its DELETE is on the writer's list until a pass reads it; in a pass
\* that has read the list, and when it has been released, it was late.
CleanupInv ==
  /\ owedDelete # {} => cleanupReq \/ wpc \in {"delete", "exited"}
  /\ wpc \notin {"select", "delete", "exited"} => owedDelete \subseteq late
  /\ wpc # "exited" => settled \cap owedDelete \subseteq late

\* The invariant of Cleanup is inductive.
LEMMA CleanupNext == CleanupInv /\ [Next]_vars => CleanupInv'
<1> SUFFICES ASSUME CleanupInv, [Next]_vars PROVE CleanupInv'
  OBVIOUS
<1> USE DEF handlers, clients, barrier, events, local, control, flags, CleanupInv
<1>1. ASSUME NEW e \in Events, Handler(e) PROVE CleanupInv'
  BY <1>1 DEF Handler, Start, Finish, Record, Elapse
<1>2. ASSUME NEW c \in Callers, NEW k \in {"sync", "cleanup"}, Barrier(c, k) PROVE CleanupInv'
  <2>1. CASE Return(c) /\ UNCHANGED flags
    BY <1>2, <2>1 DEF Barrier, Return
  <2>2. CASE /\ settled' = settled \ {c} /\ cleanupReq' = (cleanupReq \/ k = "cleanup")
             /\ owedDelete' = owedDelete \cup IF k = "cleanup" THEN {c} ELSE {}
             /\ late' = late \cup IF k = "cleanup" /\ PastCleanup THEN {c} ELSE {}
    BY <1>2, <2>2 DEF Barrier, PastCleanup
  <2>3. CASE /\ settled' = settled \ {c} /\ cleanupReq' = (cleanupReq \/ k = "cleanup")
             /\ UNCHANGED <<owedDelete, late>>
    BY <1>2, <2>3 DEF Barrier
  <2> QED
    BY <1>2, <2>1, <2>2, <2>3 DEF Barrier
<1>3. ASSUME NEW c \in Callers, Recheck(c) \/ GiveUp(c) PROVE CleanupInv'
  BY <1>3 DEF Recheck, GiveUp, Return
<1>4. CASE Tick \/ DrainPass
  BY <1>4 DEF Tick, DrainPass, Pass
<1>5. CASE TakeStop \/ SpendBudget \/ Exit \/ ConsumeForce \/ TakeBatch \/ Commit
  BY <1>5 DEF TakeStop, SpendBudget, Exit, ConsumeForce, TakeBatch, Commit
<1>6. CASE CleanupNow \/ RetentionTick
  BY <1>6 DEF CleanupNow, RetentionTick
<1>7. CASE MarkWritten \/ FailBatch
  BY <1>7 DEF MarkWritten, FailBatch, EndBatch
<1>8. CASE Advance
  BY <1>8 DEF Advance, AdvanceBarrier
<1>9. CASE Close \/ UNCHANGED vars
  BY <1>9 DEF Close, MarkClosed, StopWriter, CloseHandles, vars
<1> QED
  BY <1>1, <1>2, <1>3, <1>4, <1>5, <1>6, <1>7, <1>8, <1>9
     DEF Next, Server, Client, WriterStep, Sync, Cleanup

\* However calls of Cleanup fall between the steps of the writer, one that it releases
\* without a DELETE was called in a pass that had read the list already, and no other
\* (store.go:377-388).
THEOREM CleanupIsKept == Spec => []CleanupBeforeRelease
<1>1. Init => CleanupInv
  BY DEF Init, CleanupInv
<1>2. CleanupInv => CleanupBeforeRelease
  BY DEF CleanupInv, CleanupBeforeRelease
<1> QED
  BY <1>1, <1>2, CleanupNext, PTL DEF Spec
-------------------------------------------------------------------------------
(* How long the slices are.  A bag's entries are pairs, so that adding bags  *)
(* is a disjoint union.                                                      *)

LEMMA InEntries ==
  ASSUME NEW bag \in [Events -> Copies], NEW e, NEW n
  PROVE  <<e, n>> \in Entries(bag) <=> e \in Events /\ n \in 1..bag[e]
BY DEF Entries

LEMMA EntryIsPair ==
  ASSUME NEW bag, NEW x \in Entries(bag)
  PROVE  x = <<x[1], x[2]>> /\ x[1] \in Events /\ x[2] \in 1..bag[x[1]]
BY DEF Entries

LEMMA LengthType ==
  ASSUME NEW bag \in [Events -> Copies]
  PROVE  IsFiniteSet(Entries(bag)) /\ Length(bag) \in Nat
<1>1. Entries(bag) \subseteq Events \X (1..2)
  BY EntryIsPair DEF Copies
<1>2. IsFiniteSet(1..2) /\ IsFiniteSet(Events)
  <2>1. 1 \in Int /\ 2 \in Int
    OBVIOUS
  <2>2. IsFiniteSet(1..2)
    BY ONLY <2>1, FS_Interval
  <2> QED
    BY <2>2, AuditStoreAssumption
<1>3. IsFiniteSet(Events \X (1..2))
  BY <1>2, FS_Product
<1>4. IsFiniteSet(Entries(bag))
  BY <1>1, <1>3, FS_Subset
<1> QED
  BY <1>4, FS_CardinalityType DEF Length

\* A slice that has each event no more often is no longer.
LEMMA LengthMonotone ==
  ASSUME NEW a \in [Events -> Copies], NEW b \in [Events -> Copies],
         \A e \in Events : a[e] <= b[e]
  PROVE  Length(a) <= Length(b)
<1>1. Entries(a) \subseteq Entries(b)
  BY EntryIsPair, InEntries DEF Copies
<1> QED
  BY <1>1, LengthType, FS_Subset DEF Length

\* Appending adds the lengths.
LEMMA LengthAdds ==
  ASSUME NEW a \in [Events -> Copies], NEW b \in [Events -> Copies], NEW c \in [Events -> Copies],
         \A e \in Events : c[e] = a[e] + b[e]
  PROVE  Length(c) = Length(a) + Length(b)
<1> DEFINE above == {x \in Entries(c) : x[2] > a[x[1]]}
           moved == [x \in Entries(b) |-> <<x[1], a[x[1]] + x[2]>>]
<1>1. moved \in Bijection(Entries(b), above)
  <2>1. ASSUME NEW x \in Entries(b) PROVE moved[x] \in above
    <3>1. x[1] \in Events /\ x[2] \in 1..b[x[1]] /\ a[x[1]] \in Nat /\ b[x[1]] \in Nat
      BY EntryIsPair DEF Copies
    <3>2. a[x[1]] + x[2] \in 1..c[x[1]] /\ a[x[1]] + x[2] > a[x[1]]
      BY <3>1
    <3> QED
      BY <3>1, <3>2, InEntries
  <2>2. ASSUME NEW x \in Entries(b), NEW y \in Entries(b), moved[x] = moved[y] PROVE x = y
    <3>1. x[1] = y[1] /\ a[x[1]] + x[2] = a[y[1]] + y[2]
      BY <2>2
    <3>2. /\ x = <<x[1], x[2]>> /\ x[1] \in Events /\ x[2] \in 1..b[x[1]]
          /\ y = <<y[1], y[2]>> /\ y[2] \in 1..b[y[1]] /\ a[x[1]] \in Nat /\ b[x[1]] \in Nat
      BY EntryIsPair DEF Copies
    <3>3. x[2] = y[2]
      BY <3>1, <3>2
    <3> QED
      BY <3>1, <3>2, <3>3
  <2>3. ASSUME NEW y \in above PROVE \E x \in Entries(b) : moved[x] = y
    <3>1. /\ y = <<y[1], y[2]>> /\ y[1] \in Events /\ y[2] \in 1..c[y[1]] /\ y[2] > a[y[1]]
          /\ a[y[1]] \in Nat /\ b[y[1]] \in Nat /\ c[y[1]] = a[y[1]] + b[y[1]]
      BY EntryIsPair DEF Copies
    <3>2. y[2] - a[y[1]] \in 1..b[y[1]] /\ a[y[1]] + (y[2] - a[y[1]]) = y[2]
      BY <3>1
    <3>3. <<y[1], y[2] - a[y[1]]>> \in Entries(b)
      BY <3>1, <3>2, InEntries
    <3> QED
      BY <3>1, <3>2, <3>3
  <2> HIDE DEF above
  <2>4. moved \in [Entries(b) -> above]
    BY <2>1
  <2> HIDE DEF moved
  <2> QED
    BY <2>2, <2>3, <2>4 DEF Bijection, Injection, Surjection, IsInjective
<1>2. Entries(c) = Entries(a) \cup above /\ Entries(a) \cap above = {}
  <2>1. ASSUME NEW x \in Entries(c) PROVE x \in Entries(a) \/ x \in above
    <3>1. /\ x = <<x[1], x[2]>> /\ x[1] \in Events /\ x[2] \in 1..c[x[1]]
          /\ a[x[1]] \in Nat /\ c[x[1]] \in Nat
      BY EntryIsPair DEF Copies
    <3>2. x[2] > a[x[1]] \/ x[2] \in 1..a[x[1]]
      BY <3>1
    <3> QED
      BY <3>1, <3>2, InEntries
  <2>2. ASSUME NEW x \in Entries(a) PROVE x \in Entries(c) /\ x \notin above
    <3>1. /\ x = <<x[1], x[2]>> /\ x[1] \in Events /\ x[2] \in 1..a[x[1]]
          /\ a[x[1]] \in Nat /\ b[x[1]] \in Nat /\ c[x[1]] = a[x[1]] + b[x[1]]
      BY EntryIsPair DEF Copies
    <3>2. x[2] \in 1..c[x[1]] /\ ~(x[2] > a[x[1]])
      BY <3>1
    <3> QED
      BY <3>1, <3>2, InEntries
  <2> QED
    BY <2>1, <2>2
<1>3. ExistsBijection(Entries(b), above)
  BY <1>1 DEF ExistsBijection
<1>4. IsFiniteSet(above) /\ Cardinality(above) = Length(b)
  <2> HIDE DEF above
  <2> QED
    BY <1>3, LengthType, FS_Bijection DEF Length
<1>5. Cardinality(Entries(a) \cap above) = 0
  BY <1>2, FS_EmptySet
<1> HIDE DEF above
<1>6. Length(c) = Cardinality(Entries(a)) + Cardinality(above) - Cardinality(Entries(a) \cap above)
  BY <1>2, <1>4, LengthType, FS_Union DEF Length
<1>7. Length(a) \in Nat /\ Length(b) \in Nat
  BY LengthType
<1> QED
  BY <1>4, <1>5, <1>6, <1>7 DEF Length

Once(S) == [e \in Events |-> IF e \in S THEN 1 ELSE 0]

\* A slice with each of some events once is as long as there are such events.
LEMMA LengthOnce ==
  ASSUME NEW S \in SUBSET Events
  PROVE  Once(S) \in [Events -> Copies] /\ Length(Once(S)) = Cardinality(S) /\ Cardinality(S) \in Nat
<1> DEFINE first == [e \in S |-> <<e, 1>>]
<1>1. Once(S) \in [Events -> Copies]
  BY DEF Once, Copies
<1>2. first \in Bijection(S, Entries(Once(S)))
  <2>1. ASSUME NEW e \in S PROVE <<e, 1>> \in Entries(Once(S))
    BY <1>1, InEntries DEF Once
  <2>2. ASSUME NEW x \in Entries(Once(S)) PROVE x[1] \in S /\ x = <<x[1], 1>>
    <3>1. x = <<x[1], x[2]>> /\ x[1] \in Events /\ x[2] \in 1..Once(S)[x[1]]
      BY EntryIsPair
    <3>2. x[1] \in S
      BY <3>1 DEF Once
    <3>3. Once(S)[x[1]] = 1
      BY <3>1, <3>2 DEF Once
    <3>4. x[2] = 1
      BY <3>1, <3>3
    <3> QED
      BY <3>1, <3>2, <3>4
  <2> QED
    BY <2>1, <2>2 DEF Bijection, Injection, Surjection, IsInjective
<1>3. ExistsBijection(S, Entries(Once(S)))
  BY <1>2 DEF ExistsBijection
<1>4. IsFiniteSet(S)
  BY AuditStoreAssumption, FS_Subset
<1> QED
  BY <1>1, <1>3, <1>4, FS_Bijection, FS_CardinalityType DEF Length

LEMMA LengthNone == NoItems \in [Events -> Copies] /\ Length(NoItems) = 0
<1>1. NoItems = Once({})
  BY DEF NoItems, Once
<1> QED
  BY <1>1, LengthOnce, FS_EmptySet
-------------------------------------------------------------------------------
(* The backlog is bounded.  A failed batch comes on top of what was accepted *)
(* while it was written; but a batch with placeholders had emptied ready,    *)
(* and one without them only puts back what it took.                         *)

InBatch == Length(finals) + Cardinality(placeholders)

BacklogInv ==
  /\ Cardinality(pending) <= MaxPending
  /\ InBatch <= MaxBatchSize
  /\ Queued(pending, ready) + InBatch <= MaxPending + MaxBatchSize

\* In a state of the queues' invariant every bag has at most two copies, and
\* the lengths are numbers.
BacklogTypes ==
  /\ ready \in [Events -> Copies] /\ finals \in [Events -> Copies]
  /\ Items \in [Events -> Copies]
  /\ Length(ready) \in Nat /\ Length(finals) \in Nat /\ Length(Items) \in Nat
  /\ IsFiniteSet(pending) /\ IsFiniteSet(placeholders)
  /\ Cardinality(pending) \in Nat /\ Cardinality(placeholders) \in Nat
  /\ InBatch \in Nat
  /\ MaxPending \in Nat \ {0} /\ MaxBatchSize \in Nat \ {0}

LEMMA BacklogTyped == TypeOK /\ QueueInv => BacklogTypes
<1> SUFFICES ASSUME TypeOK, QueueInv PROVE BacklogTypes
  OBVIOUS
<1>1. ASSUME NEW e \in Events PROVE ready[e] \in Copies /\ finals[e] \in Copies /\ Items[e] \in Copies
  <2>1. ready[e] \in Nat /\ finals[e] \in Nat
    BY DEF TypeOK
  <2>2. ready[e] + finals[e] <= 2 /\ (e \in placeholders => finals[e] = 0)
    BY DEF QueueInv, EventInv, InTheBatch, Budget
  <2> QED
    BY <2>1, <2>2 DEF Copies, Items
<1>2. /\ ready \in [Events -> Copies] /\ finals \in [Events -> Copies]
      /\ Items \in [Events -> Copies]
  BY <1>1 DEF TypeOK, Items
<1>3. IsFiniteSet(pending) /\ IsFiniteSet(placeholders)
  BY AuditStoreAssumption, FS_Subset DEF TypeOK
<1>4. /\ Length(ready) \in Nat /\ Length(finals) \in Nat /\ Length(Items) \in Nat
      /\ Cardinality(pending) \in Nat /\ Cardinality(placeholders) \in Nat
  BY <1>2, <1>3, LengthType, FS_CardinalityType
<1> QED
  BY <1>2, <1>3, <1>4, AuditStoreAssumption DEF BacklogTypes, InBatch

LEMMA BacklogTypedNext == TypeOK' /\ QueueInv' => BacklogTypes'
BY BacklogTyped, PTL

LEMMA BacklogInit == Init => BacklogInv
<1> SUFFICES ASSUME Init PROVE BacklogInv
  OBVIOUS
<1>1. Length(ready) = 0 /\ Length(finals) = 0
  BY LengthNone DEF Init
<1>2. Cardinality(pending) = 0 /\ Cardinality(placeholders) = 0
  BY FS_EmptySet DEF Init
<1> QED
  BY <1>1, <1>2, AuditStoreAssumption DEF BacklogInv, InBatch, Queued

\* A step that leaves queues and batch alone.
LEMMA BacklogElsewhere ==
  ASSUME BacklogInv, UNCHANGED <<pending, ready, finals, placeholders>>
  PROVE  BacklogInv'
BY DEF BacklogInv, InBatch, Queued

\* One more accepted, while there was room.
LEMMA BacklogAccepts ==
  ASSUME TypeOK, QueueInv, QueueInv', TypeOK', BacklogInv, NEW x \in Events, ~Full,
         UNCHANGED <<finals, placeholders>>,
         \/ pending' = pending \cup {x} /\ ready' = ready
         \/ pending' = pending /\ ready' = [ready EXCEPT ![x] = @ + 1]
  PROVE  BacklogInv'
<1> BacklogTypes /\ BacklogTypes'
  BY BacklogTyped, BacklogTypedNext
<1> USE DEF BacklogTypes
<1> DEFINE held == Cardinality(pending)
           length == Length(ready)
<1>1. /\ held \in Nat /\ length \in Nat /\ InBatch \in Nat
      /\ MaxPending \in Nat /\ MaxBatchSize \in Nat
      /\ Cardinality(pending') \in Nat /\ Length(ready') \in Nat
  OBVIOUS
<1>2. held + length < MaxPending
  BY <1>1 DEF Full, Queued
<1>3. Cardinality(pending') <= held + 1 /\ Length(ready') <= length + 1
      /\ Cardinality(pending') + Length(ready') <= held + length + 1
  <2>1. CASE pending' = pending \cup {x} /\ ready' = ready
    <3>1. Cardinality(pending') <= held + 1
      BY <1>1, <2>1, FS_AddElement
    <3>2. Length(ready') = length
      BY <2>1
    <3> HIDE DEF held, length
    <3> QED
      BY <1>1, <3>1, <3>2
  <2>2. CASE pending' = pending /\ ready' = [ready EXCEPT ![x] = @ + 1]
    <3>1. \A e \in Events : ready'[e] = ready[e] + Once({x})[e]
      BY <2>2 DEF Once, Copies
    <3>2. Length(ready') = length + Length(Once({x}))
      BY <3>1, LengthOnce, LengthAdds
    <3>3. Length(Once({x})) = 1
      <4>1. {x} \in SUBSET Events
        OBVIOUS
      <4> QED
        BY <4>1, LengthOnce, FS_Singleton
    <3>4. Cardinality(pending') = held
      BY <2>2
    <3> HIDE DEF held, length
    <3> QED
      BY <1>1, <3>2, <3>3, <3>4
  <2> QED
    BY <2>1, <2>2
<1>4. InBatch' = InBatch
  BY DEF InBatch
<1> HIDE DEF held, length
<1> QED
  BY <1>1, <1>2, <1>3, <1>4 DEF BacklogInv, Queued

\* Finish moves an event from one queue to the other.
LEMMA BacklogFinish ==
  ASSUME TypeOK, QueueInv, QueueInv', TypeOK', BacklogInv, NEW x \in Events, Finish(x)
  PROVE  BacklogInv'
<1> BacklogTypes /\ BacklogTypes'
  BY BacklogTyped, BacklogTypedNext
<1> USE DEF BacklogTypes
<1>1. CASE x \in pending /\ ~Closed
  <2> DEFINE held == Cardinality(pending)
             length == Length(ready)
  <2>1. /\ pending' = pending \ {x} /\ ready' = [ready EXCEPT ![x] = @ + 1]
        /\ UNCHANGED <<finals, placeholders>>
    BY <1>1 DEF Finish, local
  <2>2. /\ held \in Nat /\ length \in Nat /\ InBatch \in Nat
        /\ MaxPending \in Nat /\ MaxBatchSize \in Nat
    OBVIOUS
  <2>3. Cardinality(pending') = held - 1
    BY <1>1, <2>1, FS_RemoveElement
  <2>4. \A e \in Events : ready'[e] = ready[e] + Once({x})[e]
    BY <2>1 DEF Once, Copies
  <2>5. Length(ready') = length + Length(Once({x})) /\ Length(Once({x})) = 1
    <3>1. Once({x}) \in [Events -> Copies] /\ Length(Once({x})) = Cardinality({x})
      BY LengthOnce
    <3>2. Length(ready') = Length(ready) + Length(Once({x}))
      BY <2>4, <3>1, LengthAdds
    <3> QED
      BY <3>1, <3>2, FS_Singleton
  <2>6. InBatch' = InBatch
    BY <2>1 DEF InBatch
  <2> HIDE DEF held, length
  <2> QED
    BY <2>2, <2>3, <2>5, <2>6 DEF BacklogInv, Queued, held, length
<1>2. CASE ~(x \in pending /\ ~Closed)
  BY <1>2, BacklogElsewhere DEF Finish, local
<1> QED
  BY <1>1, <1>2

LEMMA BacklogTake ==
  ASSUME TypeOK, QueueInv, QueueInv', TypeOK', BacklogInv, TakeBatch
  PROVE  BacklogInv'
<1> BacklogTypes /\ BacklogTypes'
  BY BacklogTyped, BacklogTypedNext
<1> USE DEF BacklogTypes
<1> PICK taken \in [Events -> Copies], started \in SUBSET Eligible :
      /\ \A e \in Events : taken[e] <= ready[e]
      /\ Room(taken) = 0 \/ (taken = ready /\ Room(taken) > 0)
      /\ \/ Cardinality(started) = Room(taken)
         \/ started = Eligible /\ Cardinality(started) < Room(taken)
      /\ finals' = taken
      /\ placeholders' = started
      /\ ready' = [e \in Events |-> ready[e] - taken[e]]
  BY DEF TakeBatch
<1> DEFINE held == Cardinality(pending)
           length == Length(ready)
           left == Length(ready')
           out == Length(taken)
           begun == Cardinality(started)
<1>1. /\ held \in Nat /\ length \in Nat /\ left \in Nat /\ out \in Nat /\ InBatch \in Nat
      /\ MaxPending \in Nat /\ MaxBatchSize \in Nat
  BY LengthType DEF InBatch
<1>2. begun \in Nat
  OBVIOUS
<1>3. \A e \in Events : ready[e] = ready'[e] + taken[e]
  BY DEF Copies
<1>4. length = left + out
  BY <1>3, LengthAdds
<1>5. Room(taken) = MaxBatchSize - out
  BY DEF Room
<1>6. taken = ready => out = length
  OBVIOUS
<1>7. Cardinality(pending') = held /\ InBatch' = out + begun
  BY DEF TakeBatch, handlers, InBatch
<1> HIDE DEF held, length, left, out, begun
<1>8. /\ Room(taken) = 0 \/ (out = length /\ Room(taken) > 0)
      /\ begun = Room(taken) \/ begun < Room(taken)
  BY <1>6 DEF begun
<1>9. out + begun <= MaxBatchSize
  BY <1>1, <1>2, <1>5, <1>8
<1>10. begun = 0 \/ left = 0
  BY <1>1, <1>2, <1>4, <1>5, <1>8
<1>11. held <= MaxPending /\ held + length <= MaxPending + MaxBatchSize
  BY <1>1 DEF BacklogInv, Queued, held, length
<1>12. held + left + (out + begun) <= MaxPending + MaxBatchSize
  BY <1>1, <1>2, <1>4, <1>9, <1>10, <1>11
<1> QED
  BY <1>7, <1>9, <1>11, <1>12 DEF BacklogInv, Queued, left

LEMMA BacklogFail ==
  ASSUME TypeOK, QueueInv, QueueInv', TypeOK', BacklogInv, FailBatch
  PROVE  BacklogInv'
<1> BacklogTypes /\ BacklogTypes'
  BY BacklogTyped, BacklogTypedNext
<1> USE DEF BacklogTypes
<1> DEFINE again == [e \in Events |-> IF e \in Requeued THEN Items[e] ELSE 0]
           held == Cardinality(pending)
           length == Length(ready)
<1>1. again \in [Events -> Copies]
  BY DEF Copies
<1>2. Length(again) <= Length(Items)
  BY <1>1, LengthMonotone DEF Copies
<1>3. Length(Items) = Length(finals) + Cardinality(placeholders)
  <2>1. placeholders \in SUBSET Events
    BY DEF TypeOK
  <2>2. \A e \in Events : Items[e] = finals[e] + Once(placeholders)[e]
    BY DEF Items, Once
  <2>3. Once(placeholders) \in [Events -> Copies]
        /\ Length(Once(placeholders)) = Cardinality(placeholders)
    BY <2>1, LengthOnce
  <2>4. Items \in [Events -> Copies] /\ finals \in [Events -> Copies]
    OBVIOUS
  <2>5. Length(Items) = Length(finals) + Length(Once(placeholders))
    BY ONLY <2>2, <2>3, <2>4, LengthAdds
  <2> QED
    BY <2>3, <2>5
<1>4. ready' = [e \in Events |-> IF e \in Requeued THEN ready[e] + Items[e] ELSE ready[e]]
      /\ pending' = pending \ Abandoned /\ finals' = NoItems /\ placeholders' = {}
  BY DEF FailBatch, EndBatch
<1>5. \A e \in Events : ready'[e] = ready[e] + again[e]
  BY <1>4 DEF Copies
<1>6. Length(ready') = length + Length(again)
  <2> HIDE DEF again
  <2> QED
    BY <1>1, <1>5, LengthAdds
<1>7. Cardinality(pending') <= held /\ Cardinality(pending') \in Nat
  <2>1. pending' \in SUBSET pending
    BY <1>4
  <2> QED
    BY <2>1, FS_Subset
<1>8. InBatch' = 0
  BY <1>4, LengthNone, FS_EmptySet DEF InBatch
<1>9. /\ held \in Nat /\ length \in Nat /\ InBatch \in Nat /\ Length(again) \in Nat
      /\ MaxPending \in Nat /\ MaxBatchSize \in Nat
  BY <1>1, LengthType DEF InBatch
<1>10. Length(again) <= InBatch
  BY <1>2, <1>3 DEF InBatch
<1>11. held <= MaxPending /\ held + length + InBatch <= MaxPending + MaxBatchSize
  BY <1>9 DEF BacklogInv, Queued
<1> HIDE DEF held, length, again
<1> QED
  BY <1>6, <1>7, <1>8, <1>9, <1>10, <1>11 DEF BacklogInv, Queued

LEMMA BacklogNext ==
  TypeOK /\ QueueInv /\ BacklogInv /\ [Next]_vars => BacklogInv'
<1> SUFFICES ASSUME TypeOK, QueueInv, BacklogInv, [Next]_vars PROVE BacklogInv'
  OBVIOUS
<1> TypeOK' /\ QueueInv'
  BY TypeNext, QueueNext
<1> BacklogTypes /\ BacklogTypes'
  BY BacklogTyped, BacklogTypedNext
<1> USE DEF handlers, clients, barrier, events, local, control, flags
<1>1. ASSUME NEW x \in Events, Start(x) \/ Record(x) PROVE BacklogInv'
  <2>1. CASE Full
    BY <1>1, <2>1, BacklogElsewhere DEF Start, Record
  <2>2. CASE ~Full
    BY <1>1, <2>2, BacklogAccepts DEF Start, Record
  <2> QED
    BY <2>1, <2>2
<1>2. ASSUME NEW x \in Events, Finish(x) PROVE BacklogInv'
  BY <1>2, BacklogFinish
<1>3. ASSUME NEW x \in Events, Elapse(x) PROVE BacklogInv'
  BY <1>3, BacklogElsewhere DEF Elapse
<1>4. ASSUME NEW c \in Callers, NEW k \in {"sync", "cleanup"}, Barrier(c, k) PROVE BacklogInv'
  BY <1>4, BacklogElsewhere DEF Barrier
<1>5. ASSUME NEW c \in Callers, Recheck(c) \/ GiveUp(c) PROVE BacklogInv'
  BY <1>5, BacklogElsewhere DEF Recheck, GiveUp
<1>6. CASE Tick \/ TakeStop \/ DrainPass \/ SpendBudget \/ Exit
  BY <1>6, BacklogElsewhere DEF Tick, TakeStop, DrainPass, SpendBudget, Exit
<1>7. CASE CleanupNow \/ RetentionTick \/ ConsumeForce \/ Commit \/ Advance
  BY <1>7, BacklogElsewhere DEF CleanupNow, RetentionTick, ConsumeForce, Commit, Advance
<1>8. CASE TakeBatch
  BY <1>8, BacklogTake
<1>9. CASE MarkWritten
  <2> USE DEF BacklogTypes
  <2> DEFINE held == Cardinality(pending)
             length == Length(ready)
  <2>1. UNCHANGED <<pending, ready>> /\ finals' = NoItems /\ placeholders' = {}
    BY <1>9 DEF MarkWritten, EndBatch
  <2>2. InBatch' = 0
    BY <2>1, LengthNone, FS_EmptySet DEF InBatch
  <2>3. /\ held \in Nat /\ length \in Nat /\ InBatch \in Nat
        /\ MaxPending \in Nat /\ MaxBatchSize \in Nat
    OBVIOUS
  <2>4. Cardinality(pending') = held /\ Length(ready') = length
    BY <2>1
  <2> HIDE DEF held, length
  <2> QED
    BY <2>2, <2>3, <2>4 DEF BacklogInv, Queued, held, length
<1>10. CASE FailBatch
  BY <1>10, BacklogFail
<1>11. CASE Close
  BY <1>11, BacklogElsewhere DEF Close, MarkClosed, StopWriter, CloseHandles
<1>12. CASE UNCHANGED vars
  BY <1>12, BacklogElsewhere DEF vars
<1> QED
  BY <1>1, <1>2, <1>3, <1>4, <1>5, <1>6, <1>7, <1>8, <1>9, <1>10, <1>11, <1>12
     DEF Next, Server, Handler, Client, WriterStep, Sync, Cleanup

\* However long the database fails, the queues outgrow maxPending by no more
\* than one batch, although failBatch does not look at the limit.
THEOREM QueueIsBounded == Spec => []QueueBound
<1>1. TypeOK /\ QueueInv /\ BacklogInv => QueueBound
  <2> SUFFICES ASSUME TypeOK, QueueInv, BacklogInv PROVE QueueBound
    OBVIOUS
  <2>1. /\ Queued(pending, ready) \in Nat /\ InBatch \in Nat
        /\ MaxPending \in Nat /\ MaxBatchSize \in Nat
    BY BacklogTyped DEF BacklogTypes, Queued
  <2> QED
    BY <2>1 DEF BacklogInv, QueueBound
<1>2. Spec => [](TypeOK /\ QueueInv /\ BacklogInv)
  <2>1. TypeOK /\ QueueInv /\ BacklogInv /\ [Next]_vars => (TypeOK /\ QueueInv /\ BacklogInv)'
    BY TypeNext, QueueNext, BacklogNext
  <2> QED
    BY <2>1, TypeInit, QueueInit, BacklogInit, PTL DEF Spec
<1> QED
  BY <1>1, <1>2, PTL
===============================================================================
