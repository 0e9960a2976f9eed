------------------------------ MODULE AuditStore ------------------------------
(***************************************************************************)
(* internal/audit/store.go: the batching audit writer of the UI server.    *)
(*                                                                         *)
(* Request handlers queue events in memory (Start, Finish, Record) and     *)
(* never touch the database; one writer goroutine (run) turns the queues   *)
(* into transactions; Sync and Cleanup are barriers that wait for the      *)
(* writer; Close stops it after a drain.  Each action is one critical      *)
(* section of mu, or one database call made outside it.                    *)
(*                                                                         *)
(* Abstractions.                                                           *)
(*  - ready is the bag of finished events in the slice s.ready: a batch    *)
(*    cut short by maxBatchSize takes any of them, not the oldest.         *)
(*  - flushReq and flushedSeq are only ever compared, and every takeBatch  *)
(*    captures the current flushReq.  A caller's target is therefore one   *)
(*    of: not captured yet, captured by the batch in hand (covered), or    *)
(*    published by advanceBarrier (settled).                               *)
(*  - signalCh only makes the next pass come sooner than the ticker's.     *)
(***************************************************************************)
EXTENDS Naturals, FiniteSets

CONSTANTS
  Events,             \* one element per call of Start or Record
  Callers,            \* goroutines that call Sync or Cleanup
  MaxPending,         \* s.maxPending
  MaxBatchSize,       \* maxBatchSize
  MaxBatchesPerPass,  \* maxBatchesPerPass
  MaxFlushAttempts,   \* maxFlushAttempts
  RetentionDays       \* 0 keeps every event

ASSUME AuditStoreAssumption ==
  /\ IsFiniteSet(Events)
  /\ MaxPending \in Nat \ {0}
  /\ MaxBatchSize \in Nat \ {0}
  /\ MaxBatchesPerPass \in Nat \ {0}
  /\ MaxFlushAttempts \in Nat \ {0}
  /\ RetentionDays \in Nat

VARIABLES
  \* the callers' side
  req,         \* req[e]: "new", "running" (Start returned an id), "done", "dropped"
  caller,      \* caller[c]: "idle", "waiting" (on flushDone), "again", "returned"
  op,          \* op[c]: "sync" or "cleanup"
  \* pendingEvent
  finished,    \* event.finished
  written,     \* event.written
  attempts,    \* event.attempts
  age,         \* how long ago event.occurredAt is, as the two limits see it
  \* Store, guarded by mu
  pending,     \* events started and not finished
  ready,       \* ready[e]: how many times e is queued as finished
  cleanupReq,
  forceFlush,
  covered,     \* callers whose target the batch in hand captured
  settled,     \* callers whose target flushedSeq has reached
  woken,       \* callers whose flushDone channel has been closed
  failed,      \* failed[e]: how many times e was counted as abandoned
  closing,     \* Close: "open", "closed", "stopping", "down" (handles closed)
  \* the writer goroutine
  wpc,         \* where run is
  draining,    \* run took stopCh
  spent,       \* the drain budget has expired
  force,       \* flush's force
  batches,     \* batches of this pass so far
  complete,    \* takeBatch drained the queue
  finals,      \* finals[e]: items of the batch taken from ready
  placeholders,\* items of the batch taken from pending
  \* the database
  row,         \* row[e]: "none", "started", "final"
  \* history
  owed,        \* owed[c]: events finished and uncommitted when c called
  missed,      \* missed[c]: those of owed[c] that were in a batch that failed since
  owedOpen,    \* owedOpen[c]: events in flight, with no row, when c called Sync
  owedDelete,  \* callers of Cleanup since whose call no DELETE has begun
  late         \* callers of Cleanup in a pass that had looked at cleanupReq before

handlers == <<req, finished, pending>>
clients  == <<caller, op, owed, missed, owedOpen, owedDelete, late>>
barrier  == <<covered, settled, woken>>
events   == <<written, attempts, ready, failed>>
local    == <<force, batches, complete, finals, placeholders>>
control  == <<wpc, draining, spent>>
flags    == <<cleanupReq, forceFlush>>
vars == <<handlers, clients, barrier, events, local, control, flags, age, closing, row>>

Copies == 0..2   \* an event is queued at most twice, see QueuedTwice
NoItems == [e \in Events |-> 0]
Ages == {"fresh", "slow", "expired"}
Closed == closing # "open"

TypeOK ==
  /\ req \in [Events -> {"new", "running", "done", "dropped"}]
  /\ caller \in [Callers -> {"idle", "waiting", "again", "returned"}]
  /\ op \in [Callers -> {"sync", "cleanup"}]
  /\ finished \in [Events -> BOOLEAN]
  /\ written \in [Events -> BOOLEAN]
  /\ attempts \in [Events -> Nat]
  /\ age \in [Events -> Ages]
  /\ pending \subseteq Events
  /\ ready \in [Events -> Nat]
  /\ cleanupReq \in BOOLEAN /\ forceFlush \in BOOLEAN
  /\ covered \subseteq Callers /\ settled \subseteq Callers /\ woken \subseteq Callers
  /\ failed \in [Events -> Nat]
  /\ closing \in {"open", "closed", "stopping", "down"}
  /\ wpc \in {"select", "delete", "force", "take", "write", "mark", "advance", "exited"}
  /\ draining \in BOOLEAN /\ spent \in BOOLEAN /\ force \in BOOLEAN /\ complete \in BOOLEAN
  /\ batches \in Nat /\ batches < MaxBatchesPerPass
  /\ finals \in [Events -> Nat]
  /\ placeholders \subseteq Events
  /\ row \in [Events -> {"none", "started", "final"}]
  /\ owed \in [Callers -> SUBSET Events]
  /\ missed \in [Callers -> SUBSET Events]
  /\ owedOpen \in [Callers -> SUBSET Events]
  /\ owedDelete \subseteq Callers /\ late \subseteq Callers

\* openStore: an empty queue over a database none of these events is in yet.
Init ==
  /\ req = [e \in Events |-> "new"]
  /\ caller = [c \in Callers |-> "idle"]
  /\ op = [c \in Callers |-> "sync"]
  /\ finished = [e \in Events |-> FALSE]
  /\ written = [e \in Events |-> FALSE]
  /\ attempts = NoItems
  /\ age = [e \in Events |-> "fresh"]
  /\ pending = {} /\ ready = NoItems
  /\ cleanupReq = FALSE /\ forceFlush = FALSE
  /\ covered = {} /\ settled = {} /\ woken = {}
  /\ failed = NoItems
  /\ closing = "open"
  /\ wpc = "select" /\ draining = FALSE /\ spent = FALSE
  /\ force = FALSE /\ batches = 0 /\ complete = FALSE
  /\ finals = NoItems /\ placeholders = {}
  /\ row = [e \in Events |-> "none"]
  /\ owed = [c \in Callers |-> {}]
  /\ missed = [c \in Callers |-> {}]
  /\ owedOpen = [c \in Callers |-> {}]
  /\ owedDelete = {} /\ late = {}
-------------------------------------------------------------------------------
(* Request handlers: Middleware.Wrap calls Start, then Finish; logins Record. *)

\* The entries of a slice: <<e, n>> is the nth time that e is in it.
Entries(bag) == UNION {{e} \X (1..bag[e]) : e \in Events}
Length(bag) == Cardinality(Entries(bag))

Queued(pend, rdy) == Cardinality(pend) + Length(rdy)

\* Mutant of Full: the limit overlooks the finished events.
FullOfPending == Closed \/ Cardinality(pending) >= MaxPending

Full == Closed \/ Queued(pending, ready) >= MaxPending

\* Start: queue e as in flight, or drop it when the store is full or closed.
Start(e) ==
  /\ req[e] = "new"
  /\ IF Full
     THEN /\ req' = [req EXCEPT ![e] = "dropped"]
          /\ UNCHANGED pending
     ELSE /\ req' = [req EXCEPT ![e] = "running"]
          /\ pending' = pending \cup {e}
  /\ UNCHANGED <<finished, clients, barrier, events, local, control, flags, age, closing, row>>

\* Finish: move e from pending to ready; a no-op once the store is closed or
\* the event has been abandoned.
Finish(e) ==
  /\ req[e] = "running"
  /\ req' = [req EXCEPT ![e] = "done"]
  /\ IF e \in pending /\ ~Closed
     THEN /\ pending' = pending \ {e}
          /\ finished' = [finished EXCEPT ![e] = TRUE]
          /\ ready' = [ready EXCEPT ![e] = @ + 1]
     ELSE UNCHANGED <<pending, finished, ready>>
  /\ UNCHANGED <<clients, barrier, written, attempts, failed, local, control, flags, age, closing, row>>

\* Record: queue an event that is already complete.
Record(e) ==
  /\ req[e] = "new"
  /\ IF Full
     THEN /\ req' = [req EXCEPT ![e] = "dropped"]
          /\ UNCHANGED <<finished, ready>>
     ELSE /\ req' = [req EXCEPT ![e] = "done"]
          /\ finished' = [finished EXCEPT ![e] = TRUE]
          /\ ready' = [ready EXCEPT ![e] = @ + 1]
  /\ UNCHANGED <<pending, clients, barrier, written, attempts, failed, local, control, flags, age, closing, row>>

\* The clock passes startFallback, then the retention window, of e.
Elapse(e) ==
  /\ req[e] \notin {"new", "dropped"}
  /\ age[e] # "expired"
  /\ age' = [age EXCEPT ![e] = IF @ = "fresh" THEN "slow" ELSE "expired"]
  /\ UNCHANGED <<handlers, clients, barrier, events, local, control, flags, closing, row>>
-------------------------------------------------------------------------------
(* Sync and Cleanup *)

\* Events whose outcome is queued or in the batch being written.
Unflushed == {e \in Events : ready[e] + finals[e] > 0}

\* An in-flight event takeBatch would emit a placeholder for, if forced.
Unplaced == {e \in pending : ~written[e] /\ attempts[e] < MaxFlushAttempts}

\* The locals of barrier go out of scope, and the history of its call with them, but for
\* the DELETE that a Cleanup may still be owed.
Return(c) ==
  /\ caller' = [caller EXCEPT ![c] = "returned"]
  /\ op' = [op EXCEPT ![c] = "sync"]
  /\ covered' = covered \ {c} /\ settled' = settled \ {c} /\ woken' = woken \ {c}
  /\ owed' = [owed EXCEPT ![c] = {}]
  /\ missed' = [missed EXCEPT ![c] = {}]
  /\ owedOpen' = [owedOpen EXCEPT ![c] = {}]
  /\ UNCHANGED <<owedDelete, late>>

\* The writer has looked at cleanupReq in this pass.
PastCleanup == wpc \notin {"select", "delete"}

\* One turn of barrier's loop up to its select: ask for a cycle, or return
\* when the store is closed.  The history is what the first turn asked for.
Barrier(c, kind) ==
  /\ \/ caller[c] = "idle" /\ (kind = "cleanup" => RetentionDays > 0)
     \/ caller[c] = "again" /\ kind = op[c]
  /\ IF Closed
     THEN Return(c) /\ UNCHANGED flags
     ELSE /\ caller' = [caller EXCEPT ![c] = "waiting"]
          /\ op' = [op EXCEPT ![c] = kind]
          /\ covered' = covered \ {c}
          /\ settled' = settled \ {c}
          /\ woken' = woken \ {c}
          /\ forceFlush' = TRUE
          /\ cleanupReq' = (cleanupReq \/ kind = "cleanup")
          /\ IF caller[c] = "idle"
             THEN /\ owed' = [owed EXCEPT ![c] = Unflushed]
                  /\ owedOpen' = [owedOpen EXCEPT ![c] = IF kind = "sync" THEN Unplaced ELSE {}]
                  /\ owedDelete' = owedDelete \cup IF kind = "cleanup" THEN {c} ELSE {}
                  /\ late' = late \cup IF kind = "cleanup" /\ PastCleanup THEN {c} ELSE {}
                  /\ UNCHANGED missed
             ELSE UNCHANGED <<owed, missed, owedOpen, owedDelete, late>>
  /\ UNCHANGED <<handlers, events, local, control, age, closing, row>>

Sync(c) == Barrier(c, "sync")
Cleanup(c) == Barrier(c, "cleanup")

\* The rest of the loop: done was closed, compare flushedSeq with the target.
Recheck(c) ==
  /\ caller[c] = "waiting" /\ c \in woken
  /\ IF c \in settled
     THEN Return(c)
     ELSE /\ caller' = [caller EXCEPT ![c] = "again"]
          /\ UNCHANGED <<op, barrier, owed, missed, owedOpen, owedDelete, late>>
  /\ UNCHANGED <<handlers, events, local, control, flags, age, closing, row>>

\* The caller's context ends while it waits.
GiveUp(c) ==
  /\ caller[c] = "waiting"
  /\ Return(c)
  /\ UNCHANGED <<handlers, events, local, control, flags, age, closing, row>>
-------------------------------------------------------------------------------
(* The writer goroutine *)

Waiting == {c \in Callers : caller[c] = "waiting"}

\* Mutant of AdvanceBarrier: flushReq is read after the commit.
AdvanceLate(watermark) ==
  /\ settled' = settled \cup Waiting
  /\ woken' = woken \cup Waiting
  /\ covered' = {}

\* advanceBarrier(watermark): publish what the batch captured, wake everyone.
AdvanceBarrier(watermark) ==
  /\ settled' = settled \cup (watermark \cap Waiting)
  /\ woken' = woken \cup Waiting
  /\ covered' = {}

\* Mutant of ReleaseBarrier: run returns without it.
ReleaseNobody == UNCHANGED barrier

\* releaseBarrier: flushReq itself is the watermark.
ReleaseBarrier == AdvanceBarrier(Waiting)

HasWork == (\E e \in Events : ready[e] > 0) \/ Unplaced # {}

\* Mutant of Pass: cleanupReq is cleared before it is read.
PassClearsFirst == cleanupReq' = FALSE /\ wpc' = "force" /\ late' = late \cap settled

\* pass: read and clear cleanupReq, then DELETE before the flush if asked.  A Cleanup that
\* came too late for the pass before is in time for this one, unless that pass let it go.
Pass ==
  /\ cleanupReq' = FALSE
  /\ wpc' = IF cleanupReq THEN "delete" ELSE "force"
  /\ late' = late \cap settled

\* run, on a tick of the flush interval or on a signal.
Tick ==
  /\ wpc = "select" /\ ~draining
  /\ Pass
  /\ UNCHANGED <<draining, spent, forceFlush, caller, op, owed, missed, owedOpen, owedDelete>>
  /\ UNCHANGED <<handlers, barrier, events, local, age, closing, row>>

\* run, on stopCh: from here on it only drains.
TakeStop ==
  /\ wpc = "select" /\ ~draining
  /\ closing \in {"stopping", "down"}
  /\ draining' = TRUE
  /\ UNCHANGED <<wpc, spent, handlers, clients, barrier, events, local, flags, age, closing, row>>

\* One turn of the drain loop.
DrainPass ==
  /\ wpc = "select" /\ draining
  /\ HasWork /\ ~spent
  /\ Pass
  /\ UNCHANGED <<draining, spent, forceFlush, caller, op, owed, missed, owedOpen, owedDelete>>
  /\ UNCHANGED <<handlers, barrier, events, local, age, closing, row>>

\* The drain budget expires; every database call fails from here on.
SpendBudget ==
  /\ draining /\ ~spent /\ wpc # "exited"
  /\ spent' = TRUE
  /\ UNCHANGED <<wpc, draining, handlers, clients, barrier, events, local, flags, age, closing, row>>

\* run returns: releaseBarrier, then doneCh is closed.
Exit ==
  /\ wpc = "select" /\ draining
  /\ ~HasWork \/ spent
  /\ wpc' = "exited"
  /\ ReleaseBarrier
  /\ UNCHANGED <<draining, spent, handlers, clients, events, local, flags, age, closing, row>>

DatabaseUp == closing # "down" /\ ~spent

\* Mutant of DeleteExpired: the cutoff is the fallback limit.
DeleteEarly ==
  \/ DatabaseUp /\ row' = [e \in Events |-> IF age[e] = "fresh" THEN row[e] ELSE "none"]
  \/ UNCHANGED row

\* DELETE FROM audit_event WHERE occurred_at < cutoff, or its failure.
DeleteExpired ==
  IF RetentionDays = 0
  THEN UNCHANGED row
  ELSE \/ DatabaseUp /\ row' = [e \in Events |-> IF age[e] = "expired" THEN "none" ELSE row[e]]
       \/ UNCHANGED row

\* cleanupNow, called by pass.
CleanupNow ==
  /\ wpc = "delete"
  /\ DeleteExpired
  /\ owedDelete' = {} /\ late' = {}
  /\ wpc' = "force"
  /\ UNCHANGED <<draining, spent, caller, op, owed, missed, owedOpen>>
  /\ UNCHANGED <<handlers, barrier, events, local, flags, age, closing>>

\* cleanupNow, called by run on its daily ticker.
RetentionTick ==
  /\ wpc = "select" /\ ~draining
  /\ DeleteExpired
  /\ owedDelete' = {} /\ late' = {}
  /\ UNCHANGED <<caller, op, owed, missed, owedOpen>>
  /\ UNCHANGED <<handlers, barrier, events, local, control, flags, age, closing>>

\* consumeForce, and the start of flush's loop.
ConsumeForce ==
  /\ wpc = "force"
  /\ force' = (draining \/ forceFlush)
  /\ forceFlush' = FALSE
  /\ batches' = 0
  /\ wpc' = "take"
  /\ UNCHANGED <<complete, finals, placeholders, draining, spent, cleanupReq>>
  /\ UNCHANGED <<handlers, clients, barrier, events, age, closing, row>>

\* Mutant of Eligible: only a barrier makes placeholders.
EligibleIfForced == {e \in Unplaced : force}

\* The in-flight events this takeBatch may emit a placeholder for.
Eligible == {e \in Unplaced : force \/ age[e] # "fresh"}

\* Mutant of Room: the cap is one too low.
RoomOffByOne(taken) == MaxBatchSize - 1 - Length(taken)

\* What is left of maxBatchSize after the outcomes in the bag.
Room(taken) == MaxBatchSize - Length(taken)

\* takeBatch: queued outcomes first, then placeholders, up to maxBatchSize.
\* The watermark is captured here; an empty batch goes on to advanceBarrier.
TakeBatch ==
  /\ wpc = "take"
  /\ \E taken \in [Events -> Copies], started \in SUBSET Eligible :
       /\ \A e \in Events : taken[e] <= ready[e]
       /\ Room(taken) = 0 \/ (taken = ready /\ Room(taken) > 0)
       /\ Cardinality(started) = Room(taken) \/ (started = Eligible /\ Cardinality(started) < Room(taken))
       /\ finals' = taken
       /\ placeholders' = started
       /\ ready' = [e \in Events |-> ready[e] - taken[e]]
       /\ attempts' = [e \in Events |-> attempts[e] + taken[e] + (IF e \in started THEN 1 ELSE 0)]
       /\ complete' = (taken = ready /\ started = Eligible)
  /\ wpc' = IF ready = NoItems /\ Eligible = {} THEN "advance" ELSE "write"
  /\ covered' = Waiting
  /\ UNCHANGED <<force, batches, draining, spent, written, failed, settled, woken>>
  /\ UNCHANGED <<handlers, clients, flags, age, closing, row>>

\* Mutant of MoreBatches: one turn too many.
MoreBatchesOffByOne == batches < MaxBatchesPerPass

\* flush's loop has a turn left after this one.
MoreBatches == batches + 1 < MaxBatchesPerPass

\* flush, after a batch: publish the watermark if the queue was drained, take
\* the next batch, or end a pass that used up its batches, barrier untouched.
EndBatch ==
  /\ owedOpen' = [c \in Callers |-> owedOpen[c] \ placeholders]
  /\ finals' = NoItems /\ placeholders' = {}
  /\ wpc' = IF complete \/ spent THEN "advance"
            ELSE IF MoreBatches THEN "take"
            ELSE "select"
  /\ covered' = IF wpc' = "select" THEN {} ELSE covered
  /\ batches' = IF wpc' = "take" THEN batches + 1 ELSE 0
  /\ force' = (force /\ wpc' = "take")
  /\ complete' = FALSE
  /\ UNCHANGED <<caller, op, owed, owedDelete, late, settled, woken, draining, spent, flags,
                 age, closing, row>>

\* writeBatch commits: one upsert per item, the placeholders after the outcomes.
Commit ==
  /\ wpc = "write"
  /\ DatabaseUp
  /\ row' = [e \in Events |-> IF e \in placeholders THEN "started"
                              ELSE IF finals[e] > 0 THEN "final"
                              ELSE row[e]]
  /\ wpc' = "mark"
  /\ UNCHANGED <<draining, spent, handlers, clients, barrier, events, local, flags, age, closing>>

\* markWritten: only entries that are still in pending.
MarkWritten ==
  /\ wpc = "mark"
  /\ LET here == {e \in pending : e \in placeholders \/ finals[e] > 0}
     IN  /\ written' = [e \in Events |-> written[e] \/ e \in here]
         /\ attempts' = [e \in Events |-> IF e \in here THEN 0 ELSE attempts[e]]
  /\ EndBatch
  /\ UNCHANGED <<missed, handlers, ready, failed>>

\* failBatch abandons an item past its budget, appends one whose event has
\* finished by now to ready, and leaves the others in pending.
Items == [e \in Events |-> finals[e] + (IF e \in placeholders THEN 1 ELSE 0)]

\* Mutants: the retry budget is not looked at; a failed batch is not requeued.
AbandonedNever == {}
RequeuedNever == {}

Abandoned == {e \in Events : Items[e] > 0 /\ attempts[e] >= MaxFlushAttempts}
Requeued == {e \in Events : finished[e]} \ Abandoned

\* writeBatch fails before or at the commit: the transaction rolls back.
FailBatch ==
  /\ wpc = "write"
  /\ pending' = pending \ Abandoned
  /\ failed' = [e \in Events |-> IF e \in Abandoned THEN failed[e] + Items[e] ELSE failed[e]]
  /\ ready' = [e \in Events |-> IF e \in Requeued THEN ready[e] + Items[e] ELSE ready[e]]
  /\ missed' = [c \in Callers |-> missed[c] \cup {e \in owed[c] : finals[e] > 0}]
  /\ EndBatch
  /\ UNCHANGED <<req, finished, written, attempts>>

\* flush: advanceBarrier with the watermark of the last batch.
Advance ==
  /\ wpc = "advance"
  /\ AdvanceBarrier(covered)
  /\ wpc' = "select"
  /\ force' = FALSE /\ batches' = 0 /\ complete' = FALSE
  /\ UNCHANGED <<finals, placeholders, draining, spent, handlers, clients, events, flags, age, closing, row>>
-------------------------------------------------------------------------------
(* Close *)

MarkClosed ==
  /\ closing = "open"
  /\ closing' = "closed"
  /\ UNCHANGED <<handlers, clients, barrier, events, local, control, flags, age, row>>

StopWriter ==
  /\ closing = "closed"
  /\ closing' = "stopping"
  /\ UNCHANGED <<handlers, clients, barrier, events, local, control, flags, age, row>>

\* doneCh was closed, or closeTimeout passed: the handles are closed anyway.
CloseHandles ==
  /\ closing = "stopping"
  /\ closing' = "down"
  /\ UNCHANGED <<handlers, clients, barrier, events, local, control, flags, age, row>>

Close == MarkClosed \/ StopWriter \/ CloseHandles
-------------------------------------------------------------------------------
Handler(e) == Start(e) \/ Finish(e) \/ Record(e) \/ Elapse(e)
Client(c) == Sync(c) \/ Cleanup(c) \/ Recheck(c) \/ GiveUp(c)
WriterStep ==
  \/ Tick \/ DrainPass \/ Exit \/ CleanupNow \/ ConsumeForce
  \/ TakeBatch \/ Commit \/ FailBatch \/ MarkWritten \/ Advance

Server == WriterStep \/ TakeStop \/ RetentionTick \/ SpendBudget \/ Close

Next ==
  \/ \E e \in Events : Handler(e)
  \/ \E c \in Callers : Client(c)
  \/ Server

Spec == Init /\ [][Next]_vars

\* select is fair to stopCh; a caller that has been woken runs on; Close runs to its end
\* once called.
AuditFairness ==
  /\ SF_vars(TakeStop)
  /\ \A c \in Callers : WF_vars(Recheck(c)) /\ WF_vars(caller[c] = "again" /\ Barrier(c, op[c]))
  /\ WF_vars(StopWriter) /\ WF_vars(CloseHandles)

\* The writer is a goroutine that always has a tick to take, and whose database calls end
\* within their timeouts.
FairSpec == Spec /\ WF_vars(WriterStep) /\ AuditFairness
-------------------------------------------------------------------------------
(* Safety *)

\* No accepted event vanishes: a running request is in pending until it is
\* abandoned, and an accepted outcome is queued, in the batch, in the database
\* (until retention deletes it) or counted as failed.
NothingLost ==
  \A e \in Events :
    /\ req[e] = "running" => e \in pending \/ failed[e] > 0
    /\ finished[e] => \/ ready[e] + finals[e] > 0
                      \/ row[e] = "final" \/ age[e] = "expired"
                      \/ failed[e] > 0

\* A barrier that the writer has released returns behind the commit of every outcome that
\* was queued, or in a batch, when it was called, unless a batch that held the outcome has
\* failed since or the drain ran out of time (store.go:316-318, 390-405): neither a cycle
\* that began before the call nor one of several batches releases it early.
BarrierCommits ==
  \A c \in Waiting \cap settled : \A e \in owed[c] :
    row[e] = "final" \/ age[e] = "expired" \/ e \in missed[c] \/ spent

\* A Cleanup that the writer has released returns behind the beginning of its DELETE, unless
\* it was called in a pass that had already looked whether one was asked for, or the store
\* has been closed (store.go:377-388).
CleanupBeforeRelease ==
  \A c \in Waiting \cap settled \cap owedDelete : c \in late \/ wpc = "exited"

\* Retries end: however often Finish races a failing batch, no event is put
\* in more batches, between two successes, than its budget and one.
RetryBudget == \A e \in Events : attempts[e] <= MaxFlushAttempts + 1

\* The backlog is bounded although failBatch requeues without looking at
\* maxPending: by the limit and one batch.
QueueBound == Queued(pending, ready) <= MaxPending + MaxBatchSize

\* The rows of audit_event evolve as AuditTrail allows: a placeholder never
\* replaces an outcome, no outcome precedes its Finish, only retention deletes.
Trail == INSTANCE AuditTrail
ImplementsTrail == Trail!Spec
-------------------------------------------------------------------------------
(* Liveness *)

\* A queued outcome reaches the database or the failed counter, unless the
\* writer stops first.
DeliveredOrCounted ==
  \A e \in Events : ready[e] + finals[e] > 0
                    ~> row[e] = "final" \/ failed[e] > 0 \/ wpc = "exited"

\* A request that stays open past startFallback leaves a trace even before
\* it finishes.
SlowRequestTraced ==
  \A e \in Events : (e \in pending /\ age[e] = "slow")
                    ~> (written[e] \/ e \notin pending \/ wpc = "exited")

\* Every Cleanup gets its DELETE, although it may have returned before (CleanupSeesDelete)
\* or given up, unless the writer stops first (store.go:306-314, 377-388).
CleanupDeletes ==
  \A c \in Callers : c \in owedDelete ~> c \notin owedDelete \/ wpc = "exited"

\* Close ends the writer and lets every Sync and Cleanup return, whatever
\* cycle they were waiting for.
CloseReleases ==
  closing = "stopping" ~> /\ wpc = "exited"
                          /\ \A c \in Callers : caller[c] \in {"idle", "returned"}
-------------------------------------------------------------------------------
(* What the comments say and the code does not do; see PROJECT.json, findings *)

\* "Sync flushes every queued event, including in-flight ones": when Sync
\* returns, no event in flight at the call is still waiting for its first try.
SyncWritesInFlight ==
  \A c \in Waiting \cap settled : op[c] = "sync" => owedOpen[c] \cap Unplaced = {}

\* "... and waits for the batch to commit": when a barrier returns in an open store, every
\* outcome that was queued at the call has been committed, or given up and counted.
SyncCommits ==
  \A c \in Waiting \cap settled : \A e \in owed[c] :
    row[e] = "final" \/ age[e] = "expired" \/ failed[e] > 0 \/ Closed

\* "... so a Cleanup caller waiting on the barrier sees its DELETE already done": when
\* Cleanup returns in an open store, a DELETE has at least begun since it was called.
CleanupSeesDelete == Waiting \cap settled \cap owedDelete # {} => Closed

\* "Anything past the retry budget is abandoned and counted": an event counted
\* as failed is no longer queued for writing.
AbandonedIsGone ==
  \A e \in Events : failed[e] > 0 => e \notin pending /\ ready[e] + finals[e] = 0
===============================================================================
