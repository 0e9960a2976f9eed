# A verification project for agent-compose-ui

agent-compose-ui is the web console of the agent-compose daemon: a Go server
(`internal/`, `cmd/`) that signs users in, forwards their requests to the daemon,
records what they did and deploys project changes, and a Svelte application
(`src/`) that shows runs, logs, sandboxes, projects and automations. This
directory holds TLA+ models of the parts whose correctness depends on the order
of events, TLC configurations that check them on small instances, and proofs
that TLAPS checks for every instance. Paths below are relative to the
repository.

## 1. The system

| component | state it keeps | operations | interacts with |
|---|---|---|---|
| audit trail, `internal/audit` | queues of pending and finished events, barrier counters, the SQLite table `audit_event` | Start, Finish, Record, Sync, Cleanup, Query, Close, the writer goroutine | every handler through the middleware; the server's shutdown |
| project deployment, `internal/projectdeploy` | preview records with a TTL, a mutex per project | preview, apply, listings, YAML view | the daemon's ProjectService; the project pages |
| API tokens, `internal/apitoken` | table `api_token` | create, list, revoke, authenticate | token proxy, audit |
| token proxy, `internal/tokenproxy` | none | role policy, forwarding | API tokens, audit, the daemon |
| session authentication, `internal/auth` | signed cookies only | login, OAuth login, logout, status | audit (Record) |
| migrations, `internal/dbmigrate` | table `ui_schema_migrations` | Apply | opening of both stores |
| backend proxy, `internal/proxy` | none | forward, rewrite event responses | the daemon |
| tasks, `internal/tasks` | list cache, cache of agents without tasks, event cache | list, lookup | the daemon |
| terminal bridge, `internal/terminal` | one WebSocket and one HTTP/2 stream per session | attach, copy both ways, close | workbench, daemon, audit |
| agent records, `internal/agentrecords` | none | read session files | - |
| server, `internal/app`, `internal/config` | listeners, stores | start, drain, close | all of the above |
| run stream, `src/lib/run-stream.svelte.ts` | one stream per started run, indexes by operation, run and sandbox | start, its events, flush, cancel, dismiss, cleanup | run pages, workbench |
| run log, `src/lib/run-log-feed.svelte.ts`, `src/model/log-buffer.ts` | a bounded buffer of lines | follow, trim, load earlier, stop | log viewer |
| run pages, `src/routes/Runs.svelte`, `RunDetail.svelte` | list, selection, inspector; the run, its poll and its stream | load, refresh, load more, select, poll, send, finalize | client API, run stream |
| project page, `src/routes/Projects.svelte` | summaries and details, two editors, a preview | load, open an editor, preview, deploy | project deployment |
| sandboxes page, `src/routes/Sandboxes.svelte` | a page of sandboxes, what ran in them | load, refresh, page, ask for activity | client API |
| other pages, `src/routes` | lists and forms | load, save | client API |
| workbench, `src/lib/components/sandbox-workbench.svelte`, `src/api/exec.ts` | a terminal session, retries; turns and runs of the sandbox | connect, retry, watch, discover | terminal bridge, run stream, conversation cache |
| conversation cache, `src/api/sessions.ts` | promises shared by callers | list, refresh, clear | workbench, run page |
| widgets, `src/lib` | presentation state | - | pages |
| client API and router, `src/api`, `src/router` | address, guard | calls, navigation | all pages |
| view models, `src/model` | none | grouping, folding, tracing | pages |

`PROJECT.json` lists each with its files and says what is modelled.

What is hard in it, and what makes it correct:

* **Audit trail.** Handlers, callers of Sync and Cleanup, a writer with
  transactions that fail, a clock and Close all interleave. An accepted outcome
  must be written, still queued or counted as failed; a placeholder must never
  replace an outcome; retries must end and the backlog stay bounded; a barrier
  must not return before the writer has tried the caller's work, a Cleanup not
  before its DELETE; Close must release everybody.
* **Project deployment.** A change is previewed in one request and applied in
  another, each of several daemon calls, while other clients edit the same
  project and timed out requests stay with the daemon. What the user reviewed
  must take effect at most once and only on the configuration it was reviewed
  against; an edit must never undo something its editor did not show; nothing
  but the named agent, scheduler or variables may change, except for the spelling
  of values, which is upgraded on the way.
* **Tokens, sessions, migrations.** Revocation and expiry against requests under
  way; two openers of one database; a migration edited after it was applied.
* **Pages.** A handler runs alone up to an `await` and finds another page state
  after it. An answer must not be shown for another selection than it was asked
  for, what says that it is loading or saving must have a request that ends it,
  one run must have one chain of polls, and an editor must send the hash of the
  configuration it shows.
* **Streams and logs.** Output that was received must be shown however the stream
  ends, a running stream must be found by its run and its sandbox, and no line of a
  log may be doubled when the buffer is trimmed while an earlier part is read.
* **Terminal.** Two copying directions, either of which may end first; a retry of
  the browser must not leave a shell behind that nobody sees.
* **Shutdown.** Requests are drained for a limited time, and the stores are closed
  afterwards in the order of the defers.

The hazards, each at its line, are in `PROJECT.json`.

## 2. Modules

| module | models |
|---|---|
| `AuditTrail` | abstract: the life of one row of `audit_event` |
| `AuditStore` | `internal/audit/store.go` and the calls of `middleware.go` |
| `MCAuditStore` | instances of it and of `Migrations` for TLC |
| `AuditStoreProofs` | theorems about it |
| `ReviewedDeploys` | abstract: what a reviewed change may do to the daemon's projects |
| `ProjectDeploy` | preview and apply of `internal/projectdeploy/handler.go` |
| `MCProjectDeploy` | instances of it for TLC |
| `ProjectDeployProofs` | theorems about it |
| `RunStream` | `run-stream.svelte.ts`; its `CoordinatorSpec` is what a view may do with it |
| `RunDetailPage` | `RunDetail.svelte` over `RunStream`; implements `CoordinatorSpec` |
| `RunsPage` | `Runs.svelte` |
| `MCRunViews` | instances of the three for TLC |
| `RunsPageProofs`, `RunViewsProofs` | theorems about the list; about the other two and the three together |
| `SandboxTerminal` | the terminal of `sandbox-workbench.svelte` and the sessions of `exec.ts` |
| `HistoryCache` | the promise maps of `sessions.ts` |
| `LogFeed` | `run-log-feed.svelte.ts` and `log-buffer.ts` |
| `SandboxesPage` | `Sandboxes.svelte` |
| `ProjectEditor` | the lists, editors and deployments of `Projects.svelte` |
| `MCPages` | instances of these five for TLC |
| `WorkbenchProofs`, `ProjectEditorProofs`, `PagesProofs` | theorems about the terminal and the conversation; the editors; the log, the sandboxes and the five together |
| `ServerShutdown` | `servePair`, `shutdownAll` and the deferred calls of `internal/app/server.go` |
| `TerminalSession` | one session of `internal/terminal/bridge.go` |
| `Migrations` | `internal/dbmigrate/migrate.go` |
| `MCServices` | instances for TLC of what must end: `AuditStore`, `ServerShutdown`, `TerminalSession` |
| `ServicesProofs` | theorems about the server, the session and the migrations |
| `Absent` | the value `None` that the modules of `MCPages` share |

### AuditStore

Every action is one critical section of `Store.mu`, or one database call made
outside it.

| code | action |
|---|---|
| Start, Finish, Record | `Start(e)`, `Finish(e)`, `Record(e)` |
| barrier: ask for a cycle; woken; context done | `Sync(c)`/`Cleanup(c)` (both `Barrier`), `Recheck(c)`, `GiveUp(c)` |
| run: ticker or signal, stopCh, drain loop, budget, return | `Tick`, `TakeStop`, `DrainPass`, `SpendBudget`, `Exit` |
| pass and the daily ticker: cleanupNow | `CleanupNow`, `RetentionTick` |
| flush: consumeForce, takeBatch, end of a turn, advanceBarrier | `ConsumeForce`, `TakeBatch`, `EndBatch` (within the next two), `Advance` |
| writeBatch and markWritten, or failBatch | `Commit` then `MarkWritten`, or `FailBatch` |
| closeInternal: closed; stopCh; handles | `MarkClosed`, `StopWriter`, `CloseHandles` |
| time passing startFallback and the retention window | `Elapse(e)` |

Between `Commit` and `MarkWritten` the row is in the table and the store does not
know it yet; `Finish` can run there, and while a batch is being written at all.

Data that is abstracted: an event is an element of `Events`; `ready` is a bag, so
a full batch takes *any* outcomes where the code takes the oldest (more behaviours,
never fewer); `flushReq`, `flushedSeq` and the watermarks, which are only compared,
became three sets of callers (not captured, `covered` by the batch in hand,
`settled`). `attempts` counts up to the budget and one by theorem
`RetriesBounded`, so no bound is imposed.

History variables, which no guard of the code's actions reads: what a call of Sync or
Cleanup was promised is fixed when it is made, `owed` (outcomes queued or in a batch),
`owedOpen` (events in flight) and `owedDelete` (a DELETE). `missed` are those of `owed`
that were in a batch that failed since, and `late` the calls of Cleanup that came when
the pass under way had looked at `cleanupReq`. `owedDelete` outlives the call: it says
whether the DELETE came at all.

A commit whose error is reported although it took effect is not modelled: SQLite
reports what it did. A crash is the end of the behaviour: the queues are in memory
only and the code keeps nothing to recover from.

### ProjectDeploy

Every action is what one request does between two daemon calls, or one daemon call.

| code | action |
|---|---|
| Projects.svelte loads a project into an editor | `OpenEditor(i, p)` |
| preview: lock, load or name check, the checks of the mutation, the candidate | `Load(i, p, m, actor)` |
| preview: dry run, record, answer, unlock | `DryRun(i)` |
| the record's ExpiresAt | `Expire(i)` |
| apply: takePreview | `Take(a, i, actor)` |
| apply: lock, load or name check, compare the base, send | `Check(a)` |
| the daemon's PatchProject or ApplyProject | `DaemonDeploy(a)` |
| apply: the answer, or the client's timeout; unlock | `Answer(a)` |
| any other client of the daemon | `Edit(p)`, `EditTo(p, s)` |

`Answer` may come before `DaemonDeploy`: the handler stops waiting after its timeout
or when the browser is gone, and the request stays with the daemon. Errors of the
daemon are possible at each call, which is why the refusing alternative of an
action has no guard.

Before the candidate is hashed and sent, `normalizeDaemonProjectSpec` (line 568 and
698-763) rewrites the names of drivers, policies and triggers of *every* agent to what
the daemon calls them today. `Normal` says what becomes of a value, for any such
function; `NormalSpec` applies it to the configuration and the scheduler of each agent.
So an agent that the mutation does not name may be committed with other names than it
had, the list of changes that the user reviews (`mutationChanges`) names only the agent
of the mutation, and a mutation that alters nothing of a project with old names can be
deployed. The property about siblings, `SiblingsKept`, is up to this and nothing else.

Assumed of what is outside the repository: the daemon carries out a request in
one step; PatchProject compares the current hash with `expectedCurrentSpecHash`,
for dry runs too, and ApplyProject compares nothing
(`src/gen/agentcompose/v2/agentcompose_pb.ts:1335` and `:1462`); the specification
hash is injective, so it stands for the configuration; the id that a dry run
reports for a project to be created depends on its name only.

### The pages

JavaScript runs a handler alone up to an `await`, so an action is what a handler does
between two of them, effects and callbacks that the change sets off included. What a
handler keeps over its `await` is a record in `asked` (or `lists`, `histories`,
`earlier`); the daemon answers it in an action of its own (`Serve`, where the moment
of the answer matters), and the rest of the handler is an action `...Answer` or
`...Fails`. Requests are answered in any order, and only the bound on how many are
under way is imposed. A version counter that is only ever compared with its value at
the request became a flag of the request, `current`.

| code | action |
|---|---|
| **RunStream**: start; the events of the stream; its end, break or abort | `StartStream(o, s)`; `Started`, `Output`, `Transcript`, `Completed`; `Ended`, `Broken` |
| the flush timer, cancel, dismiss, scheduleCleanup | `FlushTimer`, `Cancel`, `Dismiss`, `Cleanup` |
| **RunDetailPage**: load, the sandbox it asks for | `LoadEffect`, `Stopped`, `LoadAnswer`, `LoadFails`, `SandboxAnswer` |
| scheduleStatusPoll, pollRunStatus and its catch | `PollTimer`, `PollAnswer`, `PollFails`, `TurnsAnswer` |
| sendMessage, the stream's effect and finalizeStream | `SendMessage`, `SendEnds`, `Finalize`, `FinalizeAnswer`, `FinalizeFails` |
| the address, an agent started elsewhere | `Navigate`, `StartElsewhere` |
| **RunsPage**: load, refresh, loadMore | `ChangeQuery`, `ShowNewer`, `Refresh`, `LoadMore`, each with answers and failures |
| select, loadInspector, refreshLiveInspector, syncWide | `Choose`, `LoadInspector`, `LoadInspectorAnswer`, `LiveAnswer`, `SyncWide` |
| **SandboxTerminal**: the effect, connectTerminal, the retry timer | within `ShowTab`, `StatusArrives`, `OtherSandbox`; `ConnectButton`, `Retry` |
| the socket's callbacks and the connect timer | `Opened`, `Started`, `Result`, `ErrorFrame`, `SocketError`, `SocketClosed`, `ConnectTimeout` |
| **HistoryCache**: the readers, refreshWorkSessionCells | `List`, `RunTarget` (both by `AskRuns`), `Refresh` |
| the daemon evaluates a request, whose answer is then on its way | `ReadRuns`, `ReadEvents` |
| the promises settle, the timers of clear | `RunsSettle`, `GotRuns`, `HistorySettles`, `ClearHistory`, `ClearRuns` |
| **LogFeed**: start, a chunk, the timer, the end | `Start`, `Chunk`, `Fire`, `End` |
| loadEarlier, stop | `AskEarlier`, `GotEarlier`, `LoseEarlier`, `Stop` |
| **SandboxesPage**: load, refresh, paging | `ChangeQuery`, `RefreshButton`, `LoadAnswer`, `LoadFails` |
| loadActivity, loadRunStats | `ActivityAnswer`, `StatsAnswer` |
| **ProjectEditor**: load, loadProjectDetail with its effect | `ListAnswer`, `ListFails`, `DetailAnswer`, `DetailFails`, each with `DetailEffect` and `RestoreEditorDraft` |
| the address, the buttons that open an editor | `Visit`, `BeginProjectVariableEdit`, `BeginAgentEdit`, `BeginAgentCreate` |
| requestPreview, the dialog, deployPreview | `RequestPreview`, `PreviewAnswer`, `Dismiss`, `DeployPreview`, `DeployAnswer` |

Data that is abstracted. Output of a stream is counted, not named. A piece of a log is
the interval of bytes it was cut from, so that a doubled or misplaced line can be told;
a text is an interval too, and readRunLogRange's ends where the log does (`Read`). Runs
are numbered in the order they start. A promise is its number, what it has read the
number of changes made before the daemon evaluated the request; the answer arrives any
time later, so that data which is old by then is delivered. A configuration is its
number per project, and the content of an editor the pair of project and configuration
it was filled from. `failed` and `filled` of `ProjectEditor`, `refreshes` of
`HistoryCache` and `torn` of `LogFeed` (a part was put in front of lines it does not
lead up to, or begins inside of a line) are history variables; no guard of the code's
actions reads them. In `HistoryCache`, a set of refreshes, and in `ProjectEditor`, a set
of requests, holds equal ones once: two equal requests without an answer count as one.

`ProjectDeploy` assumes with `OpenEditor` that an editor shows a whole configuration
and sends the hash of it. `ProjectEditor` shows when that is so (`FilledFromBase`) and
when it is not (`EditedOnBase`, below).

### The services

| code | action |
|---|---|
| **ServerShutdown**: the goroutines of servePair, its select, its loop | `Result(s)`; `StopServing`; `TakeResult`, `ServePairReturns` |
| shutdownAll: its goroutines, the timeout, wg.Wait | `Shutdown(s)` and `Drained(s)`; `Deadline`; `ShutdownAll` |
| the deferred calls of Run, the last first | `CloseAudits`, `CloseTokens` |
| a signal; a listener's error; requests | `Signal`; `ListenerFails(s)`; `RequestArrives(r)`, `RequestEnds(r)` |
| **TerminalSession**: ServeHTTP and serve up to client.Do, its return | `Attach`, `DoReturns` |
| copyWebSocketRequests and its goroutine | `Receive`, `WriteFails`, `PumpReturns` |
| copyConnectResponses, the end of serve, of ServeHTTP | `Copy`, `CopyReturns`, `HandlerReturns` |
| the browser; the transport and the daemon | `Type`, `Leave`; `Upload`, `StopUpload`, `DaemonAnswers`, `DaemonPrints`, `DaemonEnds` |
| **Migrations**: the pragmas; the loop and the row of a migration | `Prepare(o)`; `Check(o)` |
| schemaAlreadyApplied and the registration | `Inspect(o)`, `Register(o)` |
| the transaction: the file, the row, the commit | `Execute(o)`, `Insert(o)`, `CommitMigration(o)` |
| a process starts, is killed; its stores at work | `Launch(o)`, `Crash(o)`; `Write(o)` |

A request of `ServerShutdown` is tracked or not. net/http's Shutdown waits for the
connections it serves itself; one that was hijacked it forgets, and those are the
terminal's WebSockets and every connection of cleartext HTTP/2 on the token server
(`h2c.NewHandler`, line 229, with an `http2.Server` that is not tied to the outer one).
`lost` and, in `Migrations`, `met` are history variables. In `Migrations` a failing
statement rolls its transaction back and releases the lock; SQLite's rules are assumed as
follows: one writer at a time, the others wait for `busy_timeout`; a transaction that has
read cannot write behind another's commit; `CREATE ... IF NOT EXISTS` of what exists
only reads. Terminal frames are counted, and after the context has ended no more of
them arrive; any frame may have flags that are not supported (bridge.go:182), and to
send one may fail for other reasons than that the browser has gone.

## 3. Runs

Deadlock is not checked (`CHECK_DEADLOCK FALSE`): the store really stops after
Close, a page waits for its user, and the requests of each instance are used up.

| run | instance | what it shows |
|---|---|---|
| `audit_store` | the queue: 3 events, limits of 1, 2 batches per pass, 2 attempts; the barriers: 1 caller, 2 events or 1 that grows old; the migrations: 2 processes, 2 checksums, 3 launches | types, `NothingLost`, `RetryBudget`, `QueueBound`, `BarrierCommits`, `CleanupBeforeRelease`; the rows evolve as `AuditTrail` allows; the database: `OpeningRight` |
| `audit_sync_claim` | 1 event, 1 caller | Sync's comment against the code: violated |
| `audit_retry_claim` | as before | failBatch's comment against the code: violated |
| `audit_commit_claim` | as before | the comments of Sync and barrier on the commit against the code: violated |
| `audit_cleanup_claim` | as before | the comments of Cleanup and pass on the DELETE against the code: violated |
| `deploy` | 1 preview and 1 apply beside others' edits; the same with 2 agents and nobody else; 2 previews and 2 applies | `TypeOK` with at most one deployment per preview, `NoLostUpdate`, `SiblingsKept`, and that the daemon sees what `ReviewedDeploys` allows |
| `deploy_create_claim` | 1 preview, 1 apply | the refusal to create over an existing project: violated |
| `run_views` | 3 runs, pages of 1, 2 filters; 2 runs and 1 stream; 2 streams of 2 items | the list: `ListedOnce`, `InspectorMatches`, `SpinnersEnd`; one run: `OnePollChain`, `RunFollowed`, `ShownRun`; the coordinator: `OutputComplete`, `IndexesAgree`, `RunningFound` |
| `pages` | 3 sessions on 2 sandboxes; 5 promises, 1 change; a log of 9 bytes in 6 lines; 2 rounds over 4 sandboxes; 2 projects | the terminal: `NoOrphanShell`, `RetryInSight`; the conversation: `RefreshIsFresh`, `SettledIsDropped`; the log: `WindowRight`, `PendingHasTimer`; the sandboxes: `RowsCovered`; the editors: `DetailsShown`, `FilledFromBase`, `SavingEnds` |
| `services` | 1 event, 1 caller; 2 servers, 2 requests; 2 frames each way; under fairness | the audit store: `DeliveredOrCounted`, `SlowRequestTraced`, `CleanupDeletes`, `CloseReleases`; the server: `StopsInOrder`; a terminal session: `SessionEnds` |
| `editor_claim` | 2 projects, 1 change | an edit is previewed only on the configuration it was made on: violated |
| `log_claim` | the log with limits of 1 line | the comment on the buffer's `start` against the code: violated |

Most runs check several modules or several kinds of behaviour. `AppShell.svelte` (lines 197-236)
mounts one page at a time, and these parts share no state beyond the coordinator that
`RunDetailPage` contains, so a behaviour is about one of them, named by `shown`, and the
number of states is the sum, not the product. Each of the two has about a million
states. The parts of `audit_store` and of `services` share no state in these models either.
Likewise `deploy` is about one of three kinds of behaviour, named by `mode`.

Bounds. Three events with a batch of one and a backlog limit of one fill both
limits at once, let a failed batch come back on top of a full queue, and leave an
event for a second batch and for a second pass; two attempts are the fewest with a
retry between the first and the last. One of them grows old, since what that means for one
does not depend on the others. One caller is enough for each barrier property, because
each speaks of one caller, with two events: one that was queued when it called and
one that keeps the writer busy. The theorems of section 4 extend the safety properties to
any number. The liveness of the store is checked with one event, which does not
grow old enough to be deleted there. Two previews and two applies give every pair of requests
that can meet on one project's lock and two applies of one preview, and `Edit` a third
party. Two values, one of which is the old name of the other, distinguish an old from a
new field and what is normalised from what is not; two agents are the fewest with a
sibling. The three kinds of `deploy` (`MCProjectDeploy`) give each question what it needs:
"edits" has one agent, with the old name in its configuration only, and every client;
"siblings" has two agents with either name anywhere, one preview, one apply, nobody else
and no expiry; "race" has one agent, one name, and two previews that do not come from an
editor and would change something. All kinds are cut down further by taking the
changes of one agent (`ChangesOf`), since no rule of the code relates the value of one
agent to that of another, and by one principal who previews and another who may apply.
Symmetry is used in runs of safety properties only.

For the pages: three runs with pages of one, the third of which may start at any time,
shift the second page under its request; two requests under way are the fewest that can
be answered in the wrong order; two loads (`MaxVersions`) make an older one stale.
`PageSize` stands for the code's 50, `MaxLines` and `TailLines` for its 5000 and 2000
lines, `EarlierBytes` for its 256 KiB and `Concurrency` for its 4; the lines of the log
have lengths of 0, 1 and 2 bytes, and an earlier part 2 bytes, so that trims, parts that
begin inside of a line, lines longer than a part and empty lines all happen. Three
connections are one more than the two automatic ones. Five promises are an old
history with its list of runs, a list that is asked for alone meanwhile, and the two of a
refresh; one change makes an answer old that is on its way. Four sandboxes in two overlapping pages
with one worker leave a queue behind every round. Two projects and one change make a
hash stale and leave details of another project under way. `MCRunViews` adds two bounds:
a third run starts only while the window has no room for the inspector, and the page of
one run sees one stream, without items (the coordinator alone has two of them, with
items).

For the services and the migrations: two servers are what the code has; one request on
each, or two on one, tracked or not, cover every order of one request and the drain. Two
frames keep one waiting behind another. Three launches are two processes at once and one
of them again, or one that is killed twice; the two checksums make builds of one and of
two migrations, of which either file may have been edited.

Fairness. `FairSpec` of `AuditStore`, which `MCSpec` of `MCServices` repeats for the
part that is shown: the writer is one goroutine with a ticker that always fires again,
so a step of it that stays possible is taken; each database call ends within its
timeout. Go's `select` chooses at random among ready cases, so `stopCh` is taken
eventually although ticks keep coming, which is strong fairness of `TakeStop`
(`AuditFairness`). A caller that was woken runs on, and Close, once begun, ends. Nothing
is assumed of the database succeeding, of requests ending, or of Close being called.
Nothing of `ProjectDeploy` needs fairness. The services: `ServerFairness` is that the
goroutines of the process run and `shutdownTimeout` passes; requests need never end, and
a listener need not fail. `SessionFairness` is that the two goroutines of a session and
the transport run, and that the daemon takes what was typed (`Upload`). The last is not
the code's to give: while the daemon takes no input, the pump waits in the pipe, not in
Receive, and does not see that the browser has left; such a session stays until the
daemon reads, prints or ends. The fairness of `HandlerStep` assumes as much of the
browser: writing to it has no deadline (bridge.go:174), so `Copy` is fair only as long
as a browser that is connected takes what is sent. The daemon need not answer, print or
end anything. The pages have safety properties only: that a spinner, a poll or a row
without statistics ends depends on the daemon answering, and nothing in the code bounds
that. What the code does control is stated instead: whatever waits has a timer or a
request that will end it (`SpinnersEnd`, `SavingEnds`, `RunFollowed`, `RowsCovered`,
`PendingHasTimer`).

### What the code does and its words do not say

1. *Sync* (`internal/audit/store.go:300`) is said to write every queued event,
   in-flight ones included. The force flag it raises is consumed by the next pass;
   when that pass was already under way with another target, or ends with a full
   batch, Sync returns and an event in flight at the call has been in no batch.
2. *Sync* and *Cleanup* are said to wait "for the batch to commit"
   (`internal/audit/store.go:300` and `:316`), and a test takes them at their word
   (`internal/app/server_test.go:95`). `flush` publishes the watermark behind a batch
   whether it was committed or not, so that both return nil when the transaction
   has failed and its outcomes are queued again. `BarrierCommits` says what is left of it:
   a barrier is released behind the commit of everything no failed batch has held.
3. *Cleanup* is said to return behind its DELETE (`internal/audit/store.go:306` and `:377`).
   Called when the pass under way has looked at `cleanupReq`, before that pass captures
   its watermark, it is released by this pass, and the DELETE runs in the next one.
   `CleanupBeforeRelease` says that this is the only way, `CleanupDeletes` that the DELETE
   comes.
4. *failBatch* (`internal/audit/store.go:541`) is said to abandon what is past the
   retry budget. If `Finish` ran while the event's last placeholder was in a failing
   batch, the event is in `ready` again: it is counted as abandoned and tried, and
   possibly counted, once more.
5. *apply* refuses to create a project whose name exists
   (`internal/projectdeploy/handler.go:402`), but the check and the creation are two
   calls and the second has no precondition; a project that appears between them is
   replaced. For existing projects PatchProject's precondition closes the same gap.
6. A preview with a stale base is refused with "the configuration has changed, reload
   it before you edit" (`internal/projectdeploy/handler.go:495`). The page sends the hash
   that is listed now (`src/routes/Projects.svelte:318`), not the one its editor was
   filled with. When the browser's history leads back to an editor, it shows the last
   draft, or, filled from a summary (line 287), no variables at all, and either is
   previewed with the current hash, which the base check accepts. Where
   the user comes by the page's own buttons, `FilledFromBase` holds.
7. *start* of the log's buffer (`src/model/log-buffer.ts:36`) is said to be the offset of
   `lines[0]` in the whole log. loadEarlier fixes its range before its `await`; when a
   trim has dropped lines meanwhile, the part is put in front of a hole, and trims that
   drop the part then leave `start` before the hole and `lines[0]` behind it, so that the
   next earlier part does not join on. `WindowRight` says what holds without a late part,
   and that the newest lines are complete whatever happens.

Seen while modelling, and within the models unless said. But for the first, no sentence of
the repository says otherwise; none has a run of its own:

* `Runs.svelte`: a refresh that overlaps with loadMore shortens the list again. The comment
  on refresh (lines 143-145) says that a list to which the user has added pages is
  not replaced, so that nothing loaded is lost; the code looks at the length before its
  `await`, and a page that arrives during it is dropped.
* `Runs.svelte`: loadMore does not look at the version, so that pages of two filters can
  meet in one list (`ListedOnce` holds nevertheless).
* `RunDetail.svelte`: finalizeStream does not look at the address after its `await`, so
  that the run of the last address may be shown (the exception in `ShownRun`); when
  a stream broke off, its last look at the run can come after the last poll's (the
  exception in `RunFollowed`). Not modelled: the sandbox is assigned before the version is
  compared (line 149).
* `run-stream.svelte.ts`: a break or an abort after COMPLETED replaces the phase. Outside
  the model, which assumes that the daemon keeps the sandbox of a run: were another
  reported (lines 141-144), the entry under the first would stay.
* `run-log-feed.svelte.ts`: a trim while an earlier part is read leaves a hole
  (`NewestKept` says where none can be); a line longer than one earlier part comes back as
  two rows, or its beginning is lost (the exception `torn` in `WindowRight`). Not modelled:
  a part that begins inside of a character.
* `sessions.ts`: the timer of an older promise clears a newer one, which costs a
  request and, as `RefreshIsFresh` says, never the freshness.
* `Sandboxes.svelte`: load has no version, so that the page of an older filter can be shown;
  every round has its own workers.
* `server.go`: Shutdown does not wait for hijacked connections, so that an attach or a call
  through the token server over HTTP/2 that is under way when the process stops is not
  drained, and its outcome comes after `audits.Close` and is dropped (the first exception
  in `StopsInOrder`).
* `bridge.go`: a browser that closes its terminal cancels the context, and the session is
  recorded as a failure with status 502, although nothing went wrong; a stream of the
  daemon that ends without its last frame is recorded as a success.
* `migrate.go`: of two processes that open a new database at once one can fail, with a
  second row of one version or a column that exists; a restart succeeds
  (the exception in `OpeningRight`).
* `Projects.svelte`: details that arrive late fill the editor that is shown again
  and wipe what was typed; a failed detail is asked for again only by another visit.

## 4. Proofs

`AuditStoreProofs` (any finite set of events, any set of callers, any limits
greater than 0; `AuditStoreAssumption`):

* `TypeCorrect`: `TypeOK`, which includes that a pass has at most
  `MaxBatchesPerPass` batches.
* `RetriesBounded`, `QueuedTwice`, `NothingIsLost`, `StoreImplementsTrail` rest on
  `QueueInv`. By themselves these properties are not inductive: whether a failing
  batch may requeue an event depends on where else the event is. `QueueInv` says,
  per event, where it is (`WhereItIs`: nowhere before Start, without an outcome
  anywhere while it is pending, finished wherever an outcome of it is), what a batch
  may hold (`InTheBatch`: a placeholder or outcomes of an event, not both, and beside
  a placeholder at most one outcome queued since) and how many copies and attempts
  it can have (`Budget`: two copies at most, and no more of them queued than
  attempts are left). `NothingLost` is then preserved step by
  step, and a `Commit` is seen to be `AuditTrail`'s `Persist`.
* `BarrierIsSound` (`BarrierCommits`), from `PromiseInv`: an outcome promised to a waiting
  caller is committed, has been in a batch that failed, or is queued or in the batch
  (`Done`, `Promise`); once the batch that drained the queue has captured the caller's
  target it is no longer queued; when the target is published it is not in a batch
  either, unless the drain budget expired.
* `CleanupIsKept` (`CleanupBeforeRelease`), from `CleanupInv`: a waiting Cleanup without its
  DELETE is on the writer's list, or in the hands of a pass that is about to delete, and
  only one that is `late` can be captured before that.
* `QueueIsBounded`, from `BacklogInv`: the queues and the batch in hand together are never
  more than `MaxPending` and one batch. A failed batch comes on top of what was accepted
  while it was written, but one with placeholders had emptied `ready` first, and one
  without only puts back what it took. The length of a bag is the cardinality of the
  set of its copies (`Entries`), so that its lemmas (`LengthMonotone`, `LengthAdds`,
  `LengthOnce`) need no induction over a fold.

`ProjectDeployProofs` (any sets of projects, agents, values, actors and requests;
`ProjectDeployAssumption`: `None` is no request, agent or review, and `Normal` maps values to
values):

* `DeployTypeCorrect`, `NothingOverwritten`, `OnlyWhatIsNamed` and
  `DeployImplementsContract` rest on `DeployInv`, which adds two facts to the types.
  `PlanInv`: a record's candidate is its mutation applied to its base, and the
  editor's base, if sent, is the record's. `TakeInv`: an apply has a record no other
  apply has, a record once taken is never available again although the sweep of
  `storePreview` forgets that it was used, and nothing is deployed while its apply
  is undecided. The daemon's precondition, `Accepts`, does the rest: the base is what
  the daemon holds at the commit.
* `LocksAreRight` rests on `LockInv`, `LocksMatch` taken apart by request. No run checks it.
* `MutatedKeeps`, `NormalKeeps` and `CandidateTyped` are lemmas about the algorithm: a mutation
  keeps what it does not name, and so do the normal forms of what it starts from and what
  it makes. `OnlyWhatIsNamed` is the two put together: a deployment commits, of what its
  mutation does not name, the normal form of what the daemon held.

The pages, each for any values of its constants:

* `RunViewsProofs` (`RunStreamAssumption`): `OutputShown`, `IndexesRight` and
  `RunningStreamsFound` for every use of the coordinator, from `CInv`, the three
  with the types: the indexes agree with the streams only because a new run or sandbox is
  not yet another stream's, and a running stream is found only because the indexes
  agree, so that neither is inductive alone.
* `RunViewsProofs` (`RunDetailAssumption`): `PageUsesCoordinator`, the page implements
  `CoordinatorSpec`, so that `CInv` holds under it; `OneChain` and `ShownRunRight` from
  `IInv`, which adds `PageInv`: at most one request whose answer the page still
  looks at, the conversation's included, and no timer beside it (`OneLate`), all of it
  about the run of the address (`LateIsShown`), and streams finalized only when over
  (`FinalizedIsOver`). `ActiveRunFollowed` from `FollowInv` on top of it: a stream
  completes only after its run has ended (`CompletedIsOver`), so that finalizeStream finds a
  run active only where its stream broke off (`LateIsBroken`), and a run that is shown is
  watched without counting on a load (`Watched`).
* `RunsPageProofs` (`RunsPageAssumption`): `InspectorRight` and `SpinnersStop` from `RInv`: the
  inspector's timer and its current requests are about the selected run
  (`AsksSelected`); that a request has the fields of its kind replaces the types. `RunsTyped` and
  `RunsListedOnce` from `LInv`: each page that is on its way holds a run once, since it is a
  part of the daemon's order, and what loadMore appends holds none that is listed.
* `ViewsTyped`: in `MCRunViews` each view keeps its types while it is the one shown.
* `WorkbenchProofs` (`HistoryCacheAssumption`): `RefreshFresh` and `SettledDropped` from
  `HInv`: neither the history that a refresh returns nor the list of runs that it waits
  for was made before the refresh, so that the daemon has read both after it, whatever
  older answers are still on their way (`Fresh`).
* `WorkbenchProofs` (`SandboxTerminalAssumption`): `NoShellLeft`, `RetriesInSight` and
  `EveryConnectionDecided` (a session that waits has its connect timer; no run checks
  it) from `TInv`: per session, it is the one the page holds or can run no
  shell, and it is current only while the page holds it or none (`Shells`); a retry
  is waiting only while an attempt is left.
* `ProjectEditorProofs` (`ProjectEditorAssumption`): `DetailsCovered`, `EditorOnBase` and
  `SavingIsEnded`; together with the types they are inductive.
* `PagesProofs` (`SandboxesPageAssumption`): `SandboxesAreTyped` and `EveryRowCovered` from
  `CoverInv`: a row of which nothing is known is among those that a round asks the activity
  for (`UnaskedCovered`), one whose runs were not counted is in a round that will count them
  (`UncountedCovered`), and a round never has a queue beside an idle worker (`RoundsRight`).
* `PagesProofs` (`LogFeedAssumption`, `LogRangeAssumption`): `LogTyped`, `WindowIsRight` and
  `PendingIsTimed` from `LogInv`. It says of the buffer that its pieces lie in what
  is written of the log and the incomplete one begins a line (`Sound`), that the newest
  `MaxLines` lines follow each other up to it (`Newest`), that `start` is where the first
  line begins as long as none can have been trimmed (`Untrimmed`), and, unless something is
  torn, that all lines are whole, in a chain without a gap from `start` on (`Neat`); and of
  the request of loadEarlier that its range ends at `start` as long as none can have been
  trimmed (`EarlierRight`). The proof rests on lemmas about the text functions
  for any log: what `split` returns (`SplitFacts`), that the bytes of a chain of lines that
  is dropped lead to the line after it (`BytesOfChain`), what `earlierLines` keeps
  (`EarlierFacts`), and what trim, flush, push and prepend preserve (`TrimKeeps`,
  `FlushKeeps`, `PushKeeps`, `PrependKeeps`). `split` chooses its cuts by counting the
  newlines before them, not by recursion, so that no induction is needed.
* `PagesTyped`: in `MCPages` each page keeps its types while it is the one shown.

The services (`ServicesProofs`), each for any values of its constants:

* `MigrationsTyped` and `OpeningIsRight` (`MigrationsAssumption`) from `MigrationsInv`: what is
  registered was applied, an opener has the migrations before the one that it is at
  (`VersionInv`), what it has read is still so if it has met nobody (`AloneInv`), and what
  it is about to write does not depend on anybody (`WriteInv`).
* `ServerTyped` and `OnlyUntrackedAreLost` (`ServersAssumption`) from `ServerInv` and
  `DrainInv`: a server that was drained has no request left that it tracks, and the
  audit store is closed only behind a drain that has ended for every server.
* `SessionTyped` and `SuccessMeansEnd` (`MaxFramesAssumption`) from `SessionInv`: the
  outcome is decided with the last thing that the handler does.
* `ServicesTyped`: in `MCServices` the server and the session keep their types while they are
  the part at work, and are left alone by the others.

Every safety invariant and action property that a passing run checks is stated by a
theorem. Left to TLC is what needs fairness, which is outside the prover:
`DeliveredOrCounted`, `SlowRequestTraced`, `CleanupDeletes`, `CloseReleases`,
`SessionEnds` and the first half of `StopsInOrder` (its second half is
`OnlyUntrackedAreLost`; the safety half of what `SessionEnds` says is
`SuccessMeansEnd`). The recorded counterexamples are TLC's too: `SyncWritesInFlight`,
`AbandonedIsGone`, `SyncCommits`, `CleanupSeesDelete`, `CreateReplacesNothing`,
`EditedOnBase` and `StartIsOffset` are false, as the runs show; `CreateReplacesNothing`
is the one promise `ReviewedDeploys` leaves out.

## 5. Not modelled, and the plan

Done in this order, the most important behaviour first: the audit store, the
deployment of projects, the run stream and the page of one run, the list of runs,
the log, the terminal's browser side, the conversation, the sandboxes, the editors of
projects, the end of the server, the terminal's bridge, the migrations. Next:

1. `AutomationEditor`: `Automations.svelte` has the hazards of `Projects.svelte`, and its
   load and loadDraft have no version.
2. `WorkbenchData`: the watch on a sandbox, the discovery of runs (which drops events
   while one is under way), stop and resume that assign after their `await`.
3. Compositions: `TerminalSession` with `SandboxTerminal` (a retry while the old session
   ends), `ServerShutdown` with `AuditStore` (what is finished before Close is written).
4. `TaskList`: its caches against changing runs. `TokenLifecycle`: create with
   collisions, revoke, expire, authenticate. `LoadPool`: first error and cancellation.
5. Pure functions (`run-list`, `event-groups`, `text-fold`, `event_response`) as
   operators checked against reference definitions over bounded inputs.
6. Proofs of what remains true where a sentence of the code is not: which in-flight events
   a Sync does write, and by how much `Stats.Failed` can exceed the events that are gone.

Left out of modelled components: the queries of the audit trail; the listings, YAML
and redaction of the project handler; of `RunDetail.svelte` the conversation's content,
its terminal and the activity tab; of `Runs.svelte` the counts of the filter bar; of
`Projects.svelte` creation, deletion of an agent, the YAML view, run and the redirect
of old addresses; of the router the guard that asks before a draft is left, which the
browser's history passes (`Visit` therefore has no guard); of the server the wiring and
the configuration; of the terminal a `result`
before `started`, which the bridge does not send.

Not planned: presentation and wording (`src/lib/i18n.svelte.ts` and the widgets, some
thousands of lines), the generated contract (`src/gen`, the largest part of the
repository), the client API's thin calls, deployment files, the daemon itself. None
of them has a state whose order of changes could be wrong; this is most of the code by
lines, and the models cover a small share of it by intention.
