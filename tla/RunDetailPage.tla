---------------------------- MODULE RunDetailPage ----------------------------
(***************************************************************************)
(* The page of one run, src/src/routes/RunDetail.svelte, over the streams  *)
(* of RunStream.  The page is not mounted anew when the address changes    *)
(* from one run to another: an effect loads the new run while requests for *)
(* the old one are still under way.  loadVersion only matters by whether   *)
(* it has moved since a request was made: the request is then not current. *)
(***************************************************************************)
EXTENDS RunStream

CONSTANTS Home,     \* Home[r]: the sandbox of a run
          MaxAsked  \* bound: requests under way when another is made

ASSUME RunDetailAssumption == Home \in [Runs -> Sandboxes] /\ MaxAsked \in Nat

VARIABLES runId,          \* of the address
          loadedRunId, loading, error,
          detail,         \* the run shown and whether its status is an active one
          statusPollTimer, finalized, sending,
          asked,          \* requests under way
          activeRuns      \* the daemon: runs pending or running

page == <<runId, loadedRunId, loading, error, detail, statusPollTimer,
          finalized, sending>>
vars == <<coordinator, page, asked, activeRuns>>

Detail == [run : Runs, active : BOOLEAN]

\* active is None until the daemon has answered; op is the stream that is finalized.
Request == [kind : {"load", "sandbox", "poll", "turns", "finalize"}, run : Runs,
            current : BOOLEAN, active : BOOLEAN \cup {None}, op : Ops \cup {None}]

Ask(kind, run, op) ==
  [kind |-> kind, run |-> run, current |-> TRUE, active |-> None, op |-> op]

TypeOK ==
  /\ CoordinatorTypeOK
  /\ runId \in Runs /\ loadedRunId \in Runs \cup {None}
  /\ loading \in BOOLEAN /\ error \in BOOLEAN
  /\ detail \in Detail \cup {None}
  /\ statusPollTimer \in Runs \cup {None}
  /\ finalized \in Ops \cup {None} /\ sending \in Ops \cup {None}
  /\ asked \subseteq Request
  /\ activeRuns \subseteq Runs

Init ==
  /\ CoordinatorInit
  /\ runId \in Runs /\ loadedRunId = None
  /\ loading = TRUE /\ error = FALSE /\ detail = None
  /\ statusPollTimer = None /\ finalized = None /\ sending = None
  /\ asked = {}
  /\ activeRuns \in SUBSET Runs

-----------------------------------------------------------------------------
(* The daemon *)

Serve(r) ==
  /\ r.active = None /\ r.kind \in {"load", "poll", "finalize"}
  /\ asked' = (asked \ {r}) \cup {[r EXCEPT !.active = r.run \in activeRuns]}
  /\ UNCHANGED <<coordinator, page, activeRuns>>

\* A run that was pending or running ends.
RunEnds ==
  /\ \E run \in activeRuns : activeRuns' = activeRuns \ {run}
  /\ UNCHANGED <<coordinator, page, asked>>

\* The events of a stream: its run is one that is in the stream's sandbox, runs when
\* STARTED is sent, and has ended when COMPLETED is.
StreamEvent(o) ==
  /\ StreamStep(o)
  /\ LET before == streams[o]
         after  == streams'[o]
     IN  /\ after.run # None /\ after.sandbox # None => Home[after.run] = after.sandbox
         /\ before.open /\ after.open /\ after.phase \in Final /\ before.phase \notin Final
              => after.run \notin activeRuns
         /\ activeRuns' = IF before.run = None /\ after.run # None
                          THEN activeRuns \cup {after.run} ELSE activeRuns
  /\ UNCHANGED <<page, asked>>

-----------------------------------------------------------------------------
(* Loading and polling *)

\* External to the page: a link or the history of the browser, once the effect of the last
\* change has run.
Navigate ==
  /\ loadedRunId = runId
  /\ runId' \in Runs \ {runId}
  /\ UNCHANGED <<coordinator, loadedRunId, loading, error, detail,
                 statusPollTimer, finalized, sending, asked, activeRuns>>

Outdated(rs) == {IF r.kind = "finalize" THEN r ELSE [r EXCEPT !.current = FALSE] : r \in rs}

LoadKeepsTimer(run) ==
  /\ asked' = Outdated(asked) \cup {Ask("load", run, None)}
  /\ loading' = TRUE /\ error' = FALSE
  /\ UNCHANGED statusPollTimer
  /\ detail' = None

\* load up to its await
Load(run) ==
  /\ asked' = Outdated(asked) \cup {Ask("load", run, None)}
  /\ loading' = TRUE /\ error' = FALSE
  /\ statusPollTimer' = None
  /\ detail' = None

LoadEffect ==
  /\ Cardinality(asked) < MaxAsked
  /\ runId # loadedRunId
  /\ loadedRunId' = runId
  /\ Load(runId)
  /\ UNCHANGED <<coordinator, runId, finalized, sending, activeRuns>>

\* stop, after the daemon has stopped the run or refused to.
Stopped ==
  /\ Cardinality(asked) < MaxAsked
  /\ detail # None
  /\ \/ Load(runId)
     \/ error' = TRUE /\ UNCHANGED <<loading, statusPollTimer, detail, asked>>
  /\ UNCHANGED <<coordinator, runId, loadedRunId, finalized, sending, activeRuns>>

\* load goes on with the run
LoadAnswer(r) ==
  /\ r.kind = "load" /\ r.active # None
  /\ IF r.current
     THEN /\ detail' = [run |-> r.run, active |-> r.active]
          /\ asked' = (asked \ {r}) \cup {Ask("sandbox", r.run, None)}
     ELSE asked' = asked \ {r} /\ UNCHANGED detail
  /\ UNCHANGED <<coordinator, runId, loadedRunId, loading, error,
                 statusPollTimer, finalized, sending, activeRuns>>

LoadFails(r) ==
  /\ r.kind = "load"
  /\ asked' = asked \ {r}
  /\ IF r.current THEN error' = TRUE /\ loading' = FALSE ELSE UNCHANGED <<error, loading>>
  /\ UNCHANGED <<coordinator, runId, loadedRunId, detail, statusPollTimer,
                 finalized, sending, activeRuns>>

\* scheduleStatusPoll
Scheduled(run, shown) == IF shown # None /\ shown.active THEN run ELSE None

\* load goes on with the sandbox, or without it.
SandboxAnswer(r) ==
  /\ r.kind = "sandbox"
  /\ asked' = asked \ {r}
  /\ IF r.current
     THEN loading' = FALSE /\ statusPollTimer' = Scheduled(r.run, detail)
     ELSE UNCHANGED <<loading, statusPollTimer>>
  /\ UNCHANGED <<coordinator, runId, loadedRunId, error, detail, finalized, sending,
                 activeRuns>>

PollTimer ==
  /\ statusPollTimer # None
  /\ Cardinality(asked) < MaxAsked
  /\ statusPollTimer' = None
  /\ asked' = asked \cup {Ask("poll", statusPollTimer, None)}
  /\ UNCHANGED <<coordinator, runId, loadedRunId, loading, error, detail,
                 finalized, sending, activeRuns>>

PollOfAnyPage(r) == r.kind = "poll"
PollOfThisPage(r) == r.current /\ r.run = runId

\* pollRunStatus goes on: another poll, or the conversation of the run that has ended.
PollAnswer(r) ==
  /\ r.kind = "poll" /\ r.active # None
  /\ IF PollOfThisPage(r)
     THEN /\ detail' = [run |-> r.run, active |-> r.active]
          /\ IF r.active
             THEN statusPollTimer' = r.run /\ asked' = asked \ {r}
             ELSE /\ asked' = (asked \ {r}) \cup {Ask("turns", r.run, None)}
                  /\ UNCHANGED statusPollTimer
     ELSE asked' = asked \ {r} /\ UNCHANGED <<detail, statusPollTimer>>
  /\ UNCHANGED <<coordinator, runId, loadedRunId, loading, error, finalized,
                 sending, activeRuns>>

PollFailsOnce(r) ==
  /\ r.kind \in {"poll", "turns"}
  /\ asked' = asked \ {r}
  /\ UNCHANGED <<coordinator, page, activeRuns>>

\* The catch of pollRunStatus, for the run or for its conversation.
PollFails(r) ==
  /\ r.kind \in {"poll", "turns"}
  /\ asked' = asked \ {r}
  /\ statusPollTimer' = IF PollOfThisPage(r) THEN Scheduled(r.run, detail)
                        ELSE statusPollTimer
  /\ UNCHANGED <<coordinator, runId, loadedRunId, loading, error, detail,
                 finalized, sending, activeRuns>>

TurnsAnswer(r) ==
  /\ r.kind = "turns"
  /\ asked' = asked \ {r}
  /\ UNCHANGED <<coordinator, page, activeRuns>>

-----------------------------------------------------------------------------
(* Streams *)

\* activeStream, None without one
ActiveStream ==
  LET ofRun     == byRun[runId]
      ofSandbox == IF detail = None THEN None ELSE bySandbox[Home[detail.run]]
  IN  IF ofSandbox # None /\ Running(ofSandbox) THEN ofSandbox
      ELSE IF ofRun # None /\ Running(ofRun) THEN ofRun
      ELSE IF ofSandbox # None THEN ofSandbox ELSE ofRun

\* sendMessage: the composer is off while a message is being answered.
SendMessage ==
  /\ detail # None /\ sending = None
  /\ \A o \in Begun : ActiveStream = o => ~Running(o)
  /\ \E o \in Ops : StartStream(o, Home[detail.run]) /\ sending' = o
  /\ error' = FALSE
  /\ UNCHANGED <<runId, loadedRunId, loading, detail, statusPollTimer,
                 finalized, asked, activeRuns>>

SendEnds ==
  /\ sending # None /\ ~streams[sending].open
  /\ sending' = None
  /\ UNCHANGED <<coordinator, runId, loadedRunId, loading, error, detail,
                 statusPollTimer, finalized, asked, activeRuns>>

\* External to the page: an agent is started from its project, in a new sandbox.
StartElsewhere ==
  /\ \E o \in Ops : StartStream(o, None)
  /\ UNCHANGED <<page, asked, activeRuns>>

\* The effect on activeStream, and finalizeStream up to its await.
Finalize ==
  LET o == ActiveStream
  IN  /\ o # None /\ o # finalized
      /\ Cardinality(asked) < MaxAsked
      /\ ~Running(o)
      /\ finalized' = o
      /\ asked' = asked \cup
           {[Ask("finalize", runId, o) EXCEPT !.current = (streams[o].run = runId)]}
      /\ UNCHANGED <<coordinator, runId, loadedRunId, loading, error, detail,
                     statusPollTimer, sending, activeRuns>>

\* The run was asked for only where the stream was the one of this page.
FinalizeAnswer(r) ==
  /\ r.kind = "finalize" /\ r.active # None
  /\ asked' = asked \ {r}
  /\ detail' = IF r.current THEN [run |-> r.run, active |-> r.active] ELSE detail
  /\ error' = FALSE
  /\ DismissStep(r.op)
  /\ UNCHANGED <<runId, loadedRunId, loading, statusPollTimer, finalized,
                 sending, activeRuns>>

FinalizeFails(r) ==
  /\ r.kind = "finalize"
  /\ asked' = asked \ {r}
  /\ error' = (streams[r.op].phase # "failed")
  /\ UNCHANGED streams
  /\ IF streams[r.op].phase = "failed" THEN Dismiss(r.op)
     ELSE UNCHANGED <<byOperation, byRun, bySandbox>>
  /\ UNCHANGED <<runId, loadedRunId, loading, detail, statusPollTimer,
                 finalized, sending, activeRuns>>

Answer(r) ==
  \/ Serve(r) \/ LoadAnswer(r) \/ LoadFails(r) \/ SandboxAnswer(r) \/ PollAnswer(r)
  \/ PollFails(r) \/ TurnsAnswer(r) \/ FinalizeAnswer(r) \/ FinalizeFails(r)

Next ==
  \/ Navigate \/ LoadEffect \/ Stopped \/ PollTimer \/ SendMessage \/ SendEnds
  \/ StartElsewhere \/ Finalize \/ RunEnds
  \/ \E o \in Begun : StreamEvent(o)
  \/ \E r \in asked : Answer(r)

Spec == Init /\ [][Next]_vars

-----------------------------------------------------------------------------
(* Properties *)

Chain == {r \in asked : r.current /\ r.kind \in {"load", "sandbox", "poll"}}

\* There is one chain of polls, also when a run is left and opened again within a
\* second or reloaded by stop: a timer or one request, never both
\* (RunDetail.svelte:134, 168, 176).
OnePollChain ==
  /\ \A r, q \in Chain : r = q
  /\ statusPollTimer # None => Chain = {}

\* A run that is shown as active is watched until it has ended, through failed polls and
\* reloads: the one exception is the run of a stream that broke off, whose last look at
\* the run may come after the last poll's (RunDetail.svelte:159, 179, 185, 298).
RunFollowed ==
  detail # None /\ detail.active /\ loadedRunId = runId =>
    \/ statusPollTimer # None \/ Chain # {}
    \/ \E o \in Begun : streams[o].run = detail.run /\ streams[o].phase \in {"failed", "canceled"}

\* The run shown is the one of the address, whatever was asked for the last one: only
\* finalizeStream, which does not look at the address again, is late
\* (RunDetail.svelte:145, 177, 298).
ShownRun ==
  detail # None /\ loadedRunId = runId =>
    \/ detail.run = runId
    \/ \E o \in Begun : streams[o].run = detail.run /\ ~Running(o)
=============================================================================
