----------------------------- MODULE HistoryCache -----------------------------
(***************************************************************************)
(* The conversation of a sandbox as src/src/api/sessions.ts reads it:      *)
(* promises of the history and of the list of runs it is built from are    *)
(* kept in two maps so that callers share them, and dropped one second     *)
(* after they have settled.  One sandbox, that is one key of each map; a   *)
(* promise is its number, in the order they were made.  What a promise     *)
(* delivers is what the daemon had when it read its answer, which may be   *)
(* long before the answer arrives.  Of several requests of one promise,    *)
(* the pages of a list, the model has the first, which is the oldest.      *)
(***************************************************************************)
EXTENDS Integers, Sequences, Absent

CONSTANTS MaxRequests,  \* bound: promises
          MaxData       \* bound: changes of the sandbox

ASSUME HistoryCacheAssumption == MaxData \in Nat

VARIABLES data,               \* the daemon: changes of the sandbox so far
          historyRequests, sandboxRunRequests,    \* the cached promise, or None
          histories,          \* promises of loadWorkSessionHistory
          runLists,           \* promises of loadRunsForSandbox
          historyClears, runClears,  \* promises whose clear waits for its timer
          refreshes           \* calls of refreshWorkSessionCells

historyVars == <<data, historyRequests, sandboxRunRequests, histories, runLists,
          historyClears, runClears, refreshes>>

\* runs and events are the data that the daemon has read for the promise, None before and
\* after a failure: a pending list with runs has its answer on the way, as a pending
\* history with events has.
History == [state : {"pending", "done", "failed"}, runList : Nat,
            runs : Nat \cup {None}, events : Nat \cup {None}]
RunList == [state : {"pending", "done", "failed"}, runs : Nat \cup {None}]

HistoryTypeOK ==
  /\ data \in 0 .. MaxData
  /\ histories \in Seq(History) /\ runLists \in Seq(RunList)
  /\ historyRequests \in DOMAIN histories \cup {None}
  /\ sandboxRunRequests \in DOMAIN runLists \cup {None}
  /\ historyClears \subseteq DOMAIN histories
  /\ runClears \subseteq DOMAIN runLists
  /\ refreshes \subseteq [since : 0 .. MaxData, history : DOMAIN histories]

HistoryInit ==
  /\ data = 0
  /\ historyRequests = None /\ sandboxRunRequests = None
  /\ histories = <<>> /\ runLists = <<>>
  /\ historyClears = {} /\ runClears = {}
  /\ refreshes = {}

-----------------------------------------------------------------------------

InBounds == Len(histories') + Len(runLists') <= MaxRequests

\* runsForSandbox, where cached is what its map holds.
AskRuns(cached) ==
  IF cached # None
  THEN sandboxRunRequests' = cached /\ UNCHANGED runLists
  ELSE /\ runLists' = Append(runLists, [state |-> "pending", runs |-> None])
       /\ sandboxRunRequests' = Len(runLists')

\* workSessionHistory and, in the same turn, runsForSandbox.
Ask(cached, cachedRuns) ==
  IF cached # None
  THEN /\ historyRequests' = cached /\ sandboxRunRequests' = cachedRuns
       /\ UNCHANGED <<histories, runLists>>
  ELSE /\ AskRuns(cachedRuns)
       /\ histories' = Append(histories, [state |-> "pending", runList |-> sandboxRunRequests',
                                          runs |-> None, events |-> None])
       /\ historyRequests' = Len(histories')

\* listWorkSessionCells, listWorkSessionEvents
List ==
  /\ Ask(historyRequests, sandboxRunRequests)
  /\ UNCHANGED <<data, historyClears, runClears, refreshes>>
  /\ InBounds

\* getWorkSessionRunTarget, by latestRunForSandbox.
RunTarget ==
  /\ AskRuns(sandboxRunRequests)
  /\ UNCHANGED <<data, historyRequests, histories, historyClears, runClears, refreshes>>
  /\ InBounds

\* Mutant of Refresh: a list of runs that is still on its way is not asked for again.
OnItsWay == IF sandboxRunRequests # None /\ runLists[sandboxRunRequests].state = "pending"
            THEN sandboxRunRequests ELSE None
RefreshSharesPending ==
  /\ Ask(None, OnItsWay)
  /\ refreshes' = refreshes \cup {[since |-> data, history |-> historyRequests']}
  /\ UNCHANGED <<data, historyClears, runClears>>
  /\ InBounds

\* refreshWorkSessionCells
Refresh ==
  /\ Ask(None, None)
  /\ refreshes' = refreshes \cup {[since |-> data, history |-> historyRequests']}
  /\ UNCHANGED <<data, historyClears, runClears>>
  /\ InBounds

-----------------------------------------------------------------------------

\* External: the daemon reads the runs; its answer is on the way.
ReadRuns(q) ==
  /\ runLists[q].state = "pending" /\ runLists[q].runs = None
  /\ runLists' = [runLists EXCEPT ![q].runs = data]
  /\ UNCHANGED <<data, historyRequests, sandboxRunRequests, histories, historyClears,
                 runClears, refreshes>>

\* The answer to loadRunsForSandbox arrives, or it fails; its clear is set off either way.
RunsSettle(q) ==
  /\ runLists[q].state = "pending"
  /\ \/ /\ runLists[q].runs # None
        /\ runLists' = [runLists EXCEPT ![q].state = "done"]
     \/ runLists' = [runLists EXCEPT ![q].state = "failed", ![q].runs = None]
  /\ runClears' = runClears \cup {q}
  /\ UNCHANGED <<data, historyRequests, sandboxRunRequests, histories, historyClears,
                 refreshes>>

\* A promise that is rejected delivers nothing.
Rejected(history) == [history EXCEPT !.state = "failed", !.runs = None, !.events = None]

\* loadWorkSessionHistory goes on when its runs are there.
GotRuns(h) ==
  LET list == runLists[histories[h].runList]
  IN  /\ histories[h].state = "pending" /\ histories[h].runs = None
      /\ list.state # "pending"
      /\ histories' = [histories EXCEPT ![h] =
                         IF list.state = "done" THEN [@ EXCEPT !.runs = list.runs]
                         ELSE Rejected(@)]
      /\ historyClears' = IF list.state = "done" THEN historyClears ELSE historyClears \cup {h}
      /\ UNCHANGED <<data, historyRequests, sandboxRunRequests, runLists, runClears,
                     refreshes>>

\* External: the daemon reads the events, or the history of the old format, that
\* loadWorkSessionHistory asks for once it has the runs.
ReadEvents(h) ==
  /\ histories[h].state = "pending" /\ histories[h].runs # None /\ histories[h].events = None
  /\ histories' = [histories EXCEPT ![h].events = data]
  /\ UNCHANGED <<data, historyRequests, sandboxRunRequests, runLists, historyClears,
                 runClears, refreshes>>

\* Mutant of HistorySettles: nothing is cleared after a failure.
SettledOnSuccess(h) ==
  /\ histories[h].state = "pending" /\ histories[h].runs # None
  /\ \/ /\ histories[h].events # None
        /\ histories' = [histories EXCEPT ![h].state = "done"]
        /\ historyClears' = historyClears \cup {h}
     \/ /\ histories' = [histories EXCEPT ![h] = Rejected(@)]
        /\ UNCHANGED historyClears
  /\ UNCHANGED <<data, historyRequests, sandboxRunRequests, runLists, runClears,
                 refreshes>>

\* They arrive, or reading fails.
HistorySettles(h) ==
  /\ histories[h].state = "pending" /\ histories[h].runs # None
  /\ \/ /\ histories[h].events # None
        /\ histories' = [histories EXCEPT ![h].state = "done"]
     \/ histories' = [histories EXCEPT ![h] = Rejected(@)]
  /\ historyClears' = historyClears \cup {h}
  /\ UNCHANGED <<data, historyRequests, sandboxRunRequests, runLists, runClears,
                 refreshes>>

\* The timers of clear drop whatever the map holds by then.
ClearHistory(h) ==
  /\ h \in historyClears
  /\ historyClears' = historyClears \ {h}
  /\ historyRequests' = None
  /\ UNCHANGED <<data, sandboxRunRequests, histories, runLists, runClears, refreshes>>

ClearRuns(q) ==
  /\ q \in runClears
  /\ runClears' = runClears \ {q}
  /\ sandboxRunRequests' = None
  /\ UNCHANGED <<data, historyRequests, histories, runLists, historyClears, refreshes>>

\* External: something happens in the sandbox.
Change ==
  /\ data < MaxData
  /\ data' = data + 1
  /\ UNCHANGED <<historyRequests, sandboxRunRequests, histories, runLists, historyClears,
                 runClears, refreshes>>

HistoryNext ==
  \/ List \/ RunTarget \/ Refresh \/ Change
  \/ \E q \in DOMAIN runLists : ReadRuns(q) \/ RunsSettle(q) \/ ClearRuns(q)
  \/ \E h \in DOMAIN histories :
       GotRuns(h) \/ ReadEvents(h) \/ HistorySettles(h) \/ ClearHistory(h)

HistorySpec == HistoryInit /\ [][HistoryNext]_historyVars

-----------------------------------------------------------------------------
(* Properties *)

\* A view that asks for the conversation because a run has ended sees all that had
\* happened by then, and so does whoever asks after it: no answer that was read before is
\* delivered to them, although requests from before are still on their way and their
\* timers go on clearing the maps (sessions.ts:154-158, 175-187, 318-327).
RefreshIsFresh ==
  \A f \in refreshes, h \in DOMAIN histories :
    h >= f.history /\ histories[h].state = "done"
      => histories[h].runs >= f.since /\ histories[h].events >= f.since

\* What is cached after it has settled, an error too, is going to be dropped
\* (sessions.ts:180-181, 323-324): a failed read is not what every later caller gets.
SettledIsDropped ==
  /\ historyRequests # None /\ histories[historyRequests].state # "pending"
       => historyRequests \in historyClears
  /\ sandboxRunRequests # None /\ runLists[sandboxRunRequests].state # "pending"
       => sandboxRunRequests \in runClears
=============================================================================
