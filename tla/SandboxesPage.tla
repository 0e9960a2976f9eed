----------------------------- MODULE SandboxesPage -----------------------------
(***************************************************************************)
(* The list of sandboxes, src/src/routes/Sandboxes.svelte: a page of       *)
(* sandboxes first, then what ran in each of them, which takes a request   *)
(* for all of them (listSandboxActivity) and one more for every sandbox    *)
(* without an automation, a few at a time.  Nothing is cancelled when the  *)
(* user turns the page, so that several rounds of this may be under way.   *)
(***************************************************************************)
EXTENDS Integers, FiniteSets, Sequences

CONSTANTS Queries,      \* filter and page the user may choose
          ItemsOf,      \* ItemsOf[q]: the sandboxes of the page and those pinned above it
          Ids,
          Automated,    \* the sandboxes an automation has run in
          Concurrency,  \* RUN_STATS_CONCURRENCY
          MaxRounds,    \* bound: loads that are answered
          MaxLists      \* bound: lists under way

ASSUME SandboxesPageAssumption ==
  /\ IsFiniteSet(Ids) /\ Concurrency \in Nat \ {0}
  /\ ItemsOf \in [Queries -> SUBSET Ids]

VARIABLES query, rows, loading, refreshing, error,
          automationRuns,  \* "unasked" where the record has no such key
          runStats,        \* the ids that are keys of the record
          lists,           \* loads under way
          rounds           \* loadActivity, one for every load that was answered

sandboxesVars == <<query, rows, loading, refreshing, error, automationRuns, runStats, lists, rounds>>

Round == [items : SUBSET Ids, unknown : SUBSET Ids, stage : {"activity", "stats"},
          queue : SUBSET Ids, asked : SUBSET Ids]

SandboxesTypeOK ==
  /\ query \in Queries /\ rows \subseteq Ids
  /\ {loading, refreshing, error} \subseteq BOOLEAN
  /\ automationRuns \in [Ids -> {"unasked", "none", "run"}]
  /\ runStats \subseteq Ids
  /\ lists \subseteq [query : Queries, background : BOOLEAN]
  /\ rounds \in Seq(Round)

SandboxesInit ==
  /\ query \in Queries /\ rows = {}
  /\ loading = TRUE /\ refreshing = FALSE /\ error = FALSE
  /\ automationRuns = [i \in Ids |-> "unasked"] /\ runStats = {}
  /\ lists = {[query |-> query, background |-> FALSE]}
  /\ rounds = <<>>

\* load up to its await
Load(q, background) ==
  /\ Cardinality(lists) < MaxLists
  /\ query' = q
  /\ lists' = lists \cup {[query |-> q, background |-> background]}
  /\ loading' = (loading \/ ~background)
  /\ refreshing' = (refreshing \/ background)
  /\ error' = FALSE
  /\ UNCHANGED <<rows, automationRuns, runStats, rounds>>

\* applyFilters, previous, next
ChangeQuery == \E q \in Queries : Load(q, FALSE)

\* The button that reads the list anew.
RefreshButton == ~refreshing /\ Load(query, TRUE)

LoadAnswerKnown(r) ==
  /\ Len(rounds) < MaxRounds
  /\ rows' = ItemsOf[r.query]
  /\ automationRuns' = IF r.background THEN [i \in Ids |-> "unasked"] ELSE automationRuns
  /\ runStats' = IF r.background THEN {} ELSE runStats
  /\ rounds' = Append(rounds,
       [items |-> ItemsOf[r.query], unknown |-> {i \in ItemsOf[r.query] : automationRuns[i] = "unasked"},
        stage |-> "activity", queue |-> {}, asked |-> {}])
  /\ loading' = FALSE /\ refreshing' = FALSE
  /\ lists' = lists \ {r}
  /\ UNCHANGED <<query, error>>

\* load goes on, whatever was asked for since.  A refresh forgets what is known.
LoadAnswer(r) ==
  /\ Len(rounds) < MaxRounds
  /\ rows' = ItemsOf[r.query]
  /\ automationRuns' = IF r.background THEN [i \in Ids |-> "unasked"] ELSE automationRuns
  /\ runStats' = IF r.background THEN {} ELSE runStats
  /\ rounds' = Append(rounds,
       [items |-> ItemsOf[r.query], unknown |-> {i \in ItemsOf[r.query] : automationRuns'[i] = "unasked"},
        stage |-> "activity", queue |-> {}, asked |-> {}])
  /\ loading' = FALSE /\ refreshing' = FALSE
  /\ lists' = lists \ {r}
  /\ UNCHANGED <<query, error>>

LoadFails(r) ==
  /\ error' = TRUE
  /\ loading' = FALSE /\ refreshing' = FALSE
  /\ lists' = lists \ {r}
  /\ UNCHANGED <<query, rows, automationRuns, runStats, rounds>>

\* The workers take from the queue of their round as long as there is room for one.
Taken(round) ==
  {taken \in SUBSET round.queue :
     Cardinality(round.asked \cup taken) =
       IF Cardinality(round.asked \cup round.queue) < Concurrency
       THEN Cardinality(round.asked \cup round.queue) ELSE Concurrency}

Worked(round) ==
  {[round EXCEPT !.queue = @ \ taken, !.asked = @ \cup taken] : taken \in Taken(round)}

\* loadRunStats: the sandboxes in which no automation has run and no runs were counted.
Queue(round, known) == {i \in round.items : known[i] # "run" /\ i \notin runStats}

\* loadActivity goes on.  If its request failed, no automation has run anywhere.
ActivityAnswer(n) ==
  /\ rounds[n].stage = "activity"
  /\ \E found \in {Automated, {}} :
       automationRuns' = [i \in Ids |->
         IF i \notin rounds[n].unknown THEN automationRuns[i]
         ELSE IF i \in found THEN "run" ELSE "none"]
  /\ \E round \in Worked([rounds[n] EXCEPT !.stage = "stats",
                                            !.queue = Queue(rounds[n], automationRuns')]) :
       rounds' = [rounds EXCEPT ![n] = round]
  /\ UNCHANGED <<query, rows, loading, refreshing, error, runStats, lists>>

StatsAnswerLast(n) ==
  \E i \in rounds[n].asked :
    /\ runStats' = runStats \cup {i}
    /\ rounds' = [rounds EXCEPT ![n].asked = @ \ {i}]
    /\ UNCHANGED <<query, rows, loading, refreshing, error, automationRuns, lists>>

\* A worker has its answer, or an error, which counts as no runs, and takes the next.
StatsAnswer(n) ==
  \E i \in rounds[n].asked :
    /\ runStats' = runStats \cup {i}
    /\ \E round \in Worked([rounds[n] EXCEPT !.asked = @ \ {i}]) :
         rounds' = [rounds EXCEPT ![n] = round]
    /\ UNCHANGED <<query, rows, loading, refreshing, error, automationRuns, lists>>

SandboxesNext ==
  \/ ChangeQuery \/ RefreshButton
  \/ \E r \in lists : LoadAnswer(r) \/ LoadFails(r)
  \/ \E n \in DOMAIN rounds : ActivityAnswer(n) \/ StatsAnswer(n)

SandboxesSpec == SandboxesInit /\ [][SandboxesNext]_sandboxesVars

-----------------------------------------------------------------------------
(* Properties *)

\* executionOf is still undefined
Undecided(i) == automationRuns[i] = "unasked" \/ (automationRuns[i] = "none" /\ i \notin runStats)

\* A queue that has entries has all of its workers busy, and never more of them.
WorkersBusy(round) ==
  /\ Cardinality(round.asked) <= Concurrency
  /\ round.queue # {} => Cardinality(round.asked) = Concurrency

\* No row waits for good: whatever rounds overlap, and whatever a refresh forgot under
\* them, what ran in a sandbox that is shown is known or still being asked for, by workers
\* that do not stop before their queue is empty (Sandboxes.svelte:149-203).
RowsCovered ==
  /\ \A i \in rows : Undecided(i) =>
       \E n \in DOMAIN rounds :
         \/ rounds[n].stage = "activity" /\ i \in rounds[n].items
         \/ i \in rounds[n].queue \cup rounds[n].asked
  /\ \A n \in DOMAIN rounds : WorkersBusy(rounds[n])
=============================================================================
