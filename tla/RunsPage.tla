------------------------------ MODULE RunsPage ------------------------------
(***************************************************************************)
(* The list of runs with its inspector, src/src/routes/Runs.svelte.  The   *)
(* handlers run one at a time up to an await; what they wait for is a      *)
(* record in listAsked, which the daemon answers (ServeList) before the    *)
(* rest of the handler runs (the actions named ...Answer), in any order.   *)
(* What is written into the page of an error, and the counts on the filter *)
(* bar, are left out.  Variables called loading and detail there have the  *)
(* names of their part of the page here.                                   *)
(***************************************************************************)
EXTENDS Integers, FiniteSets, Sequences, SequencesExt, FiniteSetsExt, Absent

CONSTANTS Queries,      \* filters the user may choose
          Match,        \* Match[q]: the runs the filter selects, of all there will be
          Widths,       \* values of wide: whether the window has room for the inspector
          RunIds,       \* runs, the newest with the greatest number
          PageSize,
          MaxListAsked, \* bound: requests under way
          MaxVersions   \* bound: loads and selections begun

ASSUME RunsPageAssumption ==
  /\ RunIds \subseteq Nat /\ None \notin RunIds /\ None \notin Seq(RunIds)
  /\ Match \in [Queries -> SUBSET RunIds]
  /\ PageSize \in Nat

VARIABLES query, runs, total, listLoading, loadingMore, newerAvailable, listVersion,
          wide, selectedId, inspectorDetail, inspectorLoading, inspectorTimer,
          listAsked,   \* requests under way
          newest       \* the daemon: runs up to this one exist

list      == <<query, runs, total, listLoading, loadingMore, newerAvailable, listVersion>>
inspector == <<wide, selectedId, inspectorDetail, inspectorLoading, inspectorTimer>>
runsVars  == <<list, inspector, listAsked, newest>>

MaybeRun == RunIds \cup {None}

\* What a handler keeps over its await; rows is None until the daemon has answered.
RunsRequest ==
  [kind : {"load", "refresh"}, version : Nat, query : Queries, paged : BOOLEAN,
   rows : Seq(RunIds) \cup {None}, total : Nat]
  \cup [kind : {"more"}, query : Queries, offset : Nat,
        rows : Seq(RunIds) \cup {None}, total : Nat]
  \cup [kind : {"inspect", "live"}, run : RunIds, current : BOOLEAN]

RunsTypeOK ==
  /\ query \in Queries
  /\ runs \in Seq(RunIds) /\ total \in Nat
  /\ {listLoading, loadingMore, newerAvailable, inspectorLoading} \subseteq BOOLEAN
  /\ wide \in Widths
  /\ {selectedId, inspectorDetail, inspectorTimer} \subseteq MaybeRun
  /\ listVersion \in Nat
  /\ listAsked \subseteq RunsRequest
  /\ newest \in Nat

ListRequest(kind, q, version, paged) ==
  [kind |-> kind, version |-> version, query |-> q, paged |-> paged,
   rows |-> None, total |-> 0]
RunRequest(kind, run) == [kind |-> kind, run |-> run, current |-> TRUE]

\* onMount: the first load is under way.
RunsInit ==
  /\ query \in Queries /\ runs = <<>> /\ total = 0
  /\ listLoading = TRUE /\ loadingMore = FALSE
  /\ newerAvailable = FALSE /\ listVersion = 1
  /\ wide \in Widths /\ selectedId = None /\ inspectorDetail = None
  /\ inspectorLoading = FALSE /\ inspectorTimer = None
  /\ listAsked = {ListRequest("load", query, 1, FALSE)} /\ newest \in {0, PageSize + 1}

-----------------------------------------------------------------------------
(* Requests *)

AskList(r) ==
  /\ Cardinality(listAsked) < MaxListAsked
  /\ listAsked' = listAsked \cup {r}

Matching(q) == {i \in Match[q] : i <= newest}

\* A set of numbers, the least first.
Ascending(S) ==
  [n \in 1 .. Cardinality(S) |-> CHOOSE i \in S : Cardinality({j \in S : j < i}) = n - 1]

\* listRunsPage: the matching runs from the newest on, without the first offset of them.
Page(q, offset, limit) ==
  LET found == Cardinality(Matching(q))
      last  == Min({found, offset + limit})
  IN  [n \in 1 .. Max({last - offset, 0}) |-> Ascending(Matching(q))[found + 1 - offset - n]]

\* External: the daemon evaluates a request.
ServeList(r) ==
  /\ r.kind \in {"load", "refresh", "more"} /\ r.rows = None
  /\ listAsked' = (listAsked \ {r}) \cup
       {[r EXCEPT !.total = Cardinality(Matching(r.query)),
                  !.rows  = IF r.kind = "more" THEN Page(r.query, r.offset, PageSize)
                            ELSE Page(r.query, 0, IF r.paged THEN 1 ELSE PageSize)]}
  /\ UNCHANGED <<list, inspector, newest>>

Answered(r, kind) == r.kind = kind /\ (r.rows # None)

-----------------------------------------------------------------------------
(* The inspector *)

OutdatedNoInspector(rs) == rs

\* inspectorVersion += 1: only whether the counter has moved since a request was made
\* is ever asked of it.
OutdatedInspector(rs) ==
  {IF r.kind \in {"inspect", "live"} THEN [r EXCEPT !.current = FALSE] ELSE r : r \in rs}

\* select, with rs the requests that are left
Select(run, rs) ==
  /\ selectedId' = run
  /\ listAsked' = OutdatedInspector(rs)
  /\ IF run = None \/ ~wide'
     THEN inspectorDetail' = None /\ inspectorLoading' = FALSE /\ inspectorTimer' = None
     ELSE UNCHANGED inspectorDetail /\ inspectorLoading' = TRUE /\ inspectorTimer' = run

\* A row of a wide page is chosen, j or k pressed, or a run of the history strip chosen
\* that is listed.
Choose ==
  /\ UNCHANGED wide
  /\ \E i \in DOMAIN runs : Select(runs[i], listAsked)
  /\ UNCHANGED <<list, newest>>

\* The window grows over or shrinks under the width of the inspector.
SyncWide ==
  /\ wide' \in Widths \ {wide}
  /\ IF wide
     THEN UNCHANGED <<selectedId, inspectorDetail, inspectorLoading, inspectorTimer, listAsked>>
     ELSE Select(IF selectedId \in ToSet(runs) THEN selectedId ELSE None, listAsked)
  /\ UNCHANGED <<list, newest>>

\* loadInspector up to its await, when the timer of select fires.
LoadInspector ==
  /\ inspectorTimer # None
  /\ inspectorTimer' = None
  /\ inspectorLoading' = TRUE
  /\ inspectorDetail' = IF inspectorDetail # inspectorTimer THEN None ELSE inspectorDetail
  /\ Cardinality(listAsked) < MaxListAsked
  /\ listAsked' = OutdatedInspector(listAsked) \cup {RunRequest("inspect", inspectorTimer)}
  /\ UNCHANGED <<list, wide, selectedId, newest>>

\* allSettled: each answer may be missing.
LoadInspectorAnswer(r) ==
  /\ r.kind = "inspect"
  /\ listAsked' = listAsked \ {r}
  /\ IF r.current
     THEN inspectorDetail' \in {r.run, None} /\ inspectorLoading' = FALSE
     ELSE UNCHANGED <<inspectorDetail, inspectorLoading>>
  /\ UNCHANGED <<list, wide, selectedId, inspectorTimer, newest>>

\* refreshLiveInspector after its await.
LiveAnswer(r) ==
  /\ r.kind = "live"
  /\ listAsked' = listAsked \ {r}
  /\ inspectorDetail' \in IF r.current THEN {inspectorDetail, r.run} ELSE {inspectorDetail}
  /\ UNCHANGED <<list, wide, selectedId, inspectorLoading, inspectorTimer, newest>>

-----------------------------------------------------------------------------
(* The list *)

\* load up to its await: for another query, for the newer runs.
LoadList(q) ==
  /\ listVersion < MaxVersions
  /\ query' = q
  /\ listVersion' = listVersion + 1
  /\ listLoading' = TRUE
  /\ AskList(ListRequest("load", q, listVersion + 1, FALSE))
  /\ UNCHANGED <<runs, total, loadingMore, newerAvailable, inspector, newest>>

ChangeQuery == \E q \in Queries : LoadList(q)
ShowNewer == newerAvailable /\ LoadList(query)

LoadListAnswer(r) ==
  /\ Answered(r, "load")
  /\ IF r.version # listVersion
     THEN listAsked' = listAsked \ {r} /\ UNCHANGED <<list, inspector>>
     ELSE /\ runs' = r.rows /\ total' = r.total
          /\ newerAvailable' = FALSE /\ listLoading' = FALSE
          /\ UNCHANGED <<query, loadingMore, listVersion, wide>>
          /\ IF selectedId \in ToSet(r.rows)
             THEN listAsked' = listAsked \ {r} /\ UNCHANGED inspector
             ELSE Select(IF r.rows = <<>> THEN None ELSE Head(r.rows), listAsked \ {r})
  /\ UNCHANGED newest

LoadListFails(r) ==
  /\ r.kind = "load"
  /\ listAsked' = listAsked \ {r}
  /\ listLoading' = (listLoading /\ r.version # listVersion)
  /\ UNCHANGED <<query, runs, total, loadingMore, newerAvailable,
                 listVersion, inspector, newest>>

\* refresh up to its await: the timer, or also after a run was stopped.  Whether the user has
\* loaded more is decided here.
Refresh ==
  /\ ~listLoading /\ ~loadingMore
  /\ AskList(ListRequest("refresh", query, listVersion, Len(runs) > PageSize))
  /\ UNCHANGED <<list, inspector, newest>>

RefreshAnswer(r) ==
  /\ Answered(r, "refresh")
  /\ IF r.version # listVersion
     THEN /\ listAsked' = listAsked \ {r}
          /\ UNCHANGED <<runs, total, newerAvailable>>
     ELSE IF r.paged
          THEN /\ newerAvailable' = (r.rows # <<>> /\ (runs = <<>> \/ Head(r.rows) # Head(runs)))
               /\ listAsked' = listAsked \ {r}
               /\ UNCHANGED <<runs, total>>
          ELSE /\ runs' = r.rows /\ total' = r.total
               /\ \/ listAsked' = listAsked \ {r}
                  \/ \* the selected run is listed and has not ended: refreshLiveInspector
                     /\ selectedId \in ToSet(r.rows)
                     /\ listAsked' = (listAsked \ {r}) \cup {RunRequest("live", selectedId)}
               /\ UNCHANGED newerAvailable
  /\ UNCHANGED <<query, listLoading, loadingMore, listVersion, inspector, newest>>

RefreshFails(r) ==
  /\ r.kind \in {"refresh", "live"}
  /\ listAsked' = listAsked \ {r}
  /\ UNCHANGED <<list, inspector, newest>>

LoadMore ==
  /\ ~loadingMore /\ Len(runs) < total /\ runs # <<>>
  /\ loadingMore' = TRUE
  /\ AskList([kind |-> "more", query |-> query, offset |-> Len(runs), rows |-> None,
              total |-> 0])
  /\ UNCHANGED <<query, runs, total, listLoading, newerAvailable,
                 listVersion, inspector, newest>>

AppendedBlindly(rows) == runs \o rows

\* The page is appended without the runs that are listed already.
Appended(rows) ==
  LET unlisted == Ascending({n \in DOMAIN rows : rows[n] \notin ToSet(runs)})
  IN  runs \o [k \in DOMAIN unlisted |-> rows[unlisted[k]]]

LoadMoreAnswer(r) ==
  /\ Answered(r, "more")
  /\ listAsked' = listAsked \ {r}
  /\ runs' = Appended(r.rows)
  /\ total' = r.total
  /\ loadingMore' = FALSE
  /\ UNCHANGED <<query, listLoading, newerAvailable, listVersion,
                 inspector, newest>>

LoadMoreFailsLoading(r) ==
  /\ r.kind = "more"
  /\ listAsked' = listAsked \ {r}
  /\ UNCHANGED <<query, runs, total, listLoading, loadingMore, newerAvailable,
                 listVersion, inspector, newest>>

LoadMoreFails(r) ==
  /\ r.kind = "more"
  /\ listAsked' = listAsked \ {r}
  /\ loadingMore' = FALSE
  /\ UNCHANGED <<query, runs, total, listLoading, newerAvailable, listVersion,
                 inspector, newest>>

\* External: another run is started.
NewRun ==
  /\ newest + 1 \in RunIds
  /\ newest' = newest + 1
  /\ UNCHANGED <<list, inspector, listAsked>>

ListAnswer(r) ==
  \/ LoadListAnswer(r) \/ LoadListFails(r) \/ RefreshAnswer(r) \/ RefreshFails(r)
  \/ LoadMoreAnswer(r) \/ LoadMoreFails(r)
  \/ LoadInspectorAnswer(r) \/ LiveAnswer(r)

RunsNext ==
  \/ ChangeQuery \/ ShowNewer \/ Refresh \/ LoadMore
  \/ Choose \/ SyncWide \/ LoadInspector \/ NewRun
  \/ \E r \in listAsked : ServeList(r) \/ ListAnswer(r)

RunsSpec == RunsInit /\ [][RunsNext]_runsVars

-----------------------------------------------------------------------------
(* Properties *)

\* A run is listed once, although runs that start between two pages shift the
\* offset of the second and answers of different filters may meet (Runs.svelte:178-183).
ListedOnce == IsInjective(runs)

\* Unless the inspector says that it is loading, what it shows is about the
\* selected run, whatever order the answers came in (Runs.svelte:213-242).
InspectorMatches ==
  ~inspectorLoading => inspectorDetail \in {selectedId, None}

\* Every spinner has something under way that will end it: loading the latest load,
\* loadingMore a page, inspectorLoading the timer of select or the latest request of
\* loadInspector (Runs.svelte:138, 188, 241; an outdated answer ends none of them).
SpinnersEnd ==
  /\ listLoading => \E r \in listAsked : r.kind = "load" /\ r.version = listVersion
  /\ loadingMore => \E r \in listAsked : r.kind = "more"
  /\ inspectorLoading => \/ inspectorTimer # None
                         \/ \E r \in listAsked : r.kind = "inspect" /\ r.current
=============================================================================
