---------------------------- MODULE RunsPageProofs ----------------------------
(***************************************************************************)
(* The list of runs for any runs, filters, page size and number of         *)
(* requests under way.                                                     *)
(*                                                                         *)
(* The inspector shows the selected run, and every spinner ends: what a    *)
(* page of the list holds does not matter for either, so that requests are *)
(* only known by their shape (RInv).  A run is listed once: every page     *)
(* that was answered holds a run once, and what is appended to the list    *)
(* was not there (LInv).                                                   *)
(***************************************************************************)
EXTENDS RunsPage, FiniteSetTheorems, SequenceTheorems, TLAPS

-----------------------------------------------------------------------------
(* The invariant *)

ForList(r) == r.kind \in {"load", "refresh", "more"}
ForRun(r) == r.kind \in {"inspect", "live"}

\* A request has the fields of its kind.
Shaped(r) ==
  /\ ForList(r) \/ ForRun(r)
  /\ r.kind \in {"load", "refresh"} =>
       r = [kind |-> r.kind, version |-> r.version, query |-> r.query, paged |-> r.paged,
            rows |-> r.rows, total |-> r.total]
  /\ r.kind = "more" =>
       r = [kind |-> r.kind, query |-> r.query, offset |-> r.offset, rows |-> r.rows,
            total |-> r.total]
  /\ ForRun(r) => r = [kind |-> r.kind, run |-> r.run, current |-> r.current]

\* The inspector asks, or is about to ask, for the selected run only.
AsksSelected ==
  /\ inspectorTimer # None => inspectorTimer = selectedId
  /\ \A r \in listAsked : ForRun(r) /\ r.current => r.run = selectedId

RInv ==
  /\ \A r \in listAsked : Shaped(r)
  /\ AsksSelected /\ InspectorMatches /\ SpinnersEnd

-----------------------------------------------------------------------------
(* Lemmas *)

LEMMA ListRequestShaped ==
  ASSUME NEW kind \in {"load", "refresh"}, NEW q, NEW version, NEW paged
  PROVE  LET r == ListRequest(kind, q, version, paged)
         IN  Shaped(r) /\ r.kind = kind /\ r.version = version
BY DEF ListRequest, Shaped, ForList, ForRun

LEMMA RunRequestShaped ==
  ASSUME NEW kind \in {"inspect", "live"}, NEW run
  PROVE  LET r == RunRequest(kind, run)
         IN  Shaped(r) /\ r.kind = kind /\ r.run = run /\ r.current = TRUE
BY DEF RunRequest, Shaped, ForList, ForRun

\* Of the outdated requests none for a run is current, and the others are as they were.
LEMMA OutdatedShaped ==
  ASSUME NEW rs, \A r \in rs : Shaped(r)
  PROVE  /\ \A r \in OutdatedInspector(rs) : Shaped(r) /\ (ForRun(r) => ~r.current)
         /\ \A r \in rs : ForList(r) => r \in OutdatedInspector(rs)
<1>1. ASSUME NEW q \in rs,
             NEW r, r = IF q.kind \in {"inspect", "live"} THEN [q EXCEPT !.current = FALSE] ELSE q
      PROVE  Shaped(r) /\ (ForRun(r) => ~r.current)
  <2>1. CASE ForRun(q)
    <3>1. q = [kind |-> q.kind, run |-> q.run, current |-> q.current]
      BY <2>1 DEF Shaped
    <3>2. r = [q EXCEPT !.current = FALSE]
      BY <1>1, <2>1 DEF ForRun
    <3>3. r = [kind |-> q.kind, run |-> q.run, current |-> FALSE]
      BY <3>1, <3>2
    <3> QED BY <2>1, <3>3 DEF Shaped, ForRun, ForList
  <2>2. CASE ~ForRun(q)
    BY <1>1, <2>2 DEF Shaped, ForRun
  <2> QED BY <2>1, <2>2
<1>2. \A r \in rs : ForList(r) => r \in OutdatedInspector(rs)
  BY DEF OutdatedInspector, ForList
<1> QED BY <1>1, <1>2 DEF OutdatedInspector

\* Selecting a run leaves the inspector right and its spinner with a timer.
LEMMA SelectRight ==
  ASSUME NEW run, NEW rs, \A r \in rs : Shaped(r), Select(run, rs)
  PROVE  /\ \A r \in listAsked' : Shaped(r)
         /\ AsksSelected' /\ InspectorMatches'
         /\ inspectorLoading' => inspectorTimer' # None
         /\ \A r \in rs : ForList(r) => r \in listAsked'
<1>0. listAsked' = OutdatedInspector(rs)
  BY DEF Select
<1>1. /\ selectedId' = run
      /\ IF run = None \/ ~wide'
         THEN inspectorDetail' = None /\ inspectorLoading' = FALSE /\ inspectorTimer' = None
         ELSE UNCHANGED inspectorDetail /\ inspectorLoading' = TRUE /\ inspectorTimer' = run
  BY DEF Select
<1>2. /\ \A r \in listAsked' : Shaped(r) /\ (ForRun(r) => ~r.current)
      /\ \A r \in rs : ForList(r) => r \in listAsked'
  BY <1>0, OutdatedShaped
<1> QED BY <1>0, <1>1, <1>2 DEF AsksSelected, InspectorMatches

\* Requests come and go while the inspector and its requests stay.
LEMMA ListKeeps ==
  ASSUME RInv, UNCHANGED inspector,
         \A r \in listAsked' : Shaped(r) /\ (ForRun(r) /\ r.current =>
                             r \in listAsked \/ r.run = selectedId),
         \A r \in listAsked : r.kind = "inspect" => r \in listAsked',
         listLoading' => \E r \in listAsked' : r.kind = "load" /\ r.version = listVersion',
         loadingMore' => \E r \in listAsked' : r.kind = "more"
  PROVE  RInv'
<1>1. AsksSelected'
  BY DEF RInv, AsksSelected, inspector
<1>2. InspectorMatches'
  BY DEF RInv, InspectorMatches, inspector
<1>3. SpinnersEnd'
  BY DEF RInv, SpinnersEnd, inspector
<1> QED BY <1>1, <1>2, <1>3 DEF RInv

-----------------------------------------------------------------------------
(* The steps *)

LEMMA ServeStep ==
  ASSUME RInv, NEW r \in listAsked, ServeList(r)
  PROVE  RInv'
<1> DEFINE rows == IF r.kind = "more" THEN Page(r.query, r.offset, PageSize)
                   ELSE Page(r.query, 0, IF r.paged THEN 1 ELSE PageSize)
           served == [r EXCEPT !.total = Cardinality(Matching(r.query)), !.rows = rows]
<1>1. /\ ForList(r) /\ listAsked' = (listAsked \ {r}) \cup {served}
      /\ UNCHANGED <<list, inspector, newest>>
  BY DEF ServeList, ForList
<1>2. /\ Shaped(served) /\ served.kind = r.kind
      /\ r.kind = "load" => served.version = r.version
  <2> DEFINE t == Cardinality(Matching(r.query))
  <2>1. served = [r EXCEPT !.total = t, !.rows = rows]
    OBVIOUS
  <2>2. Shaped(r)
    BY DEF RInv
  <2> HIDE DEF rows, t, served
  <2>3. CASE r.kind \in {"load", "refresh"}
    <3>1. r = [kind |-> r.kind, version |-> r.version, query |-> r.query, paged |-> r.paged,
               rows |-> r.rows, total |-> r.total]
      BY <2>2, <2>3 DEF Shaped
    <3>2. served = [kind |-> r.kind, version |-> r.version, query |-> r.query,
                    paged |-> r.paged, rows |-> rows, total |-> t]
      BY <2>1, <3>1
    <3> QED BY <2>3, <3>2 DEF Shaped, ForList, ForRun
  <2>4. CASE r.kind = "more"
    <3>1. r = [kind |-> r.kind, query |-> r.query, offset |-> r.offset, rows |-> r.rows,
               total |-> r.total]
      BY <2>2, <2>4 DEF Shaped
    <3>2. served = [kind |-> r.kind, query |-> r.query, offset |-> r.offset,
                    rows |-> rows, total |-> t]
      BY <2>1, <3>1
    <3> QED BY <2>4, <3>2 DEF Shaped, ForList, ForRun
  <2> QED BY <1>1, <2>3, <2>4 DEF ForList
<1> HIDE DEF served
<1>3. listLoading' => \E q \in listAsked' : q.kind = "load" /\ q.version = listVersion'
  BY <1>1, <1>2 DEF RInv, SpinnersEnd, list
<1>4. loadingMore' => \E q \in listAsked' : q.kind = "more"
  BY <1>1, <1>2 DEF RInv, SpinnersEnd, list
<1>5. \A q \in listAsked' : Shaped(q) /\ (ForRun(q) => q \in listAsked)
  BY <1>1, <1>2 DEF RInv, ForList, ForRun
<1> QED BY <1>1, <1>3, <1>4, <1>5, ListKeeps DEF ForList

\* Steps of the inspector leave the list alone.
LEMMA InspectorStep ==
  ASSUME RInv, UNCHANGED list,
         \A r \in listAsked' : Shaped(r),
         \A r \in listAsked : ForList(r) => r \in listAsked',
         AsksSelected', InspectorMatches',
         inspectorLoading' => \/ inspectorTimer' # None
                              \/ \E r \in listAsked' : r.kind = "inspect" /\ r.current
  PROVE  RInv'
BY DEF RInv, SpinnersEnd, list, ForList

LEMMA InspectorSteps ==
  ASSUME RInv,
         \/ Choose \/ SyncWide \/ LoadInspector
         \/ \E r \in listAsked : LoadInspectorAnswer(r) \/ LiveAnswer(r)
  PROVE  RInv'
<1> USE DEF RInv
<1>1. ASSUME NEW run, Select(run, listAsked), UNCHANGED list PROVE RInv'
  BY <1>1, SelectRight, InspectorStep
<1>2. CASE Choose
  BY <1>1, <1>2 DEF Choose
<1>3. CASE SyncWide
  <2>1. CASE wide
    <3>1. UNCHANGED <<list, selectedId, inspectorDetail, inspectorLoading, inspectorTimer,
                      listAsked>>
      BY <1>3, <2>1 DEF SyncWide
    <3> QED BY <3>1 DEF AsksSelected, InspectorMatches, SpinnersEnd, list
  <2>2. CASE ~wide
    BY <1>1, <1>3, <2>2 DEF SyncWide
  <2> QED BY <2>1, <2>2
<1>4. CASE LoadInspector
  <2> DEFINE ask == RunRequest("inspect", inspectorTimer)
  <2>1. Shaped(ask) /\ ask.kind = "inspect" /\ ask.run = inspectorTimer /\ ask.current = TRUE
    BY RunRequestShaped
  <2> HIDE DEF ask
  <2>2. /\ inspectorTimer # None /\ inspectorTimer' = None /\ inspectorLoading' = TRUE
        /\ listAsked' = OutdatedInspector(listAsked) \cup {ask}
        /\ UNCHANGED <<list, wide, selectedId, newest>>
    BY <1>4 DEF LoadInspector, ask
  <2>3. /\ \A r \in OutdatedInspector(listAsked) : Shaped(r) /\ (ForRun(r) => ~r.current)
        /\ \A r \in listAsked : ForList(r) => r \in OutdatedInspector(listAsked)
    BY OutdatedShaped
  <2>4. \A r \in listAsked' : ForRun(r) /\ r.current => r = ask
    BY <2>2, <2>3
  <2>5. AsksSelected'
    <3>1. inspectorTimer = selectedId /\ selectedId' = selectedId /\ inspectorTimer' = None
      BY <2>2 DEF AsksSelected
    <3> QED BY <2>1, <2>4, <3>1 DEF AsksSelected
  <2>6. InspectorMatches'
    BY <2>2 DEF InspectorMatches
  <2> QED BY <2>1, <2>2, <2>3, <2>5, <2>6, InspectorStep
<1>5. ASSUME NEW r \in listAsked, LoadInspectorAnswer(r) PROVE RInv'
  <2>1. /\ r.kind = "inspect" /\ listAsked' = listAsked \ {r}
        /\ UNCHANGED <<list, wide, selectedId, inspectorTimer, newest>>
        /\ IF r.current
           THEN inspectorDetail' \in {r.run, None} /\ inspectorLoading' = FALSE
           ELSE UNCHANGED <<inspectorDetail, inspectorLoading>>
    BY <1>5 DEF LoadInspectorAnswer
  <2>2. AsksSelected' /\ InspectorMatches'
    BY <2>1 DEF AsksSelected, InspectorMatches, ForRun
  <2>3. inspectorLoading' => \/ inspectorTimer' # None
                             \/ \E q \in listAsked' : q.kind = "inspect" /\ q.current
    BY <2>1 DEF SpinnersEnd
  <2> QED BY <2>1, <2>2, <2>3, InspectorStep DEF ForList
<1>6. ASSUME NEW r \in listAsked, LiveAnswer(r) PROVE RInv'
  <2>1. /\ r.kind = "live" /\ listAsked' = listAsked \ {r}
        /\ inspectorDetail' = inspectorDetail \/ (r.current /\ inspectorDetail' = r.run)
        /\ UNCHANGED <<list, wide, selectedId, inspectorLoading, inspectorTimer, newest>>
    BY <1>6 DEF LiveAnswer
  <2>2. AsksSelected' /\ InspectorMatches'
    BY <2>1 DEF AsksSelected, InspectorMatches, ForRun
  <2>3. inspectorLoading' => \/ inspectorTimer' # None
                             \/ \E q \in listAsked' : q.kind = "inspect" /\ q.current
    BY <2>1 DEF SpinnersEnd
  <2> QED BY <2>1, <2>2, <2>3, InspectorStep DEF ForList
<1> QED BY <1>2, <1>3, <1>4, <1>5, <1>6

LEMMA LoadAnswerStep ==
  ASSUME RInv, NEW r \in listAsked, LoadListAnswer(r)
  PROVE  RInv'
<1> USE DEF RInv
<1>1. r.kind = "load"
  BY DEF LoadListAnswer, Answered
<1>2. CASE r.version # listVersion
  <2>1. listAsked' = listAsked \ {r} /\ UNCHANGED <<list, inspector>>
    BY <1>2 DEF LoadListAnswer
  <2>2. listLoading' => \E q \in listAsked' : q.kind = "load" /\ q.version = listVersion'
    BY <1>2, <2>1 DEF SpinnersEnd, list
  <2>3. loadingMore' => \E q \in listAsked' : q.kind = "more"
    BY <1>1, <2>1 DEF SpinnersEnd, list
  <2> QED BY <1>1, <2>1, <2>2, <2>3, ListKeeps
<1>3. CASE r.version = listVersion
  <2>1. /\ listLoading' = FALSE /\ UNCHANGED <<loadingMore, listVersion, wide>>
        /\ \/ listAsked' = listAsked \ {r} /\ UNCHANGED inspector
           \/ \E run : Select(run, listAsked \ {r})
    BY <1>3 DEF LoadListAnswer
  <2>2. CASE listAsked' = listAsked \ {r} /\ UNCHANGED inspector
    <3>1. loadingMore' => \E q \in listAsked' : q.kind = "more"
      BY <1>1, <2>1, <2>2 DEF SpinnersEnd
    <3> QED BY <1>1, <2>1, <2>2, <3>1, ListKeeps
  <2>3. ASSUME NEW run, Select(run, listAsked \ {r}) PROVE RInv'
    <3>1. /\ \A q \in listAsked' : Shaped(q)
          /\ AsksSelected' /\ InspectorMatches'
          /\ inspectorLoading' => inspectorTimer' # None
          /\ \A q \in listAsked \ {r} : ForList(q) => q \in listAsked'
      BY <2>3, SelectRight
    <3>2. loadingMore' => \E q \in listAsked' : q.kind = "more"
      BY <1>1, <2>1, <3>1 DEF SpinnersEnd, ForList
    <3> QED BY <2>1, <3>1, <3>2 DEF SpinnersEnd
  <2> QED BY <2>1, <2>2, <2>3
<1> QED BY <1>2, <1>3

LEMMA ListSteps ==
  ASSUME RInv,
         \/ ChangeQuery \/ ShowNewer \/ Refresh \/ LoadMore \/ NewRun
         \/ \E r \in listAsked : \/ LoadListFails(r) \/ RefreshAnswer(r) \/ RefreshFails(r)
                                 \/ LoadMoreAnswer(r) \/ LoadMoreFails(r)
  PROVE  RInv'
<1> USE DEF RInv
<1>1. ASSUME NEW q, LoadList(q) PROVE RInv'
  <2> DEFINE ask == ListRequest("load", q, listVersion + 1, FALSE)
  <2>1. Shaped(ask) /\ ask.kind = "load" /\ ask.version = listVersion + 1
    BY DEF ListRequest, Shaped, ForList, ForRun
  <2> HIDE DEF ask
  <2>2. /\ listAsked' = listAsked \cup {ask} /\ listVersion' = listVersion + 1
        /\ UNCHANGED <<loadingMore, inspector>>
    BY <1>1 DEF LoadList, AskList, ask
  <2>3. loadingMore' => \E r \in listAsked' : r.kind = "more"
    BY <2>2 DEF SpinnersEnd
  <2> QED BY <2>1, <2>2, <2>3, ListKeeps DEF ForRun
<1>2. CASE ChangeQuery \/ ShowNewer
  BY <1>1, <1>2 DEF ChangeQuery, ShowNewer
<1>3. CASE Refresh
  <2> DEFINE ask == ListRequest("refresh", query, listVersion, Len(runs) > PageSize)
  <2>1. Shaped(ask) /\ ask.kind = "refresh"
    BY ListRequestShaped
  <2> HIDE DEF ask
  <2>2. /\ listAsked' = listAsked \cup {ask} /\ ~listLoading /\ ~loadingMore
        /\ UNCHANGED <<list, inspector>>
    BY <1>3 DEF Refresh, AskList, ask
  <2> QED BY <2>1, <2>2, ListKeeps DEF list, ForRun
<1>4. CASE LoadMore
  <2> DEFINE ask == [kind |-> "more", query |-> query, offset |-> Len(runs), rows |-> None,
                     total |-> 0]
  <2>1. Shaped(ask) /\ ask.kind = "more"
    BY DEF Shaped, ForList, ForRun
  <2> HIDE DEF ask
  <2>2. listAsked' = listAsked \cup {ask} /\ UNCHANGED <<listLoading, listVersion, inspector>>
    BY <1>4 DEF LoadMore, AskList, ask
  <2>3. listLoading' => \E r \in listAsked' : r.kind = "load" /\ r.version = listVersion'
    BY <2>2 DEF SpinnersEnd
  <2> QED BY <2>1, <2>2, <2>3, ListKeeps DEF ForRun
<1>5. CASE NewRun
  <2>1. UNCHANGED <<list, inspector, listAsked>>
    BY <1>5 DEF NewRun
  <2> QED BY <2>1 DEF list, inspector, AsksSelected, InspectorMatches, SpinnersEnd
<1>6. ASSUME NEW r \in listAsked, LoadListFails(r) PROVE RInv'
  <2>1. /\ r.kind = "load" /\ listAsked' = listAsked \ {r}
        /\ listLoading' => listLoading /\ r.version # listVersion
        /\ UNCHANGED <<loadingMore, listVersion, inspector>>
    BY <1>6 DEF LoadListFails
  <2>2. listLoading' => \E q \in listAsked' : q.kind = "load" /\ q.version = listVersion'
    BY <2>1 DEF SpinnersEnd
  <2>3. loadingMore' => \E q \in listAsked' : q.kind = "more"
    BY <2>1 DEF SpinnersEnd
  <2> QED BY <2>1, <2>2, <2>3, ListKeeps
<1>7. ASSUME NEW r \in listAsked, RefreshAnswer(r) PROVE RInv'
  <2> DEFINE live == RunRequest("live", selectedId)
  <2>1. Shaped(live) /\ live.kind = "live" /\ live.run = selectedId
    BY RunRequestShaped
  <2> HIDE DEF live
  <2>2. /\ r.kind = "refresh"
        /\ listAsked' = listAsked \ {r} \/ listAsked' = (listAsked \ {r}) \cup {live}
        /\ UNCHANGED <<listLoading, loadingMore, listVersion, inspector>>
    BY <1>7 DEF RefreshAnswer, Answered, live
  <2>3. listLoading' => \E q \in listAsked' : q.kind = "load" /\ q.version = listVersion'
    BY <2>2 DEF SpinnersEnd
  <2>4. loadingMore' => \E q \in listAsked' : q.kind = "more"
    BY <2>2 DEF SpinnersEnd
  <2>5. \A q \in listAsked' : q \in listAsked \/ q = live
    BY <2>2
  <2> QED BY <2>1, <2>2, <2>3, <2>4, <2>5, ListKeeps
<1>8. ASSUME NEW r \in listAsked, RefreshFails(r) PROVE RInv'
  <2>1. /\ r.kind \in {"refresh", "live"} /\ listAsked' = listAsked \ {r}
        /\ UNCHANGED <<list, inspector>>
    BY <1>8 DEF RefreshFails
  <2>2. listLoading' => \E q \in listAsked' : q.kind = "load" /\ q.version = listVersion'
    BY <2>1 DEF SpinnersEnd, list
  <2>3. loadingMore' => \E q \in listAsked' : q.kind = "more"
    BY <2>1 DEF SpinnersEnd, list
  <2> QED BY <2>1, <2>2, <2>3, ListKeeps
<1>9. ASSUME NEW r \in listAsked, LoadMoreAnswer(r) \/ LoadMoreFails(r) PROVE RInv'
  <2>1. /\ r.kind = "more" /\ listAsked' = listAsked \ {r} /\ loadingMore' = FALSE
        /\ UNCHANGED <<listLoading, listVersion, inspector>>
    BY <1>9 DEF LoadMoreAnswer, LoadMoreFails, Answered
  <2>2. listLoading' => \E q \in listAsked' : q.kind = "load" /\ q.version = listVersion'
    BY <2>1 DEF SpinnersEnd
  <2> QED BY <2>1, <2>2, ListKeeps
<1> QED BY <1>2, <1>3, <1>4, <1>5, <1>6, <1>7, <1>8, <1>9

-----------------------------------------------------------------------------
(* The theorems *)

LEMMA RInvInit == RunsInit => RInv
<1> SUFFICES ASSUME RunsInit PROVE RInv
  OBVIOUS
<1> DEFINE ask == ListRequest("load", query, 1, FALSE)
<1>1. Shaped(ask) /\ ask.kind = "load" /\ ask.version = 1
  BY DEF ListRequest, Shaped, ForList, ForRun
<1> HIDE DEF ask
<1>2. listAsked = {ask} /\ listVersion = 1 /\ loadingMore = FALSE /\ inspectorLoading = FALSE
      /\ inspectorTimer = None /\ inspectorDetail = None
  BY DEF RunsInit, ask
<1> QED BY <1>1, <1>2 DEF RInv, AsksSelected, InspectorMatches, SpinnersEnd, ForRun

LEMMA RInvStep == RInv /\ [RunsNext]_runsVars => RInv'
<1> SUFFICES ASSUME RInv, [RunsNext]_runsVars PROVE RInv'
  OBVIOUS
<1>1. CASE UNCHANGED runsVars
  BY <1>1 DEF runsVars, list, inspector, RInv, AsksSelected, InspectorMatches, SpinnersEnd
<1> QED BY <1>1, ServeStep, LoadAnswerStep, ListSteps, InspectorSteps DEF RunsNext, ListAnswer

THEOREM RunsInvariant == RunsSpec => []RInv
BY RInvInit, RInvStep, PTL DEF RunsSpec

\* What the inspector shows is about the selected run, in whatever order its requests are
\* answered and however often the list is read anew under it (Runs.svelte:213-242).
THEOREM InspectorRight == RunsSpec => []InspectorMatches
BY RunsInvariant, PTL DEF RInv

\* The spinners of the list, of its next page and of the inspector are ended by something
\* that is still under way (Runs.svelte:138, 188, 241).
THEOREM SpinnersStop == RunsSpec => []SpinnersEnd
BY RunsInvariant, PTL DEF RInv

-----------------------------------------------------------------------------
(* Sequences without repetition *)

\* The numbers below one of a finite set tell it from the others, and there are as many
\* counts as numbers.
LEMMA AscendingLists ==
  ASSUME NEW S \in SUBSET Int, IsFiniteSet(S)
  PROVE  /\ Cardinality(S) \in Nat
         /\ Ascending(S) \in [1 .. Cardinality(S) -> S]
         /\ IsInjective(Ascending(S))
<1> DEFINE size == Cardinality(S)
           Below(i) == {j \in S : j < i}
           count == [i \in S |-> Cardinality(Below(i)) + 1]
<1>1. size \in Nat
  BY FS_CardinalityType
<1>2. ASSUME NEW i \in S
      PROVE  IsFiniteSet(Below(i)) /\ Cardinality(Below(i)) \in Nat
  BY FS_Subset, FS_CardinalityType
<1>3. ASSUME NEW i \in S
      PROVE  Cardinality(Below(i)) < size
  <2>1. Below(i) \in SUBSET S /\ i \in S /\ i \notin Below(i)
    OBVIOUS
  <2>2. Cardinality(Below(i)) <= size /\ (size = Cardinality(Below(i)) => S = Below(i))
    BY <2>1, FS_Subset
  <2>3. size # Cardinality(Below(i))
    BY <2>1, <2>2
  <2> QED  BY <1>1, <1>2, <2>2, <2>3
<1>4. ASSUME NEW i \in S, NEW k \in S, i < k
      PROVE  Cardinality(Below(i)) < Cardinality(Below(k))
  <2>1. Below(i) \in SUBSET Below(k) /\ i \in Below(k) /\ i \notin Below(i)
    <3>1. i \in Int /\ k \in Int /\ \A j \in S : j \in Int
      OBVIOUS
    <3>2. \A j \in S : j < i => j < k
      BY <1>4, <3>1
    <3>3. ~(i < i)
      BY <3>1
    <3> QED  BY <1>4, <3>2, <3>3
  <2>2. /\ Cardinality(Below(i)) <= Cardinality(Below(k))
        /\ Cardinality(Below(k)) = Cardinality(Below(i)) => Below(k) = Below(i)
    BY <2>1, <1>2, FS_Subset
  <2>3. Cardinality(Below(k)) # Cardinality(Below(i))
    BY <2>1, <2>2
  <2> QED  BY <1>2, <2>2, <2>3
<1>5. count \in [S -> 1 .. size]
  <2> SUFFICES ASSUME NEW i \in S PROVE Cardinality(Below(i)) + 1 \in 1 .. size
    OBVIOUS
  <2> DEFINE c == Cardinality(Below(i))
  <2>1. c \in Nat /\ c < size
    BY <1>2, <1>3
  <2> HIDE DEF c, size
  <2>2. c + 1 \in 1 .. size
    BY <1>1, <2>1
  <2> QED  BY <2>2 DEF c
<1>6. IsInjective(count)
  <2> SUFFICES ASSUME NEW i \in S, NEW k \in S, i # k PROVE count[i] # count[k]
    BY DEF IsInjective
  <2> DEFINE c == Cardinality(Below(i))
             d == Cardinality(Below(k))
  <2>1. c \in Nat /\ d \in Nat /\ (c < d \/ d < c)
    BY <1>2, <1>4
  <2>2. count[i] = c + 1 /\ count[k] = d + 1
    OBVIOUS
  <2> HIDE DEF c, d, count
  <2> QED  BY <2>1, <2>2
<1>7. count \in Surjection(S, 1 .. size)
  <2>1. IsFiniteSet(1 .. size) /\ Cardinality(1 .. size) = size
    BY <1>1, FS_Interval
  <2>2. count \in Injection(S, 1 .. size)
    BY <1>5, <1>6 DEF Injection
  <2> HIDE DEF count
  <2> QED  BY <2>1, <2>2, FS_Injection
<1>8. ASSUME NEW n \in 1 .. size
      PROVE  Ascending(S)[n] \in S /\ Cardinality(Below(Ascending(S)[n])) = n - 1
  <2>1. PICK i \in S : count[i] = n
    BY <1>7, <1>8 DEF Surjection
  <2>2. Cardinality(Below(i)) = n - 1
    <3> DEFINE c == Cardinality(Below(i))
    <3>1. c \in Nat /\ c + 1 = n
      BY <1>2, <2>1
    <3> HIDE DEF c
    <3>2. c = n - 1
      BY <3>1
    <3> QED  BY <3>2 DEF c
  <2>3. Ascending(S)[n] = CHOOSE k \in S : Cardinality(Below(k)) = n - 1
    BY <1>8 DEF Ascending
  <2> QED  BY <2>2, <2>3
<1>9. Ascending(S) \in [1 .. size -> S]
  <2> DEFINE nth(n) == CHOOSE i \in S : Cardinality(Below(i)) = n - 1
  <2>1. Ascending(S) = [n \in 1 .. size |-> nth(n)]
    BY DEF Ascending
  <2> HIDE DEF nth
  <2>2. \A n \in 1 .. size : nth(n) \in S
    BY <1>8, <2>1
  <2> QED  BY <2>1, <2>2
<1>10. IsInjective(Ascending(S))
  <2> SUFFICES ASSUME NEW m \in 1 .. size, NEW n \in 1 .. size, Ascending(S)[m] = Ascending(S)[n]
               PROVE  m = n
    BY <1>9 DEF IsInjective
  <2>1. m - 1 = n - 1
    BY <1>8
  <2> QED  BY <2>1
<1> QED  BY <1>1, <1>9, <1>10

\* The runs of a page are runs that the filter selects, each of them once.
LEMMA PageLists ==
  ASSUME RunsPageAssumption, newest \in Nat, NEW q \in Queries, NEW offset \in Nat, NEW limit \in Nat
  PROVE  /\ Cardinality(Matching(q)) \in Nat
         /\ Page(q, offset, limit) \in Seq(RunIds)
         /\ IsInjective(Page(q, offset, limit))
<1> DEFINE M == Matching(q)
           found == Cardinality(M)
           last == Min({found, offset + limit})
           many == Max({last - offset, 0})
           page == Page(q, offset, limit)
<1>1. M \in SUBSET RunIds /\ M \in SUBSET Nat /\ \A i \in M : i <= newest
  BY DEF Matching, RunsPageAssumption
<1>2. IsFiniteSet(M) /\ M \in SUBSET Int
  <2> HIDE DEF M
  <2>1. IsFiniteSet(M)
    BY <1>1, FS_BoundedSetOfNaturals
  <2> QED  BY <1>1, <2>1
<1>3. /\ found \in Nat /\ Ascending(M) \in [1 .. found -> M] /\ IsInjective(Ascending(M))
  BY <1>2, AscendingLists
<1>4. page = [n \in 1 .. many |-> Ascending(M)[found + 1 - offset - n]]
  BY DEF Page
<1> HIDE DEF M, found
<1>5. last \in Nat /\ last <= found
  BY SMTT(30), <1>3 DEF Min
<1> HIDE DEF last
<1>6. many \in Nat /\ (many = 0 \/ many = last - offset)
  BY SMTT(30), <1>5 DEF Max
<1> HIDE DEF many, page
<1>7. \A n \in 1 .. many : found + 1 - offset - n \in 1 .. found
  BY <1>3, <1>5, <1>6
<1>8. page \in [1 .. many -> RunIds]
  BY <1>1, <1>3, <1>4, <1>7
<1>9. page \in Seq(RunIds)
  BY <1>6, <1>8
<1>10. IsInjective(page)
  <2> SUFFICES ASSUME NEW m \in 1 .. many, NEW n \in 1 .. many, page[m] = page[n]
               PROVE  m = n
    BY <1>8 DEF IsInjective
  <2>1. found + 1 - offset - m = found + 1 - offset - n
    BY <1>3, <1>4, <1>7 DEF IsInjective
  <2> QED  BY <1>3, <1>6, <2>1
<1> QED  BY <1>3, <1>9, <1>10 DEF M, found, page

\* What is appended was not listed, and is listed once.
LEMMA AppendedLists ==
  ASSUME NEW rows \in Seq(RunIds), IsInjective(rows), runs \in Seq(RunIds), IsInjective(runs)
  PROVE  Appended(rows) \in Seq(RunIds) /\ IsInjective(Appended(rows))
<1> DEFINE P == {n \in DOMAIN rows : rows[n] \notin ToSet(runs)}
           unlisted == Ascending(P)
           new == [k \in DOMAIN unlisted |-> rows[unlisted[k]]]
<1>1. P \in SUBSET (1 .. Len(rows)) /\ DOMAIN rows = 1 .. Len(rows) /\ Len(rows) \in Nat
  OBVIOUS
<1>2. IsFiniteSet(P) /\ P \in SUBSET Int
  <2>1. IsFiniteSet(1 .. Len(rows))
    BY <1>1, FS_Interval
  <2> HIDE DEF P
  <2>2. IsFiniteSet(P)
    BY <1>1, <2>1, FS_Subset
  <2> QED  BY <1>1, <2>2
<1>3. /\ Cardinality(P) \in Nat /\ unlisted \in [1 .. Cardinality(P) -> P] /\ IsInjective(unlisted)
  BY <1>2, AscendingLists
<1> DEFINE size == Cardinality(P)
<1> HIDE DEF unlisted, size
<1>4. /\ new \in [1 .. size -> RunIds]
      /\ \A k \in 1 .. size : unlisted[k] \in DOMAIN rows /\ new[k] = rows[unlisted[k]]
                             /\ new[k] \notin ToSet(runs)
  BY <1>3 DEF size
<1>5. size \in Nat /\ DOMAIN unlisted = 1 .. size
  BY <1>3 DEF size
<1>6. \A j, k \in 1 .. size : new[j] = new[k] => j = k
  BY <1>3, <1>4, <1>5 DEF IsInjective
<1> HIDE DEF new
<1>7. new \in Seq(RunIds) /\ Len(new) = size
  BY <1>4, <1>5
<1>8. Appended(rows) = runs \o new
  BY DEF Appended, new, unlisted
<1>9. /\ runs \o new \in Seq(RunIds)
      /\ DOMAIN (runs \o new) = 1 .. (Len(runs) + size)
      /\ \A k \in DOMAIN (runs \o new) :
           (runs \o new)[k] = IF k <= Len(runs) THEN runs[k] ELSE new[k - Len(runs)]
  <2> DEFINE all == runs \o new
  <2>1. /\ all \in Seq(RunIds) /\ Len(all) = Len(runs) + size
        /\ \A k \in 1 .. (Len(runs) + size) :
             all[k] = IF k <= Len(runs) THEN runs[k] ELSE new[k - Len(runs)]
    BY <1>7, ConcatProperties
  <2> HIDE DEF all
  <2>2. DOMAIN all = 1 .. (Len(runs) + size)
    BY <2>1
  <2> QED  BY <2>1, <2>2 DEF all
<1>10. \A k \in 1 .. Len(runs) : runs[k] \in ToSet(runs)
  BY DEF ToSet
<1>11. IsInjective(runs \o new)
  <2> DEFINE len == Len(runs)
             all == runs \o new
  <2>1. len \in Nat /\ DOMAIN runs = 1 .. len
    OBVIOUS
  <2> HIDE DEF len, all
  <2> SUFFICES ASSUME NEW j \in 1 .. (len + size), NEW k \in 1 .. (len + size), all[j] = all[k], j < k
               PROVE  FALSE
    BY SMTT(30), <1>5, <1>9, <2>1 DEF IsInjective, len, all
  <2>2. /\ all[j] = IF j <= len THEN runs[j] ELSE new[j - len]
        /\ all[k] = IF k <= len THEN runs[k] ELSE new[k - len]
    BY <1>9 DEF len, all
  <2>3. CASE k <= len
    <3>1. j \in 1 .. len /\ k \in 1 .. len /\ j # k /\ j <= len
      BY <1>5, <2>1, <2>3
    <3>2. runs[j] = runs[k]
      BY <2>2, <2>3, <3>1
    <3> QED  BY <2>1, <3>1, <3>2 DEF IsInjective
  <2>4. CASE j > len
    <3>1. j - len \in 1 .. size /\ k - len \in 1 .. size /\ j - len # k - len /\ ~(j <= len) /\ ~(k <= len)
      BY <1>5, <2>1, <2>4
    <3> QED  BY <1>6, <2>2, <3>1
  <2>5. CASE j <= len /\ k > len
    <3>1. j \in 1 .. len /\ k - len \in 1 .. size /\ ~(k <= len)
      BY <1>5, <2>1, <2>5
    <3> QED  BY <1>4, <1>10, <2>2, <2>5, <3>1 DEF len
  <2> QED  BY <1>5, <2>1, <2>3, <2>4, <2>5
<1> QED  BY <1>8, <1>9, <1>11

-----------------------------------------------------------------------------
(* The list: its types, and that a run is listed once *)

ListFlags == {listLoading, loadingMore, newerAvailable, inspectorLoading} \subseteq BOOLEAN

ListValues ==
  /\ query \in Queries /\ runs \in Seq(RunIds) /\ total \in Nat
  /\ wide \in Widths
  /\ selectedId \in MaybeRun /\ inspectorDetail \in MaybeRun /\ inspectorTimer \in MaybeRun
  /\ listVersion \in Nat /\ newest \in Nat

\* A page that was answered holds a run once.
Good(r) ==
  /\ r \in RunsRequest
  /\ ForList(r) /\ r.rows # None => IsInjective(r.rows)

LInv == ListFlags /\ ListValues /\ ListedOnce /\ \A r \in listAsked : Good(r)

LEMMA ListTypes == RunsTypeOK <=> ListFlags /\ ListValues /\ listAsked \subseteq RunsRequest
BY Zenon DEF RunsTypeOK, ListFlags, ListValues

LEMMA RequestKinds ==
  ASSUME NEW r \in RunsRequest
  PROVE  /\ r.kind \in {"load", "refresh"} =>
              r \in [kind : {"load", "refresh"}, version : Nat, query : Queries, paged : BOOLEAN,
                    rows : Seq(RunIds) \cup {None}, total : Nat]
         /\ r.kind = "more" =>
              r \in [kind : {"more"}, query : Queries, offset : Nat,
                    rows : Seq(RunIds) \cup {None}, total : Nat]
         /\ ForRun(r) => r \in [kind : {"inspect", "live"}, run : RunIds, current : BOOLEAN]
         /\ ForList(r) \/ ForRun(r)
BY DEF RunsRequest, ForRun, ForList

LEMMA NewRequestGood ==
  /\ \A kind \in {"load", "refresh"}, q \in Queries, version \in Nat, paged \in BOOLEAN :
       Good(ListRequest(kind, q, version, paged))
  /\ \A kind \in {"inspect", "live"}, run \in RunIds : Good(RunRequest(kind, run))
BY DEF Good, ListRequest, RunRequest, RunsRequest, ForList

LEMMA OutdatedGood ==
  ASSUME NEW rs, \A r \in rs : Good(r)
  PROVE  \A r \in OutdatedInspector(rs) : Good(r)
<1>1. ASSUME NEW q \in rs, ForRun(q)
      PROVE  Good([q EXCEPT !.current = FALSE])
  <2>1. q \in [kind : {"inspect", "live"}, run : RunIds, current : BOOLEAN]
    BY <1>1, RequestKinds DEF Good
  <2>2. [q EXCEPT !.current = FALSE] \in [kind : {"inspect", "live"}, run : RunIds, current : BOOLEAN]
    BY <2>1
  <2> QED  BY <2>2 DEF Good, RunsRequest, ForList
<1> QED  BY <1>1 DEF OutdatedInspector, ForRun

LEMMA ServedGood ==
  ASSUME RunsPageAssumption, LInv, NEW r \in listAsked, ServeList(r)
  PROVE  \A q \in listAsked' : Good(q)
<1> DEFINE rows == IF r.kind = "more" THEN Page(r.query, r.offset, PageSize)
                   ELSE Page(r.query, 0, IF r.paged THEN 1 ELSE PageSize)
           count == Cardinality(Matching(r.query))
           served == [r EXCEPT !.total = count, !.rows = rows]
<1>1. listAsked' = (listAsked \ {r}) \cup {served} /\ r.kind \in {"load", "refresh", "more"}
  BY DEF ServeList
<1>2. r \in RunsRequest /\ newest \in Nat
  BY DEF LInv, Good, ListValues
<1>3. r.query \in Queries /\ (r.kind = "more" => r.offset \in Nat)
  BY <1>1, <1>2, RequestKinds
<1>4. 0 \in Nat /\ 1 \in Nat /\ PageSize \in Nat
  BY DEF RunsPageAssumption
<1>5. count \in Nat /\ rows \in Seq(RunIds) /\ IsInjective(rows)
  <2>1. CASE r.kind = "more"
    BY <1>2, <1>3, <1>4, <2>1, PageLists
  <2>2. CASE r.kind # "more" /\ r.paged
    BY <1>2, <1>3, <1>4, <2>2, PageLists
  <2>3. CASE r.kind # "more" /\ ~r.paged
    BY <1>2, <1>3, <1>4, <2>3, PageLists
  <2> QED  BY <2>1, <2>2, <2>3
<1> HIDE DEF rows, count
<1>6. served \in RunsRequest /\ served.rows = rows
  <2>1. CASE r.kind \in {"load", "refresh"}
    BY <1>2, <1>5, <2>1, RequestKinds DEF RunsRequest
  <2>2. CASE r.kind = "more"
    BY <1>2, <1>5, <2>2, RequestKinds DEF RunsRequest
  <2> QED  BY <1>1, <2>1, <2>2
<1>7. Good(served)
  BY <1>5, <1>6 DEF Good
<1> HIDE DEF served
<1> QED  BY <1>1, <1>7 DEF LInv

\* Everything but Serve adds requests that are good and outdates others.
LEMMA SelectGood ==
  ASSUME NEW run, NEW rs, \A r \in rs : Good(r), Select(run, rs)
  PROVE  \A r \in listAsked' : Good(r)
BY OutdatedGood DEF Select

LEMMA GoodStep ==
  ASSUME RunsPageAssumption, LInv, [RunsNext]_runsVars
  PROVE  \A r \in listAsked' : Good(r)
<1>1. /\ \A r \in listAsked : Good(r) /\ r \in RunsRequest
      /\ query \in Queries /\ listVersion \in Nat /\ listVersion + 1 \in Nat /\ runs \in Seq(RunIds)
      /\ inspectorTimer \in RunIds \cup {None}
  BY DEF LInv, ListValues, MaybeRun, Good
<1>2. CASE UNCHANGED runsVars
  BY <1>1, <1>2 DEF runsVars
<1>3. ASSUME NEW q \in Queries, LoadList(q)
      PROVE  \A r \in listAsked' : Good(r)
  BY <1>1, <1>3, NewRequestGood DEF LoadList, AskList
<1>4. CASE ChangeQuery \/ ShowNewer
  BY <1>1, <1>3, <1>4 DEF ChangeQuery, ShowNewer
<1>5. CASE Refresh
  <2>1. (Len(runs) > PageSize) \in BOOLEAN
    BY <1>1 DEF RunsPageAssumption
  <2>2. Good(ListRequest("refresh", query, listVersion, Len(runs) > PageSize))
    BY <1>1, <2>1, NewRequestGood
  <2> QED  BY <1>1, <1>5, <2>2 DEF Refresh, AskList
<1>6. CASE LoadMore
  <2> DEFINE more == [kind |-> "more", query |-> query, offset |-> Len(runs), rows |-> None,
                      total |-> 0]
  <2>1. Good(more)
    BY <1>1 DEF Good, RunsRequest
  <2> HIDE DEF more
  <2> QED  BY <1>1, <1>6, <2>1 DEF LoadMore, AskList, more
<1>7. CASE Choose
  BY <1>1, <1>7, SelectGood DEF Choose
<1>8. CASE SyncWide
  BY <1>1, <1>8, SelectGood DEF SyncWide
<1>9. CASE LoadInspector
  BY <1>1, <1>9, OutdatedGood, NewRequestGood DEF LoadInspector
<1>10. CASE NewRun
  BY <1>1, <1>10 DEF NewRun
<1>11. ASSUME NEW r \in listAsked, LoadListAnswer(r)
       PROVE  \A q \in listAsked' : Good(q)
  <2>1. \A q \in listAsked \ {r} : Good(q)
    BY <1>1
  <2>2. listAsked' = listAsked \ {r} \/ \E run : Select(run, listAsked \ {r})
    BY <1>11 DEF LoadListAnswer
  <2> QED  BY <2>1, <2>2, SelectGood
<1>12. ASSUME NEW r \in listAsked, RefreshAnswer(r)
       PROVE  \A q \in listAsked' : Good(q)
  <2>1. r.rows \in Seq(RunIds)
    BY <1>1, <1>12, RequestKinds DEF RefreshAnswer, Answered
  <2>2. ToSet(r.rows) \subseteq RunIds
    BY <2>1 DEF ToSet
  <2>3. \/ listAsked' = listAsked \ {r}
        \/ selectedId \in RunIds /\ listAsked' = (listAsked \ {r}) \cup {RunRequest("live", selectedId)}
    BY <1>12, <2>2 DEF RefreshAnswer
  <2>4. selectedId \in RunIds => Good(RunRequest("live", selectedId))
    BY NewRequestGood
  <2> QED  BY <1>1, <2>3, <2>4
<1>13. ASSUME NEW r \in listAsked,
              \/ LoadListFails(r) \/ RefreshFails(r) \/ LoadMoreAnswer(r) \/ LoadMoreFails(r)
              \/ LoadInspectorAnswer(r) \/ LiveAnswer(r)
       PROVE  \A q \in listAsked' : Good(q)
  BY <1>1, <1>13
  DEF LoadListFails, RefreshFails, LoadMoreAnswer, LoadMoreFails, LoadInspectorAnswer, LiveAnswer
<1> QED
  BY <1>2, <1>4, <1>5, <1>6, <1>7, <1>8, <1>9, <1>10, <1>11, <1>12, <1>13, ServedGood
  DEF RunsNext, ListAnswer

LEMMA ListFlagsStep == ListFlags /\ [RunsNext]_runsVars => ListFlags'
<1> SUFFICES ASSUME ListFlags, [RunsNext]_runsVars
             PROVE  ListFlags'
  OBVIOUS
<1> USE DEF ListFlags, list, inspector
<1>1. CASE UNCHANGED runsVars
  BY <1>1, Zenon DEF runsVars
<1>2. CASE ChangeQuery \/ ShowNewer \/ Refresh \/ LoadMore \/ NewRun
  BY <1>2, Zenon DEF ChangeQuery, ShowNewer, LoadList, Refresh, LoadMore, NewRun
<1>3. CASE Choose \/ SyncWide \/ LoadInspector
  BY <1>3, Zenon DEF Choose, SyncWide, Select, LoadInspector
<1>4. ASSUME NEW r \in listAsked, ServeList(r) \/ LoadListAnswer(r) \/ LoadListFails(r)
      PROVE  ListFlags'
  BY <1>4, Zenon DEF ServeList, LoadListAnswer, LoadListFails, Select
<1>5. ASSUME NEW r \in listAsked, RefreshAnswer(r) \/ RefreshFails(r)
      PROVE  ListFlags'
  BY <1>5, Zenon DEF RefreshAnswer, RefreshFails
<1>6. ASSUME NEW r \in listAsked, \/ LoadMoreAnswer(r) \/ LoadMoreFails(r)
                                  \/ LoadInspectorAnswer(r) \/ LiveAnswer(r)
      PROVE  ListFlags'
  BY <1>6, Zenon DEF LoadMoreAnswer, LoadMoreFails, LoadInspectorAnswer, LiveAnswer
<1> QED  BY <1>1, <1>2, <1>3, <1>4, <1>5, <1>6 DEF RunsNext, ListAnswer

LEMMA SelectValues ==
  ASSUME NEW run \in MaybeRun, NEW rs, Select(run, rs), inspectorDetail \in MaybeRun
  PROVE  selectedId' \in MaybeRun /\ inspectorDetail' \in MaybeRun /\ inspectorTimer' \in MaybeRun
BY DEF Select, MaybeRun

\* Pages hold runs once, and what is listed was a page or is appended without repetition.
LEMMA ListValuesStep ==
  ASSUME RunsPageAssumption, LInv, [RunsNext]_runsVars
  PROVE  ListValues' /\ ListedOnce'
<1> USE DEF ListValues, ListedOnce, list, inspector
<1>1. ListValues /\ ListedOnce
  BY DEF LInv
<1>2. ToSet(runs) \subseteq RunIds
  BY <1>1 DEF ToSet
<1>3. ASSUME NEW r \in listAsked, r.kind \in {"load", "refresh", "more"}, r.rows # None
      PROVE  /\ r.rows \in Seq(RunIds) /\ IsInjective(r.rows) /\ r.total \in Nat
             /\ ToSet(r.rows) \subseteq RunIds
  <2>1. r \in RunsRequest /\ IsInjective(r.rows)
    BY <1>3 DEF LInv, Good, ForList
  <2>2. r.rows \in Seq(RunIds) /\ r.total \in Nat
    BY <1>3, <2>1, RequestKinds
  <2> QED  BY <2>1, <2>2 DEF ToSet
<1>4. ASSUME NEW r \in listAsked, r.kind \in {"inspect", "live"}
      PROVE  r.run \in MaybeRun
  BY <1>4, RequestKinds DEF LInv, Good, ForRun, MaybeRun
<1>5. CASE UNCHANGED runsVars
  BY <1>1, <1>5 DEF runsVars
<1>6. CASE ChangeQuery \/ ShowNewer
  <2>1. PICK q \in Queries : LoadList(q)
    BY <1>1, <1>6 DEF ChangeQuery, ShowNewer
  <2>2. query' = q /\ listVersion' = listVersion + 1 /\ UNCHANGED <<runs, total, inspector, newest>>
    BY <2>1 DEF LoadList
  <2> QED  BY <1>1, <2>2
<1>7. CASE Refresh \/ LoadMore
  BY <1>1, <1>7 DEF Refresh, LoadMore
<1>8. CASE NewRun
  BY <1>1, <1>8 DEF NewRun, RunsPageAssumption
<1>9. CASE Choose
  <2>1. PICK i \in DOMAIN runs : Select(runs[i], listAsked)
    BY <1>9 DEF Choose
  <2>2. runs[i] \in MaybeRun
    BY <1>1 DEF MaybeRun
  <2>3. UNCHANGED <<wide, list, newest>>
    BY <1>9 DEF Choose
  <2> QED  BY <1>1, <2>1, <2>2, <2>3, SelectValues
<1>10. CASE SyncWide
  BY <1>1, <1>2, <1>10, SelectValues DEF SyncWide, MaybeRun
<1>11. CASE LoadInspector
  BY <1>1, <1>11 DEF LoadInspector, MaybeRun
<1>12. ASSUME NEW r \in listAsked, ServeList(r) \/ LoadListFails(r) \/ RefreshFails(r) \/ LoadMoreFails(r)
       PROVE  ListValues' /\ ListedOnce'
  BY <1>1, <1>12 DEF ServeList, LoadListFails, RefreshFails, LoadMoreFails
<1>13. ASSUME NEW r \in listAsked, LoadListAnswer(r)
       PROVE  ListValues' /\ ListedOnce'
  <2>1. r.rows \in Seq(RunIds) /\ IsInjective(r.rows) /\ r.total \in Nat
    BY <1>3, <1>13 DEF LoadListAnswer, Answered
  <2>2. (IF r.rows = <<>> THEN None ELSE Head(r.rows)) \in MaybeRun
    BY <2>1 DEF MaybeRun
  <2> QED  BY <1>1, <1>13, <2>1, <2>2, SelectValues DEF LoadListAnswer
<1>14. ASSUME NEW r \in listAsked, RefreshAnswer(r)
       PROVE  ListValues' /\ ListedOnce'
  <2>1. r.rows \in Seq(RunIds) /\ IsInjective(r.rows) /\ r.total \in Nat
    BY <1>3, <1>14 DEF RefreshAnswer, Answered
  <2> QED  BY <1>1, <1>14, <2>1 DEF RefreshAnswer
<1>15. ASSUME NEW r \in listAsked, LoadMoreAnswer(r)
       PROVE  ListValues' /\ ListedOnce'
  <2>1. r.rows \in Seq(RunIds) /\ IsInjective(r.rows) /\ r.total \in Nat
    BY <1>3, <1>15 DEF LoadMoreAnswer, Answered
  <2>2. Appended(r.rows) \in Seq(RunIds) /\ IsInjective(Appended(r.rows))
    BY <1>1, <2>1, AppendedLists
  <2> QED  BY <1>1, <1>15, <2>1, <2>2 DEF LoadMoreAnswer
<1>16. ASSUME NEW r \in listAsked, LoadInspectorAnswer(r) \/ LiveAnswer(r)
       PROVE  ListValues' /\ ListedOnce'
  BY <1>1, <1>4, <1>16 DEF LoadInspectorAnswer, LiveAnswer, MaybeRun
<1> QED
  BY <1>5, <1>6, <1>7, <1>8, <1>9, <1>10, <1>11, <1>12, <1>13, <1>14, <1>15, <1>16
  DEF RunsNext, ListAnswer

LEMMA LInvInit == RunsInit => LInv
<1> SUFFICES ASSUME RunsInit
             PROVE  LInv
  OBVIOUS
<1>1. ListFlags
  BY Zenon DEF RunsInit, ListFlags
<1>2. ListValues /\ ListedOnce
  BY RunsPageAssumption DEF RunsInit, ListValues, ListedOnce, MaybeRun, RunsPageAssumption, IsInjective
<1>3. \A r \in listAsked : Good(r)
  BY NewRequestGood DEF RunsInit
<1> QED  BY <1>1, <1>2, <1>3 DEF LInv

LEMMA LInvStep == LInv /\ [RunsNext]_runsVars => LInv'
BY RunsPageAssumption, ListFlagsStep, ListValuesStep, GoodStep DEF LInv

LEMMA ListInvariant == RunsSpec => []LInv
BY LInvInit, LInvStep, PTL DEF RunsSpec

\* The types of the state of the list and of what its handlers keep over an await
\* (Runs.svelte:32-54).
THEOREM RunsTyped == RunsSpec => []RunsTypeOK
<1>1. LInv => RunsTypeOK
  BY ListTypes DEF LInv, Good
<1> QED  BY <1>1, ListInvariant, PTL

\* A run is listed once for any filters, page size and number of runs, whatever shifted the
\* offset of a page and in whatever order its answers come (Runs.svelte:178-183).
THEOREM RunsListedOnce == RunsSpec => []ListedOnce
BY ListInvariant, PTL DEF LInv
=============================================================================
