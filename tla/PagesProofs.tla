----------------------------- MODULE PagesProofs -----------------------------
(***************************************************************************)
(* What the sandboxes page and the log of a run promise for any number of  *)
(* sandboxes, lists, rounds and workers and for every log and every size   *)
(* of its window; and that the pages of MCPages keep their types together. *)
(*                                                                         *)
(* The sandboxes page: CoverInv is inductive.  A row that is not decided   *)
(* is covered because a round is never without a worker while it has       *)
(* something queued, which in turn holds round by round.                   *)
(*                                                                         *)
(* The log: LogInv is inductive.  The window is right because the buffer   *)
(* is: its pieces lie in what is written (Sound), the newest of them join  *)
(* (Newest), start is where the first one begins until a line may have     *)
(* been trimmed (Untrimmed), and all of them are whole lines that follow   *)
(* each other unless a part was torn (Neat).  The lemmas before it say     *)
(* what cutting a text into lines, counting the bytes of lines and the     *)
(* operations of the buffer do, for all of their arguments.                *)
(***************************************************************************)
EXTENDS MCPages, WorkbenchProofs, ProjectEditorProofs, FiniteSetTheorems, SequenceTheorems, TLAPS

-----------------------------------------------------------------------------
(* The sandboxes page *)

\* What a round keeps: it asks for what nobody knows of its own rows, has no queue before
\* its activity is known, and its workers are busy while there is one.
RoundRight(r) ==
  /\ r.unknown \subseteq r.items
  /\ r.stage = "activity" => r.queue = {} /\ r.asked = {}
  /\ r.queue \cap r.asked = {}
  /\ WorkersBusy(r)

\* A row of which nothing is known is among those that a round asks the activity for.
UnaskedCovered ==
  \A i \in rows : automationRuns[i] = "unasked" =>
    \E n \in DOMAIN rounds : rounds[n].stage = "activity" /\ i \in rounds[n].unknown

\* A row without an automation whose runs were not counted is in a round that will.
UncountedCovered ==
  \A i \in rows : automationRuns[i] = "none" /\ i \notin runStats =>
    \E n \in DOMAIN rounds :
      \/ rounds[n].stage = "activity" /\ i \in rounds[n].items
      \/ i \in rounds[n].queue \cup rounds[n].asked

RoundsRight == \A n \in DOMAIN rounds : RoundRight(rounds[n])

CoverInv == SandboxesTypeOK /\ RoundsRight /\ UnaskedCovered /\ UncountedCovered


\* Whatever the workers take of a queue, those of a round are busy again, and what is in
\* the round stays in it.
LEMMA WorkedRight ==
  ASSUME NEW r \in Round, r.queue \cap r.asked = {}, r.stage = "stats",
         r.unknown \subseteq r.items,
         Cardinality(r.asked) <= Concurrency,
         NEW w \in Worked(r)
  PROVE  /\ w \in Round /\ RoundRight(w)
         /\ w.stage = r.stage /\ w.items = r.items /\ w.unknown = r.unknown
         /\ w.queue \cup w.asked = r.queue \cup r.asked
<1>1. PICK taken \in Taken(r) :
        w = [r EXCEPT !.queue = @ \ taken, !.asked = @ \cup taken]
  BY DEF Worked
<1>2. /\ taken \subseteq r.queue
      /\ r.asked \subseteq Ids /\ r.queue \subseteq Ids
  BY <1>1 DEF Taken, Round
<1>3. /\ w \in Round
      /\ w.queue = r.queue \ taken /\ w.asked = r.asked \cup taken
      /\ w.stage = r.stage /\ w.items = r.items /\ w.unknown = r.unknown
  BY <1>1, <1>2 DEF Round
<1>4. w.queue \cup w.asked = r.queue \cup r.asked /\ w.queue \cap w.asked = {}
  BY <1>2, <1>3
<1> DEFINE all == r.asked \cup r.queue
           kept == r.asked \cup taken
<1>5. /\ IsFiniteSet(all) /\ IsFiniteSet(kept)
      /\ Cardinality(all) \in Nat /\ Cardinality(kept) \in Nat
      /\ Cardinality(all) = Cardinality(kept) => all = kept
  <2>1. all \in SUBSET Ids /\ kept \in SUBSET all
    BY <1>2
  <2>2. IsFiniteSet(all)
    BY <2>1, FS_Subset, SandboxesPageAssumption
  <2>3. IsFiniteSet(kept) /\ (Cardinality(all) = Cardinality(kept) => all = kept)
    BY <2>1, <2>2, FS_Subset
  <2> QED
    BY <2>2, <2>3, FS_CardinalityType
<1>6. Cardinality(kept) = IF Cardinality(all) < Concurrency THEN Cardinality(all)
                          ELSE Concurrency
  BY <1>1 DEF Taken
<1>7. Cardinality(w.asked) = Cardinality(kept)
  BY <1>3
<1>8. Cardinality(all) < Concurrency => w.queue = {}
  <2>1. SUFFICES ASSUME Cardinality(all) < Concurrency PROVE w.queue = {}
    OBVIOUS
  <2>2. all = kept
    BY <2>1, <1>5, <1>6
  <2> QED
    BY <2>2, <1>2, <1>3, <1>4
<1> HIDE DEF all, kept
<1>9. WorkersBusy(w)
  BY <1>5, <1>6, <1>7, <1>8, SandboxesPageAssumption DEF WorkersBusy
<1> QED
  BY <1>3, <1>4, <1>9 DEF RoundRight

\* The invariant holds at first.
LEMMA CoverInit == SandboxesInit => CoverInv
<1> SUFFICES ASSUME SandboxesInit PROVE CoverInv
  OBVIOUS
<1>1. rounds = <<>> /\ DOMAIN rounds = {} /\ rows = {}
  BY DEF SandboxesInit
<1>2. SandboxesTypeOK
  <2>1. {loading, refreshing, error} \subseteq BOOLEAN
    BY Zenon DEF SandboxesInit
  <2>2. rounds \in Seq(Round)
    BY <1>1
  <2> QED
    BY <2>1, <2>2 DEF SandboxesInit, SandboxesTypeOK
<1> QED
  BY <1>1, <1>2 DEF CoverInv, RoundsRight, UnaskedCovered, UncountedCovered

\* A list that is asked for, or that fails, changes no row and no round.
LEMMA AskKeepsCover ==
  ASSUME CoverInv,
         \/ \E q \in Queries, background \in BOOLEAN : Load(q, background)
         \/ \E r \in lists : LoadFails(r)
  PROVE  CoverInv'
<1>1. UNCHANGED <<rows, automationRuns, runStats, rounds>>
  BY DEF Load, LoadFails
<1>2. SandboxesTypeOK'
  <2>1. {loading', refreshing', error'} \subseteq BOOLEAN
    BY Zenon DEF CoverInv, SandboxesTypeOK, Load, LoadFails
  <2>2. query' \in Queries /\ lists' \subseteq [query : Queries, background : BOOLEAN]
    BY DEF CoverInv, SandboxesTypeOK, Load, LoadFails
  <2> QED
    BY <1>1, <2>1, <2>2 DEF CoverInv, SandboxesTypeOK
<1> QED
  BY <1>1, <1>2 DEF CoverInv, RoundsRight, UnaskedCovered, UncountedCovered

\* A list that arrives brings a round for all of its rows.
LEMMA AnswerKeepsCover ==
  ASSUME CoverInv, NEW r \in lists, LoadAnswer(r)
  PROVE  CoverInv'
<1> DEFINE new == [items |-> ItemsOf[r.query],
                   unknown |-> {i \in ItemsOf[r.query] : automationRuns'[i] = "unasked"},
                   stage |-> "activity", queue |-> {}, asked |-> {}]
           n == Len(rounds) + 1
<1>1. /\ SandboxesTypeOK
      /\ ItemsOf[r.query] \in SUBSET Ids /\ r \in [query : Queries, background : BOOLEAN]
  BY SandboxesPageAssumption DEF CoverInv, SandboxesTypeOK
<1>2. new \in Round
  BY <1>1 DEF Round
<1>3. rounds' = Append(rounds, new)
  BY DEF LoadAnswer
<1>4. /\ rounds' \in Seq(Round) /\ DOMAIN rounds' = 1 .. n /\ n \in DOMAIN rounds'
      /\ rounds'[n] = new
      /\ \A m \in DOMAIN rounds' : m # n => m \in DOMAIN rounds /\ rounds'[m] = rounds[m]
  <2> HIDE DEF new
  <2> QED
    BY <1>1, <1>2, <1>3 DEF SandboxesTypeOK
<1>5. SandboxesTypeOK'
  <2>1. {loading', refreshing', error'} \subseteq BOOLEAN
    BY <1>1, Zenon DEF SandboxesTypeOK, LoadAnswer
  <2>2. /\ automationRuns' \in [Ids -> {"unasked", "none", "run"}] /\ runStats' \subseteq Ids
        /\ rows' \subseteq Ids /\ query' \in Queries
        /\ lists' \subseteq [query : Queries, background : BOOLEAN]
    BY <1>1 DEF SandboxesTypeOK, LoadAnswer
  <2> QED
    BY <1>4, <2>1, <2>2 DEF SandboxesTypeOK
<1>6. RoundsRight'
  <2>1. Cardinality({}) = 0
    BY FS_EmptySet
  <2>2. RoundRight(new)
    BY <1>1, <2>1, SandboxesPageAssumption DEF RoundRight, WorkersBusy
  <2> QED
    BY <1>4, <2>2 DEF CoverInv, RoundsRight
<1>7. rows' = ItemsOf[r.query]
  BY DEF LoadAnswer
<1>8. UnaskedCovered' /\ UncountedCovered'
  BY <1>4, <1>7 DEF UnaskedCovered, UncountedCovered
<1> QED
  BY <1>5, <1>6, <1>8 DEF CoverInv

\* A round n that gets its workers to work leaves the others alone.
LEMMA RoundChanges ==
  ASSUME CoverInv, NEW n \in DOMAIN rounds, NEW w \in Round, RoundRight(w),
         rounds' = [rounds EXCEPT ![n] = w]
  PROVE  /\ rounds' \in Seq(Round) /\ DOMAIN rounds' = DOMAIN rounds
         /\ rounds'[n] = w /\ \A m \in DOMAIN rounds : m # n => rounds'[m] = rounds[m]
         /\ RoundsRight'
<1>1. rounds \in Seq(Round)
  BY DEF CoverInv, SandboxesTypeOK
<1>2. /\ rounds' \in Seq(Round) /\ DOMAIN rounds' = DOMAIN rounds
      /\ rounds'[n] = w /\ \A m \in DOMAIN rounds : m # n => rounds'[m] = rounds[m]
  BY <1>1
<1> QED
  BY <1>2 DEF CoverInv, RoundsRight

\* The activity of a round decides what was unknown of its rows and puts those without an
\* automation and without counted runs into the queue.
LEMMA ActivityKeepsCover ==
  ASSUME CoverInv, NEW n \in DOMAIN rounds, ActivityAnswer(n)
  PROVE  CoverInv'
<1> DEFINE r == rounds[n]
           q == [r EXCEPT !.stage = "stats", !.queue = Queue(r, automationRuns')]
<1>1. /\ r \in Round /\ RoundRight(r) /\ r.stage = "activity" /\ r.queue = {} /\ r.asked = {}
      /\ automationRuns \in [Ids -> {"unasked", "none", "run"}] /\ rows \subseteq Ids
  BY DEF CoverInv, SandboxesTypeOK, RoundsRight, RoundRight, ActivityAnswer
<1>2. PICK found \in {Automated, {}} :
        automationRuns' = [i \in Ids |-> IF i \notin r.unknown THEN automationRuns[i]
                                         ELSE IF i \in found THEN "run" ELSE "none"]
  BY DEF ActivityAnswer
<1>3. /\ automationRuns' \in [Ids -> {"unasked", "none", "run"}]
      /\ \A i \in Ids : i \in r.unknown => automationRuns'[i] # "unasked"
      /\ \A i \in Ids : i \notin r.unknown => automationRuns'[i] = automationRuns[i]
  BY <1>1, <1>2
<1>4. PICK w \in Worked(q) : rounds' = [rounds EXCEPT ![n] = w]
  BY DEF ActivityAnswer
<1>5. /\ q \in Round /\ q.stage = "stats" /\ q.asked = {} /\ q.unknown \subseteq q.items
      /\ q.items = r.items
      /\ q.queue = {i \in r.items : automationRuns'[i] # "run" /\ i \notin runStats}
  BY <1>1 DEF Round, RoundRight, Queue
<1> HIDE DEF q
<1>6. q.queue \cap q.asked = {} /\ Cardinality(q.asked) <= Concurrency
  BY <1>5, FS_EmptySet, SandboxesPageAssumption
<1>7. /\ w \in Round /\ RoundRight(w)
      /\ w.stage = "stats" /\ w.queue \cup w.asked = q.queue \cup q.asked
  BY <1>4, <1>5, <1>6, WorkedRight
<1>8. /\ rounds' \in Seq(Round) /\ DOMAIN rounds' = DOMAIN rounds
      /\ rounds'[n] = w /\ \A m \in DOMAIN rounds : m # n => rounds'[m] = rounds[m]
      /\ RoundsRight'
  BY <1>4, <1>7, RoundChanges
<1>9. SandboxesTypeOK'
  <2>1. UNCHANGED <<query, rows, loading, refreshing, error, runStats, lists>>
    BY DEF ActivityAnswer
  <2> QED
    BY <1>3, <1>8, <2>1 DEF CoverInv, SandboxesTypeOK
<1>10. rows' = rows /\ runStats' = runStats
  BY DEF ActivityAnswer
<1>11. UnaskedCovered'
  <2> SUFFICES ASSUME NEW i \in rows, automationRuns'[i] = "unasked"
               PROVE  \E m \in DOMAIN rounds' : rounds'[m].stage = "activity" /\ i \in rounds'[m].unknown
    BY <1>10 DEF UnaskedCovered
  <2>1. i \notin r.unknown /\ automationRuns[i] = "unasked"
    BY <1>1, <1>3
  <2>2. PICK m \in DOMAIN rounds : rounds[m].stage = "activity" /\ i \in rounds[m].unknown
    BY <2>1 DEF CoverInv, UnaskedCovered
  <2> QED
    BY <1>8, <2>1, <2>2
<1>12. UncountedCovered'
  <2> SUFFICES ASSUME NEW i \in rows, automationRuns'[i] = "none", i \notin runStats
               PROVE  \E m \in DOMAIN rounds' :
                        \/ rounds'[m].stage = "activity" /\ i \in rounds'[m].items
                        \/ i \in rounds'[m].queue \cup rounds'[m].asked
    BY <1>10 DEF UncountedCovered
  <2>1. CASE i \in r.items
    <3>1. i \in q.queue
      BY <1>5, <2>1
    <3> QED
      BY <1>7, <1>8, <3>1
  <2>2. CASE i \notin r.items
    <3>1. i \notin r.unknown /\ automationRuns[i] = "none"
      BY <1>1, <1>3, <2>2 DEF RoundRight
    <3>2. PICK m \in DOMAIN rounds :
            \/ rounds[m].stage = "activity" /\ i \in rounds[m].items
            \/ i \in rounds[m].queue \cup rounds[m].asked
      BY <3>1 DEF CoverInv, UncountedCovered
    <3>3. m # n
      BY <1>1, <2>2, <3>2
    <3> QED
      BY <1>8, <3>2, <3>3
  <2> QED
    BY <2>1, <2>2
<1> QED
  BY <1>8, <1>9, <1>11, <1>12 DEF CoverInv

\* A worker's answer counts the runs of its sandbox, and the rest of its round stays in it.
LEMMA StatsKeepCover ==
  ASSUME CoverInv, NEW n \in DOMAIN rounds, StatsAnswer(n)
  PROVE  CoverInv'
<1> DEFINE r == rounds[n]
<1>1. /\ r \in Round /\ RoundRight(r)
  BY DEF CoverInv, SandboxesTypeOK, RoundsRight
<1>2. PICK i \in r.asked :
        /\ runStats' = runStats \cup {i}
        /\ \E w \in Worked([r EXCEPT !.asked = @ \ {i}]) : rounds' = [rounds EXCEPT ![n] = w]
        /\ UNCHANGED <<query, rows, loading, refreshing, error, automationRuns, lists>>
  BY DEF StatsAnswer
<1> DEFINE q == [r EXCEPT !.asked = @ \ {i}]
<1>3. PICK w \in Worked(q) : rounds' = [rounds EXCEPT ![n] = w]
  BY <1>2
<1>4. /\ q \in Round /\ q.stage = r.stage /\ q.asked = r.asked \ {i} /\ q.queue = r.queue
      /\ q.items = r.items /\ q.unknown = r.unknown
  BY <1>1 DEF Round
<1> HIDE DEF q
<1>5. i \in Ids /\ r.asked \in SUBSET Ids /\ q.stage = "stats"
  BY <1>1, <1>2, <1>4 DEF Round, RoundRight
<1>6. Cardinality(q.asked) <= Concurrency
  <2>1. IsFiniteSet(r.asked)
    BY <1>5, FS_Subset, SandboxesPageAssumption
  <2>2. Cardinality(q.asked) <= Cardinality(r.asked) /\ Cardinality(q.asked) \in Nat
        /\ Cardinality(r.asked) \in Nat
    <3>1. q.asked \in SUBSET r.asked
      BY <1>4
    <3> QED
      BY <2>1, <3>1, FS_Subset, FS_CardinalityType
  <2>3. Cardinality(r.asked) <= Concurrency
    BY <1>1 DEF RoundRight, WorkersBusy
  <2> QED
    BY <2>2, <2>3, SandboxesPageAssumption
<1>7. q.queue \cap q.asked = {} /\ q.unknown \subseteq q.items
  BY <1>1, <1>4 DEF RoundRight
<1>8. /\ w \in Round /\ RoundRight(w)
      /\ w.stage = "stats" /\ w.queue \cup w.asked = q.queue \cup q.asked
  BY <1>3, <1>4, <1>5, <1>6, <1>7, WorkedRight
<1>9. /\ rounds' \in Seq(Round) /\ DOMAIN rounds' = DOMAIN rounds
      /\ rounds'[n] = w /\ \A m \in DOMAIN rounds : m # n => rounds'[m] = rounds[m]
      /\ RoundsRight'
  BY <1>3, <1>8, RoundChanges
<1>10. SandboxesTypeOK'
  BY <1>2, <1>5, <1>9 DEF CoverInv, SandboxesTypeOK
<1>11. UnaskedCovered'
  <2> SUFFICES ASSUME NEW j \in rows, automationRuns[j] = "unasked"
               PROVE  \E m \in DOMAIN rounds' : rounds'[m].stage = "activity" /\ j \in rounds'[m].unknown
    BY <1>2 DEF UnaskedCovered
  <2>1. PICK m \in DOMAIN rounds : rounds[m].stage = "activity" /\ j \in rounds[m].unknown
    BY DEF CoverInv, UnaskedCovered
  <2>2. m # n
    BY <1>4, <1>5, <2>1
  <2> QED
    BY <1>9, <2>1, <2>2
<1>12. UncountedCovered'
  <2> SUFFICES ASSUME NEW j \in rows, automationRuns[j] = "none", j \notin runStats, j # i
               PROVE  \E m \in DOMAIN rounds' :
                        \/ rounds'[m].stage = "activity" /\ j \in rounds'[m].items
                        \/ j \in rounds'[m].queue \cup rounds'[m].asked
    BY <1>2 DEF UncountedCovered
  <2>1. PICK m \in DOMAIN rounds :
          \/ rounds[m].stage = "activity" /\ j \in rounds[m].items
          \/ j \in rounds[m].queue \cup rounds[m].asked
    BY DEF CoverInv, UncountedCovered
  <2>2. CASE m = n
    <3>1. j \in q.queue \cup q.asked
      BY <1>4, <1>5, <2>1, <2>2
    <3> QED
      BY <1>8, <1>9, <3>1
  <2>3. CASE m # n
    BY <1>9, <2>1, <2>3
  <2> QED
    BY <2>2, <2>3
<1> QED
  BY <1>9, <1>10, <1>11, <1>12 DEF CoverInv

LEMMA CoverStep == CoverInv /\ [SandboxesNext]_sandboxesVars => CoverInv'
<1> SUFFICES ASSUME CoverInv, [SandboxesNext]_sandboxesVars PROVE CoverInv'
  OBVIOUS
<1>1. CASE ChangeQuery
  BY <1>1, AskKeepsCover DEF ChangeQuery
<1>2. CASE RefreshButton
  <2>1. query \in Queries
    BY DEF CoverInv, SandboxesTypeOK
  <2> QED
    BY <1>2, <2>1, AskKeepsCover DEF RefreshButton
<1>3. CASE \E r \in lists : LoadAnswer(r)
  BY <1>3, AnswerKeepsCover
<1>4. CASE \E r \in lists : LoadFails(r)
  BY <1>4, AskKeepsCover
<1>5. CASE \E n \in DOMAIN rounds : ActivityAnswer(n)
  BY <1>5, ActivityKeepsCover
<1>6. CASE \E n \in DOMAIN rounds : StatsAnswer(n)
  BY <1>6, StatsKeepCover
<1>7. CASE UNCHANGED sandboxesVars
  BY <1>7 DEF sandboxesVars, CoverInv, SandboxesTypeOK, RoundsRight, UnaskedCovered,
              UncountedCovered
<1> QED
  BY <1>1, <1>2, <1>3, <1>4, <1>5, <1>6, <1>7 DEF SandboxesNext

LEMMA CoverSuffices == CoverInv => RowsCovered
<1> SUFFICES ASSUME CoverInv PROVE RowsCovered
  OBVIOUS
<1>1. \A n \in DOMAIN rounds : RoundRight(rounds[n])
  BY DEF CoverInv, RoundsRight
<1>2. ASSUME NEW i \in rows, Undecided(i)
      PROVE  \E n \in DOMAIN rounds :
               \/ rounds[n].stage = "activity" /\ i \in rounds[n].items
               \/ i \in rounds[n].queue \cup rounds[n].asked
  BY <1>1, <1>2 DEF CoverInv, UnaskedCovered, UncountedCovered, Undecided, RoundRight
<1> QED
  BY <1>1, <1>2 DEF RowsCovered, RoundRight

\* The state of the sandboxes page has its type.
THEOREM SandboxesAreTyped == SandboxesSpec => []SandboxesTypeOK
<1>1. CoverInv => SandboxesTypeOK
  BY DEF CoverInv
<1> QED
  BY <1>1, CoverInit, CoverStep, PTL DEF SandboxesSpec

\* Every row that is not decided is in hand, whatever lists, queries and rounds overlap.
THEOREM EveryRowCovered == SandboxesSpec => []RowsCovered
  BY CoverInit, CoverStep, CoverSuffices, PTL DEF SandboxesSpec

-----------------------------------------------------------------------------
(* The log of a run: numbers, and the newlines of a text counted off *)

\* The least number of a set.
LEMMA Smallest ==
  ASSUME NEW S \in SUBSET Nat, S # {}
  PROVE  \E m \in S : \A x \in S : m <= x
<1>1. PICK m \in S : \A x \in S : ~ (<<x, m>> \in OpToRel(<, Nat))
  <2> DEFINE R == OpToRel(<, Nat)
  <2>1. IsWellFoundedOn(R, Nat)
    BY NatLessThanWellFounded
  <2>2. S \subseteq Nat
    OBVIOUS
  <2> HIDE DEF R
  <2>3. \E m \in S : \A x \in S : ~ (<<x, m>> \in R)
    BY <2>1, <2>2, WFMin
  <2> QED
    BY <2>3 DEF R
<1>2. \A x \in S : ~ (x < m)
  BY <1>1 DEF OpToRel
<1> QED
  BY <1>2

\* The greatest one of a bounded set.
LEMMA Largest ==
  ASSUME NEW k \in Nat, NEW S \in SUBSET (0 .. k), S # {}
  PROVE  \E m \in S : \A x \in S : x <= m
<1> DEFINE T == {k - x : x \in S}
<1>1. T \in SUBSET Nat /\ T # {}
  <2>1. \A x \in S : k - x \in Nat
    OBVIOUS
  <2> QED
    BY <2>1, Zenon
<1>2. PICK t \in T : \A x \in T : t <= x
  <2> HIDE DEF T
  <2> QED
    BY <1>1, Smallest
<1>3. PICK m \in S : t = k - m
  BY <1>2
<1>4. \A x \in S : k - m <= k - x
  BY <1>2, <1>3
<1> QED
  BY <1>4

\* The elements of S below x
Below(S, x) == {y \in S : y < x}

\* How many of S are below x tells the elements of S apart.
LEMMA BelowFinite ==
  ASSUME NEW S \in SUBSET (0 .. LogEnd)
  PROVE  /\ IsFiniteSet(S) /\ Cardinality(S) \in Nat /\ S \subseteq Nat
         /\ \A x \in S : IsFiniteSet(Below(S, x)) /\ Cardinality(Below(S, x)) \in Nat
<1>0. LogEnd \in Nat /\ S \subseteq Nat
  BY LogFeedAssumption
<1>1. IsFiniteSet(0 .. LogEnd)
  BY <1>0, FS_Interval
<1>2. IsFiniteSet(S)
  BY <1>1, FS_Subset
<1>3. ASSUME NEW x \in S
      PROVE  IsFiniteSet(Below(S, x)) /\ Cardinality(Below(S, x)) \in Nat
  <2>1. Below(S, x) \in SUBSET S
    BY DEF Below
  <2> QED
    BY <1>2, <2>1, FS_Subset, FS_CardinalityType
<1> QED
  BY <1>0, <1>2, <1>3, FS_CardinalityType

LEMMA BelowGrows ==
  ASSUME NEW S \in SUBSET (0 .. LogEnd), NEW x \in S, NEW y \in S, x < y
  PROVE  Cardinality(Below(S, x)) < Cardinality(Below(S, y))
<1>0. S \subseteq Nat
  BY BelowFinite
<1>1. Below(S, x) \in SUBSET Below(S, y)
  <2>1. \A z \in S : z < x => z < y
    BY <1>0
  <2> QED
    BY <2>1 DEF Below
<1>2. Below(S, x) # Below(S, y)
  <2>1. x \in Below(S, y) /\ x \notin Below(S, x)
    BY <1>0 DEF Below
  <2> QED
    BY <2>1
<1>3. IsFiniteSet(Below(S, y)) /\ Cardinality(Below(S, y)) \in Nat
  BY BelowFinite
<1>4. Cardinality(Below(S, x)) \in Nat
  BY BelowFinite
<1>5. /\ Cardinality(Below(S, x)) <= Cardinality(Below(S, y))
      /\ Cardinality(Below(S, x)) # Cardinality(Below(S, y))
  BY <1>1, <1>2, <1>3, FS_Subset
<1> QED
  BY <1>3, <1>4, <1>5

LEMMA BelowLargest ==
  ASSUME NEW S \in SUBSET (0 .. LogEnd), NEW m \in S, \A x \in S : x <= m
  PROVE  Cardinality(Below(S, m)) = Cardinality(S) - 1
<1>0. S \subseteq Nat
  BY BelowFinite
<1>1. \A y \in S : y < m <=> y # m
  BY <1>0
<1>2. Below(S, m) = S \ {m}
  BY <1>1 DEF Below
<1> QED
  BY <1>2, BelowFinite, FS_RemoveElement

\* The elements of a set of positions can be counted off from the smallest.
LEMMA Ranked ==
  ASSUME NEW S \in SUBSET (0 .. LogEnd), NEW k \in Nat, k < Cardinality(S)
  PROVE  \E x \in S : Cardinality(Below(S, x)) = k
<1> DEFINE size == [x \in S |-> Cardinality(Below(S, x))]
<1>0. LogEnd \in Nat /\ S \subseteq Nat
  BY LogFeedAssumption
<1>1. size \in [S -> Nat]
  BY BelowFinite
<1>2. S # {}
  BY FS_EmptySet
<1>3. PICK m \in S : \A x \in S : x <= m
  BY <1>0, <1>2, Largest
<1>4. size[m] = Cardinality(S) - 1
  BY <1>3, BelowLargest
<1>5. ASSUME NEW x \in S, size[x] > k
      PROVE  \E z \in S : z < x /\ size[z] >= k
  <2>1. Below(S, x) \in SUBSET (0 .. LogEnd) /\ Below(S, x) \in SUBSET S
    BY DEF Below
  <2>2. Below(S, x) # {}
    <3>1. Cardinality(Below(S, x)) # 0
      BY <1>5
    <3> QED
      BY <3>1, FS_EmptySet
  <2>3. PICK z \in Below(S, x) : \A y \in Below(S, x) : y <= z
    BY <1>0, <2>1, <2>2, Largest
  <2>4. z \in S /\ z < x
    BY DEF Below
  <2>5. Cardinality(Below(Below(S, x), z)) = Cardinality(Below(S, x)) - 1
    BY <2>1, <2>3, BelowLargest
  <2>6. Below(Below(S, x), z) = Below(S, z)
    <3>1. \A y \in S : y < z => y < x
      BY <1>0, <2>4
    <3> QED
      BY <3>1 DEF Below
  <2>7. size[z] = size[x] - 1
    BY <2>4, <2>5, <2>6
  <2> HIDE DEF size
  <2> QED
    BY <1>1, <1>5, <2>4, <2>7
<1> HIDE DEF size
<1> DEFINE T == {x \in S : size[x] >= k}
<1>8. m \in T
  <2>1. Cardinality(S) \in Nat
    BY BelowFinite
  <2> QED
    BY <1>1, <1>4, <2>1
<1>9. T \in SUBSET Nat
  BY <1>0
<1>10. PICK x \in T : \A y \in T : x <= y
  <2> HIDE DEF T
  <2> QED
    BY <1>8, <1>9, Smallest
<1>11. x \in S /\ x \in Nat /\ size[x] \in Nat /\ size[x] >= k
  BY <1>0, <1>1, <1>10
<1>12. ~ (size[x] > k)
  <2> SUFFICES ASSUME size[x] > k PROVE FALSE
    OBVIOUS
  <2>1. PICK z \in S : z < x /\ size[z] >= k
    BY <1>5, <1>11
  <2>2. z \in T /\ z \in Nat
    BY <1>0, <2>1
  <2> QED
    BY <1>10, <1>11, <2>1, <2>2
<1>13. size[x] = k
  BY <1>11, <1>12
<1> QED
  BY <1>11, <1>13 DEF size

\* The newlines of a text, counted off, lie in order, and none of them is missing.
LEMMA Counted ==
  ASSUME NEW S \in SUBSET (0 .. LogEnd), NEW k \in Nat, k = Cardinality(S), NEW cuts,
         cuts = [i \in 1 .. k |-> CHOOSE x \in S : Cardinality({y \in S : y < x}) = i - 1]
  PROVE  /\ \A i \in 1 .. k : cuts[i] \in S
         /\ \A i \in 1 .. k - 1 : cuts[i] < cuts[i + 1]
         /\ k > 0 => \A x \in S : x <= cuts[k]
         /\ k = 0 => S = {}
<1>0. S \subseteq Nat
  BY BelowFinite
<1>1. ASSUME NEW i \in 1 .. k
      PROVE  cuts[i] \in S /\ Cardinality(Below(S, cuts[i])) = i - 1
  <2>1. \E x \in S : Cardinality(Below(S, x)) = i - 1
    <3>1. i - 1 \in Nat /\ i - 1 < k
      OBVIOUS
    <3> QED
      BY <3>1, Ranked
  <2>2. cuts[i] = CHOOSE x \in S : Cardinality(Below(S, x)) = i - 1
    BY Zenon DEF Below
  <2> QED
    BY <2>1, <2>2, Zenon
<1>2. ASSUME NEW i \in 1 .. k - 1
      PROVE  cuts[i] < cuts[i + 1]
  <2>1. /\ cuts[i] \in S /\ Cardinality(Below(S, cuts[i])) = i - 1
        /\ cuts[i + 1] \in S /\ Cardinality(Below(S, cuts[i + 1])) = i
    <3>1. i \in 1 .. k /\ i + 1 \in 1 .. k /\ (i + 1) - 1 = i
      OBVIOUS
    <3> QED
      BY <1>1, <3>1
  <2> DEFINE x == cuts[i]
             y == cuts[i + 1]
  <2>2. x \in S /\ y \in S /\ x # y
    BY <2>1
  <2>3. ~ (y < x)
    <3> SUFFICES ASSUME y < x PROVE FALSE
      OBVIOUS
    <3>1. Cardinality(Below(S, y)) < Cardinality(Below(S, x))
      <4> HIDE DEF x, y
      <4> QED
        BY <2>2, BelowGrows
    <3> QED
      BY <2>1, <3>1
  <2> HIDE DEF x, y
  <2>4. x < y
    BY <1>0, <2>2, <2>3
  <2> QED
    BY <2>4 DEF x, y
<1>3. ASSUME k > 0, NEW x \in S
      PROVE  x <= cuts[k]
  <2>0. LogEnd \in Nat
    BY LogFeedAssumption
  <2>1. PICK m \in S : \A z \in S : z <= m
    BY <2>0, Largest
  <2>2. Cardinality(Below(S, m)) = k - 1
    BY <2>1, BelowLargest
  <2>3. cuts[k] \in S /\ Cardinality(Below(S, cuts[k])) = k - 1
    <3>1. k \in 1 .. k
      BY <1>3
    <3> QED
      BY <1>1, <3>1
  <2>4. ~ (cuts[k] < m)
    <3> SUFFICES ASSUME cuts[k] < m PROVE FALSE
      OBVIOUS
    <3>1. Cardinality(Below(S, cuts[k])) < Cardinality(Below(S, m))
      BY <2>3, BelowGrows
    <3> QED
      BY <2>2, <2>3, <3>1
  <2> DEFINE c == cuts[k]
  <2>5. c \in Nat /\ m \in Nat /\ x \in Nat /\ x <= m /\ c <= m /\ ~ (c < m)
    BY <1>0, <2>1, <2>3, <2>4
  <2> HIDE DEF c
  <2>6. x <= c
    BY <2>5
  <2> QED
    BY <2>6 DEF c
<1>4. k = 0 => S = {}
  BY BelowFinite, FS_EmptySet
<1> QED
  BY <1>1, <1>2, <1>3, <1>4

(***************************************************************************)
(* The text functions                                                      *)
(***************************************************************************)
LEMMA FunctionIsSeq ==
  ASSUME NEW S, NEW n \in Nat, NEW f \in [1 .. n -> S]
  PROVE  f \in Seq(S) /\ Len(f) = n
OBVIOUS

\* s is the text [a, b) cut at its newlines.
IsSplit(s, a, b) ==
  /\ s \in Seq(Piece) /\ Len(s) \in Nat \ {0}
  /\ s[1].lo = a /\ s[Len(s)].hi = b
  /\ \A i \in 1 .. Len(s) : a <= s[i].lo /\ s[i].lo <= s[i].hi /\ s[i].hi <= b
  /\ \A i \in 1 .. Len(s) - 1 : s[i].hi \in Breaks /\ s[i + 1].lo = s[i].hi + 1
  /\ \A x \in Breaks : a <= x /\ x < b => x < s[Len(s)].lo

LEMMA SplitFacts ==
  ASSUME NEW a \in 0 .. LogEnd, NEW b \in a .. LogEnd
  PROVE  IsSplit(Split(a, b), a, b)
<1> DEFINE S == {x \in Breaks : a <= x /\ x < b}
           n == Cardinality(S) + 1
           cuts == [i \in 1 .. n - 1 |-> CHOOSE x \in S : Cardinality({y \in S : y < x}) = i - 1]
           Lo(i) == IF i = 1 THEN a ELSE cuts[i - 1] + 1
           Hi(i) == IF i = n THEN b ELSE cuts[i]
           s == [i \in 1 .. n |-> [lo |-> Lo(i), hi |-> Hi(i)]]
<1>0. LogEnd \in Nat /\ Breaks \subseteq 0 .. LogEnd - 1
  BY LogFeedAssumption
<1>1. S \in SUBSET (0 .. LogEnd) /\ \A x \in S : x \in Breaks /\ x \in Nat /\ a <= x /\ x < b
  <2>1. \A x \in Breaks : x \in 0 .. LogEnd /\ x \in Nat
    BY <1>0
  <2> QED
    BY <2>1, Zenon
<1>2. Split(a, b) = s
  BY Zenon DEF Split
<1> DEFINE k == Cardinality(S)
<1>3. k \in Nat /\ n = k + 1 /\ n - 1 = k
  <2>1. k \in Nat
    <3> HIDE DEF S
    <3> QED
      BY <1>1, BelowFinite
  <2>2. n = k + 1
    OBVIOUS
  <2> HIDE DEF k, n
  <2> QED
    BY <2>1, <2>2
<1>4. /\ \A i \in 1 .. k : cuts[i] \in S
      /\ \A i \in 1 .. k - 1 : cuts[i] < cuts[i + 1]
      /\ k > 0 => \A x \in S : x <= cuts[k]
      /\ k = 0 => S = {}
  <2> HIDE DEF S
  <2>1. k = Cardinality(S)
    OBVIOUS
  <2> HIDE DEF k, n
  <2>2. cuts = [i \in 1 .. k |-> CHOOSE x \in S : Cardinality({y \in S : y < x}) = i - 1]
    BY <1>3
  <2> HIDE DEF cuts
  <2> QED
    BY <1>1, <1>3, <2>1, <2>2, Counted
<1>5. \A x \in Breaks : a <= x /\ x < b => x \in S
  OBVIOUS
<1>6. \A j \in 1 .. k : cuts[j] \in Breaks /\ cuts[j] \in Nat /\ a <= cuts[j] /\ cuts[j] < b
  <2> HIDE DEF S, k, cuts
  <2> QED
    BY <1>1, <1>4, Zenon
<1> HIDE DEF S, n, k, cuts
<1>7. ASSUME NEW i \in 1 .. n
      PROVE  Lo(i) \in Nat /\ Hi(i) \in Nat /\ a <= Lo(i) /\ Lo(i) <= Hi(i) /\ Hi(i) <= b
  <2>1. i # 1 => i - 1 \in 1 .. k /\ cuts[i - 1] \in Nat /\ a <= cuts[i - 1] /\ cuts[i - 1] < b
    BY <1>3, <1>6
  <2>2. i # n => i \in 1 .. k /\ cuts[i] \in Nat /\ a <= cuts[i] /\ cuts[i] < b
    BY <1>3, <1>6
  <2>3. i # 1 /\ i # n => cuts[i - 1] < cuts[i]
    <3> SUFFICES ASSUME i # 1, i # n PROVE cuts[i - 1] < cuts[i]
      OBVIOUS
    <3>1. i - 1 \in 1 .. k - 1 /\ (i - 1) + 1 = i
      BY <1>3
    <3> QED
      BY <1>4, <3>1
  <2> QED
    BY <1>3, <2>1, <2>2, <2>3
<1>8. \A i \in 1 .. n : [lo |-> Lo(i), hi |-> Hi(i)] \in Piece
  <2> HIDE DEF Lo, Hi
  <2> QED
    BY <1>0, <1>7 DEF Piece
<1>9. s \in Seq(Piece) /\ Len(s) = n
  <2> HIDE DEF Lo, Hi
  <2>1. s \in [1 .. n -> Piece]
    BY <1>8
  <2> HIDE DEF s
  <2> QED
    BY <1>3, <2>1, FunctionIsSeq
<1>10. \A i \in 1 .. n : s[i].lo = Lo(i) /\ s[i].hi = Hi(i)
  <2> HIDE DEF Lo, Hi
  <2> QED
    OBVIOUS
<1> HIDE DEF s
<1>11. s[1].lo = a /\ s[n].hi = b
  BY <1>3, <1>10
<1>12. \A i \in 1 .. n : a <= s[i].lo /\ s[i].lo <= s[i].hi /\ s[i].hi <= b
  <2> HIDE DEF Lo, Hi
  <2> QED
    BY <1>7, <1>10
<1>13. \A i \in 1 .. n - 1 : s[i].hi \in Breaks /\ s[i + 1].lo = s[i].hi + 1
  <2> TAKE i \in 1 .. n - 1
  <2>1. i \in 1 .. k /\ i \in 1 .. n /\ i + 1 \in 1 .. n /\ (i + 1) - 1 = i /\ i # n /\ i + 1 # 1
    BY <1>3
  <2>2. s[i].hi = cuts[i] /\ s[i + 1].lo = cuts[i] + 1
    BY <1>10, <2>1
  <2> QED
    BY <1>6, <2>1, <2>2
<1>14. ASSUME NEW x \in Breaks, a <= x, x < b
       PROVE  x < s[n].lo
  <2>1. x \in S /\ x \in Nat
    BY <1>1, <1>5, <1>14
  <2>2. k > 0 /\ k \in 1 .. k
    BY <1>3, <1>4, <2>1
  <2>3. k > 0 /\ k \in 1 .. k /\ x <= cuts[k] /\ cuts[k] \in Nat
    BY <1>4, <1>6, <2>1, <2>2
  <2>4. s[n].lo = cuts[k] + 1
    <3>1. n \in 1 .. n /\ n # 1 /\ n - 1 = k
      BY <1>3, <2>3
    <3> QED
      BY <1>10, <3>1
  <2> QED
    BY <2>1, <2>3, <2>4
<1> QED
  BY <1>2, <1>3, <1>9, <1>11, <1>12, <1>13, <1>14 DEF IsSplit

\* The pieces of ls follow each other with one byte, the newline, between them.
Chained(ls) ==
  /\ ls \in Seq(Piece)
  /\ \A i \in 1 .. Len(ls) : ls[i].lo <= ls[i].hi
  /\ \A i \in 1 .. Len(ls) - 1 : ls[i + 1].lo = ls[i].hi + 1

LEMMA PieceTyped ==
  ASSUME NEW ls \in Seq(Piece)
  PROVE  /\ Len(ls) \in Nat /\ LogEnd \in Nat
         /\ \A i \in 1 .. Len(ls) : /\ ls[i] \in Piece /\ ls[i].lo \in Nat /\ ls[i].hi \in Nat
                                    /\ ls[i].lo <= LogEnd /\ ls[i].hi <= LogEnd
<1>1. LogEnd \in Nat
  BY LogFeedAssumption
<1>2. Len(ls) \in Nat /\ \A i \in 1 .. Len(ls) : ls[i] \in Piece
  BY ElementOfSeq, LenProperties
<1> QED
  BY <1>1, <1>2 DEF Piece

\* No byte of a chain is in two of its pieces, or out of order.
LEMMA ChainOrder ==
  ASSUME NEW ls, Chained(ls), NEW i \in 1 .. Len(ls), NEW j \in 1 .. Len(ls), i < j
  PROVE  ls[i].hi < ls[j].lo
<1>1. ls \in Seq(Piece) /\ Len(ls) \in Nat
  BY PieceTyped DEF Chained
<1> DEFINE J == {x \in 1 .. Len(ls) : i < x /\ ~ (ls[i].hi < ls[x].lo)}
<1> SUFFICES ASSUME J # {} PROVE FALSE
  OBVIOUS
<1>2. J \in SUBSET Nat
  OBVIOUS
<1>3. PICK m \in J : \A x \in J : m <= x
  <2> HIDE DEF J
  <2> QED
    BY <1>2, Smallest
<1>4. m \in 1 .. Len(ls) /\ i < m /\ ~ (ls[i].hi < ls[m].lo) /\ m - 1 \in 1 .. Len(ls) - 1
  BY <1>1
<1>5. ls[(m - 1) + 1].lo = ls[m - 1].hi + 1 /\ (m - 1) + 1 = m /\ m - 1 \in 1 .. Len(ls)
  BY <1>1, <1>4 DEF Chained
<1>6. /\ ls[i].hi \in Nat /\ ls[m].lo \in Nat
      /\ ls[m - 1].lo \in Nat /\ ls[m - 1].hi \in Nat /\ ls[m - 1].lo <= ls[m - 1].hi
  BY <1>1, <1>4, <1>5, PieceTyped DEF Chained
<1>7. CASE m - 1 = i
  BY <1>4, <1>5, <1>6, <1>7
<1>8. CASE m - 1 # i
  <2>1. i < m - 1 /\ ~ (m <= m - 1)
    BY <1>4, <1>8
  <2>2. m - 1 \notin J
    BY <1>3, <2>1
  <2>3. ls[i].hi < ls[m - 1].lo
    BY <1>5, <2>1, <2>2
  <2> QED
    BY SMTT(30), <1>4, <1>5, <1>6, <2>3
<1> QED
  BY <1>7, <1>8

LEMMA BytesTyped ==
  ASSUME NEW ls \in Seq(Piece)
  PROVE  Bytes(ls) \in Nat
<1> DEFINE P == {at \in (1 .. Len(ls)) \X (0 .. LogEnd) :
                   ls[at[1]].lo <= at[2] /\ at[2] <= ls[at[1]].hi}
<1>1. IsFiniteSet(1 .. Len(ls)) /\ IsFiniteSet(0 .. LogEnd)
  BY PieceTyped, FS_Interval
<1>2. IsFiniteSet((1 .. Len(ls)) \X (0 .. LogEnd))
  BY <1>1, FS_Product
<1>3. P \in SUBSET ((1 .. Len(ls)) \X (0 .. LogEnd))
  OBVIOUS
<1>4. Bytes(ls) = Cardinality(P)
  BY DEF Bytes
<1> HIDE DEF P
<1>5. IsFiniteSet(P)
  BY <1>2, <1>3, FS_Subset
<1> QED
  BY <1>4, <1>5, FS_CardinalityType

\* The bytes of lines that follow each other, newlines included.
LEMMA BytesOfChain ==
  ASSUME NEW ls, Chained(ls), Len(ls) > 0
  PROVE  Bytes(ls) = (ls[Len(ls)].hi + 1) - ls[1].lo
<1> DEFINE n == Len(ls)
           P == {at \in (1 .. n) \X (0 .. LogEnd) :
                   ls[at[1]].lo <= at[2] /\ at[2] <= ls[at[1]].hi}
           lo == ls[1].lo
           hi == ls[n].hi
           f == [at \in P |-> at[2]]
<1>1. ls \in Seq(Piece) /\ n \in Nat \ {0}
  BY PieceTyped DEF Chained
<1>2. \A i \in 1 .. n : ls[i].lo \in Nat /\ ls[i].hi \in Nat /\ ls[i].hi <= LogEnd /\ ls[i].lo <= ls[i].hi
  BY <1>1, PieceTyped DEF Chained
<1>3. \A i, j \in 1 .. n : i < j => ls[i].hi < ls[j].lo
  BY ChainOrder
<1>4. 1 \in 1 .. n /\ n \in 1 .. n /\ lo \in Nat /\ hi \in Nat /\ hi <= LogEnd /\ LogEnd \in Nat
  BY <1>1, <1>2, LogFeedAssumption
<1>5. Bytes(ls) = Cardinality(P)
  BY DEF Bytes
<1>6. \A i \in 1 .. n : lo <= ls[i].lo /\ ls[i].hi <= hi
  <2> TAKE i \in 1 .. n
  <2>1. i = 1 \/ 1 < i
    BY <1>1
  <2>2. i = n \/ i < n
    BY <1>1
  <2> DEFINE a == ls[i].lo
             b == ls[i].hi
             c == ls[1].hi
             d == ls[n].lo
  <2>3. a \in Nat /\ b \in Nat /\ c \in Nat /\ d \in Nat /\ lo <= c /\ d <= hi
    BY <1>2, <1>4
  <2>4. lo = a \/ c < a
    BY <1>3, <1>4, <2>1
  <2>5. hi = b \/ b < d
    BY <1>3, <1>4, <2>2
  <2>6. lo <= a /\ b <= hi
    <3> HIDE DEF a, b, c, d, lo, hi
    <3> QED
      BY <1>4, <2>3, <2>4, <2>5
  <2> QED
    BY <2>6
<1>7. \A at \in P : /\ at[1] \in 1 .. n /\ at[2] \in Nat /\ ls[at[1]].lo <= at[2] /\ at[2] <= ls[at[1]].hi
                    /\ at = <<at[1], at[2]>>
  BY <1>4
<1>8. \A i \in 1 .. n : \A x \in 0 .. LogEnd : ls[i].lo <= x /\ x <= ls[i].hi => <<i, x>> \in P
  OBVIOUS
<1>9. f \in [P -> lo .. hi]
  <2>1. ASSUME NEW at \in P
        PROVE  at[2] \in lo .. hi
    <3> DEFINE i == at[1]
               x == at[2]
               a == ls[i].lo
               b == ls[i].hi
    <3>1. i \in 1 .. n /\ x \in Nat /\ a <= x /\ x <= b /\ a \in Nat /\ b \in Nat
      BY <1>2, <1>7
    <3>2. lo <= a /\ b <= hi
      BY <1>6, <3>1
    <3> HIDE DEF i, x, a, b, lo, hi, P
    <3>3. x \in lo .. hi
      BY <1>4, <3>1, <3>2
    <3> QED
      BY <3>3 DEF x
  <2> HIDE DEF P, lo, hi
  <2> QED
    BY <2>1
<1>10. \A at, to \in P : f[at] = f[to] => at = to
  <2> TAKE at, to \in P
  <2> HAVE f[at] = f[to]
  <2>1. at[2] = to[2]
    OBVIOUS
  <2> DEFINE i == at[1]
             j == to[1]
             x == at[2]
             a == ls[i].lo
             b == ls[i].hi
             c == ls[j].lo
             d == ls[j].hi
  <2>2. /\ i \in 1 .. n /\ x \in Nat /\ a <= x /\ x <= b /\ a \in Nat /\ b \in Nat
        /\ j \in 1 .. n /\ c <= x /\ x <= d /\ c \in Nat /\ d \in Nat
    BY <1>2, <1>7, <2>1
  <2>3. (i < j => b < c) /\ (j < i => d < a)
    BY <1>3, <2>2
  <2>4. i = j
    <3> HIDE DEF i, j, x, a, b, c, d
    <3> QED
      BY <1>1, <2>2, <2>3
  <2> QED
    BY <1>7, <2>1, <2>4
<1>11. \A x \in lo .. hi : \E at \in P : f[at] = x
  <2> TAKE x \in lo .. hi
  <2> DEFINE I == {i \in 1 .. n : ls[i].lo <= x}
  <2>1. I \in SUBSET (0 .. n) /\ 1 \in I
    BY <1>4
  <2>2. PICK i \in I : \A j \in I : j <= i
    <3> HIDE DEF I, n
    <3> QED
      BY <1>1, <2>1, Largest
  <2>3. i \in 1 .. n /\ ls[i].lo <= x
    OBVIOUS
  <2>4. x <= ls[i].hi
    <3>1. CASE i = n
      BY <1>4, <3>1
    <3>2. CASE i # n
      <4>1. i \in 1 .. n - 1 /\ i + 1 \in 1 .. n /\ ~ (i + 1 <= i)
        BY <1>1, <2>3, <3>2
      <4>2. ls[i + 1].lo = ls[i].hi + 1
        BY <4>1 DEF Chained
      <4>3. ~ (ls[i + 1].lo <= x)
        BY <2>2, <4>1
      <4> DEFINE h == ls[i].hi
      <4>4. h \in Nat /\ x \in Nat /\ ~ (h + 1 <= x)
        BY <1>2, <1>4, <2>3, <4>2, <4>3
      <4> HIDE DEF h
      <4>5. x <= h
        BY <4>4
      <4> QED
        BY <4>5 DEF h
    <3> QED
      BY <3>1, <3>2
  <2>5. x \in 0 .. LogEnd
    <3> HIDE DEF lo, hi
    <3> QED
      BY <1>4
  <2>6. <<i, x>> \in P
    BY <1>8, <2>3, <2>4, <2>5
  <2>7. f[<<i, x>>] = x
    <3> HIDE DEF P
    <3> QED
      BY <2>6
  <2> HIDE DEF f, P
  <2> QED
    BY <2>6, <2>7
<1> HIDE DEF f, P
<1>12. f \in Bijection(P, lo .. hi)
  <2>1. f \in Injection(P, lo .. hi)
    BY <1>9, <1>10 DEF Injection, IsInjective
  <2>2. f \in Surjection(P, lo .. hi)
    BY <1>9, <1>11 DEF Surjection
  <2> QED
    BY <2>1, <2>2 DEF Bijection
<1>13. Cardinality(lo .. hi) = (hi + 1) - lo
  <2>1. lo <= hi
    BY <1>4, <1>6, <1>2
  <2> HIDE DEF lo, hi
  <2>2. Cardinality(lo .. hi) = IF lo > hi THEN 0 ELSE hi - lo + 1
    BY <1>4, FS_Interval
  <2> QED
    BY <1>4, <2>1, <2>2
<1>14. Cardinality(P) = Cardinality(lo .. hi)
  <2>1. IsFiniteSet(P)
    <3>1. IsFiniteSet(lo .. hi)
      <4> HIDE DEF lo, hi
      <4> QED
        BY <1>4, FS_Interval
    <3>2. f \in Injection(P, lo .. hi)
      BY <1>12 DEF Bijection
    <3> HIDE DEF lo, hi
    <3> QED
      BY <3>1, <3>2, FS_Injection
  <2>2. ExistsBijection(P, lo .. hi)
    BY <1>12 DEF ExistsBijection
  <2> HIDE DEF lo, hi
  <2> QED
    BY <2>1, <2>2, FS_Bijection
<1> QED
  BY <1>5, <1>13, <1>14

LEMMA FrontFacts ==
  ASSUME NEW s \in Seq(Piece), Len(s) \in Nat \ {0}
  PROVE  /\ Front(s) \in Seq(Piece) /\ Len(Front(s)) = Len(s) - 1
         /\ \A i \in 1 .. Len(s) - 1 : Front(s)[i] = s[i]
         /\ Last(s) = s[Len(s)] /\ Last(s) \in Piece
<1> DEFINE n == Len(s)
<1>1. n \in Nat \ {0} /\ \A i \in 1 .. n : s[i] \in Piece
  BY PieceTyped
<1>2. n \in 1 .. n /\ n - 1 \in Int /\ \A i \in 1 .. n - 1 : s[i] \in Piece
  BY <1>1
<1>3. /\ SubSeq(s, 1, n - 1) \in Seq(Piece)
      /\ Len(SubSeq(s, 1, n - 1)) = IF 1 <= n - 1 THEN (n - 1) - 1 + 1 ELSE 0
      /\ \A i \in 1 .. (n - 1) - 1 + 1 : SubSeq(s, 1, n - 1)[i] = s[1 + i - 1]
  <2> HIDE DEF n
  <2> QED
    BY <1>1, <1>2, SubSeqProperties
<1>4. Front(s) = SubSeq(s, 1, n - 1) /\ Last(s) = s[n]
  BY DEF Front, Last
<1> HIDE DEF n
<1>5. Len(Front(s)) = n - 1
  BY <1>1, <1>3, <1>4
<1>6. \A i \in 1 .. n - 1 : Front(s)[i] = s[i]
  <2> TAKE i \in 1 .. n - 1
  <2>1. i \in 1 .. (n - 1) - 1 + 1 /\ 1 + i - 1 = i
    BY <1>1
  <2> QED
    BY <1>3, <1>4, <2>1
<1> QED
  BY <1>1, <1>2, <1>3, <1>4, <1>5, <1>6 DEF n

\* What a read of [from, until) brings, ls and the offset start: nothing or lines of the
\* log, and if all of it was written, the lines that lead up to until.
Leads(ls, start, until) ==
  /\ Chained(ls) /\ ls # <<>> /\ start = ls[1].lo
  /\ \A i \in 1 .. Len(ls) - 1 : ls[i].hi \in Breaks
  /\ Joins(ls[Len(ls)], until)

LEMMA PartsFacts ==
  ASSUME NEW a \in 0 .. LogEnd, NEW b \in a .. LogEnd
  PROVE  LET all   == Split(a, b)
             parts == IF Empty(Last(all)) THEN Front(all) ELSE all
         IN  /\ Chained(parts)
             /\ \A i \in 1 .. Len(parts) : a <= parts[i].lo /\ parts[i].hi <= b
             /\ \A i \in 1 .. Len(parts) - 1 : parts[i].hi \in Breaks
             /\ a < b => /\ parts # <<>> /\ parts[1].lo = a
                         /\ Joins(parts[Len(parts)], b)
<1> DEFINE all == Split(a, b)
           n == Len(all)
           parts == IF Empty(Last(all)) THEN Front(all) ELSE all
           m == Len(parts)
<1>0. a \in Nat /\ b \in Nat /\ a <= b /\ LogEnd \in Nat /\ Breaks \subseteq Nat
  BY LogFeedAssumption
<1>1. IsSplit(all, a, b)
  BY SplitFacts
<1> HIDE DEF all
<1>2. all \in Seq(Piece) /\ n \in Nat \ {0} /\ all[1].lo = a /\ all[n].hi = b
  BY <1>1 DEF IsSplit
<1>3. /\ \A i \in 1 .. n : a <= all[i].lo /\ all[i].lo <= all[i].hi /\ all[i].hi <= b
      /\ \A i \in 1 .. n - 1 : all[i].hi \in Breaks /\ all[i + 1].lo = all[i].hi + 1
      /\ \A x \in Breaks : a <= x /\ x < b => x < all[n].lo
  BY <1>1 DEF IsSplit
<1>4. /\ Front(all) \in Seq(Piece) /\ Len(Front(all)) = n - 1
      /\ \A i \in 1 .. n - 1 : Front(all)[i] = all[i]
      /\ Last(all) = all[n]
  BY <1>2, FrontFacts
<1>5. /\ parts \in Seq(Piece)
      /\ m = IF Empty(Last(all)) THEN n - 1 ELSE n
  BY <1>2, <1>4
<1>6. \A i \in 1 .. m : i \in 1 .. n /\ parts[i] = all[i]
  BY <1>2, <1>4, <1>5
<1>7. \A i \in 1 .. m - 1 : i \in 1 .. n - 1 /\ i \in 1 .. m /\ i + 1 \in 1 .. m
  BY <1>2, <1>5
<1>8. Empty(Last(all)) <=> all[n].lo = b
  BY <1>2, <1>4 DEF Empty
<1> HIDE DEF n, parts, m
<1>9. Chained(parts) /\ m = Len(parts)
  <2>1. \A i \in 1 .. m : parts[i].lo <= parts[i].hi
    BY <1>3, <1>6
  <2>2. \A i \in 1 .. m - 1 : parts[i + 1].lo = parts[i].hi + 1
    BY <1>3, <1>6, <1>7
  <2>3. m = Len(parts)
    BY DEF m
  <2> QED
    BY <1>5, <2>1, <2>2, <2>3 DEF Chained
<1>10. \A i \in 1 .. m : a <= parts[i].lo /\ parts[i].hi <= b
  BY <1>3, <1>6
<1>11. \A i \in 1 .. m - 1 : parts[i].hi \in Breaks
  BY <1>3, <1>6, <1>7
<1>12. ASSUME a < b
       PROVE  m \in 1 .. n /\ 1 \in 1 .. m /\ Joins(parts[m], b)
  <2>1. all[n] \in Piece /\ all[n].lo \in Nat /\ n \in 1 .. n
    BY <1>2, PieceTyped DEF n
  <2>2. CASE Empty(Last(all))
    <3>1. n # 1 /\ m = n - 1 /\ m \in 1 .. n - 1 /\ m \in 1 .. m /\ m \in 1 .. n
      BY <1>0, <1>2, <1>5, <1>8, <1>12, <2>2
    <3>2. all[m].hi \in Breaks /\ all[m + 1].lo = all[m].hi + 1 /\ m + 1 = n
      BY <1>2, <1>3, <3>1
    <3>3. b = parts[m].hi + 1 /\ b \in LineStarts
      BY <1>6, <1>8, <2>2, <3>1, <3>2 DEF LineStarts
    <3> QED
      BY <1>2, <3>1, <3>3 DEF Joins
  <2>3. CASE ~ Empty(Last(all))
    <3>1. m = n /\ m \in 1 .. m /\ parts[m].hi = b
      BY <1>2, <1>5, <1>6, <2>3
    <3>2. all[n].lo < b
      <4>1. all[n].lo <= b /\ all[n].lo # b
        BY <1>2, <1>3, <1>8, <2>1, <2>3
      <4> QED
        BY <1>0, <2>1, <4>1
    <3>3. \A x \in Breaks : x + 1 # b
      <4> TAKE x \in Breaks
      <4> SUFFICES ASSUME x + 1 = b PROVE FALSE
        OBVIOUS
      <4>1. x \in Nat /\ all[n].lo <= x /\ a <= x /\ x < b
        <5>1. a <= all[n].lo
          BY <1>3, <2>1
        <5> QED
          BY <1>0, <1>12, <2>1, <3>2
      <4>2. x < all[n].lo
        BY <1>3, <4>1
      <4> QED
        BY <2>1, <4>1, <4>2
    <3>4. b \notin LineStarts
      BY <1>0, <1>12, <3>3 DEF LineStarts
    <3>5. Joins(parts[m], b)
      BY <1>0, <3>1, <3>4 DEF Joins
    <3> QED
      BY <1>2, <3>1, <3>5
  <2> QED
    BY <2>2, <2>3
<1>13. a < b => parts # <<>> /\ parts[1].lo = a
  <2> SUFFICES ASSUME a < b PROVE parts # <<>> /\ parts[1].lo = a
    OBVIOUS
  <2>1. 1 \in 1 .. m /\ Len(parts) > 0
    BY <1>2, <1>9, <1>12
  <2>2. parts # <<>>
    BY <2>1, EmptySeq
  <2> QED
    BY <1>2, <1>6, <2>1, <2>2
<1> QED
  BY <1>9, <1>10, <1>11, <1>12, <1>13 DEF parts, all

LEMMA EarlierFacts ==
  ASSUME written \in 0 .. LogEnd, NEW from \in Nat, NEW until \in Nat, from < until
  PROVE  LET e == EarlierLines(from, until)
         IN  /\ e.lines \in Seq(Piece) /\ e.start \in Nat
             /\ \A i \in 1 .. Len(e.lines) :
                  e.lines[i].lo <= e.lines[i].hi /\ e.lines[i].hi <= written
             /\ until <= written => Leads(e.lines, e.start, until)
<1> DEFINE a == Read(from)
           b == Read(until)
           all == Split(a, b)
           parts == IF Empty(Last(all)) THEN Front(all) ELSE all
           m == Len(parts)
           e == EarlierLines(from, until)
<1>0. written \in Nat /\ LogEnd \in Nat /\ written <= LogEnd
  BY LogFeedAssumption
<1>1. a \in 0 .. LogEnd /\ b \in a .. LogEnd /\ b <= written /\ a \in Nat /\ b \in Nat
  BY <1>0 DEF Read
<1>2. until <= written => a = from /\ b = until /\ a < b
  BY <1>0 DEF Read
<1>3. /\ e.lines = IF from = 0 \/ m <= 1 THEN parts ELSE Tail(parts)
      /\ e.start = IF from = 0 \/ m <= 1 THEN from ELSE from + Width(Head(parts)) + 1
  BY DEF EarlierLines
<1> HIDE DEF a, b, e
<1>4. /\ Chained(parts)
      /\ \A i \in 1 .. m : a <= parts[i].lo /\ parts[i].hi <= b
      /\ \A i \in 1 .. m - 1 : parts[i].hi \in Breaks
      /\ a < b => /\ parts # <<>> /\ parts[1].lo = a
                  /\ Joins(parts[m], b)
  BY <1>1, PartsFacts
<1> HIDE DEF parts, m
<1>5. parts \in Seq(Piece) /\ m = Len(parts) /\ m \in Nat
  BY <1>4, PieceTyped DEF Chained, m
<1>6. \A i \in 1 .. m : /\ parts[i].lo \in Nat /\ parts[i].hi \in Nat
                        /\ parts[i].lo <= parts[i].hi /\ parts[i].hi <= written
  <2> TAKE i \in 1 .. m
  <2>1. parts[i].lo \in Nat /\ parts[i].hi \in Nat /\ parts[i].lo <= parts[i].hi /\ parts[i].hi <= b
    BY <1>4, <1>5, PieceTyped DEF Chained
  <2> QED
    BY <1>0, <1>1, <2>1
<1>7. CASE from = 0 \/ m <= 1
  <2>1. e.lines = parts /\ e.start = from
    BY <1>3, <1>7
  <2>2. until <= written => Leads(e.lines, e.start, until)
    <3> HAVE until <= written
    <3> QED
      BY <1>2, <1>4, <1>5, <2>1 DEF Leads
  <2> QED
    BY <1>5, <1>6, <2>1, <2>2 DEF e
<1>8. CASE ~ (from = 0 \/ m <= 1)
  <2> DEFINE t == Tail(parts)
             k == Len(t)
  <2>1. m > 1 /\ parts # <<>> /\ 1 \in 1 .. m /\ 2 \in 1 .. m
    BY <1>5, <1>8, EmptySeq
  <2>2. t \in Seq(Piece) /\ k = m - 1 /\ \A i \in 1 .. k : t[i] = parts[i + 1]
    BY <1>5, <2>1, HeadTailProperties
  <2>3. e.lines = t /\ e.start = from + (parts[1].hi - parts[1].lo) + 1
    BY <1>3, <1>5, <1>8, <2>1 DEF Width
  <2>4. \A i \in 1 .. k : i + 1 \in 1 .. m /\ t[i] = parts[i + 1]
    BY <1>5, <2>1, <2>2
  <2> HIDE DEF t, k
  <2>5. \A i \in 1 .. k : t[i].lo <= t[i].hi /\ t[i].hi <= written
    BY <1>6, <2>4
  <2>6. e.start \in Nat
    BY <1>6, <2>1, <2>3
  <2>7. ASSUME until <= written
        PROVE  Leads(t, e.start, until)
    <3>1. parts[1].lo = from /\ Joins(parts[m], until)
      BY <1>2, <1>4, <2>7
    <3>2. k = Len(t) /\ k > 0 /\ k \in 1 .. k /\ 1 \in 1 .. k /\ k + 1 = m
      BY <1>5, <2>1, <2>2 DEF k
    <3>3. parts[2].lo = parts[1].hi + 1
      <4>1. 1 \in 1 .. Len(parts) - 1 /\ 1 + 1 = 2
        BY <1>5, <2>1
      <4> QED
        BY <1>4, <4>1 DEF Chained
    <3>4. t[1] = parts[2] /\ t[k] = parts[m]
      <4>1. 1 + 1 = 2
        OBVIOUS
      <4> QED
        BY <2>4, <3>2, <4>1
    <3>5. e.start = t[1].lo
      BY <1>6, <2>1, <2>3, <3>1, <3>3, <3>4
    <3>6. \A i \in 1 .. k - 1 : /\ i \in 1 .. k /\ i + 1 \in 1 .. k /\ i + 1 \in 1 .. m - 1
                                /\ t[i] = parts[i + 1] /\ t[i + 1] = parts[(i + 1) + 1]
      BY <1>5, <2>1, <2>4, <3>2
    <3>7. \A i \in 1 .. k - 1 : t[i].hi \in Breaks /\ t[i + 1].lo = t[i].hi + 1
      BY <1>4, <1>5, <3>6 DEF Chained
    <3>8. Chained(t) /\ t # <<>>
      BY <2>2, <2>5, <3>2, <3>7, EmptySeq DEF Chained
    <3>9. Joins(t[Len(t)], until)
      BY <3>1, <3>2, <3>4
    <3> QED
      BY <3>2, <3>5, <3>7, <3>8, <3>9 DEF Leads
  <2>8. k = Len(t)
    BY DEF k
  <2> QED
    BY <2>2, <2>3, <2>5, <2>6, <2>7, <2>8 DEF e
<1> QED
  BY <1>7, <1>8

\* Where the daemon begins the tail is where a line begins.
LEMMA TailStartFacts ==
  ASSUME NEW w \in 0 .. LogEnd
  PROVE  TailStart(w) \in LineStarts /\ TailStart(w) \in 0 .. w
<1> DEFINE From(s) == {x \in LineStarts : s <= x /\ x < w}
           Lines(s) == Cardinality(From(s))
           T == {s \in LineStarts : s <= w /\ Lines(s) <= TailLines}
<1>0. /\ LogEnd \in Nat /\ w \in Nat /\ w <= LogEnd /\ Breaks \subseteq Nat
      /\ TailLines \in Nat /\ TailLines >= 1
  BY LogFeedAssumption
<1>1. LineStarts \subseteq Nat /\ 0 \in LineStarts
  BY <1>0 DEF LineStarts
<1>2. ASSUME NEW s \in LineStarts
      PROVE  IsFiniteSet(From(s)) /\ Lines(s) \in Nat
  <2>1. From(s) \in SUBSET (0 .. LogEnd)
    <3>1. \A x \in From(s) : x \in 0 .. LogEnd
      BY <1>0, <1>1
    <3> QED
      BY <3>1
  <2> HIDE DEF From
  <2> QED
    BY <2>1, BelowFinite
<1>3. PICK z \in {x \in LineStarts : x <= w} : \A x \in {y \in LineStarts : y <= w} : x <= z
  <2> DEFINE U == {x \in LineStarts : x <= w}
  <2>1. U \in SUBSET (0 .. w) /\ 0 \in U
    <3>1. \A x \in U : x \in 0 .. w
      BY <1>0, <1>1
    <3>2. 0 \in U
      BY <1>0, <1>1
    <3> QED
      BY <3>1, <3>2
  <2> HIDE DEF U
  <2>2. \E z \in U : \A x \in U : x <= z
    BY <1>0, <2>1, Largest
  <2> QED
    BY <2>2 DEF U
<1>4. z \in T
  <2>1. \A x \in From(z) : x = z
    <3> TAKE x \in From(z)
    <3>1. x \in Nat /\ z \in Nat /\ z <= x /\ x <= w
      BY <1>0, <1>1
    <3>2. x <= z
      BY <1>3, <3>1
    <3> QED
      BY <3>1, <3>2
  <2>2. From(z) \in SUBSET {z}
    BY <2>1
  <2>3. IsFiniteSet({z}) /\ Cardinality({z}) = 1
    BY FS_Singleton
  <2>4. Cardinality(From(z)) <= 1
    <3> HIDE DEF From
    <3> QED
      BY <2>2, <2>3, FS_Subset
  <2> DEFINE l == Lines(z)
  <2>5. l \in Nat /\ l <= 1
    BY <1>2, <1>3, <2>4
  <2> HIDE DEF l
  <2>6. l <= TailLines
    BY <1>0, <2>5
  <2> QED
    BY <1>3, <2>6 DEF l
<1>5. T \in SUBSET Nat
  BY <1>1
<1>6. PICK s \in T : \A x \in T : s <= x
  <2> HIDE DEF T
  <2> QED
    BY <1>4, <1>5, Smallest
<1>7. \A x \in LineStarts : x < s => Lines(x) > TailLines
  <2> TAKE x \in LineStarts
  <2> HAVE x < s
  <2>1. x \in Nat /\ s \in Nat /\ s <= w /\ x <= w
    BY <1>0, <1>1
  <2>2. x \notin T
    BY <1>6, <2>1
  <2> DEFINE l == Lines(x)
  <2>3. l \in Nat /\ ~ (l <= TailLines)
    BY <1>2, <2>1, <2>2
  <2> HIDE DEF l
  <2>4. l > TailLines
    BY <1>0, <2>3
  <2> QED
    BY <2>4 DEF l
<1>8. s \in LineStarts /\ s <= w /\ Lines(s) <= TailLines
  OBVIOUS
<1>9. TailStart(w) = CHOOSE r \in LineStarts :
        /\ r <= w
        /\ Lines(r) <= TailLines
        /\ \A x \in LineStarts : x < r => Lines(x) > TailLines
  BY Zenon DEF TailStart
<1> HIDE DEF Lines, T
<1>10. TailStart(w) \in LineStarts /\ TailStart(w) <= w
  BY <1>7, <1>8, <1>9, Zenon
<1>11. TailStart(w) \in Nat
  BY <1>1, <1>10
<1> QED
  BY <1>0, <1>10, <1>11

(***************************************************************************)
(* The buffer                                                              *)
(***************************************************************************)

\* Where the first line of b begins
First(b) == IF b.lines = <<>> THEN b.cut ELSE b.lines[1].lo

\* The pieces of b lie in the w bytes that are written of the log.
Sound(b, w) ==
  /\ b \in Buffer
  /\ b.cut <= b.merged /\ b.merged <= b.end /\ b.end <= w
  /\ b.cut \in LineStarts
  /\ \A i \in 1 .. Len(b.lines) : b.lines[i].lo <= b.lines[i].hi /\ b.lines[i].hi <= w
  /\ b.max >= MaxLines
  /\ ~b.known => b.lines = <<>> /\ b.start = 0 /\ b.merged = b.end /\ b.cut = b.merged

\* The newest MaxLines lines follow each other up to the one that is incomplete.
Newest(b) ==
  \A i \in 1 .. Len(b.lines) :
    Len(b.lines) - i < MaxLines => Joins(b.lines[i], NextLo(b, i))

\* As long as no line can have been trimmed, start is where the first one begins.
Untrimmed(b) == b.known /\ Len(b.lines) < MaxLines => b.start = First(b)

\* The lines are whole and follow each other, and start is where the first one begins.
Neat(b) ==
  /\ b.known => b.start = First(b)
  /\ \A i \in 1 .. Len(b.lines) :
       b.lines[i].lo \in LineStarts /\ NextLo(b, i) = b.lines[i].hi + 1

Right(b, w) == Sound(b, w) /\ Newest(b) /\ Untrimmed(b)

\* What merging may do to the buffer a: what is known of it stays.
Follows(a, b) ==
  /\ b.known = a.known /\ b.end = a.end /\ b.max = a.max
  /\ b.start # a.start => Len(b.lines) >= MaxLines
  /\ Len(a.lines) >= MaxLines => Len(b.lines) >= MaxLines
  /\ Neat(a) => Neat(b)

LEMMA ConstantsTyped ==
  /\ LogEnd \in Nat /\ Breaks \subseteq Nat /\ LineStarts \subseteq Nat
  /\ MaxLines \in Nat \ {0} /\ TailLines \in Nat \ {0} /\ EarlierBytes \in Nat \ {0}
<1>1. LogEnd \in Nat /\ Breaks \subseteq Nat
  BY LogFeedAssumption
<1>2. LineStarts \subseteq Nat
  BY <1>1 DEF LineStarts
<1> QED
  BY <1>1, <1>2, LogFeedAssumption

LEMMA BufferTyped ==
  ASSUME NEW b \in Buffer
  PROVE  /\ b.lines \in Seq(Piece) /\ Len(b.lines) \in Nat
         /\ b.cut \in Nat /\ b.merged \in Nat /\ b.end \in Nat
         /\ b.cut <= LogEnd /\ b.merged <= LogEnd /\ b.end <= LogEnd
         /\ b.start \in Nat /\ b.known \in BOOLEAN /\ b.max \in Nat
<1>1. b.lines \in Seq(Piece) /\ b.start \in Nat /\ b.known \in BOOLEAN /\ b.max \in Nat
  BY DEF Buffer
<1>2. b.cut \in 0 .. LogEnd /\ b.merged \in 0 .. LogEnd /\ b.end \in 0 .. LogEnd
  BY DEF Buffer
<1> QED
  BY <1>1, <1>2, ConstantsTyped, PieceTyped

LEMMA TrimKeeps ==
  ASSUME NEW w \in 0 .. LogEnd, NEW b, Right(b, w)
  PROVE  /\ Right(Trimmed(b), w)
         /\ Trimmed(b).cut = b.cut /\ Trimmed(b).merged = b.merged
         /\ Follows(b, Trimmed(b))
<1> DEFINE n == Len(b.lines)
           x == n - b.max
           cutOff == SubSeq(b.lines, 1, x)
           kept == SubSeq(b.lines, x + 1, n)
           t == [b EXCEPT !.lines = kept, !.start = @ + Bytes(cutOff)]
<1>1. b \in Buffer /\ b.max >= MaxLines
  BY DEF Right, Sound
<1>2. /\ b.lines \in Seq(Piece) /\ n \in Nat /\ b.max \in Nat /\ MaxLines \in Nat \ {0}
      /\ b.start \in Nat
  BY <1>1, BufferTyped, ConstantsTyped
<1>3. CASE x <= 0
  <2>1. Trimmed(b) = b
    BY <1>3 DEF Trimmed
  <2>2. Follows(b, b)
    BY DEF Follows
  <2> QED
    BY <2>1, <2>2
<1>4. CASE ~ (x <= 0)
  <2>1. Trimmed(b) = t
    BY <1>4, Zenon DEF Trimmed
  <2>2. x \in Nat \ {0} /\ n = x + b.max /\ x < n
    BY <1>1, <1>2, <1>4
  <2>3. \A i \in 1 .. n : b.lines[i] \in Piece
    BY <1>2, PieceTyped
  <2>4. /\ kept \in Seq(Piece) /\ Len(kept) = b.max
        /\ \A i \in 1 .. b.max : kept[i] = b.lines[i + x] /\ i + x \in 1 .. n
    <3> HIDE DEF x, n
    <3>1. x + 1 \in Int /\ n \in Int /\ (\A i \in x + 1 .. n : b.lines[i] \in Piece)
      BY <1>2, <2>2, <2>3
    <3>2. /\ kept \in Seq(Piece)
          /\ Len(kept) = IF x + 1 <= n THEN n - (x + 1) + 1 ELSE 0
          /\ \A i \in 1 .. n - (x + 1) + 1 : kept[i] = b.lines[(x + 1) + i - 1]
      BY <3>1, SubSeqProperties
    <3>3. n - (x + 1) + 1 = b.max /\ x + 1 <= n
      BY <1>2, <2>2
    <3>4. \A i \in 1 .. b.max : (x + 1) + i - 1 = i + x /\ i + x \in 1 .. n
      BY <1>2, <2>2
    <3> HIDE DEF kept
    <3> QED
      BY <3>2, <3>3, <3>4
  <2>5. /\ cutOff \in Seq(Piece) /\ Len(cutOff) = x
        /\ \A i \in 1 .. x : cutOff[i] = b.lines[i] /\ i \in 1 .. n
    <3> HIDE DEF x, n
    <3>1. 1 \in Int /\ x \in Int /\ (\A i \in 1 .. x : b.lines[i] \in Piece)
      BY <1>2, <2>2, <2>3
    <3>2. /\ cutOff \in Seq(Piece)
          /\ Len(cutOff) = IF 1 <= x THEN x - 1 + 1 ELSE 0
          /\ \A i \in 1 .. x - 1 + 1 : cutOff[i] = b.lines[1 + i - 1]
      BY <3>1, SubSeqProperties
    <3>3. x - 1 + 1 = x /\ 1 <= x
      BY <2>2
    <3>4. \A i \in 1 .. x : 1 + i - 1 = i /\ i \in 1 .. n
      BY <1>2, <2>2
    <3> HIDE DEF cutOff
    <3> QED
      BY <3>2, <3>3, <3>4
  <2>6. Bytes(cutOff) \in Nat
    BY <2>5, BytesTyped
  <2> HIDE DEF cutOff, kept
  <2>7. /\ t \in Buffer
        /\ t.lines = kept /\ t.start = b.start + Bytes(cutOff)
        /\ t.cut = b.cut /\ t.merged = b.merged /\ t.end = b.end
        /\ t.known = b.known /\ t.max = b.max
    <3> DEFINE s == b.start + Bytes(cutOff)
    <3>1. s \in Nat
      BY <1>2, <2>6
    <3>2. t = [b EXCEPT !.lines = kept, !.start = s]
      OBVIOUS
    <3> HIDE DEF s, t, x, n
    <3>3. /\ t \in Buffer
          /\ t.lines = kept /\ t.start = s
          /\ t.cut = b.cut /\ t.merged = b.merged /\ t.end = b.end
          /\ t.known = b.known /\ t.max = b.max
      BY <1>1, <2>4, <3>1, <3>2 DEF Buffer
    <3> QED
      BY <3>3 DEF s
  <2> HIDE DEF t
  <2>8. b.known
    <3> SUFFICES ASSUME ~ b.known PROVE FALSE
      OBVIOUS
    <3>1. n = 0
      BY EmptySeq DEF Right, Sound
    <3> QED
      BY <1>2, <2>2, <3>1
  <2>9. Sound(t, w)
    <3>1. \A i \in 1 .. Len(t.lines) : t.lines[i].lo <= t.lines[i].hi /\ t.lines[i].hi <= w
      BY <2>4, <2>7 DEF Right, Sound
    <3> QED
      BY <2>7, <2>8, <3>1 DEF Right, Sound
  <2>10. \A i \in 1 .. b.max : NextLo(t, i) = NextLo(b, i + x)
    <3> TAKE i \in 1 .. b.max
    <3> HIDE DEF x
    <3>1. Len(t.lines) = b.max /\ t.cut = b.cut /\ n = x + b.max
      BY <2>2, <2>4, <2>7
    <3>2. CASE i = b.max
      BY <1>2, <2>2, <3>1, <3>2 DEF NextLo
    <3>3. CASE i # b.max
      <4>1. i + 1 \in 1 .. b.max /\ (i + 1) + x = (i + x) + 1 /\ i + x # n
        BY SMTT(30), <1>2, <2>2, <3>1, <3>3
      <4>2. t.lines[i + 1] = b.lines[(i + x) + 1]
        BY <2>4, <2>7, <4>1
      <4> QED
        BY <3>1, <3>3, <4>1, <4>2 DEF NextLo
    <3> QED
      BY <3>2, <3>3
  <2>11. Newest(t)
    <3> SUFFICES ASSUME NEW i \in 1 .. Len(t.lines), Len(t.lines) - i < MaxLines
                 PROVE  Joins(t.lines[i], NextLo(t, i))
      BY DEF Newest
    <3> HIDE DEF x
    <3>1. i \in 1 .. b.max /\ b.max - i < MaxLines
      BY <2>4, <2>7
    <3>2. i + x \in 1 .. n /\ n - (i + x) < MaxLines
      BY <1>2, <2>2, <2>4, <3>1
    <3>3. Joins(b.lines[i + x], NextLo(b, i + x))
      BY <3>2 DEF Right, Newest
    <3> QED
      BY <2>4, <2>7, <2>10, <3>1, <3>3
  <2>12. Len(t.lines) >= MaxLines
    BY <1>1, <2>4, <2>7
  <2>13. Untrimmed(t)
    BY <1>2, <2>4, <2>7, <2>12 DEF Untrimmed
  <2>14. ASSUME Neat(b)
         PROVE  Neat(t)
    <3> HIDE DEF x
    <3>1. \A i \in 1 .. Len(t.lines) :
            t.lines[i].lo \in LineStarts /\ NextLo(t, i) = t.lines[i].hi + 1
      <4> TAKE i \in 1 .. Len(t.lines)
      <4>1. i \in 1 .. b.max
        BY <2>4, <2>7
      <4>2. t.lines[i] = b.lines[i + x] /\ i + x \in 1 .. n /\ NextLo(t, i) = NextLo(b, i + x)
        BY <2>4, <2>7, <2>10, <4>1
      <4> QED
        BY <2>14, <4>2 DEF Neat
    <3>2. \A i \in 1 .. x : NextLo(b, i) = b.lines[i + 1].lo /\ NextLo(b, i) = b.lines[i].hi + 1
      <4> TAKE i \in 1 .. x
      <4>1. i \in 1 .. n /\ i # n
        BY <1>2, <2>2
      <4> QED
        BY <2>14, <4>1 DEF NextLo, Neat
    <3>3. Chained(cutOff)
      <4>1. \A i \in 1 .. Len(cutOff) : cutOff[i].lo <= cutOff[i].hi
        BY <2>5 DEF Right, Sound
      <4>2. \A i \in 1 .. x - 1 : i \in 1 .. x /\ i + 1 \in 1 .. x
        BY <2>2
      <4>3. \A i \in 1 .. Len(cutOff) - 1 : cutOff[i + 1].lo = cutOff[i].hi + 1
        BY <2>5, <3>2, <4>2
      <4> QED
        BY <2>5, <4>1, <4>3 DEF Chained
    <3>4. Bytes(cutOff) = (cutOff[x].hi + 1) - cutOff[1].lo
      BY <2>2, <2>5, <3>3, BytesOfChain
    <3>5. 1 \in 1 .. x /\ x \in 1 .. x /\ 1 \in 1 .. b.max /\ 1 + x = x + 1
      BY <1>1, <1>2, <2>2
    <3>6. kept[1].lo = cutOff[x].hi + 1 /\ cutOff[1] = b.lines[1]
      <4>1. kept[1] = b.lines[x + 1] /\ cutOff[x] = b.lines[x] /\ cutOff[1] = b.lines[1]
        BY <2>4, <2>5, <3>5
      <4> QED
        BY <3>2, <3>5, <4>1
    <3>7. b.lines # <<>> /\ t.lines # <<>>
      <4>1. n > 0 /\ Len(t.lines) > 0
        BY <1>1, <1>2, <2>2, <2>4, <2>7
      <4> QED
        BY <4>1, EmptySeq
    <3>8. b.start = b.lines[1].lo
      BY <2>8, <2>14, <3>7 DEF Neat, First
    <3>9. kept[1].lo \in Nat /\ b.lines[1].lo \in Nat
      BY <1>2, <2>4, <2>5, <3>5, PieceTyped
    <3>10. t.start = kept[1].lo
      BY <2>7, <3>4, <3>6, <3>8, <3>9
    <3> QED
      BY <2>7, <3>1, <3>7, <3>10 DEF Neat, First
  <2> QED
    BY <2>1, <2>7, <2>9, <2>11, <2>12, <2>13, <2>14 DEF Right, Follows
<1> QED
  BY <1>3, <1>4

LEMMA FlushKeeps ==
  ASSUME NEW w \in 0 .. LogEnd, NEW b, Right(b, w)
  PROVE  /\ Right(Flushed(b), w)
         /\ Flushed(b).merged = Flushed(b).end
         /\ Follows(b, Flushed(b))
<1> DEFINE parts == Split(b.cut, b.end)
           front == Front(parts)
           n == Len(b.lines)
           k == Len(front)
           cut == Last(parts).lo
           c == [b EXCEPT !.lines  = @ \o front, !.cut = cut, !.merged = b.end]
           f == Flushed(b)
<1>1. CASE b.merged = b.end
  <2>1. f = b
    BY <1>1 DEF Flushed
  <2>2. Follows(b, b)
    BY DEF Follows
  <2> HIDE DEF f
  <2> QED
    BY <1>1, <2>1, <2>2 DEF f
<1>2. CASE b.merged # b.end
  <2>1. f = Trimmed(c)
    BY <1>2, Zenon DEF Flushed
  <2>2. /\ b \in Buffer /\ b.cut <= b.merged /\ b.merged <= b.end /\ b.end <= w
        /\ b.cut \in LineStarts /\ b.max >= MaxLines /\ b.known
        /\ \A i \in 1 .. n : b.lines[i].lo <= b.lines[i].hi /\ b.lines[i].hi <= w
    BY <1>2 DEF Right, Sound
  <2>3. /\ b.lines \in Seq(Piece) /\ n \in Nat
        /\ b.cut \in Nat /\ b.merged \in Nat /\ b.end \in Nat /\ b.end <= LogEnd /\ w \in Nat
        /\ b.start \in Nat /\ b.max \in Nat
        /\ LogEnd \in Nat /\ MaxLines \in Nat \ {0} /\ LineStarts \subseteq Nat
    BY <2>2, BufferTyped, ConstantsTyped
  <2>4. IsSplit(parts, b.cut, b.end)
    <3>1. b.cut \in 0 .. LogEnd /\ b.end \in b.cut .. LogEnd
      BY <2>2, <2>3
    <3> QED
      BY <3>1, SplitFacts
  <2> HIDE DEF parts
  <2>5. /\ parts \in Seq(Piece) /\ Len(parts) = k + 1 /\ k \in Nat
        /\ front \in Seq(Piece) /\ \A i \in 1 .. k : front[i] = parts[i]
        /\ cut = parts[k + 1].lo /\ cut \in 0 .. LogEnd
    <3>1. parts \in Seq(Piece) /\ Len(parts) \in Nat \ {0}
      BY <2>4 DEF IsSplit
    <3>2. /\ front \in Seq(Piece) /\ k = Len(parts) - 1
          /\ \A i \in 1 .. Len(parts) - 1 : front[i] = parts[i]
          /\ Last(parts) = parts[Len(parts)] /\ Last(parts) \in Piece
      BY <3>1, FrontFacts
    <3> HIDE DEF front, k
    <3>3. Len(parts) = k + 1 /\ k \in Nat
      BY <3>1, <3>2
    <3>4. cut = parts[k + 1].lo /\ cut \in 0 .. LogEnd
      BY <3>2, <3>3 DEF Piece
    <3> QED
      BY <3>1, <3>2, <3>3, <3>4
  <2>6. /\ parts[1].lo = b.cut /\ parts[k + 1].hi = b.end
        /\ \A i \in 1 .. k + 1 : /\ parts[i].lo <= parts[i].hi /\ parts[i].hi <= b.end
                                 /\ parts[i].lo \in Nat /\ parts[i].hi \in Nat
        /\ \A i \in 1 .. k : parts[i].hi \in Breaks /\ parts[i + 1].lo = parts[i].hi + 1
    <3>1. /\ parts[1].lo = b.cut /\ parts[k + 1].hi = b.end
          /\ \A i \in 1 .. k + 1 : parts[i].lo <= parts[i].hi /\ parts[i].hi <= b.end
          /\ \A i \in 1 .. (k + 1) - 1 : parts[i].hi \in Breaks /\ parts[i + 1].lo = parts[i].hi + 1
      BY <2>4, <2>5 DEF IsSplit
    <3>2. (k + 1) - 1 = k
      BY <2>5
    <3> QED
      BY <2>5, <3>1, <3>2, PieceTyped
  <2>7. \A i \in 1 .. k + 1 : parts[i].lo \in LineStarts
    <3> TAKE i \in 1 .. k + 1
    <3>1. CASE i = 1
      BY <2>2, <2>6, <3>1
    <3>2. CASE i # 1
      <4>1. i - 1 \in 1 .. k /\ (i - 1) + 1 = i
        BY <2>5, <3>2
      <4>2. parts[i].lo = parts[i - 1].hi + 1 /\ parts[i - 1].hi \in Breaks
        BY <2>6, <4>1
      <4> QED
        BY <4>2 DEF LineStarts
    <3> QED
      BY <3>1, <3>2
  <2>8. /\ c \in Buffer /\ c.lines = b.lines \o front
        /\ c.cut = cut /\ c.merged = b.end /\ c.end = b.end
        /\ c.start = b.start /\ c.known = b.known /\ c.max = b.max
    <3>1. b.lines \o front \in Seq(Piece)
      BY <2>3, <2>5, ConcatProperties
    <3>2. b.end \in 0 .. LogEnd
      BY <2>3
    <3> HIDE DEF cut, front
    <3> QED
      BY <2>2, <2>5, <3>1, <3>2 DEF Buffer
  <2> HIDE DEF c, cut, front
  <2>9. /\ Len(c.lines) = n + k
        /\ \A i \in 1 .. n : c.lines[i] = b.lines[i]
        /\ \A i \in 1 .. k : c.lines[n + i] = parts[i]
    <3>1. /\ Len(c.lines) = n + k
          /\ \A i \in 1 .. n + k : c.lines[i] = IF i <= n THEN b.lines[i] ELSE front[i - n]
      BY <2>3, <2>5, <2>8, ConcatProperties
    <3>2. \A i \in 1 .. n : i \in 1 .. n + k /\ i <= n
      BY <2>3, <2>5
    <3>3. \A i \in 1 .. k : n + i \in 1 .. n + k /\ ~ (n + i <= n) /\ (n + i) - n = i
      BY SMTT(30), <2>3, <2>5
    <3> HIDE DEF n, k
    <3> QED
      BY <2>5, <3>1, <3>2, <3>3
  <2> HIDE DEF n, k
  <2>10. \A i \in 1 .. n : NextLo(c, i) = NextLo(b, i)
    <3> TAKE i \in 1 .. n
    <3>1. CASE i # n
      <4>1. i + 1 \in 1 .. n /\ i # n + k
        BY <2>3, <2>5, <3>1
      <4> QED
        BY <2>9, <3>1, <4>1 DEF NextLo, n
    <3>2. CASE i = n
      <4>1. NextLo(b, i) = parts[1].lo
        BY <2>6, <3>2 DEF NextLo, n
      <4>2. CASE k = 0
        <5>1. i = Len(c.lines) /\ k + 1 = 1
          BY <2>3, <2>9, <3>2, <4>2
        <5> QED
          BY <2>5, <2>8, <4>1, <5>1 DEF NextLo
      <4>3. CASE k # 0
        <5>1. i # Len(c.lines) /\ 1 \in 1 .. k /\ i + 1 = n + 1
          BY <2>3, <2>5, <2>9, <3>2, <4>3
        <5> QED
          BY <2>9, <4>1, <5>1 DEF NextLo
      <4> QED
        BY <4>2, <4>3
    <3> QED
      BY <3>1, <3>2
  <2>11. \A i \in 1 .. k : NextLo(c, n + i) = parts[i + 1].lo
    <3> TAKE i \in 1 .. k
    <3>1. CASE i = k
      BY <2>5, <2>8, <2>9, <3>1 DEF NextLo
    <3>2. CASE i # k
      <4>1. i + 1 \in 1 .. k /\ n + i # n + k /\ (n + i) + 1 = n + (i + 1)
        BY <2>3, <2>5, <3>2
      <4> QED
        BY <2>9, <4>1 DEF NextLo
    <3> QED
      BY <3>1, <3>2
  <2>12. \A i \in 1 .. Len(c.lines) : i \in 1 .. n \/ \E j \in 1 .. k : i = n + j
    <3> TAKE i \in 1 .. Len(c.lines)
    <3>1. CASE i <= n
      BY <2>3, <2>9, <3>1
    <3>2. CASE ~ (i <= n)
      <4>1. i - n \in 1 .. k /\ i = n + (i - n)
        BY <2>3, <2>5, <2>9, <3>2
      <4> QED
        BY <4>1
    <3> QED
      BY <3>1, <3>2
  <2>13. First(c) = First(b)
    <3>1. CASE n = 0
      <4>1. b.lines = <<>>
        BY <2>3, <3>1, EmptySeq DEF n
      <4>2. CASE k = 0
        <5>1. c.lines = <<>> /\ k + 1 = 1
          <6>1. Len(c.lines) = 0 /\ c.lines \in Seq(Piece)
            <7>1. n + k = 0
              BY <3>1, <4>2
            <7> QED
              BY <2>8, <2>9, <7>1, BufferTyped
          <6> QED
            BY <4>2, <6>1, EmptySeq
        <5> QED
          BY <2>5, <2>6, <2>8, <4>1, <5>1 DEF First
      <4>3. CASE k # 0
        <5>1. 1 \in 1 .. k /\ n + 1 = 1 /\ Len(c.lines) > 0
          BY <2>5, <2>9, <3>1, <4>3
        <5>2. c.lines # <<>>
          BY <5>1, EmptySeq
        <5> QED
          BY <2>6, <2>9, <4>1, <5>1, <5>2 DEF First
      <4> QED
        BY <4>2, <4>3
    <3>2. CASE n # 0
      <4>1. 1 \in 1 .. n /\ Len(c.lines) > 0 /\ Len(b.lines) > 0
        BY SMTT(30), <2>3, <2>5, <2>9, <3>2 DEF n
      <4>2. c.lines # <<>> /\ b.lines # <<>>
        BY <4>1, EmptySeq
      <4> QED
        BY <2>9, <4>1, <4>2 DEF First
    <3> QED
      BY <3>1, <3>2
  <2>14. Sound(c, w)
    <3>1. \A i \in 1 .. Len(c.lines) : c.lines[i].lo <= c.lines[i].hi /\ c.lines[i].hi <= w
      <4> TAKE i \in 1 .. Len(c.lines)
      <4>1. CASE i \in 1 .. n
        BY <2>2, <2>9, <4>1 DEF n
      <4>2. CASE \E j \in 1 .. k : i = n + j
        <5>1. PICK j \in 1 .. k : i = n + j
          BY <4>2
        <5>2. c.lines[i] = parts[j] /\ j \in 1 .. k + 1
          BY <2>5, <2>9, <5>1
        <5>3. /\ parts[j].lo <= parts[j].hi /\ parts[j].hi <= b.end
              /\ parts[j].hi \in Nat
          BY <2>6, <5>2
        <5> QED
          BY SMTT(30), <2>2, <2>3, <5>2, <5>3
      <4> QED
        BY <2>12, <4>1, <4>2
    <3>2. cut \in LineStarts /\ cut <= b.end
      <4>1. k + 1 \in 1 .. k + 1
        BY <2>5
      <4>2. cut \in LineStarts /\ cut <= parts[k + 1].hi
        BY <2>5, <2>6, <2>7, <4>1
      <4> QED
        BY <2>6, <4>2
    <3> QED
      BY SMTT(30), <2>2, <2>3, <2>8, <3>1, <3>2 DEF Sound
  <2>15. Newest(c)
    <3> SUFFICES ASSUME NEW i \in 1 .. Len(c.lines), Len(c.lines) - i < MaxLines
                 PROVE  Joins(c.lines[i], NextLo(c, i))
      BY DEF Newest
    <3>1. CASE i \in 1 .. n
      <4>1. n - i < MaxLines
        BY <2>3, <2>5, <2>9, <3>1
      <4>2. Joins(b.lines[i], NextLo(b, i))
        BY <3>1, <4>1 DEF Right, Newest, n
      <4> QED
        BY <2>9, <2>10, <3>1, <4>2
    <3>2. CASE \E j \in 1 .. k : i = n + j
      <4>1. PICK j \in 1 .. k : i = n + j
        BY <3>2
      <4>2. j + 1 \in 1 .. k + 1 /\ NextLo(c, i) = parts[j + 1].lo /\ c.lines[i] = parts[j]
        BY <2>5, <2>9, <2>11, <4>1
      <4>3. NextLo(c, i) = parts[j].hi + 1 /\ NextLo(c, i) \in LineStarts
        BY <2>6, <2>7, <4>2
      <4> QED
        BY <4>2, <4>3 DEF Joins
    <3> QED
      BY <2>12, <3>1, <3>2
  <2>16. Untrimmed(c)
    <3>1. Len(c.lines) < MaxLines => Len(b.lines) < MaxLines
      BY <2>3, <2>5, <2>9 DEF n
    <3> QED
      BY <2>8, <2>13, <3>1 DEF Untrimmed, Right
  <2>17. Neat(b) => Neat(c)
    <3> HAVE Neat(b)
    <3>1. ASSUME NEW i \in 1 .. Len(c.lines)
          PROVE  c.lines[i].lo \in LineStarts /\ NextLo(c, i) = c.lines[i].hi + 1
      <4>1. CASE i \in 1 .. n
        BY <2>9, <2>10, <4>1 DEF Neat, n
      <4>2. CASE \E j \in 1 .. k : i = n + j
        <5>1. PICK j \in 1 .. k : i = n + j
          BY <4>2
        <5>2. j \in 1 .. k + 1 /\ NextLo(c, i) = parts[j + 1].lo /\ c.lines[i] = parts[j]
          BY <2>5, <2>9, <2>11, <5>1
        <5> QED
          BY <2>6, <2>7, <5>2
      <4> QED
        BY <2>12, <4>1, <4>2
    <3> QED
      BY <2>8, <2>13, <3>1 DEF Neat
  <2>18. Right(c, w)
    BY <2>14, <2>15, <2>16 DEF Right
  <2>19. /\ Right(f, w) /\ f.merged = c.merged /\ Follows(c, f)
    BY <2>1, <2>18, TrimKeeps
  <2> HIDE DEF f
  <2>20. Len(b.lines) >= MaxLines => Len(c.lines) >= MaxLines
    BY <2>3, <2>5, <2>9 DEF n
  <2>21. f.merged = f.end /\ Follows(b, f)
    BY <2>8, <2>17, <2>19, <2>20 DEF Follows
  <2> QED
    BY <2>19, <2>21 DEF f
<1> QED
  BY <1>1, <1>2

LEMMA PushKeeps ==
  ASSUME NEW w \in 0 .. LogEnd, NEW b, Right(b, w), NEW offset \in b.end + 1 .. w
  PROVE  LET p == Pushed(b, offset)
         IN  /\ Right(p, w) /\ p.known /\ p.lines = b.lines
             /\ b.known => p.start = b.start
             /\ Neat(b) => Neat(p)
<1> DEFINE p == Pushed(b, offset)
           s == IF b.known THEN b.start ELSE b.end
<1>1. /\ b \in Buffer /\ b.cut <= b.merged /\ b.merged <= b.end /\ b.end <= w
      /\ ~b.known => b.lines = <<>> /\ b.merged = b.end /\ b.cut = b.merged
  BY DEF Right, Sound
<1>2. /\ b.cut \in Nat /\ b.merged \in Nat /\ b.end \in Nat /\ b.end <= LogEnd
      /\ b.start \in Nat /\ b.known \in BOOLEAN /\ LogEnd \in Nat
  BY <1>1, BufferTyped, ConstantsTyped
<1>3. s \in Nat /\ offset \in 0 .. LogEnd /\ b.end <= offset /\ offset <= w
  BY <1>1, <1>2
<1>4. /\ p \in Buffer /\ p.start = s /\ p.known = TRUE /\ p.end = offset
      /\ p.lines = b.lines /\ p.cut = b.cut /\ p.merged = b.merged /\ p.max = b.max
  <2>1. p = [b EXCEPT !.start = s, !.known = TRUE, !.end = offset]
    BY DEF Pushed
  <2> HIDE DEF p, s
  <2> QED
    BY <1>1, <1>3, <2>1 DEF Buffer
<1> HIDE DEF p
<1>5. First(p) = First(b) /\ \A i \in 1 .. Len(b.lines) : NextLo(p, i) = NextLo(b, i)
  BY <1>4 DEF First, NextLo
<1>6. ~b.known => p.start = First(p)
  BY <1>1, <1>4 DEF First
<1>7. Sound(p, w)
  <2>1. p.merged <= p.end
    BY <1>1, <1>2, <1>3, <1>4
  <2> QED
    BY <1>3, <1>4, <2>1 DEF Right, Sound
<1>8. Newest(p)
  BY <1>4, <1>5 DEF Right, Newest
<1>9. Untrimmed(p)
  BY <1>4, <1>5, <1>6 DEF Right, Untrimmed
<1>10. Neat(b) => Neat(p)
  BY <1>4, <1>5, <1>6 DEF Neat
<1>11. b.known => p.start = b.start
  BY <1>4
<1> QED
  BY <1>4, <1>7, <1>8, <1>9, <1>10, <1>11 DEF Right, p

LEMMA FirstFacts ==
  ASSUME NEW w \in 0 .. LogEnd, NEW b, Sound(b, w)
  PROVE  /\ First(b) \in Nat /\ First(b) <= w
         /\ Neat(b) => First(b) \in LineStarts
<1>1. /\ b \in Buffer /\ b.cut <= b.merged /\ b.merged <= b.end /\ b.end <= w
      /\ b.cut \in LineStarts
      /\ \A i \in 1 .. Len(b.lines) : b.lines[i].lo <= b.lines[i].hi /\ b.lines[i].hi <= w
  BY DEF Sound
<1>2. /\ b.lines \in Seq(Piece) /\ Len(b.lines) \in Nat
      /\ b.cut \in Nat /\ b.merged \in Nat /\ b.end \in Nat /\ w \in Nat
  BY <1>1, BufferTyped, ConstantsTyped
<1>3. CASE b.lines = <<>>
  <2>1. First(b) = b.cut /\ b.cut <= w
    BY <1>1, <1>2, <1>3 DEF First
  <2> QED
    BY <1>1, <1>2, <2>1
<1>4. CASE b.lines # <<>>
  <2>1. 1 \in 1 .. Len(b.lines) /\ First(b) = b.lines[1].lo
    BY <1>2, <1>4, EmptySeq DEF First
  <2>2. /\ b.lines[1].lo \in Nat /\ b.lines[1].hi \in Nat
        /\ b.lines[1].lo <= b.lines[1].hi /\ b.lines[1].hi <= w
    BY <1>1, <1>2, <2>1, PieceTyped
  <2>3. First(b) \in Nat /\ First(b) <= w
    BY <1>2, <2>1, <2>2
  <2> QED
    BY <2>1, <2>3 DEF Neat
<1> QED
  BY <1>3, <1>4

LEMMA PrependKeeps ==
  ASSUME NEW w \in 0 .. LogEnd, NEW b, Right(b, w), b.known,
         NEW ls \in Seq(Piece), NEW start \in Nat, NEW until \in Nat,
         \A i \in 1 .. Len(ls) : ls[i].lo <= ls[i].hi /\ ls[i].hi <= w,
         until <= w => Leads(ls, start, until),
         until # b.start => Len(b.lines) >= MaxLines
  PROVE  LET p == Prepended(b, ls, start)
         IN  /\ Right(p, w) /\ p.known
             /\ Len(b.lines) >= MaxLines => Len(p.lines) >= MaxLines
             /\ Neat(b) /\ until = b.start /\ start \in LineStarts => Neat(p)
<1> DEFINE p == Prepended(b, ls, start)
           k == Len(ls)
           n == Len(b.lines)
           max == IF b.max > k + n + TailLines THEN b.max ELSE k + n + TailLines
<1>1. CASE ls = <<>> /\ start = b.start
  <2>1. p = b
    BY <1>1 DEF Prepended
  <2> HIDE DEF p
  <2> QED
    BY <2>1 DEF p
<1>2. CASE ~ (ls = <<>> /\ start = b.start)
  <2>1. p = [b EXCEPT !.lines = ls \o @, !.start = start, !.max = max]
    BY <1>2, Zenon DEF Prepended
  <2>2. Sound(b, w) /\ Newest(b) /\ Untrimmed(b) /\ b \in Buffer /\ b.max >= MaxLines
    BY DEF Right, Sound
  <2>3. /\ b.lines \in Seq(Piece) /\ n \in Nat /\ k \in Nat /\ b.max \in Nat /\ b.start \in Nat
        /\ MaxLines \in Nat \ {0} /\ TailLines \in Nat /\ Breaks \subseteq Nat
    BY <2>2, BufferTyped, ConstantsTyped, PieceTyped
  <2>4. max \in Nat /\ max >= MaxLines
    <3> HIDE DEF k, n
    <3> QED
      BY <2>2, <2>3
  <2>5. ls \o b.lines \in Seq(Piece)
    BY <2>3, ConcatProperties
  <2> HIDE DEF p, max
  <2>6. /\ p \in Buffer /\ p.lines = ls \o b.lines /\ p.start = start /\ p.max = max
        /\ p.cut = b.cut /\ p.merged = b.merged /\ p.end = b.end /\ p.known = b.known
    BY <2>1, <2>2, <2>4, <2>5 DEF Buffer
  <2>7. /\ Len(p.lines) = k + n
        /\ \A i \in 1 .. k : p.lines[i] = ls[i]
        /\ \A i \in 1 .. n : p.lines[k + i] = b.lines[i]
    <3>1. /\ Len(p.lines) = k + n
          /\ \A i \in 1 .. k + n : p.lines[i] = IF i <= k THEN ls[i] ELSE b.lines[i - k]
      BY <2>3, <2>6, ConcatProperties
    <3>2. \A i \in 1 .. k : i \in 1 .. k + n /\ i <= k
      BY <2>3
    <3>3. \A i \in 1 .. n : k + i \in 1 .. k + n /\ ~ (k + i <= k) /\ (k + i) - k = i
      BY <2>3
    <3> HIDE DEF n, k
    <3> QED
      BY <3>1, <3>2, <3>3
  <2>8. \A i \in 1 .. Len(p.lines) : i \in 1 .. k \/ \E j \in 1 .. n : i = k + j
    <3> TAKE i \in 1 .. Len(p.lines)
    <3> HIDE DEF k, n
    <3>1. CASE i <= k
      BY <2>3, <2>7, <3>1
    <3>2. CASE ~ (i <= k)
      <4>1. i - k \in 1 .. n /\ i = k + (i - k)
        BY <2>3, <2>7, <3>2
      <4> QED
        BY <4>1
    <3> QED
      BY <3>1, <3>2
  <2>9. \A i \in 1 .. n : NextLo(p, k + i) = NextLo(b, i)
    <3> TAKE i \in 1 .. n
    <3>1. CASE i = n
      BY <2>6, <2>7, <3>1 DEF NextLo
    <3>2. CASE i # n
      <4> HIDE DEF k, n
      <4>1. i + 1 \in 1 .. n /\ k + i # k + n /\ (k + i) + 1 = k + (i + 1)
        BY SMTT(30), <2>3, <3>2
      <4> QED
        BY <2>7, <3>2, <4>1 DEF NextLo, n
    <3> QED
      BY <3>1, <3>2
  <2>10. \A i \in 1 .. k : NextLo(p, i) = IF i = k THEN First(b) ELSE ls[i + 1].lo
    <3> TAKE i \in 1 .. k
    <3>1. CASE i # k
      <4> HIDE DEF k, n
      <4>1. i + 1 \in 1 .. k /\ i # k + n
        BY <2>3, <3>1
      <4> QED
        BY <2>7, <3>1, <4>1 DEF NextLo
    <3>2. CASE i = k /\ b.lines = <<>>
      <4>1. n = 0 /\ k + n = k
        BY <2>3, <3>2, EmptySeq
      <4> QED
        BY <2>6, <2>7, <3>2, <4>1 DEF NextLo, First
    <3>3. CASE i = k /\ b.lines # <<>>
      <4>1. n \in Nat \ {0}
        BY <2>3, <3>3, EmptySeq
      <4> HIDE DEF n, k
      <4>2. 1 \in 1 .. n /\ k # k + n
        BY <2>3, <4>1
      <4> QED
        BY <2>7, <3>3, <4>2 DEF NextLo, First
    <3> QED
      BY <3>1, <3>2, <3>3
  <2>11. First(b) \in Nat /\ First(b) <= w /\ (Neat(b) => First(b) \in LineStarts)
    BY <2>2, FirstFacts
  <2>12. ASSUME until <= w
         PROVE  /\ k \in Nat \ {0} /\ p.lines # <<>> /\ First(p) = start /\ start = ls[1].lo
                /\ \A i \in 1 .. k - 1 : ls[i].hi \in Breaks /\ ls[i + 1].lo = ls[i].hi + 1
                /\ Joins(ls[k], until)
    <3>1. Leads(ls, start, until)
      BY <2>12
    <3>2. k \in Nat \ {0}
      BY <2>3, <3>1, EmptySeq DEF Leads
    <3>3. 1 \in 1 .. k /\ Len(p.lines) > 0
      <4> HIDE DEF k, n
      <4> QED
        BY <2>3, <2>7, <3>2
    <3>4. p.lines # <<>>
      BY <3>3, EmptySeq
    <3> QED
      BY <2>7, <3>1, <3>2, <3>3, <3>4 DEF Leads, Chained, First
  <2>13. Sound(p, w)
    <3>1. \A i \in 1 .. Len(p.lines) : p.lines[i].lo <= p.lines[i].hi /\ p.lines[i].hi <= w
      <4> TAKE i \in 1 .. Len(p.lines)
      <4>1. CASE i \in 1 .. k
        BY <2>7, <4>1
      <4>2. CASE \E j \in 1 .. n : i = k + j
        <5>1. PICK j \in 1 .. n : i = k + j
          BY <4>2
        <5> QED
          BY <2>2, <2>7, <5>1 DEF Sound
      <4> QED
        BY <2>8, <4>1, <4>2
    <3> QED
      BY <2>2, <2>4, <2>6, <3>1 DEF Sound
  <2>14. ASSUME n < MaxLines
         PROVE  until <= w /\ until = First(b)
    <3>1. until = b.start
      BY <2>3, <2>14
    <3>2. b.start = First(b)
      BY <2>2, <2>14 DEF Untrimmed
    <3> QED
      BY <2>11, <3>1, <3>2
  <2> HIDE DEF k, n
  <2>15. Untrimmed(p)
    <3>1. Len(p.lines) < MaxLines => n < MaxLines
      BY <2>3, <2>7
    <3> QED
      BY <2>6, <2>12, <2>14, <3>1 DEF Untrimmed
  <2>16. Newest(p)
    <3> SUFFICES ASSUME NEW i \in 1 .. Len(p.lines), Len(p.lines) - i < MaxLines
                 PROVE  Joins(p.lines[i], NextLo(p, i))
      BY DEF Newest
    <3>1. CASE i \in 1 .. k
      <4>1. n < MaxLines
        BY <2>3, <2>7, <3>1
      <4>2. until <= w /\ until = First(b)
        BY <2>14, <4>1
      <4>3. CASE i = k
        BY <2>7, <2>10, <2>12, <3>1, <4>2, <4>3
      <4>4. CASE i # k
        <5>1. i \in 1 .. k - 1
          BY <2>3, <3>1, <4>4
        <5>2. NextLo(p, i) = ls[i].hi + 1 /\ ls[i].hi \in Breaks
          BY <2>10, <2>12, <3>1, <4>2, <4>4, <5>1
        <5>3. NextLo(p, i) \in LineStarts
          BY <5>2 DEF LineStarts
        <5> QED
          BY <2>7, <3>1, <5>2, <5>3 DEF Joins
      <4> QED
        BY <4>3, <4>4
    <3>2. CASE \E j \in 1 .. n : i = k + j
      <4>1. PICK j \in 1 .. n : i = k + j
        BY <3>2
      <4>2. n - j < MaxLines
        BY <2>3, <2>7, <4>1
      <4>3. Joins(b.lines[j], NextLo(b, j))
        BY <2>2, <4>2 DEF Newest, n
      <4> QED
        BY <2>7, <2>9, <4>1, <4>3
    <3> QED
      BY <2>8, <3>1, <3>2
  <2>17. ASSUME Neat(b), until = b.start, start \in LineStarts
         PROVE  Neat(p)
    <3>1. until = First(b) /\ until <= w /\ until \in LineStarts
      BY <2>11, <2>17 DEF Neat
    <3>2. ASSUME NEW i \in 1 .. Len(p.lines)
          PROVE  p.lines[i].lo \in LineStarts /\ NextLo(p, i) = p.lines[i].hi + 1
      <4>1. CASE i \in 1 .. k
        <5>1. ls[i].lo \in LineStarts
          <6>1. CASE i = 1
            BY <2>12, <2>17, <3>1, <6>1
          <6>2. CASE i # 1
            <7>1. i - 1 \in 1 .. k - 1 /\ (i - 1) + 1 = i
              BY <2>3, <4>1, <6>2
            <7>2. ls[i].lo = ls[i - 1].hi + 1 /\ ls[i - 1].hi \in Breaks
              BY <2>12, <3>1, <7>1
            <7> QED
              BY <7>2 DEF LineStarts
          <6> QED
            BY <6>1, <6>2
        <5>2. CASE i = k
          <6>1. NextLo(p, i) = until /\ until = ls[i].hi + 1
            BY <2>10, <2>12, <3>1, <4>1, <5>2 DEF Joins
          <6> QED
            BY <2>7, <4>1, <5>1, <6>1
        <5>3. CASE i # k
          <6>1. i \in 1 .. k - 1
            BY <2>3, <4>1, <5>3
          <6> QED
            BY <2>7, <2>10, <2>12, <3>1, <4>1, <5>1, <5>3, <6>1
        <5> QED
          BY <5>2, <5>3
      <4>2. CASE \E j \in 1 .. n : i = k + j
        <5>1. PICK j \in 1 .. n : i = k + j
          BY <4>2
        <5>2. b.lines[j].lo \in LineStarts /\ NextLo(b, j) = b.lines[j].hi + 1
          BY <2>17 DEF Neat, n
        <5> QED
          BY <2>7, <2>9, <5>1, <5>2
      <4> QED
        BY <2>8, <4>1, <4>2
    <3> QED
      BY <2>6, <2>12, <3>1, <3>2 DEF Neat
  <2>18. Len(b.lines) >= MaxLines => Len(p.lines) >= MaxLines
    BY <2>3, <2>7 DEF n
  <2> QED
    BY <2>6, <2>13, <2>15, <2>16, <2>17, <2>18 DEF Right, p
<1> QED
  BY <1>1, <1>2

\* What the viewer is given of a buffer.
LEMMA ViewFacts ==
  ASSUME NEW w \in 0 .. LogEnd, NEW b, Right(b, w)
  PROVE  LET v == View(b)
         IN  /\ v \in Seq(Piece)
             /\ ~b.known => v = <<>>
             /\ Neat(b) => /\ \A i, j \in 1 .. Len(v) : i < j => v[i].hi < v[j].lo
                           /\ v # <<>> => v[1].lo = b.start
<1> DEFINE v == View(b)
           n == Len(b.lines)
           last == [lo |-> b.cut, hi |-> b.merged]
<1>1. Sound(b, w) /\ b \in Buffer
  BY DEF Right, Sound
<1>2. b.lines \in Seq(Piece) /\ n \in Nat
  BY <1>1, BufferTyped
<1>3. ~b.known => v = <<>>
  BY <1>1 DEF Sound, View
<1>4. ASSUME Neat(b)
      PROVE  Chained(b.lines)
  <2>1. \A i \in 1 .. n - 1 : b.lines[i + 1].lo = b.lines[i].hi + 1
    <3> TAKE i \in 1 .. n - 1
    <3>1. i \in 1 .. n /\ i # n
      BY <1>2
    <3> QED
      BY <1>4, <3>1 DEF Neat, NextLo
  <2> QED
    BY <1>1, <1>2, <2>1 DEF Chained, Sound
<1>5. CASE b.cut = b.merged
  <2>1. v = b.lines
    BY <1>5 DEF View
  <2> HIDE DEF v
  <2>2. Neat(b) => Chained(v)
    BY <1>4, <2>1
  <2>3. Neat(b) /\ v # <<>> => v[1].lo = b.start
    BY <1>3, <2>1 DEF Neat, First
  <2> QED
    BY <1>2, <1>3, <2>1, <2>2, <2>3, ChainOrder DEF v
<1>6. CASE b.cut # b.merged
  <2>1. v = Append(b.lines, last)
    BY <1>6 DEF View
  <2>2. last \in Piece /\ last.lo = b.cut /\ last.hi = b.merged /\ last.lo <= last.hi
    BY <1>1 DEF Buffer, Piece, Sound
  <2> HIDE DEF v, last
  <2>3. /\ v \in Seq(Piece) /\ Len(v) = n + 1 /\ v # <<>>
        /\ \A i \in 1 .. n : v[i] = b.lines[i]
        /\ v[n + 1] = last
    BY <1>2, <2>1, <2>2, AppendProperties
  <2>4. ASSUME Neat(b)
        PROVE  Chained(v)
    <3>1. \A i \in 1 .. n + 1 : v[i].lo <= v[i].hi
      <4> TAKE i \in 1 .. n + 1
      <4>1. i \in 1 .. n \/ i = n + 1
        BY <1>2
      <4> QED
        BY <1>1, <2>2, <2>3, <4>1 DEF Sound
    <3>2. \A i \in 1 .. n : v[i + 1].lo = v[i].hi + 1
      <4> TAKE i \in 1 .. n
      <4>1. CASE i = n
        BY <2>2, <2>3, <2>4, <4>1 DEF Neat, NextLo
      <4>2. CASE i # n
        <5>1. i + 1 \in 1 .. n
          BY <1>2, <4>2
        <5> QED
          BY <2>3, <2>4, <4>2, <5>1 DEF Neat, NextLo
      <4> QED
        BY <4>1, <4>2
    <3>3. (n + 1) - 1 = n
      BY <1>2
    <3> QED
      BY <2>3, <3>1, <3>2, <3>3 DEF Chained
  <2>5. v[1].lo = First(b)
    <3>1. CASE b.lines = <<>>
      <4>1. n + 1 = 1
        BY <1>2, <3>1, EmptySeq
      <4> QED
        BY <2>2, <2>3, <3>1, <4>1 DEF First
    <3>2. CASE b.lines # <<>>
      <4>1. 1 \in 1 .. n
        BY <1>2, <3>2, EmptySeq
      <4> QED
        BY <2>3, <3>2, <4>1 DEF First
    <3> QED
      BY <3>1, <3>2
  <2>6. Neat(b) => v[1].lo = b.start
    BY <1>3, <2>3, <2>5 DEF Neat
  <2> QED
    BY <1>3, <2>3, <2>4, <2>6, ChainOrder DEF v
<1> QED
  BY <1>5, <1>6

(***************************************************************************)
(* The feed                                                                *)
(***************************************************************************)
Flags == {running, follow, loaded, hasEarlier, logError, stopped, timer, torn}

\* The part that is being read leads up to where the lines begin, unless lines were
\* trimmed since it was asked for.
EarlierRight ==
  earlier # None =>
    /\ buffer.known /\ earlier.from < earlier.until
    /\ earlier.until # buffer.start => Len(buffer.lines) >= MaxLines

LogInv ==
  /\ LogTypeOK
  /\ Right(buffer, written) /\ (~torn => Neat(buffer))
  /\ stream = "idle" => ~buffer.known
  /\ ~buffer.known => lines = <<>> /\ ~hasEarlier
  /\ EarlierRight
  /\ ~torn => NoLineTwice /\ ReadsOnFromFirst
  /\ PendingHasTimer

LEMMA LogTypes ==
  LogTypeOK <=>
    /\ written \in 0 .. LogEnd /\ Flags \subseteq BOOLEAN
    /\ stream \in {"idle", "open", "ended"}
    /\ buffer \in Buffer /\ lines \in Seq(Piece) /\ earlier \in LogRange \cup {None}
BY DEF LogTypeOK, Flags

LEMMA LogInvInit == LogInit => LogInv
<1> SUFFICES ASSUME LogInit PROVE LogInv
  OBVIOUS
<1>1. /\ LogEnd \in Nat /\ MaxLines \in Nat \ {0} /\ 0 \in LineStarts
  BY ConstantsTyped DEF LineStarts
<1>2. written \in 0 .. LogEnd
  <2>1. 0 <= LogEnd \div 2 /\ LogEnd \div 2 <= LogEnd /\ LogEnd \div 2 \in Nat
    BY <1>1
  <2> QED
    BY <1>1, <2>1 DEF LogInit
<1>3. /\ buffer.lines = <<>> /\ buffer.cut = 0 /\ buffer.merged = 0 /\ buffer.end = 0
      /\ buffer.start = 0 /\ ~buffer.known /\ buffer.max = MaxLines
      /\ lines = <<>> /\ stream = "idle" /\ earlier = None
  BY DEF LogInit
<1>4. buffer \in Buffer /\ lines \in Seq(Piece) /\ Len(buffer.lines) = 0
  <2>1. <<>> \in Seq(Piece) /\ Len(<<>>) = 0
    BY EmptySeq
  <2> QED
    BY <1>1, <2>1 DEF LogInit, Buffer
<1>5. Flags \subseteq BOOLEAN
  BY Zenon DEF LogInit, Flags
<1>6. LogTypeOK
  BY <1>2, <1>3, <1>4, <1>5, LogTypes
<1>7. Right(buffer, written)
  BY <1>1, <1>2, <1>3, <1>4 DEF Right, Sound, Newest, Untrimmed
<1>8. Neat(buffer)
  BY <1>3, <1>4 DEF Neat
<1>9. NoLineTwice /\ ReadsOnFromFirst
  <2>1. Len(lines) = 0 /\ DOMAIN lines = 1 .. Len(lines)
    BY <1>3, <1>4
  <2>2. DOMAIN lines = {}
    BY <2>1
  <2> QED
    BY <1>3, <2>2 DEF NoLineTwice, ReadsOnFromFirst
<1>10. ~hasEarlier /\ PendingHasTimer
  BY <1>3 DEF LogInit, PendingHasTimer
<1> QED
  BY <1>3, <1>6, <1>7, <1>8, <1>9, <1>10 DEF LogInv, EarlierRight

\* Applying a buffer hands over lines that are right if the buffer is.
LEMMA ApplyFacts ==
  ASSUME written \in 0 .. LogEnd, NEW b, Right(b, written), Apply(b)
  PROVE  /\ Right(buffer', written) /\ Follows(b, buffer') /\ buffer'.merged = buffer'.end
         /\ lines' \in Seq(Piece)
         /\ {hasEarlier', loaded', timer'} \subseteq BOOLEAN
         /\ ~buffer'.known => lines' = <<>> /\ ~hasEarlier'
         /\ Neat(buffer') => NoLineTwice' /\ ReadsOnFromFirst'
<1>1. buffer' = Flushed(b) /\ lines' = View(buffer')
  BY DEF Apply
<1>2. hasEarlier' = (buffer'.known /\ buffer'.start > 0)
  BY DEF Apply
<1>3. {hasEarlier', loaded', timer'} \subseteq BOOLEAN
  BY Zenon DEF Apply
<1>4. Right(buffer', written) /\ Follows(b, buffer') /\ buffer'.merged = buffer'.end
  BY <1>1, FlushKeeps
<1> DEFINE v == View(buffer')
<1>5. /\ v \in Seq(Piece)
      /\ ~buffer'.known => v = <<>>
      /\ Neat(buffer') => /\ \A i, j \in 1 .. Len(v) : i < j => v[i].hi < v[j].lo
                          /\ v # <<>> => v[1].lo = buffer'.start
  BY <1>4, ViewFacts
<1>6. lines' = v
  BY <1>1
<1> HIDE DEF v
<1>7. DOMAIN lines' = 1 .. Len(v)
  BY <1>5, <1>6
<1>8. Neat(buffer') => NoLineTwice' /\ ReadsOnFromFirst'
  <2> HAVE Neat(buffer')
  <2>1. NoLineTwice'
    BY <1>5, <1>6, <1>7 DEF NoLineTwice
  <2>2. ASSUME lines' # <<>>
        PROVE  lines'[1].lo = buffer'.start /\ hasEarlier' = (lines'[1].lo > 0)
    BY <1>2, <1>5, <1>6, <2>2
  <2> QED
    BY <2>1, <2>2 DEF ReadsOnFromFirst
<1>9. ~buffer'.known => lines' = <<>> /\ ~hasEarlier'
  BY <1>2, <1>5, <1>6
<1> QED
  BY <1>3, <1>4, <1>5, <1>6, <1>8, <1>9

LEMMA ApplyKeeps ==
  ASSUME LogInv, NEW b, Right(b, written), Apply(b),
         UNCHANGED <<written, running, follow, stopped>>,
         logError' \in BOOLEAN, torn' \in BOOLEAN, ~torn' => Neat(b),
         stream' \in {"idle", "open", "ended"}, stream' = "idle" => ~b.known,
         earlier' \in LogRange \cup {None},
         earlier' # None =>
           /\ b.known /\ earlier'.from < earlier'.until
           /\ earlier'.until # b.start => Len(b.lines) >= MaxLines
  PROVE  LogInv'
<1>1. written \in 0 .. LogEnd /\ Flags \subseteq BOOLEAN
  BY LogTypes DEF LogInv
<1>2. /\ Right(buffer', written) /\ Follows(b, buffer') /\ buffer'.merged = buffer'.end
      /\ lines' \in Seq(Piece)
      /\ {hasEarlier', loaded', timer'} \subseteq BOOLEAN
      /\ ~buffer'.known => lines' = <<>> /\ ~hasEarlier'
      /\ Neat(buffer') => NoLineTwice' /\ ReadsOnFromFirst'
  BY <1>1, ApplyFacts
<1>3. buffer'.known = b.known /\ (Neat(b) => Neat(buffer'))
  BY <1>2 DEF Follows
<1>4. LogTypeOK'
  <2>1. buffer' \in Buffer
    BY <1>2 DEF Right, Sound
  <2>2. Flags' \subseteq BOOLEAN
    BY <1>1, <1>2, Zenon DEF Flags
  <2> QED
    BY <1>1, <1>2, <2>1, <2>2 DEF LogTypeOK, Flags
<1>5. Right(buffer, written)'
  BY <1>2
<1>6. Neat(buffer)' <=> Neat(buffer')
  OBVIOUS
<1>7. EarlierRight'
  <2>1. buffer'.start # b.start => Len(buffer'.lines) >= MaxLines
    BY <1>2 DEF Follows
  <2>2. Len(b.lines) >= MaxLines => Len(buffer'.lines) >= MaxLines
    BY <1>2 DEF Follows
  <2> QED
    BY <1>3, <2>1, <2>2 DEF EarlierRight
<1>8. PendingHasTimer'
  <2>1. buffer'.end \in Nat
    BY <1>2, BufferTyped DEF Right, Sound
  <2> QED
    BY <1>2, <2>1 DEF PendingHasTimer
<1> QED
  BY <1>2, <1>3, <1>4, <1>5, <1>6, <1>7, <1>8 DEF LogInv

LEMMA StartStep == LogInv /\ Start => LogInv'
<1> SUFFICES ASSUME LogInv, Start PROVE LogInv'
  OBVIOUS
<1> DEFINE s == TailStart(written)
<1>1. /\ written \in 0 .. LogEnd /\ Flags \subseteq BOOLEAN /\ buffer \in Buffer
      /\ lines \in Seq(Piece) /\ stream = "idle" /\ ~buffer.known /\ buffer.lines = <<>>
      /\ lines = <<>> /\ ~hasEarlier /\ earlier = None /\ Right(buffer, written)
  BY LogTypes DEF LogInv, Start, EarlierRight, Right, Sound
<1>2. s \in LineStarts /\ s \in 0 .. written
  BY <1>1, TailStartFacts
<1>3. s \in 0 .. LogEnd /\ s <= written /\ s \in Nat /\ LogEnd \in Nat
  BY <1>1, <1>2, ConstantsTyped
<1>4. buffer' = [buffer EXCEPT !.cut = s, !.merged = s, !.end = s]
  BY DEF Start
<1> HIDE DEF s
<1>5. /\ buffer' \in Buffer /\ buffer'.lines = <<>> /\ ~buffer'.known
      /\ buffer'.cut = s /\ buffer'.merged = s /\ buffer'.end = s
      /\ buffer'.start = buffer.start /\ buffer'.max = buffer.max
  BY <1>1, <1>3, <1>4 DEF Buffer
<1>6. Len(buffer'.lines) = 0 /\ Len(lines) = 0
  BY <1>1, <1>5, EmptySeq
<1>7. UNCHANGED <<written, running, follow, lines, loaded, hasEarlier, logError,
                  stopped, timer, earlier, torn>> /\ stream' = "open"
  BY DEF Start
<1>8. LogTypeOK'
  <2>1. Flags' = Flags
    BY <1>7 DEF Flags
  <2> QED
    BY <1>1, <1>5, <1>7, <2>1 DEF LogTypeOK, Flags
<1>9. Right(buffer', written)
  BY <1>1, <1>2, <1>3, <1>5, <1>6 DEF Right, Sound, Newest, Untrimmed
<1>10. Neat(buffer')
  BY <1>5, <1>6 DEF Neat
<1>11. NoLineTwice' /\ ReadsOnFromFirst'
  <2>1. DOMAIN lines' = {} /\ lines' = <<>>
    BY <1>1, <1>6, <1>7
  <2> QED
    BY <2>1 DEF NoLineTwice, ReadsOnFromFirst
<1>12. PendingHasTimer'
  BY <1>3, <1>5 DEF PendingHasTimer
<1> QED
  BY <1>1, <1>5, <1>7, <1>8, <1>9, <1>10, <1>11, <1>12 DEF LogInv, EarlierRight

LEMMA ChunkStep == LogInv /\ Chunk => LogInv'
<1> SUFFICES ASSUME LogInv, Chunk PROVE LogInv'
  OBVIOUS
<1>1. /\ written \in 0 .. LogEnd /\ Flags \subseteq BOOLEAN /\ buffer \in Buffer
      /\ lines \in Seq(Piece) /\ stream = "open" /\ Right(buffer, written)
      /\ earlier \in LogRange \cup {None}
  BY LogTypes DEF LogInv, Chunk
<1>2. PICK offset \in buffer.end + 1 .. written :
        LET b == Pushed(buffer, offset)
        IN  IF follow /\ ~loaded THEN Apply(b)
            ELSE /\ buffer' = b
                 /\ timer' = (timer \/ follow)
                 /\ UNCHANGED <<lines, loaded, hasEarlier>>
  BY Zenon DEF Chunk
<1>3. UNCHANGED <<written, running, follow, stream, logError, stopped, earlier, torn>>
  BY DEF Chunk
<1> DEFINE b == Pushed(buffer, offset)
<1>4. /\ Right(b, written) /\ b.known /\ b.lines = buffer.lines
      /\ buffer.known => b.start = buffer.start
      /\ Neat(buffer) => Neat(b)
  BY <1>1, PushKeeps
<1>5. IF follow /\ ~loaded THEN Apply(b)
      ELSE /\ buffer' = b
           /\ timer' = (timer \/ follow)
           /\ UNCHANGED <<lines, loaded, hasEarlier>>
  BY <1>2
<1> HIDE DEF b
<1>6. earlier # None =>
        /\ b.known /\ earlier.from < earlier.until
        /\ earlier.until # b.start => Len(b.lines) >= MaxLines
  BY <1>4 DEF LogInv, EarlierRight
<1>7. ~torn => Neat(b)
  BY <1>4 DEF LogInv
<1>8. logError' \in BOOLEAN /\ torn' \in BOOLEAN
  BY <1>1, <1>3 DEF Flags
<1>9. CASE follow /\ ~loaded
  BY <1>1, <1>3, <1>4, <1>5, <1>6, <1>7, <1>8, <1>9, ApplyKeeps
<1>10. CASE ~ (follow /\ ~loaded)
  <2>1. buffer' = b /\ timer' = (timer \/ follow) /\ UNCHANGED <<lines, loaded, hasEarlier>>
    BY <1>5, <1>10
  <2>2. timer' \in BOOLEAN
    BY <2>1, Zenon
  <2>3. LogTypeOK'
    <3>1. buffer' \in Buffer
      BY <1>4, <2>1 DEF Right, Sound
    <3>2. Flags' \subseteq BOOLEAN
      BY <1>1, <1>3, <2>1, <2>2, Zenon DEF Flags
    <3> QED
      BY <1>1, <1>3, <2>1, <3>1, <3>2 DEF LogTypeOK, Flags
  <2>4. ~torn' => NoLineTwice' /\ ReadsOnFromFirst'
    <3> HAVE ~torn'
    <3>1. NoLineTwice /\ ReadsOnFromFirst
      BY <1>3 DEF LogInv
    <3>2. NoLineTwice'
      BY <2>1, <3>1 DEF NoLineTwice
    <3>3. ReadsOnFromFirst'
      <4>1. lines # <<>> => buffer'.start = buffer.start
        BY <1>4, <2>1 DEF LogInv
      <4> QED
        BY <2>1, <3>1, <4>1 DEF ReadsOnFromFirst
    <3> QED
      BY <3>2, <3>3
  <2>5. PendingHasTimer'
    <3>1. follow => timer'
      BY <2>1
    <3> QED
      BY <1>3, <3>1 DEF PendingHasTimer
  <2> QED
    BY <1>1, <1>3, <1>4, <1>6, <1>7, <2>1, <2>3, <2>4, <2>5 DEF LogInv, EarlierRight
<1> QED
  BY <1>9, <1>10

LEMMA FireStep == LogInv /\ Fire => LogInv'
<1> SUFFICES ASSUME LogInv, Fire PROVE LogInv'
  OBVIOUS
<1>1. /\ Right(buffer, written) /\ (~torn => Neat(buffer)) /\ Flags \subseteq BOOLEAN
      /\ stream \in {"idle", "open", "ended"} /\ (stream = "idle" => ~buffer.known)
      /\ earlier \in LogRange \cup {None} /\ EarlierRight
  BY LogTypes DEF LogInv
<1>2. /\ Apply(buffer)
      /\ UNCHANGED <<written, running, follow, stream, logError, stopped, earlier, torn>>
  BY DEF Fire
<1>3. logError' \in BOOLEAN /\ torn' \in BOOLEAN
  BY <1>1, <1>2 DEF Flags
<1> QED
  BY <1>1, <1>2, <1>3, ApplyKeeps DEF EarlierRight

LEMMA EndStep ==
  ASSUME LogInv, NEW fails \in BOOLEAN, End(fails)
  PROVE  LogInv'
<1>1. /\ Right(buffer, written) /\ (~torn => Neat(buffer)) /\ Flags \subseteq BOOLEAN
      /\ earlier \in LogRange \cup {None} /\ EarlierRight
  BY LogTypes DEF LogInv
<1>2. /\ Apply(buffer) /\ stream' = "ended" /\ logError' = (logError \/ fails)
      /\ UNCHANGED <<written, running, follow, stopped, earlier, torn>>
  BY DEF End
<1>3. logError' \in BOOLEAN /\ torn' \in BOOLEAN
  <2>1. logError' \in BOOLEAN
    BY <1>2, Zenon
  <2> QED
    BY <1>1, <1>2, <2>1 DEF Flags
<1> QED
  BY <1>1, <1>2, <1>3, ApplyKeeps DEF EarlierRight

LEMMA GotEarlierStep == LogInv /\ GotEarlier => LogInv'
<1> SUFFICES ASSUME LogInv, GotEarlier PROVE LogInv'
  OBVIOUS
<1>1. /\ written \in 0 .. LogEnd /\ Right(buffer, written) /\ (~torn => Neat(buffer))
      /\ Flags \subseteq BOOLEAN /\ earlier \in LogRange /\ earlier # None
      /\ stream \in {"idle", "open", "ended"} /\ (stream = "idle" => ~buffer.known)
      /\ buffer.known /\ earlier.from < earlier.until
      /\ earlier.until # buffer.start => Len(buffer.lines) >= MaxLines
  BY LogTypes DEF LogInv, EarlierRight, GotEarlier
<1>2. /\ earlier' = None
      /\ UNCHANGED <<written, running, follow, stream, logError, stopped>>
  BY DEF GotEarlier
<1>3. CASE stopped
  <2>1. UNCHANGED <<buffer, lines, hasEarlier, loaded, timer, torn>>
    BY <1>3 DEF GotEarlier
  <2> QED
    BY <1>2, <2>1
    DEF LogInv, LogTypeOK, EarlierRight, NoLineTwice, ReadsOnFromFirst, PendingHasTimer
<1>4. CASE ~stopped
  <2> DEFINE e == EarlierLines(earlier.from, earlier.until)
             p == Prepended(buffer, e.lines, e.start)
  <2>1. /\ Apply(p)
        /\ torn' = (torn \/ earlier.until # buffer.start \/ e.start \notin LineStarts)
    BY <1>4, Zenon DEF GotEarlier
  <2>2. earlier.from \in Nat /\ earlier.until \in Nat
    BY <1>1 DEF LogRange
  <2>3. /\ e.lines \in Seq(Piece) /\ e.start \in Nat
        /\ \A i \in 1 .. Len(e.lines) :
             e.lines[i].lo <= e.lines[i].hi /\ e.lines[i].hi <= written
        /\ earlier.until <= written => Leads(e.lines, e.start, earlier.until)
    BY <1>1, <2>2, EarlierFacts
  <2> HIDE DEF e
  <2>4. /\ Right(p, written) /\ p.known
        /\ Neat(buffer) /\ earlier.until = buffer.start /\ e.start \in LineStarts => Neat(p)
    BY <1>1, <2>2, <2>3, PrependKeeps
  <2> HIDE DEF p
  <2>5. ~torn' => Neat(p)
    BY <1>1, <2>1, <2>4
  <2>6. logError' \in BOOLEAN /\ torn' \in BOOLEAN
    <3>1. torn' \in BOOLEAN
      BY <2>1, Zenon
    <3> QED
      BY <1>1, <1>2, <3>1 DEF Flags
  <2>7. stream' # "idle"
    BY <1>1, <1>2
  <2> QED
    BY <1>1, <1>2, <2>1, <2>4, <2>5, <2>6, <2>7, ApplyKeeps
<1> QED
  BY <1>3, <1>4

LEMMA AskEarlierStep == LogInv /\ AskEarlier => LogInv'
<1> SUFFICES ASSUME LogInv, AskEarlier PROVE LogInv'
  OBVIOUS
<1> DEFINE from == IF buffer.start > EarlierBytes THEN buffer.start - EarlierBytes ELSE 0
<1>1. /\ earlier' = [from |-> from, until |-> buffer.start]
      /\ UNCHANGED <<written, running, follow, stream, buffer, lines, loaded,
                     hasEarlier, logError, stopped, timer, torn>>
      /\ buffer.start > 0 /\ hasEarlier
  BY DEF AskEarlier
<1>2. /\ buffer.start \in Nat /\ EarlierBytes \in Nat \ {0}
  BY BufferTyped, ConstantsTyped, LogTypes DEF LogInv
<1>3. from \in Nat /\ from < buffer.start
  BY <1>1, <1>2
<1> HIDE DEF from
<1>4. earlier' \in LogRange /\ earlier'.from < earlier'.until /\ earlier'.until = buffer.start
  BY <1>1, <1>2, <1>3 DEF LogRange
<1>5. buffer.known
  BY <1>1 DEF LogInv
<1> QED
  BY <1>1, <1>4, <1>5
  DEF LogInv, LogTypeOK, EarlierRight, NoLineTwice, ReadsOnFromFirst, PendingHasTimer

LEMMA LoseEarlierStep == LogInv /\ LoseEarlier => LogInv'
<1> SUFFICES ASSUME LogInv, LoseEarlier PROVE LogInv'
  OBVIOUS
<1>1. /\ earlier' = None /\ logError' = (logError \/ ~stopped)
      /\ UNCHANGED <<written, running, follow, stream, buffer, lines, loaded, hasEarlier,
                     stopped, timer, torn>>
  BY DEF LoseEarlier
<1>2. logError' \in BOOLEAN
  BY <1>1, Zenon
<1>3. LogTypeOK'
  <2>1. Flags' \subseteq BOOLEAN
    <3>1. Flags \subseteq BOOLEAN
      BY LogTypes DEF LogInv
    <3> QED
      BY <1>1, <1>2, <3>1, Zenon DEF Flags
  <2> QED
    BY <1>1, <2>1 DEF LogInv, LogTypeOK, Flags
<1> QED
  BY <1>1, <1>3 DEF LogInv, EarlierRight, NoLineTwice, ReadsOnFromFirst, PendingHasTimer

LEMMA StopStep == LogInv /\ Stop => LogInv'
<1> SUFFICES ASSUME LogInv, Stop PROVE LogInv'
  OBVIOUS
<1>1. /\ stopped' = TRUE /\ timer' = FALSE
      /\ stream' = IF stream = "open" THEN "ended" ELSE stream
      /\ UNCHANGED <<written, running, follow, buffer, lines, loaded, hasEarlier,
                     logError, earlier, torn>>
  BY DEF Stop
<1>2. LogTypeOK'
  <2>1. Flags' \subseteq BOOLEAN
    <3>1. Flags \subseteq BOOLEAN
      BY LogTypes DEF LogInv
    <3> QED
      BY <1>1, <3>1, Zenon DEF Flags
  <2> QED
    BY <1>1, <2>1 DEF LogInv, LogTypeOK, Flags
<1>3. stream' = "idle" => stream = "idle"
  BY <1>1
<1> QED
  BY <1>1, <1>2, <1>3
  DEF LogInv, EarlierRight, NoLineTwice, ReadsOnFromFirst, PendingHasTimer

LEMMA RunSteps == LogInv /\ (Write \/ Finish) => LogInv'
<1> SUFFICES ASSUME LogInv, Write \/ Finish PROVE LogInv'
  OBVIOUS
<1>1. UNCHANGED <<follow, stream, buffer, lines, loaded, hasEarlier, logError,
                  stopped, timer, earlier, torn>>
  BY DEF Write, Finish
<1>2. written \in 0 .. LogEnd /\ Flags \subseteq BOOLEAN /\ Right(buffer, written) /\ LogEnd \in Nat
  BY LogTypes, ConstantsTyped DEF LogInv
<1>3. written' \in 0 .. LogEnd /\ written <= written'
  BY <1>2 DEF Write, Finish
<1>4. running' \in BOOLEAN
  BY <1>2 DEF Write, Finish, Flags
<1>5. LogTypeOK'
  <2>1. Flags' \subseteq BOOLEAN
    BY <1>1, <1>2, <1>4, Zenon DEF Flags
  <2> QED
    BY <1>1, <1>3, <2>1 DEF LogInv, LogTypeOK, Flags
<1>6. Right(buffer, written')
  <2>1. buffer \in Buffer /\ buffer.end <= written
    BY <1>2 DEF Right, Sound
  <2>2. buffer.end <= written'
    BY <1>2, <1>3, <2>1, BufferTyped
  <2>3. \A i \in 1 .. Len(buffer.lines) :
          buffer.lines[i].lo <= buffer.lines[i].hi /\ buffer.lines[i].hi <= written'
    <3> TAKE i \in 1 .. Len(buffer.lines)
    <3>1. /\ buffer.lines[i].lo <= buffer.lines[i].hi /\ buffer.lines[i].hi <= written
          /\ buffer.lines[i].hi \in Nat
      BY <1>2, <2>1, BufferTyped, PieceTyped DEF Right, Sound
    <3> QED
      BY <1>2, <1>3, <3>1
  <2> QED
    BY <1>2, <2>2, <2>3 DEF Right, Sound
<1> QED
  BY <1>1, <1>5, <1>6 DEF LogInv, EarlierRight, NoLineTwice, ReadsOnFromFirst, PendingHasTimer

LEMMA LogInvStep == LogInv /\ [LogNext]_logVars => LogInv'
<1> SUFFICES ASSUME LogInv, [LogNext]_logVars PROVE LogInv'
  OBVIOUS
<1>1. CASE \E fails \in BOOLEAN : End(fails)
  BY <1>1, EndStep
<1>2. CASE UNCHANGED logVars
  BY <1>2
  DEF logVars, LogInv, LogTypeOK, EarlierRight, NoLineTwice, ReadsOnFromFirst, PendingHasTimer
<1> QED
  BY <1>1, <1>2, StartStep, ChunkStep, FireStep, AskEarlierStep, GotEarlierStep,
     LoseEarlierStep, StopStep, RunSteps DEF LogNext

\* The inductive invariant of the log feed.
THEOREM LogInvariant == LogSpec => []LogInv
<1> QED
  BY LogInvInit, LogInvStep, PTL DEF LogSpec

\* The state of the log feed has its type.
THEOREM LogTyped == LogSpec => []LogTypeOK
<1>1. LogInv => LogTypeOK
  BY DEF LogInv
<1> QED
  BY <1>1, LogInvariant, PTL

\* The window on the log is right, for every log, size of the window and size of a part.
THEOREM WindowIsRight == LogSpec => []WindowRight
<1>1. LogInv => WindowRight
  <2> SUFFICES ASSUME LogInv PROVE WindowRight
    OBVIOUS
  <2>1. buffer.lines \in Seq(Piece) /\ Newest(buffer)
    BY BufferTyped DEF LogInv, Right, Sound
  <2>2. DOMAIN buffer.lines = 1 .. Len(buffer.lines)
    BY <2>1
  <2>3. NewestKept
    BY <2>1, <2>2 DEF NewestKept, Newest
  <2> QED
    BY <2>3 DEF LogInv, WindowRight
<1> QED
  BY <1>1, LogInvariant, PTL

\* What has arrived of a followed log is shown or has a timer.
THEOREM PendingIsTimed == LogSpec => []PendingHasTimer
<1>1. LogInv => PendingHasTimer
  BY DEF LogInv
<1> QED
  BY <1>1, LogInvariant, PTL

-----------------------------------------------------------------------------
(* The pages together *)

PagesInv == TInv /\ HInv /\ LogInv /\ CoverInv /\ EInv

LEMMA PagesInvInit == MCInit => PagesInv
BY TInvInit, HInvInit, LogInvInit, CoverInit, EInvInit DEF MCInit, PagesInv

\* A step of one page leaves the others alone.
LEMMA PagesInvStep ==
  PagesInv /\ [MCNext]_<<shown, vars, historyVars, logVars, sandboxesVars, editorVars>> => PagesInv'
<1> SUFFICES ASSUME PagesInv,
                    [MCNext]_<<shown, vars, historyVars, logVars, sandboxesVars, editorVars>>
             PROVE  PagesInv'
  OBVIOUS
<1>1. /\ [Next]_vars /\ [HistoryNext]_historyVars /\ [LogNext]_logVars
      /\ [SandboxesNext]_sandboxesVars /\ [EditorNext]_editorVars
  BY DEF MCNext, TerminalStep, ConversationStep, LogStep, SandboxesStep, ProjectsStep
<1> QED
  BY <1>1, TInvStep, HInvStep, LogInvStep, CoverStep, EInvStep DEF PagesInv

\* All of these pages have their types whichever of them is shown.
THEOREM PagesTyped == MCSpec => []MCTypeOK
<1>1. PagesInv => MCTypeOK
  BY DEF PagesInv, TInv, HInv, LogInv, CoverInv, EInv, MCTypeOK
<1> QED
  BY <1>1, PagesInvInit, PagesInvStep, PTL DEF MCSpec
=============================================================================
