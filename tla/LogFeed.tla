------------------------------- MODULE LogFeed -------------------------------
(***************************************************************************)
(* The log of one run as the browser shows it: RunLogFeed                  *)
(* (src/src/lib/run-log-feed.svelte.ts) over a LogBuffer                   *)
(* (src/src/model/log-buffer.ts), fed by followRunLogs and                 *)
(* readRunLogRange (src/src/api/runs.ts).                                  *)
(*                                                                         *)
(* The log is an append-only text of at most LogEnd bytes whose newlines   *)
(* are at Breaks.  A piece of it is the interval of bytes it was cut from, *)
(* so that a line shown twice, out of place or cut in the wrong place can  *)
(* be told.                                                                *)
(***************************************************************************)
EXTENDS Integers, FiniteSets, Sequences, SequencesExt, Absent

CONSTANTS LogEnd,        \* bytes the run writes
          Breaks,        \* positions of its newlines
          MaxLines,      \* LOG_MAX_LINES
          TailLines,     \* LOG_TAIL_LINES
          EarlierBytes   \* LOG_EARLIER_BYTES

ASSUME LogFeedAssumption ==
  /\ LogEnd \in Nat /\ Breaks \subseteq 0 .. LogEnd - 1
  /\ {MaxLines, TailLines, EarlierBytes} \subseteq Nat \ {0}

VARIABLES written,   \* bytes the daemon has
          running,   \* the run may still write
          follow,    \* start(follow): decided when the log is opened
          stream,    \* the request of start: "idle", "open", "ended"
          buffer,    \* the LogBuffer
          lines,     \* what the viewer is given
          loaded, hasEarlier, logError, stopped, timer,
          earlier,   \* the request of loadEarlier, None without one
          torn       \* history: a part was put in front of lines that it does not lead up
                     \* to, or that begins inside of a line

logVars == <<written, running, follow, stream, buffer, lines, loaded, hasEarlier,
            logError, stopped, timer, earlier, torn>>

Piece == [lo : 0 .. LogEnd, hi : 0 .. LogEnd]
Width(p) == p.hi - p.lo
Empty(p) == p.lo = p.hi

\* LogBuffer: lines; incomplete is [cut, merged), pending is [merged, end).
Buffer == [lines : Seq(Piece), cut : 0 .. LogEnd, merged : 0 .. LogEnd,
           end : 0 .. LogEnd, start : Nat, known : BOOLEAN, max : Nat]
LogRange == [from : Nat, until : Nat]

ASSUME LogRangeAssumption == None \notin LogRange

LogTypeOK ==
  /\ written \in 0 .. LogEnd
  /\ {running, follow, loaded, hasEarlier, logError, stopped, timer, torn} \subseteq BOOLEAN
  /\ stream \in {"idle", "open", "ended"}
  /\ buffer \in Buffer
  /\ lines \in Seq(Piece)
  /\ earlier \in LogRange \cup {None}

-----------------------------------------------------------------------------
(* The text functions *)

\* text.split('\n') of the bytes [a, b)
Split(a, b) ==
  LET inside == {x \in Breaks : a <= x /\ x < b}
      n      == Cardinality(inside) + 1
      cuts   == [i \in 1 .. n - 1 |->
                   CHOOSE x \in inside : Cardinality({y \in inside : y < x}) = i - 1]
  IN  [i \in 1 .. n |-> [lo |-> IF i = 1 THEN a ELSE cuts[i - 1] + 1,
                         hi |-> IF i = n THEN b ELSE cuts[i]]]

\* bytes of lines that were dropped, each with its newline
Bytes(ls) ==
  Cardinality({at \in (1 .. Len(ls)) \X (0 .. LogEnd) :
                 ls[at[1]].lo <= at[2] /\ at[2] <= ls[at[1]].hi})

\* readRunLogRange: the log may end before a range does.
Read(x) == IF x < written THEN x ELSE written

EarlierLinesWhole(from, until) ==
  LET all   == Split(Read(from), Read(until))
      parts == IF Empty(Last(all)) THEN Front(all) ELSE all
  IN  IF from = 0 \/ Len(parts) <= 1
      THEN [lines |-> parts, start |-> from]
      ELSE [lines |-> parts, start |-> from + Width(Head(parts)) + 1]

\* earlierLines: the text [from, until) cut into lines
EarlierLines(from, until) ==
  LET all   == Split(Read(from), Read(until))
      parts == IF Empty(Last(all)) THEN Front(all) ELSE all
  IN  IF from = 0 \/ Len(parts) <= 1
      THEN [lines |-> parts, start |-> from]
      ELSE [lines |-> Tail(parts), start |-> from + Width(Head(parts)) + 1]

-----------------------------------------------------------------------------
(* LogBuffer *)

TrimUncounted(b) ==
  LET excess == Len(b.lines) - b.max
  IN  IF excess <= 0 THEN b
      ELSE [b EXCEPT !.lines = SubSeq(@, excess + 1, Len(@)),
                     !.start = @ + excess]

Trimmed(b) ==
  LET excess == Len(b.lines) - b.max
  IN  IF excess <= 0 THEN b
      ELSE [b EXCEPT !.lines = SubSeq(@, excess + 1, Len(@)),
                     !.start = @ + Bytes(SubSeq(b.lines, 1, excess))]

\* push: a chunk that ends at byte offset
Pushed(b, offset) ==
  [b EXCEPT !.start = IF b.known THEN @ ELSE b.end,
            !.known = TRUE,
            !.end   = offset]

FlushedWithTail(b) ==
  LET parts == Split(b.cut, b.end)
  IN  IF b.merged = b.end THEN b
      ELSE Trimmed([b EXCEPT !.lines  = @ \o parts,
                             !.cut    = b.end,
                             !.merged = b.end])

Flushed(b) ==
  LET parts == Split(b.cut, b.end)
  IN  IF b.merged = b.end THEN b
      ELSE Trimmed([b EXCEPT !.lines  = @ \o Front(parts),
                             !.cut    = Last(parts).lo,
                             !.merged = b.end])

\* prepend
Prepended(b, ls, start) ==
  IF ls = <<>> /\ start = b.start THEN b
  ELSE [b EXCEPT !.lines = ls \o @,
                 !.start = start,
                 !.max   = IF @ > Len(ls) + Len(b.lines) + TailLines THEN @
                           ELSE Len(ls) + Len(b.lines) + TailLines]

\* view
View(b) ==
  IF b.cut = b.merged THEN b.lines
  ELSE Append(b.lines, [lo |-> b.cut, hi |-> b.merged])

-----------------------------------------------------------------------------
(* RunLogFeed *)

LineStarts == {0} \cup {x + 1 : x \in Breaks}

\* External: where the daemon begins the last TailLines lines of the log.
TailStart(w) ==
  LET Lines(s) == Cardinality({x \in LineStarts : s <= x /\ x < w})
  IN  CHOOSE s \in LineStarts :
        /\ s <= w
        /\ Lines(s) <= TailLines
        /\ \A x \in LineStarts : x < s => Lines(x) > TailLines

LogInit ==
  /\ written \in {0, LogEnd \div 2, LogEnd}
  /\ running \in BOOLEAN
  /\ follow \in BOOLEAN
  /\ stream = "idle"
  /\ buffer = [lines |-> <<>>, cut |-> 0, merged |-> 0, end |-> 0,
               start |-> 0, known |-> FALSE, max |-> MaxLines]
  /\ lines = <<>>
  /\ loaded = FALSE /\ hasEarlier = FALSE /\ logError = FALSE
  /\ stopped = FALSE /\ timer = FALSE
  /\ earlier = None /\ torn = FALSE

\* apply: merge what is pending and hand the lines to the viewer.
Apply(b) ==
  LET f == Flushed(b)
  IN  /\ buffer' = f
      /\ lines' = View(f)
      /\ hasEarlier' = (f.known /\ f.start > 0)
      /\ loaded' = TRUE
      /\ timer' = FALSE

\* The panel opens the log; the daemon picks the tail when the request arrives.
Start ==
  /\ stream = "idle" /\ ~stopped
  /\ stream' = "open"
  /\ LET s == TailStart(written)
     IN  buffer' = [buffer EXCEPT !.cut = s, !.merged = s, !.end = s]
  /\ UNCHANGED <<written, running, follow, lines, loaded, hasEarlier, logError,
                 stopped, timer, earlier, torn>>

ChunkUnscheduled ==
  /\ stream = "open" /\ ~stopped
  /\ \E offset \in buffer.end + 1 .. written :
       LET b == Pushed(buffer, offset)
       IN  IF follow /\ ~loaded THEN Apply(b)
           ELSE /\ buffer' = b
                /\ UNCHANGED <<lines, loaded, hasEarlier, timer>>
  /\ UNCHANGED <<written, running, follow, stream, logError, stopped, earlier, torn>>

\* A chunk arrives: push, and for a followed log apply or schedule.
Chunk ==
  /\ stream = "open" /\ ~stopped
  /\ \E offset \in buffer.end + 1 .. written :
       LET b == Pushed(buffer, offset)
       IN  IF follow /\ ~loaded THEN Apply(b)
           ELSE /\ buffer' = b
                /\ timer' = (timer \/ follow)
                /\ UNCHANGED <<lines, loaded, hasEarlier>>
  /\ UNCHANGED <<written, running, follow, stream, logError, stopped, earlier, torn>>

\* The timer of schedule fires.
Fire ==
  /\ timer
  /\ Apply(buffer)
  /\ UNCHANGED <<written, running, follow, stream, logError, stopped, earlier, torn>>

\* The stream of start ends, at the end of the log or with an error: the finally block applies.
End(failed) ==
  /\ stream = "open" /\ ~stopped
  /\ failed \/ (buffer.end = written /\ (follow => ~running))
  /\ stream' = "ended"
  /\ logError' = (logError \/ failed)
  /\ Apply(buffer)
  /\ UNCHANGED <<written, running, follow, stopped, earlier, torn>>

AskEarlierUnclamped ==
  /\ ~stopped /\ hasEarlier
  /\ earlier = None /\ buffer.start > 0
  /\ earlier' = [from |-> buffer.start - EarlierBytes, until |-> buffer.start]
  /\ UNCHANGED <<written, running, follow, stream, buffer, lines, loaded,
                 hasEarlier, logError, stopped, timer, torn>>

\* loadEarlier up to its await: the range is fixed here.
AskEarlier ==
  /\ ~stopped /\ hasEarlier
  /\ earlier = None /\ buffer.start > 0
  /\ earlier' = [from  |-> IF buffer.start > EarlierBytes
                           THEN buffer.start - EarlierBytes ELSE 0,
                 until |-> buffer.start]
  /\ UNCHANGED <<written, running, follow, stream, buffer, lines, loaded,
                 hasEarlier, logError, stopped, timer, torn>>

\* loadEarlier goes on with the text, or not at all if the feed was stopped.
GotEarlier ==
  /\ earlier # None
  /\ earlier' = None
  /\ IF stopped
     THEN UNCHANGED <<buffer, lines, hasEarlier, loaded, timer, torn>>
     ELSE LET e == EarlierLines(earlier.from, earlier.until)
          IN  /\ Apply(Prepended(buffer, e.lines, e.start))
              /\ torn' = (torn \/ earlier.until # buffer.start \/ e.start \notin LineStarts)
  /\ UNCHANGED <<written, running, follow, stream, logError, stopped>>

\* readRunLogRange fails; an abort by stop is not an error.
LoseEarlier ==
  /\ earlier # None
  /\ earlier' = None
  /\ logError' = (logError \/ ~stopped)
  /\ UNCHANGED <<written, running, follow, stream, buffer, lines, loaded,
                 hasEarlier, stopped, timer, torn>>

\* stop: the panel is closed or shows another run.
Stop ==
  /\ ~stopped
  /\ stopped' = TRUE
  /\ timer' = FALSE
  /\ stream' = IF stream = "open" THEN "ended" ELSE stream
  /\ UNCHANGED <<written, running, follow, buffer, lines, loaded, hasEarlier,
                 logError, earlier, torn>>

\* External: the run writes, and ends.
Write ==
  /\ running
  /\ written' \in written + 1 .. LogEnd
  /\ UNCHANGED <<running, follow, stream, buffer, lines, loaded, hasEarlier,
                 logError, stopped, timer, earlier, torn>>

Finish ==
  /\ running
  /\ running' = FALSE
  /\ UNCHANGED <<written, follow, stream, buffer, lines, loaded, hasEarlier,
                 logError, stopped, timer, earlier, torn>>

LogNext ==
  \/ Start \/ Chunk \/ Fire \/ AskEarlier \/ GotEarlier \/ LoseEarlier \/ Stop
  \/ Write \/ Finish
  \/ \E failed \in BOOLEAN : End(failed)

LogSpec == LogInit /\ [][LogNext]_logVars

-----------------------------------------------------------------------------
(* Properties *)

\* What a line p is followed by begins after its newline, or where p ends if p is no
\* more than the beginning of a line.
Joins(p, next) == next = p.hi + (IF next \in LineStarts THEN 1 ELSE 0)

\* Where the line after the i-th of b begins
NextLo(b, i) == IF i = Len(b.lines) THEN b.cut ELSE b.lines[i + 1].lo

\* No byte of the log is shown twice or out of its order.
NoLineTwice ==
  \A i, j \in DOMAIN lines : i < j => lines[i].hi < lines[j].lo

\* Trimming and prepending never cost one of the newest MaxLines lines: they follow
\* each other without a gap up to the line that is still incomplete.
NewestKept ==
  \A i \in DOMAIN buffer.lines :
    Len(buffer.lines) - i < MaxLines => Joins(buffer.lines[i], NextLo(buffer, i))

\* The next earlier part is read up to where the first line shown begins, and nothing
\* earlier is offered only when that is the start of the log, through trims of lines and
\* parts that begin inside of one.
ReadsOnFromFirst ==
  loaded /\ lines # <<>> =>
    /\ lines[1].lo = buffer.start
    /\ hasEarlier = (lines[1].lo > 0)

\* The window on the log is right: nothing of the newest lines is lost whatever was trimmed
\* or put in front, and unless lines were trimmed while an earlier part was being read, or
\* a line is longer than such a part, nothing is doubled and the next part joins on
\* (run-log-feed.svelte.ts:53, log-buffer.ts:53-60, 76-113).
WindowRight == NewestKept /\ (~torn => NoLineTwice /\ ReadsOnFromFirst)

\* What has arrived of a followed log is shown or has a timer that will show it, also when
\* no more arrives and whatever was applied meanwhile (run-log-feed.svelte.ts:35-39, 76-89).
PendingHasTimer ==
  follow /\ buffer.merged < buffer.end => timer \/ stopped

\* Claimed at src/src/model/log-buffer.ts:36 ("the byte offset of lines[0] in the whole
\* log"): start is where the first line begins that is kept.
StartIsOffset ==
  buffer.known /\ buffer.lines # <<>> => buffer.start = buffer.lines[1].lo
===============================================================================
