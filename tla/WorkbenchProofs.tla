---------------------------- MODULE WorkbenchProofs ----------------------------
(***************************************************************************)
(* Two parts of the page of a sandbox, which share no state.               *)
(*                                                                         *)
(* The terminal, for any sandboxes and any number of connections: no shell *)
(* runs out of sight, every connection is decided, and the page connects   *)
(* by itself only where the user sees it.                                  *)
(*                                                                         *)
(* The conversation cache, for any number of promises and of changes of    *)
(* the sandbox: what a refresh returns was read after it was asked for,    *)
(* and nothing that has settled stays in the maps.                         *)
(***************************************************************************)
EXTENDS SandboxTerminal, HistoryCache, TLAPS

-----------------------------------------------------------------------------
(* Sequences *)

LEMMA Replaced ==
  ASSUME NEW S, NEW s \in Seq(S), NEW i \in DOMAIN s, NEW x \in S
  PROVE  /\ [s EXCEPT ![i] = x] \in Seq(S)
         /\ DOMAIN [s EXCEPT ![i] = x] = DOMAIN s
         /\ [s EXCEPT ![i] = x][i] = x
         /\ \A j \in DOMAIN s : j # i => [s EXCEPT ![i] = x][j] = s[j]
OBVIOUS

LEMMA Appended ==
  ASSUME NEW S, NEW s \in Seq(S), NEW x \in S
  PROVE  /\ Append(s, x) \in Seq(S)
         /\ DOMAIN s \subseteq DOMAIN Append(s, x)
         /\ Len(Append(s, x)) \in DOMAIN Append(s, x)
         /\ Len(Append(s, x)) \notin DOMAIN s
         /\ \A j \in DOMAIN Append(s, x) : j <= Len(Append(s, x))
         /\ DOMAIN Append(s, x) = DOMAIN s \cup {Len(Append(s, x))}
         /\ Append(s, x)[Len(Append(s, x))] = x
         /\ \A j \in DOMAIN s : Append(s, x)[j] = s[j]
OBVIOUS

-----------------------------------------------------------------------------
(* The terminal: the invariant *)

\* A session that may still run a shell.
LiveSession(s) == s.socket \in {"connecting", "open"} /\ ~s.ended

\* What the sessions ss are like where the page writes to held and shows a sandbox.
Shells(ss, held, sandbox) ==
  \A c \in DOMAIN ss :
    /\ LiveSession(ss[c]) => held = c /\ ss[c].sandbox = sandbox
    /\ ss[c].current => held \in {c, None}
    /\ LiveSession(ss[c]) /\ ~ss[c].connected => ss[c].connectTimer

TInv ==
  /\ TypeOK
  /\ Shells(sessions, terminal, sandboxId)
  /\ RetryInSight
  /\ terminalRetryTimer => terminalAutoAttempts < 2

-----------------------------------------------------------------------------
(* Lemmas on sessions *)

LEMMA ClosedSession ==
  ASSUME NEW s \in Session
  PROVE  /\ Closed(s) \in Session /\ ~LiveSession(Closed(s))
         /\ Closed(s).current = s.current
BY DEF Closed, Session, LiveSession

LEMMA OutdatedSessions ==
  ASSUME NEW ss \in Seq(Session)
  PROVE  /\ Outdated(ss) \in Seq(Session) /\ DOMAIN Outdated(ss) = DOMAIN ss
         /\ \A c \in DOMAIN ss : /\ ~Outdated(ss)[c].current
                                 /\ LiveSession(Outdated(ss)[c]) => LiveSession(ss[c])
                                 /\ Outdated(ss)[c].sandbox = ss[c].sandbox
                                 /\ Outdated(ss)[c].connected = ss[c].connected
                                 /\ Outdated(ss)[c].connectTimer = ss[c].connectTimer
<1>1. DOMAIN ss = 1 .. Len(ss) /\ Len(ss) \in Nat
  OBVIOUS
<1>2. \A c \in DOMAIN ss : ss[c] \in Session
  OBVIOUS
<1>3. \A c \in DOMAIN ss :
        LET o == [ss[c] EXCEPT !.current = FALSE]
        IN  /\ o \in Session /\ ~o.current
            /\ LiveSession(o) => LiveSession(ss[c])
            /\ o.sandbox = ss[c].sandbox /\ o.connected = ss[c].connected
            /\ o.connectTimer = ss[c].connectTimer
  BY <1>2 DEF Session, LiveSession
<1>4. Outdated(ss) \in [1 .. Len(ss) -> Session]
  BY <1>1, <1>3 DEF Outdated
<1>5. Outdated(ss) \in Seq(Session)
  BY <1>1, <1>4
<1> QED BY <1>3, <1>5 DEF Outdated

\* A connection is made where none is held.
LEMMA ConnectedShells ==
  ASSUME NEW ss \in Seq(Session), NEW before, Shells(ss, None, before),
         NEW sandbox \in Sandboxes, NEW automatic \in BOOLEAN
  PROVE  LET all == Connected(ss, sandbox, automatic)
         IN  /\ all \in Seq(Session) /\ Len(all) \in DOMAIN all /\ Len(all) # None
             /\ Shells(all, Len(all), sandbox)
<1> DEFINE new == NewSession(sandbox, automatic)
           out == Outdated(ss)
           all == Append(out, new)
<1>1. /\ new \in Session /\ new.sandbox = sandbox
      /\ new.connectTimer
  BY DEF NewSession, Session
<1>2. /\ out \in Seq(Session) /\ DOMAIN out = DOMAIN ss
      /\ \A c \in DOMAIN ss : ~out[c].current /\ (LiveSession(out[c]) => LiveSession(ss[c]))
  BY OutdatedSessions
<1>3. \A c \in DOMAIN ss : ~LiveSession(ss[c])
  BY SandboxTerminalAssumption DEF Shells
<1> HIDE DEF new, out
<1>4. /\ all \in Seq(Session) /\ Len(all) \in DOMAIN all
      /\ DOMAIN all = DOMAIN out \cup {Len(all)}
      /\ all[Len(all)] = new /\ \A c \in DOMAIN out : all[c] = out[c]
  BY <1>1, <1>2, Appended
<1>5. Len(all) # None
  BY <1>4, SandboxTerminalAssumption
<1> HIDE DEF all
<1>6. Shells(all, Len(all), sandbox)
  BY <1>1, <1>2, <1>3, <1>4 DEF Shells
<1> QED BY <1>4, <1>5, <1>6 DEF all, out, new, Connected

\* resetTerminal leaves no shell.
LEMMA ResetShells ==
  ASSUME NEW ss \in Seq(Session), NEW held \in DOMAIN ss \cup {None},
         NEW before, NEW sandbox, Shells(ss, held, before)
  PROVE  /\ Reset(ss, held) \in Seq(Session)
         /\ Shells(Reset(ss, held), None, sandbox)
<1> DEFINE out == Outdated(ss)
<1>1. /\ out \in Seq(Session) /\ DOMAIN out = DOMAIN ss
      /\ \A c \in DOMAIN ss : ~out[c].current /\ (LiveSession(out[c]) => LiveSession(ss[c]))
  BY OutdatedSessions
<1> HIDE DEF out
<1>2. CASE held = None
  <2>1. \A c \in DOMAIN ss : ~LiveSession(ss[c])
    BY <1>2, SandboxTerminalAssumption DEF Shells
  <2>2. Reset(ss, held) = out
    BY <1>2 DEF Reset, out
  <2> QED BY <1>1, <2>1, <2>2 DEF Shells
<1>3. CASE held # None
  <2> DEFINE closed == Closed(out[held])
             all == [out EXCEPT ![held] = closed]
  <2>1. out[held] \in Session /\ held \in DOMAIN out
    BY <1>1, <1>3
  <2>2. closed \in Session /\ ~LiveSession(closed) /\ closed.current = out[held].current
    BY <2>1, ClosedSession
  <2> HIDE DEF closed
  <2>3. /\ all \in Seq(Session) /\ DOMAIN all = DOMAIN out /\ all[held] = closed
        /\ \A c \in DOMAIN out : c # held => all[c] = out[c]
    BY <1>1, <2>1, <2>2, Replaced
  <2>4. Reset(ss, held) = all
    BY <1>3 DEF Reset, out, closed
  <2> HIDE DEF all
  <2>5. \A c \in DOMAIN all : ~LiveSession(all[c]) /\ ~all[c].current
    BY <1>1, <2>1, <2>2, <2>3 DEF Shells
  <2> QED BY <2>3, <2>4, <2>5 DEF Shells
<1> QED BY <1>2, <1>3

\* A session goes on with s and stays the one it is for the page.
LEMMA ReplacedShells ==
  ASSUME TypeOK, Shells(sessions, terminal, sandboxId),
         NEW c \in DOMAIN sessions, NEW s \in Session,
         s.current => sessions[c].current, s.sandbox = sessions[c].sandbox,
         LiveSession(s) => /\ LiveSession(sessions[c])
                           /\ ~s.connected => s.connectTimer
  PROVE  LET all == [sessions EXCEPT ![c] = s]
         IN  /\ all \in Seq(Session) /\ DOMAIN all = DOMAIN sessions
             /\ Shells(all, terminal, sandboxId)
             /\ sessions[c].current /\ ~LiveSession(s) => Shells(all, None, sandboxId)
<1> DEFINE all == [sessions EXCEPT ![c] = s]
<1>1. /\ all \in Seq(Session) /\ DOMAIN all = DOMAIN sessions /\ all[c] = s
      /\ \A d \in DOMAIN sessions : d # c => all[d] = sessions[d]
  BY Replaced DEF TypeOK
<1> HIDE DEF all
<1>2. Shells(all, terminal, sandboxId)
  BY <1>1 DEF Shells
<1>3. ASSUME sessions[c].current, ~LiveSession(s) PROVE Shells(all, None, sandboxId)
  <2>1. \A d \in DOMAIN all : ~LiveSession(all[d])
    BY <1>1, <1>3, SandboxTerminalAssumption DEF Shells
  <2> QED BY <2>1 DEF Shells
<1> QED BY <1>1, <1>2, <1>3 DEF all

-----------------------------------------------------------------------------
(* The steps of the page *)

\* Whatever a step makes of the tab, the status and the sandbox, the effect on them leaves
\* the terminal as the invariant wants it.
LEMMA AutoEffectKeeps ==
  ASSUME TInv, sandboxId' \in Sandboxes, tab' \in BOOLEAN, runnable' \in BOOLEAN,
         NEW ss \in Seq(Session), NEW held \in DOMAIN ss \cup {None},
         held = None \/ held = terminal,
         Shells(ss, held, sandboxId'),
         AutoEffect(ss, held)
  PROVE  TInv'
<1> USE DEF TInv, TypeOK, RetryInSight
<1> DEFINE key == IF tab' /\ runnable' THEN sandboxId' ELSE None
<1>1. key = None \/ (tab' /\ runnable' /\ key \in Sandboxes)
  OBVIOUS
<1>2. CASE key = None
  <2>1. /\ terminalAutoKey' = None /\ terminalAutoAttempts' = 0
        /\ terminalRetryTimer' = FALSE /\ sessions' = ss /\ terminal' = held
    BY <1>2 DEF AutoEffect
  <2>2. Shells(sessions, terminal, sandboxId)'
    BY <2>1
  <2>3. TypeOK'
    BY <2>1
  <2>4. ~terminalRetryTimer' /\ terminalAutoAttempts' = 0
    BY <2>1
  <2> QED BY <2>2, <2>3, <2>4
<1>3. CASE key # None /\ key # terminalAutoKey /\ held # None
  <2>1. /\ terminalAutoKey' = key /\ terminalAutoAttempts' = 0
        /\ sessions' = ss /\ terminal' = held /\ terminalRetryTimer' = terminalRetryTimer
    BY <1>3 DEF AutoEffect
  <2>2. ~terminalRetryTimer
    BY <1>3
  <2>3. Shells(sessions, terminal, sandboxId)'
    BY <2>1
  <2> HIDE DEF key
  <2>4. TypeOK'
    BY <1>1, <1>3, <2>1
  <2>5. ~terminalRetryTimer' /\ terminalAutoAttempts' = 0
    BY <2>1, <2>2
  <2> QED BY <2>3, <2>4, <2>5
<1>4. CASE key # None /\ key # terminalAutoKey /\ held = None
  <2>1. /\ terminalAutoKey' = key /\ terminalAutoAttempts' = 1
        /\ terminalRetryTimer' = FALSE
        /\ sessions' = Connected(ss, sandboxId', TRUE) /\ terminal' = Len(sessions')
    BY <1>4 DEF AutoEffect
  <2>2. /\ sessions' \in Seq(Session) /\ terminal' \in DOMAIN sessions'
        /\ Shells(sessions, terminal, sandboxId)'
    BY <1>4, <2>1, ConnectedShells
  <2> HIDE DEF key
  <2>3. TypeOK'
    BY <1>1, <1>4, <2>1, <2>2
  <2>4. ~terminalRetryTimer' /\ terminalAutoAttempts' = 1
    BY <2>1
  <2> QED BY <2>2, <2>3, <2>4
<1>5. CASE key # None /\ key = terminalAutoKey
  <2>1. /\ sessions' = ss /\ terminal' = held
        /\ UNCHANGED <<terminalAutoKey, terminalAutoAttempts, terminalRetryTimer>>
    BY <1>5 DEF AutoEffect
  <2>2. tab' /\ runnable'
    BY <1>1, <1>5
  <2>3. Shells(sessions, terminal, sandboxId)'
    BY <2>1
  <2> HIDE DEF key
  <2> QED BY <2>1, <2>2, <2>3
<1> QED BY <1>2, <1>3, <1>4, <1>5

LEMMA ConnectKeeps ==
  ASSUME TInv, NEW automatic \in BOOLEAN, Connect(automatic),
         automatic => terminalAutoAttempts < 2
  PROVE  TInv'
<1> USE DEF TInv, TypeOK, RetryInSight
<1>1. /\ terminal = None /\ terminalRetryTimer' = FALSE
      /\ terminalAutoAttempts' = terminalAutoAttempts + (IF automatic THEN 1 ELSE 0)
      /\ sessions' = Connected(sessions, sandboxId, automatic)
      /\ terminal' = Len(sessions')
      /\ UNCHANGED <<sandboxId, tab, runnable, terminalAutoKey>>
  BY DEF Connect
<1>2. /\ sessions' \in Seq(Session) /\ terminal' \in DOMAIN sessions'
      /\ Shells(sessions', terminal', sandboxId)
  BY <1>1, ConnectedShells
<1>3. terminalAutoAttempts' \in Nat /\ terminalAutoAttempts' <= 2
  BY <1>1
<1>4. Shells(sessions, terminal, sandboxId)'
  BY <1>1, <1>2
<1> QED BY <1>1, <1>2, <1>3, <1>4

-----------------------------------------------------------------------------
(* The callbacks of a session *)

LEMMA NotifiedKeeps ==
  ASSUME TInv, NEW c \in DOMAIN sessions, NEW s \in Session,
         s.current => sessions[c].current, s.sandbox = sessions[c].sandbox,
         ~LiveSession(s),
         Notified(c, s)
  PROVE  TInv'
<1> DEFINE st == [s EXCEPT !.closeNotified = TRUE]
<1>1. /\ st \in Session /\ st.current = s.current /\ st.sandbox = s.sandbox
      /\ ~LiveSession(st)
  BY DEF Session, LiveSession
<1>2. /\ sessions' = [sessions EXCEPT ![c] = st]
      /\ terminal' = IF ~s.closeNotified /\ s.current THEN None ELSE terminal
      /\ UNCHANGED <<sandboxId, tab, runnable, terminalAutoKey, terminalAutoAttempts,
                     terminalRetryTimer>>
  BY DEF Notified
<1> HIDE DEF st
<1>3. /\ sessions' \in Seq(Session) /\ DOMAIN sessions' = DOMAIN sessions
      /\ Shells(sessions', terminal, sandboxId)
      /\ sessions[c].current => Shells(sessions', None, sandboxId)
  BY <1>1, <1>2, ReplacedShells DEF TInv
<1>4. Shells(sessions, terminal, sandboxId)'
  BY <1>2, <1>3
<1> QED BY <1>2, <1>3, <1>4 DEF TInv, TypeOK, RetryInSight

\* onError; a session that the page has turned away from goes on as s.
LEMMA FailedKeeps ==
  ASSUME TInv, NEW c \in DOMAIN sessions, NEW s \in Session,
         s.current = sessions[c].current, s.sandbox = sessions[c].sandbox,
         LiveSession(s) => LiveSession(sessions[c]) /\ (~s.connected => s.connectTimer),
         Failed(c, s)
  PROVE  TInv'
<1> USE DEF TInv
<1>1. CASE ~s.current
  <2>1. /\ sessions' = [sessions EXCEPT ![c] = s]
        /\ UNCHANGED <<terminal, terminalRetryTimer, sandboxId, tab, runnable,
                       terminalAutoKey, terminalAutoAttempts>>
    BY <1>1 DEF Failed
  <2>2. /\ sessions' \in Seq(Session) /\ DOMAIN sessions' = DOMAIN sessions
        /\ Shells(sessions', terminal, sandboxId)
    BY <2>1, ReplacedShells
  <2>3. Shells(sessions, terminal, sandboxId)'
    BY <2>1, <2>2
  <2> QED BY <2>1, <2>2, <2>3 DEF TypeOK, RetryInSight
<1>2. CASE s.current
  <2> DEFINE closed == Closed(s)
             all == [sessions EXCEPT ![c] = closed]
  <2>1. closed \in Session /\ ~LiveSession(closed) /\ closed.current = s.current
    BY ClosedSession
  <2>2. closed.sandbox = sessions[c].sandbox
    BY DEF Closed, Session
  <2>3. /\ sessions' = Outdated(all) /\ terminal' = None
        /\ terminalRetryTimer' = (terminalRetryTimer \/
             (s.automatic /\ terminalAutoAttempts < 2 /\ tab /\ runnable))
        /\ UNCHANGED <<sandboxId, tab, runnable, terminalAutoKey, terminalAutoAttempts>>
    BY <1>2 DEF Failed
  <2> HIDE DEF closed
  <2>4. /\ all \in Seq(Session) /\ DOMAIN all = DOMAIN sessions
        /\ Shells(all, None, sandboxId)
    BY <1>2, <2>1, <2>2, ReplacedShells
  <2> HIDE DEF all
  <2>5. sessions' \in Seq(Session) /\ Shells(sessions', None, sandboxId)
    <3>1. /\ sessions' \in Seq(Session) /\ DOMAIN sessions' = DOMAIN all
          /\ \A d \in DOMAIN all : /\ ~sessions'[d].current
                                   /\ LiveSession(sessions'[d]) => LiveSession(all[d])
      BY <2>3, <2>4, OutdatedSessions
    <3>2. \A d \in DOMAIN all : ~LiveSession(all[d])
      BY <2>4, SandboxTerminalAssumption DEF Shells
    <3> QED BY <3>1, <3>2 DEF Shells
  <2>6. Shells(sessions, terminal, sandboxId)'
    BY <2>3, <2>5
  <2>7. terminalRetryTimer' \in BOOLEAN
    BY <2>3
  <2>8. terminalRetryTimer' => tab /\ runnable /\ terminalAutoAttempts < 2
    BY <2>3 DEF RetryInSight
  <2> QED BY <2>3, <2>5, <2>6, <2>7, <2>8 DEF TypeOK, RetryInSight
<1> QED BY <1>1, <1>2

\* A session goes on, and the page does not look.
LEMMA SessionKeeps ==
  ASSUME TInv, NEW c \in DOMAIN sessions, NEW s \in Session,
         s.current => sessions[c].current, s.sandbox = sessions[c].sandbox,
         LiveSession(s) => LiveSession(sessions[c]) /\ (~s.connected => s.connectTimer),
         sessions' = [sessions EXCEPT ![c] = s],
         UNCHANGED <<sandboxId, tab, runnable, terminal, terminalAutoKey,
                     terminalAutoAttempts, terminalRetryTimer>>
  PROVE  TInv'
<1>1. /\ sessions' \in Seq(Session) /\ DOMAIN sessions' = DOMAIN sessions
      /\ Shells(sessions', terminal, sandboxId)
  BY ReplacedShells DEF TInv
<1>2. Shells(sessions, terminal, sandboxId)'
  BY <1>1
<1> QED BY <1>1, <1>2 DEF TInv, TypeOK, RetryInSight

-----------------------------------------------------------------------------
(* The invariant holds *)

LEMMA TInvInit == Init => TInv
<1> SUFFICES ASSUME Init PROVE TInv
  OBVIOUS
<1>1. sessions = <<>> /\ DOMAIN sessions = {} /\ sessions \in Seq(Session)
  BY DEF Init
<1>2. TypeOK
  BY <1>1 DEF Init, TypeOK
<1>3. Shells(sessions, terminal, sandboxId)
  BY <1>1 DEF Shells
<1>4. ~terminalRetryTimer /\ terminalAutoAttempts = 0
  BY DEF Init
<1> QED BY <1>2, <1>3, <1>4 DEF TInv, RetryInSight

LEMMA SessionStep ==
  ASSUME TInv, NEW c \in DOMAIN sessions,
         \/ Opened(c) \/ Started(c) \/ Result(c) \/ ErrorFrame(c) \/ ConnectTimeout(c)
         \/ SocketError(c) \/ SocketClosed(c)
  PROVE  TInv'
<1> DEFINE s == sessions[c]
<1>1. /\ s \in Session
      /\ LiveSession(s) /\ ~s.connected => s.connectTimer
  BY DEF TInv, TypeOK, Shells
<1>2. CASE Opened(c)
  <2> DEFINE st == [s EXCEPT !.socket = "open"]
  <2>1. /\ st \in Session /\ st.current = s.current /\ st.sandbox = s.sandbox
        /\ LiveSession(st) => LiveSession(s) /\ (~st.connected => st.connectTimer)
    BY <1>1, <1>2 DEF Opened, Session, LiveSession
  <2> QED BY <1>2, <2>1, SessionKeeps DEF Opened
<1>3. CASE Started(c)
  <2> DEFINE st == [s EXCEPT !.connected = TRUE, !.connectTimer = FALSE]
  <2>1. /\ st \in Session /\ st.current = s.current /\ st.sandbox = s.sandbox
        /\ LiveSession(st) => LiveSession(s) /\ (~st.connected => st.connectTimer)
    BY <1>1 DEF Session, LiveSession
  <2>2. sessions' = [sessions EXCEPT ![c] = st]
    BY <1>3 DEF Started
  <2> QED BY <1>3, <2>1, <2>2, SessionKeeps DEF Started
<1>4. CASE Result(c)
  <2> DEFINE st == [s EXCEPT !.ended = TRUE, !.connectTimer = FALSE]
  <2>1. /\ st \in Session /\ st.current = s.current /\ st.sandbox = s.sandbox
        /\ ~LiveSession(st)
    BY <1>1 DEF Session, LiveSession
  <2> QED BY <1>4, <2>1, NotifiedKeeps DEF Result
<1>5. CASE ErrorFrame(c)
  BY <1>1, <1>5, FailedKeeps DEF ErrorFrame
<1>6. CASE ConnectTimeout(c)
  <2> DEFINE out == [s EXCEPT !.connectTimer = FALSE]
             st == [Closed(out) EXCEPT !.closeNotified = TRUE]
  <2>1. /\ out \in Session /\ out.current = s.current /\ out.sandbox = s.sandbox
        /\ out.connected = s.connected /\ out.ended = s.ended
        /\ LiveSession(out) => LiveSession(s) /\ ~out.ended
    BY <1>1 DEF Session, LiveSession
  <2>2. CASE out.connected \/ out.ended
    <3>1. /\ sessions' = [sessions EXCEPT ![c] = out]
          /\ UNCHANGED <<sandboxId, tab, runnable, terminal, terminalAutoKey,
                         terminalAutoAttempts, terminalRetryTimer>>
      BY <1>6, <2>2 DEF ConnectTimeout
    <3> HIDE DEF out
    <3> QED BY <2>1, <2>2, <3>1, SessionKeeps
  <2>3. CASE ~(out.connected \/ out.ended)
    <3>1. /\ st \in Session /\ st.current = s.current /\ st.sandbox = s.sandbox
          /\ ~LiveSession(st)
      BY <2>1 DEF Closed, Session, LiveSession
    <3>2. Failed(c, st)
      BY <1>6, <2>3 DEF ConnectTimeout
    <3> HIDE DEF st
    <3> QED BY <3>1, <3>2, FailedKeeps
  <2> QED BY <2>2, <2>3
<1>7. CASE SocketError(c)
  <2> DEFINE st == [s EXCEPT !.connectTimer = FALSE, !.socket = "closing"]
  <2>1. /\ st \in Session /\ st.current = s.current /\ st.sandbox = s.sandbox
        /\ ~LiveSession(st)
    BY <1>1 DEF Session, LiveSession
  <2>2. Failed(c, st)
    BY <1>7 DEF SocketError
  <2> HIDE DEF st
  <2> QED BY <2>1, <2>2, FailedKeeps
<1>8. CASE SocketClosed(c)
  <2> DEFINE st == [s EXCEPT !.socket = "closed", !.connectTimer = FALSE]
  <2>1. /\ st \in Session /\ st.current = s.current /\ st.sandbox = s.sandbox
        /\ ~LiveSession(st)
    BY <1>1 DEF Session, LiveSession
  <2>2. Notified(c, st)
    BY <1>8 DEF SocketClosed
  <2> HIDE DEF st
  <2> QED BY <2>1, <2>2, NotifiedKeeps
<1> QED BY <1>2, <1>3, <1>4, <1>5, <1>6, <1>7, <1>8

LEMMA TInvStep == TInv /\ [Next]_vars => TInv'
<1> SUFFICES ASSUME TInv, [Next]_vars PROVE TInv'
  OBVIOUS
<1>1. CASE ShowTab
  <2>1. /\ tab' \in BOOLEAN /\ runnable' \in BOOLEAN /\ sandboxId' = sandboxId
        /\ AutoEffect(sessions, terminal)
    BY <1>1 DEF ShowTab, TInv, TypeOK
  <2> QED BY <2>1, AutoEffectKeeps DEF TInv, TypeOK
<1>2. CASE StatusArrives
  <2>1. /\ tab' \in BOOLEAN /\ runnable' \in BOOLEAN /\ sandboxId' = sandboxId
        /\ AutoEffect(sessions, terminal)
    BY <1>2 DEF StatusArrives, TInv, TypeOK
  <2> QED BY <2>1, AutoEffectKeeps DEF TInv, TypeOK
<1>3. CASE OtherSandbox
  <2> DEFINE ss == Reset(sessions, terminal)
  <2>1. /\ sandboxId' \in Sandboxes /\ UNCHANGED <<tab, runnable>>
        /\ \/ AutoEffect(ss, None)
           \/ /\ terminalAutoKey' = None /\ terminalAutoAttempts' = 0
              /\ terminalRetryTimer' = FALSE /\ sessions' = ss /\ terminal' = None
    BY <1>3 DEF OtherSandbox
  <2>2. ss \in Seq(Session) /\ Shells(ss, None, sandboxId')
    BY ResetShells DEF TInv, TypeOK
  <2> HIDE DEF ss
  <2>3. CASE AutoEffect(ss, None)
    <3>1. tab' \in BOOLEAN /\ runnable' \in BOOLEAN
      BY <2>1 DEF TInv, TypeOK
    <3> QED BY <2>1, <2>2, <2>3, <3>1, AutoEffectKeeps
  <2>4. CASE /\ terminalAutoKey' = None /\ terminalAutoAttempts' = 0
             /\ terminalRetryTimer' = FALSE /\ sessions' = ss /\ terminal' = None
    <3>1. Shells(sessions, terminal, sandboxId)'
      BY <2>2, <2>4
    <3>2. TypeOK'
      BY <2>1, <2>2, <2>4 DEF TInv, TypeOK
    <3>3. ~terminalRetryTimer' /\ terminalAutoAttempts' = 0
      BY <2>4
    <3> QED BY <3>1, <3>2, <3>3 DEF TInv, RetryInSight
  <2> QED BY <2>1, <2>3, <2>4
<1>4. CASE ConnectButton
  BY <1>4, ConnectKeeps DEF ConnectButton
<1>5. CASE Retry
  <2>1. CASE Connect(TRUE)
    BY <1>5, <2>1, ConnectKeeps DEF Retry, TInv
  <2>2. CASE ~Connect(TRUE)
    <3>1. /\ terminalRetryTimer' = FALSE
          /\ UNCHANGED <<sandboxId, tab, runnable, terminal, terminalAutoKey,
                         terminalAutoAttempts, sessions>>
      BY <1>5, <2>2 DEF Retry
    <3>2. Shells(sessions, terminal, sandboxId)'
      BY <3>1 DEF TInv
    <3> QED BY <3>1, <3>2 DEF TInv, TypeOK, RetryInSight
  <2> QED BY <2>1, <2>2
<1>6. ASSUME NEW c \in DOMAIN sessions,
             \/ Opened(c) \/ Started(c) \/ Result(c) \/ ErrorFrame(c) \/ ConnectTimeout(c)
             \/ SocketError(c) \/ SocketClosed(c)
      PROVE  TInv'
  BY <1>6, SessionStep
<1>7. CASE UNCHANGED vars
  <2>1. Shells(sessions, terminal, sandboxId)'
    BY <1>7 DEF vars, TInv
  <2> QED BY <1>7, <2>1 DEF vars, TInv, TypeOK, RetryInSight
<1> QED BY <1>1, <1>2, <1>3, <1>4, <1>5, <1>6, <1>7 DEF Next

-----------------------------------------------------------------------------
(* The theorems *)

THEOREM TerminalInvariant == Spec => []TInv
BY TInvInit, TInvStep, PTL DEF Spec

\* The state of the terminal has its type.
THEOREM TerminalTyped == Spec => []TypeOK
BY TerminalInvariant, PTL DEF TInv

\* A connection that may still run a shell is the one the page writes to, in the sandbox on
\* the page, for any number of retries and changes of sandbox
\* (sandbox-workbench.svelte:366-406).
THEOREM NoShellLeft == Spec => []NoOrphanShell
<1>1. TInv => NoOrphanShell
  BY DEF TInv, Shells, LiveSession, NoOrphanShell, Live
<1> QED BY <1>1, TerminalInvariant, PTL

\* Every connection that has not started waits with a timer (exec.ts:52-58, 93, 108).
THEOREM EveryConnectionDecided == Spec => []ConnectDecided
<1>1. TInv => ConnectDecided
  BY DEF TInv, Shells, LiveSession, ConnectDecided, Live
<1> QED BY <1>1, TerminalInvariant, PTL

\* The page connects by itself only in sight of the user and at most twice
\* (sandbox-workbench.svelte:183-193, 385-390).
THEOREM RetriesInSight == Spec => []RetryInSight
BY TerminalInvariant, PTL DEF TInv

-----------------------------------------------------------------------------
(* The conversation cache: the invariant *)

\* A history is built from a list of runs that was asked for, and what has been delivered
\* was read.
ListsKnown ==
  /\ \A q \in DOMAIN runLists : runLists[q].state = "done" => runLists[q].runs # None
  /\ \A h \in DOMAIN histories :
       /\ histories[h].runList \in DOMAIN runLists
       /\ histories[h].state = "done" => histories[h].runs # None /\ histories[h].events # None

\* Nothing is older than since in a list, or in a history and what it waits for.
FreshList(list, since) == list.runs # None => list.runs >= since
FreshHistory(history, first, since) ==
  /\ history.runList >= first
  /\ history.runs # None => history.runs >= since
  /\ history.events # None => history.events >= since

\* The list of a refresh and those after it, and its history and those after it, are read
\* after it; no list from before it is in the map.
Fresh(f) ==
  LET first == histories[f.history].runList
  IN  /\ f.since <= data
      /\ sandboxRunRequests # None => sandboxRunRequests >= first
      /\ \A q \in DOMAIN runLists : q >= first => FreshList(runLists[q], f.since)
      /\ \A h \in DOMAIN histories :
           h >= f.history => FreshHistory(histories[h], first, f.since)

HInv ==
  /\ HistoryTypeOK /\ SettledIsDropped /\ ListsKnown
  /\ \A f \in refreshes : Fresh(f)

-----------------------------------------------------------------------------
(* Lemmas *)

\* What AskRuns does to the lists: those there were are kept, and what is new is pending,
\* has not been read, comes after them and is what the map holds.
LEMMA AskRunsEffect ==
  ASSUME HistoryTypeOK, NEW cachedRuns \in DOMAIN runLists \cup {None},
         AskRuns(cachedRuns)
  PROVE  /\ runLists' \in Seq(RunList)
         /\ DOMAIN runLists \subseteq DOMAIN runLists'
         /\ \A q \in DOMAIN runLists : runLists'[q] = runLists[q]
         /\ \A q \in DOMAIN runLists' \ DOMAIN runLists :
              /\ runLists'[q].state = "pending" /\ runLists'[q].runs = None
              /\ \A p \in DOMAIN runLists' : p <= q
         /\ sandboxRunRequests' \in DOMAIN runLists'
         /\ \/ sandboxRunRequests' = cachedRuns
            \/ sandboxRunRequests' \in DOMAIN runLists' \ DOMAIN runLists
         /\ cachedRuns = None => sandboxRunRequests' \in DOMAIN runLists' \ DOMAIN runLists
<1> DEFINE list == [state |-> "pending", runs |-> None]
           lists == Append(runLists, list)
<1>1. list \in RunList /\ list.state = "pending" /\ list.runs = None
  BY DEF RunList
<1>2. runLists \in Seq(RunList) /\ \A q \in DOMAIN runLists : q \in Int
  BY DEF HistoryTypeOK
<1>3. CASE cachedRuns = None
  <2>1. runLists' = lists /\ sandboxRunRequests' = Len(lists)
    BY <1>3 DEF AskRuns
  <2> HIDE DEF list
  <2>2. /\ lists \in Seq(RunList) /\ DOMAIN runLists \subseteq DOMAIN lists
        /\ Len(lists) \in DOMAIN lists /\ Len(lists) \notin DOMAIN runLists
        /\ \A p \in DOMAIN lists : p <= Len(lists)
        /\ DOMAIN lists = DOMAIN runLists \cup {Len(lists)}
        /\ lists[Len(lists)] = list /\ \A q \in DOMAIN runLists : lists[q] = runLists[q]
    BY <1>1, <1>2, Appended
  <2> HIDE DEF lists
  <2> QED BY <1>1, <1>3, <2>1, <2>2
<1>4. CASE cachedRuns # None
  BY <1>2, <1>4 DEF AskRuns
<1> QED BY <1>3, <1>4

\* The same for Ask and the histories.
LEMMA AskEffect ==
  ASSUME HistoryTypeOK,
         NEW cached \in DOMAIN histories \cup {None},
         NEW cachedRuns \in DOMAIN runLists \cup {None},
         Ask(cached, cachedRuns)
  PROVE  /\ histories' \in Seq(History)
         /\ DOMAIN histories \subseteq DOMAIN histories'
         /\ \A h \in DOMAIN histories : histories'[h] = histories[h]
         /\ \A h \in DOMAIN histories' \ DOMAIN histories :
              /\ histories'[h].state = "pending"
              /\ histories'[h].runs = None /\ histories'[h].events = None
              /\ histories'[h].runList = sandboxRunRequests'
              /\ \A p \in DOMAIN histories' : p <= h
         /\ \/ cached # None /\ historyRequests' = cached /\ sandboxRunRequests' = cachedRuns
               /\ UNCHANGED <<histories, runLists>>
            \/ /\ cached = None /\ AskRuns(cachedRuns)
               /\ historyRequests' \in DOMAIN histories' \ DOMAIN histories
<1> USE DEF HistoryTypeOK
<1>1. CASE cached # None
  BY <1>1 DEF Ask
<1>2. CASE cached = None
  <2> DEFINE new == [state |-> "pending", runList |-> sandboxRunRequests',
                     runs |-> None, events |-> None]
             hs == Append(histories, new)
  <2>1. AskRuns(cachedRuns) /\ histories' = hs /\ historyRequests' = Len(hs)
    BY <1>2 DEF Ask
  <2>2. runLists' \in Seq(RunList) /\ sandboxRunRequests' \in DOMAIN runLists'
    BY <2>1, AskRunsEffect
  <2>3. /\ new \in History /\ new.state = "pending" /\ new.runs = None /\ new.events = None
        /\ new.runList = sandboxRunRequests'
    BY <2>2 DEF History
  <2> HIDE DEF new
  <2>4. /\ hs \in Seq(History) /\ DOMAIN histories \subseteq DOMAIN hs
        /\ Len(hs) \in DOMAIN hs /\ Len(hs) \notin DOMAIN histories
        /\ \A p \in DOMAIN hs : p <= Len(hs)
        /\ DOMAIN hs = DOMAIN histories \cup {Len(hs)}
        /\ hs[Len(hs)] = new /\ \A h \in DOMAIN histories : hs[h] = histories[h]
    BY <2>3, Appended
  <2> HIDE DEF hs
  <2> QED BY <1>2, <2>1, <2>3, <2>4
<1> QED BY <1>1, <1>2

\* The promises and the map of lists have their types where they hold what they held, and
\* then something new.
LEMMA AskTyped ==
  ASSUME HInv, NEW cached \in {historyRequests, None},
         NEW cachedRuns \in {sandboxRunRequests, None},
         Ask(cached, cachedRuns),
         UNCHANGED <<historyClears, runClears>>
  PROVE  /\ cached \in DOMAIN histories \cup {None}
         /\ cachedRuns \in DOMAIN runLists \cup {None}
         /\ runLists' \in Seq(RunList)
         /\ DOMAIN runLists \subseteq DOMAIN runLists'
         /\ historyRequests' \in DOMAIN histories' \cup {None}
         /\ sandboxRunRequests' \in DOMAIN runLists' \cup {None}
         /\ SettledIsDropped' /\ ListsKnown'
<1> USE DEF HInv
<1>1. /\ cached \in DOMAIN histories \cup {None}
      /\ cachedRuns \in DOMAIN runLists \cup {None}
      /\ runLists \in Seq(RunList)
  BY DEF HistoryTypeOK
<1>2. /\ DOMAIN histories \subseteq DOMAIN histories'
      /\ \A h \in DOMAIN histories : histories'[h] = histories[h]
      /\ \A h \in DOMAIN histories' \ DOMAIN histories :
           /\ histories'[h].state = "pending" /\ histories'[h].runList = sandboxRunRequests'
      /\ \/ cached # None /\ historyRequests' = cached /\ sandboxRunRequests' = cachedRuns
            /\ UNCHANGED <<histories, runLists>>
         \/ /\ cached = None /\ AskRuns(cachedRuns)
            /\ historyRequests' \in DOMAIN histories' \ DOMAIN histories
  BY <1>1, AskEffect
<1>3. CASE cached # None
  <2>1. /\ UNCHANGED <<histories, runLists>>
        /\ historyRequests' = cached /\ sandboxRunRequests' = cachedRuns
    BY <1>2, <1>3
  <2> QED BY <1>1, <1>3, <2>1 DEF SettledIsDropped, ListsKnown
<1>4. CASE cached = None
  <2>1. /\ runLists' \in Seq(RunList) /\ DOMAIN runLists \subseteq DOMAIN runLists'
        /\ \A q \in DOMAIN runLists : runLists'[q] = runLists[q]
        /\ \A q \in DOMAIN runLists' \ DOMAIN runLists : runLists'[q].state = "pending"
        /\ sandboxRunRequests' \in DOMAIN runLists'
        /\ \/ sandboxRunRequests' = cachedRuns
           \/ sandboxRunRequests' \in DOMAIN runLists' \ DOMAIN runLists
    BY <1>1, <1>2, <1>4, AskRunsEffect
  <2>2. historyRequests' \in DOMAIN histories' \ DOMAIN histories
    BY <1>2, <1>4
  <2>3. SettledIsDropped'
    BY <1>1, <1>2, <2>1, <2>2 DEF SettledIsDropped
  <2>4. ListsKnown'
    BY <1>2, <2>1 DEF ListsKnown
  <2> QED BY <1>1, <2>1, <2>2, <2>3, <2>4
<1> QED BY <1>3, <1>4

\* A list that is asked for is not older than a refresh from before.
LEMMA AskRunsFresh ==
  ASSUME HInv, NEW cachedRuns \in {sandboxRunRequests, None}, AskRuns(cachedRuns),
         UNCHANGED data, NEW f \in refreshes, histories'[f.history] = histories[f.history]
  PROVE  /\ f.since <= data'
         /\ sandboxRunRequests' >= histories[f.history].runList
         /\ \A q \in DOMAIN runLists' :
              q >= histories[f.history].runList => FreshList(runLists'[q], f.since)
<1> DEFINE first == histories[f.history].runList
<1>1. /\ Fresh(f) /\ cachedRuns \in DOMAIN runLists \cup {None}
      /\ first \in DOMAIN runLists /\ f.history \in DOMAIN histories
  BY DEF HInv, HistoryTypeOK, ListsKnown
<1>2. /\ runLists' \in Seq(RunList) /\ DOMAIN runLists \subseteq DOMAIN runLists'
      /\ \A q \in DOMAIN runLists : runLists'[q] = runLists[q]
      /\ \A q \in DOMAIN runLists' \ DOMAIN runLists :
           runLists'[q].runs = None /\ \A p \in DOMAIN runLists' : p <= q
      /\ \/ sandboxRunRequests' = cachedRuns
         \/ sandboxRunRequests' \in DOMAIN runLists' \ DOMAIN runLists
      /\ sandboxRunRequests' \in DOMAIN runLists'
  BY <1>1, AskRunsEffect DEF HInv
<1>3. cachedRuns = None => sandboxRunRequests' \in DOMAIN runLists' \ DOMAIN runLists
  BY <1>1, AskRunsEffect DEF HInv
<1>4. sandboxRunRequests' >= first
  <2>1. CASE sandboxRunRequests' \in DOMAIN runLists' \ DOMAIN runLists
    <3>1. first <= sandboxRunRequests'
      BY <1>1, <1>2, <2>1
    <3>2. first \in Int /\ sandboxRunRequests' \in Int
      BY <1>1, <1>2
    <3> QED BY <3>1, <3>2
  <2>2. CASE sandboxRunRequests' = cachedRuns /\ cachedRuns # None
    BY <1>1, <2>2 DEF Fresh
  <2> QED BY <1>2, <1>3, <2>1, <2>2
<1>5. ASSUME NEW q \in DOMAIN runLists', q >= first PROVE FreshList(runLists'[q], f.since)
  BY <1>1, <1>2, <1>5 DEF Fresh, FreshList
<1> QED BY <1>1, <1>4, <1>5 DEF Fresh

\* Nor is what Ask adds to the histories.
LEMMA AskFresh ==
  ASSUME HInv, NEW cached \in {historyRequests, None},
         NEW cachedRuns \in {sandboxRunRequests, None},
         cached = None \/ cachedRuns = sandboxRunRequests,
         Ask(cached, cachedRuns), UNCHANGED data, NEW f \in refreshes
  PROVE  Fresh(f)'
<1> DEFINE first == histories[f.history].runList
<1>1. /\ Fresh(f) /\ f.history \in DOMAIN histories /\ first \in DOMAIN runLists
      /\ cached \in DOMAIN histories \cup {None}
      /\ cachedRuns \in DOMAIN runLists \cup {None}
  BY DEF HInv, HistoryTypeOK, ListsKnown
<1>2. /\ DOMAIN histories \subseteq DOMAIN histories'
      /\ \A h \in DOMAIN histories : histories'[h] = histories[h]
      /\ \A h \in DOMAIN histories' \ DOMAIN histories :
           /\ histories'[h].runs = None /\ histories'[h].events = None
           /\ histories'[h].runList = sandboxRunRequests'
      /\ \/ cached # None /\ historyRequests' = cached /\ sandboxRunRequests' = cachedRuns
            /\ UNCHANGED <<histories, runLists>>
         \/ /\ cached = None /\ AskRuns(cachedRuns)
  BY <1>1, AskEffect DEF HInv
<1>3. CASE cached # None
  <2>1. /\ UNCHANGED <<histories, runLists>> /\ sandboxRunRequests' = sandboxRunRequests
    BY <1>2, <1>3
  <2> QED BY <1>1, <2>1 DEF Fresh
<1>4. CASE cached = None
  <2>1. histories'[f.history] = histories[f.history]
    BY <1>1, <1>2
  <2>2. /\ f.since <= data' /\ sandboxRunRequests' >= first
        /\ \A q \in DOMAIN runLists' : q >= first => FreshList(runLists'[q], f.since)
    BY <1>2, <1>4, <2>1, AskRunsFresh
  <2>3. ASSUME NEW h \in DOMAIN histories', h >= f.history
        PROVE  FreshHistory(histories'[h], first, f.since)
    BY <1>1, <1>2, <2>2, <2>3 DEF Fresh, FreshHistory
  <2> QED BY <2>1, <2>2, <2>3 DEF Fresh
<1> QED BY <1>3, <1>4

\* A list of runs is read, delivered or fails.
LEMMA ListChange ==
  ASSUME HInv, NEW q \in DOMAIN runLists, NEW list \in RunList,
         runLists[q].state = "pending",
         list.state = "done" => list.runs # None,
         list.runs \in {None, runLists[q].runs, data},
         runLists' = [runLists EXCEPT ![q] = list],
         UNCHANGED <<data, sandboxRunRequests, histories, refreshes>>
  PROVE  /\ runLists' \in Seq(RunList) /\ DOMAIN runLists' = DOMAIN runLists
         /\ runLists'[q] = list
         /\ \A p \in DOMAIN runLists : p # q => runLists'[p] = runLists[p]
         /\ ListsKnown'
         /\ \A f \in refreshes : Fresh(f)'
<1> USE DEF HInv, HistoryTypeOK
<1>1. /\ runLists' \in Seq(RunList) /\ DOMAIN runLists' = DOMAIN runLists
      /\ runLists'[q] = list
      /\ \A p \in DOMAIN runLists : p # q => runLists'[p] = runLists[p]
  BY Replaced
<1>2. ListsKnown'
  BY <1>1 DEF ListsKnown
<1>3. ASSUME NEW f \in refreshes PROVE Fresh(f)'
  <2> DEFINE first == histories[f.history].runList
  <2>1. Fresh(f) /\ f.since <= data /\ f.since \in Nat /\ data \in Nat
    BY HistoryCacheAssumption DEF Fresh
  <2>2. \A p \in DOMAIN runLists : p >= first => FreshList(runLists[p], f.since)
    BY <2>1 DEF Fresh
  <2> HIDE DEF first
  <2>3. q >= first => FreshList(list, f.since)
    BY <2>1, <2>2 DEF FreshList
  <2>4. \A p \in DOMAIN runLists' : p >= first => FreshList(runLists'[p], f.since)
    BY <1>1, <2>2, <2>3
  <2> QED BY <2>1, <2>4 DEF Fresh, first
<1> QED BY <1>1, <1>2, <1>3

\* A pending history gets its runs or its events, is delivered or fails.
LEMMA HistoryChange ==
  ASSUME HInv, NEW h \in DOMAIN histories, NEW st \in History,
         st.runList = histories[h].runList,
         st.runs \in {None, histories[h].runs, runLists[st.runList].runs},
         st.events \in {None, histories[h].events, data},
         st.state = "done" => st.runs # None /\ st.events # None,
         histories' = [histories EXCEPT ![h] = st],
         UNCHANGED <<data, sandboxRunRequests, runLists, refreshes>>
  PROVE  /\ histories' \in Seq(History) /\ DOMAIN histories' = DOMAIN histories
         /\ histories'[h] = st
         /\ \A p \in DOMAIN histories : p # h => histories'[p] = histories[p]
         /\ ListsKnown'
         /\ \A f \in refreshes : Fresh(f)'
<1> USE DEF HInv, HistoryTypeOK
<1>1. /\ histories' \in Seq(History) /\ DOMAIN histories' = DOMAIN histories
      /\ histories'[h] = st
      /\ \A p \in DOMAIN histories : p # h => histories'[p] = histories[p]
  BY Replaced
<1>2. ListsKnown'
  BY <1>1 DEF ListsKnown
<1>3. ASSUME NEW f \in refreshes PROVE Fresh(f)'
  <2> DEFINE first == histories[f.history].runList
  <2>1. /\ Fresh(f) /\ f.since <= data /\ f.since \in Nat /\ data \in Nat
        /\ f.history \in DOMAIN histories /\ st.runList \in DOMAIN runLists
    BY HistoryCacheAssumption DEF Fresh, ListsKnown
  <2>2. /\ \A p \in DOMAIN histories :
             p >= f.history => FreshHistory(histories[p], first, f.since)
        /\ \A p \in DOMAIN runLists : p >= first => FreshList(runLists[p], f.since)
    BY <2>1 DEF Fresh
  <2>3. histories'[f.history].runList = first
    BY <1>1, <2>1
  <2> HIDE DEF first
  <2>4. h >= f.history => FreshHistory(st, first, f.since)
    BY <2>1, <2>2 DEF FreshHistory, FreshList
  <2>5. \A p \in DOMAIN histories' :
          p >= f.history => FreshHistory(histories'[p], first, f.since)
    BY <1>1, <2>2, <2>4
  <2>6. sandboxRunRequests # None => sandboxRunRequests >= first
    BY <2>1 DEF Fresh, first
  <2> QED BY <2>1, <2>2, <2>3, <2>5, <2>6 DEF Fresh
<1> QED BY <1>1, <1>2, <1>3

-----------------------------------------------------------------------------
(* The invariant holds *)

LEMMA HInvInit == HistoryInit => HInv
BY HistoryCacheAssumption
DEF HistoryInit, HInv, HistoryTypeOK, SettledIsDropped, ListsKnown

LEMMA HInvStep == HInv /\ [HistoryNext]_historyVars => HInv'
<1> SUFFICES ASSUME HInv, [HistoryNext]_historyVars PROVE HInv'
  OBVIOUS
<1>1. CASE List
  <2>1. /\ Ask(historyRequests, sandboxRunRequests)
        /\ UNCHANGED <<data, historyClears, runClears, refreshes>>
    BY <1>1 DEF List
  <2>2. /\ SettledIsDropped' /\ ListsKnown' /\ runLists' \in Seq(RunList)
        /\ historyRequests' \in DOMAIN histories' \cup {None}
        /\ sandboxRunRequests' \in DOMAIN runLists' \cup {None}
        /\ DOMAIN runLists \subseteq DOMAIN runLists'
        /\ historyRequests \in DOMAIN histories \cup {None}
        /\ sandboxRunRequests \in DOMAIN runLists \cup {None}
    BY <2>1, AskTyped
  <2>3. histories' \in Seq(History) /\ DOMAIN histories \subseteq DOMAIN histories'
    BY <2>1, <2>2, AskEffect DEF HInv
  <2>4. HistoryTypeOK'
    BY <2>1, <2>2, <2>3 DEF HInv, HistoryTypeOK
  <2>5. \A f \in refreshes : Fresh(f)'
    BY <2>1, AskFresh
  <2>6. \A f \in refreshes' : Fresh(f)'
    BY <2>1, <2>5
  <2> QED BY <2>2, <2>4, <2>6 DEF HInv
<1>2. CASE RunTarget
  <2>1. /\ AskRuns(sandboxRunRequests)
        /\ UNCHANGED <<data, historyRequests, histories, historyClears, runClears, refreshes>>
    BY <1>2 DEF RunTarget
  <2>2. /\ runLists' \in Seq(RunList) /\ DOMAIN runLists \subseteq DOMAIN runLists'
        /\ \A q \in DOMAIN runLists : runLists'[q] = runLists[q]
        /\ \A q \in DOMAIN runLists' \ DOMAIN runLists : runLists'[q].state = "pending"
        /\ sandboxRunRequests' \in DOMAIN runLists'
        /\ \/ sandboxRunRequests' = sandboxRunRequests
           \/ sandboxRunRequests' \in DOMAIN runLists' \ DOMAIN runLists
        /\ sandboxRunRequests = None =>
             sandboxRunRequests' \in DOMAIN runLists' \ DOMAIN runLists
    BY <2>1, AskRunsEffect DEF HInv, HistoryTypeOK
  <2>3. HistoryTypeOK'
    BY <2>1, <2>2 DEF HInv, HistoryTypeOK
  <2>4. SettledIsDropped'
    BY <2>1, <2>2 DEF HInv, HistoryTypeOK, SettledIsDropped
  <2>5. ListsKnown'
    BY <2>1, <2>2 DEF HInv, ListsKnown
  <2>6. ASSUME NEW f \in refreshes PROVE Fresh(f)'
    <3> DEFINE first == histories[f.history].runList
    <3>1. histories'[f.history] = histories[f.history]
      BY <2>1
    <3>2. /\ f.since <= data' /\ sandboxRunRequests' >= first
          /\ \A q \in DOMAIN runLists' : q >= first => FreshList(runLists'[q], f.since)
      BY <2>1, <3>1, AskRunsFresh
    <3>3. \A h \in DOMAIN histories' :
            h >= f.history => FreshHistory(histories'[h], first, f.since)
      BY <2>1 DEF HInv, Fresh
    <3> QED BY <3>1, <3>2, <3>3 DEF Fresh
  <2> QED BY <2>1, <2>3, <2>4, <2>5, <2>6 DEF HInv
<1>3. CASE Refresh
  <2> DEFINE new == [since |-> data, history |-> historyRequests']
  <2>1. /\ Ask(None, None) /\ refreshes' = refreshes \cup {new}
        /\ UNCHANGED <<data, historyClears, runClears>>
    BY <1>3 DEF Refresh
  <2>2. /\ SettledIsDropped' /\ ListsKnown' /\ runLists' \in Seq(RunList)
        /\ historyRequests' \in DOMAIN histories' \cup {None}
        /\ sandboxRunRequests' \in DOMAIN runLists' \cup {None}
        /\ DOMAIN runLists \subseteq DOMAIN runLists'
    BY <2>1, AskTyped
  <2>3. /\ histories' \in Seq(History) /\ DOMAIN histories \subseteq DOMAIN histories'
        /\ \A h \in DOMAIN histories' \ DOMAIN histories :
             /\ histories'[h].runs = None /\ histories'[h].events = None
             /\ histories'[h].runList = sandboxRunRequests'
             /\ \A p \in DOMAIN histories' : p <= h
        /\ AskRuns(None)
        /\ historyRequests' \in DOMAIN histories' \ DOMAIN histories
    BY <2>1, AskEffect DEF HInv
  <2>4. /\ \A q \in DOMAIN runLists' \ DOMAIN runLists :
             runLists'[q].runs = None /\ \A p \in DOMAIN runLists' : p <= q
        /\ sandboxRunRequests' \in DOMAIN runLists' \ DOMAIN runLists
    BY <2>3, AskRunsEffect DEF HInv
  <2>5. HistoryTypeOK'
    BY <2>1, <2>2, <2>3 DEF HInv, HistoryTypeOK
  <2>6. \A f \in refreshes : Fresh(f)'
    BY <2>1, AskFresh
  <2>7. ASSUME NEW f, f.since = data, f.history = historyRequests' PROVE Fresh(f)'
    <3> DEFINE h0 == historyRequests'
               first == sandboxRunRequests'
    <3>1. data' \in Nat /\ f.since = data' /\ f.history = h0
      BY <2>1, <2>7, HistoryCacheAssumption DEF HInv, HistoryTypeOK
    <3>2. histories'[h0].runList = first /\ first \in Nat /\ h0 \in Nat
      BY <2>2, <2>3, <2>4
    <3>3. ASSUME NEW q \in DOMAIN runLists', q >= first PROVE FreshList(runLists'[q], data')
      <4>1. q = first
        BY <2>2, <2>4, <3>2, <3>3
      <4> QED BY <2>4, <4>1 DEF FreshList
    <3>4. ASSUME NEW h \in DOMAIN histories', h >= h0
          PROVE  FreshHistory(histories'[h], first, data')
      <4>1. h = h0
        BY <2>3, <3>2, <3>4
      <4> QED BY <2>3, <3>2, <4>1 DEF FreshHistory
    <3>5. data' <= data' /\ first >= first
      BY <3>1, <3>2
    <3> QED BY <3>1, <3>2, <3>3, <3>4, <3>5 DEF Fresh
  <2>8. \A f \in refreshes' : Fresh(f)'
    BY <2>1, <2>6, <2>7
  <2> QED BY <2>2, <2>5, <2>8 DEF HInv
<1>4. CASE Change
  <2>1. data' = data + 1 /\ data \in Nat /\ data' \in 0 .. MaxData
    BY <1>4, HistoryCacheAssumption DEF Change, HInv, HistoryTypeOK
  <2>2. UNCHANGED <<historyRequests, sandboxRunRequests, histories, runLists,
                    historyClears, runClears, refreshes>>
    BY <1>4 DEF Change
  <2>3. HistoryTypeOK' /\ SettledIsDropped' /\ ListsKnown'
    BY <2>1, <2>2 DEF HInv, HistoryTypeOK, SettledIsDropped, ListsKnown
  <2>4. \A f \in refreshes : Fresh(f)'
    BY <2>1, <2>2 DEF HInv, HistoryTypeOK, Fresh
  <2>5. \A f \in refreshes' : Fresh(f)'
    BY <2>2, <2>4
  <2> QED BY <2>3, <2>5 DEF HInv
<1>5. ASSUME NEW q \in DOMAIN runLists, ReadRuns(q) PROVE HInv'
  <2> DEFINE list == [runLists[q] EXCEPT !.runs = data]
  <2>1. /\ runLists[q].state = "pending" /\ runLists' = [runLists EXCEPT ![q] = list]
        /\ UNCHANGED <<data, historyRequests, sandboxRunRequests, histories, historyClears,
                       runClears, refreshes>>
    BY <1>5 DEF ReadRuns
  <2>2. list \in RunList /\ list.runs = data /\ list.state = "pending"
    <3>1. runLists[q] \in RunList /\ data \in Nat
      BY HistoryCacheAssumption DEF HInv, HistoryTypeOK
    <3> QED BY <2>1, <3>1 DEF RunList
  <2> HIDE DEF list
  <2>3. /\ runLists' \in Seq(RunList) /\ DOMAIN runLists' = DOMAIN runLists
        /\ runLists'[q] = list
        /\ \A p \in DOMAIN runLists : p # q => runLists'[p] = runLists[p]
        /\ ListsKnown'
        /\ \A f \in refreshes : Fresh(f)'
    BY <2>1, <2>2, ListChange
  <2>4. HistoryTypeOK' /\ SettledIsDropped'
    BY <2>1, <2>2, <2>3 DEF HInv, HistoryTypeOK, SettledIsDropped
  <2> QED BY <2>1, <2>3, <2>4 DEF HInv
<1>6. ASSUME NEW q \in DOMAIN runLists, RunsSettle(q) PROVE HInv'
  <2>1. PICK list \in {[runLists[q] EXCEPT !.state = "done"],
                       [runLists[q] EXCEPT !.state = "failed", !.runs = None]} :
          /\ runLists' = [runLists EXCEPT ![q] = list]
          /\ list.state = "done" => list.runs # None
    <3>1. runLists[q] \in RunList
      BY DEF HInv, HistoryTypeOK
    <3> QED BY <1>6, <3>1 DEF RunsSettle, RunList
  <2>2. list \in RunList /\ list.runs \in {None, runLists[q].runs}
    <3>1. runLists[q] \in RunList
      BY DEF HInv, HistoryTypeOK
    <3> QED BY <2>1, <3>1 DEF RunList
  <2>3. /\ runLists[q].state = "pending" /\ runClears' = runClears \cup {q}
        /\ UNCHANGED <<data, historyRequests, sandboxRunRequests, histories, historyClears,
                       refreshes>>
    BY <1>6 DEF RunsSettle
  <2>4. /\ runLists' \in Seq(RunList) /\ DOMAIN runLists' = DOMAIN runLists
        /\ \A p \in DOMAIN runLists : p # q => runLists'[p] = runLists[p]
        /\ ListsKnown'
        /\ \A f \in refreshes : Fresh(f)'
    BY <2>1, <2>2, <2>3, ListChange
  <2>5. HistoryTypeOK' /\ SettledIsDropped'
    BY <2>3, <2>4 DEF HInv, HistoryTypeOK, SettledIsDropped
  <2> QED BY <2>3, <2>4, <2>5 DEF HInv
<1>7. ASSUME NEW h \in DOMAIN histories, GotRuns(h) PROVE HInv'
  <2> DEFINE list == runLists[histories[h].runList]
             st == IF list.state = "done" THEN [histories[h] EXCEPT !.runs = list.runs]
                   ELSE Rejected(histories[h])
  <2>1. /\ histories[h].state = "pending"
        /\ histories' = [histories EXCEPT ![h] = st]
        /\ historyClears' = IF list.state = "done" THEN historyClears
                            ELSE historyClears \cup {h}
        /\ UNCHANGED <<data, historyRequests, sandboxRunRequests, runLists, runClears,
                       refreshes>>
    BY <1>7 DEF GotRuns
  <2>2. list \in RunList /\ histories[h] \in History
    BY DEF HInv, HistoryTypeOK, ListsKnown
  <2>3. /\ st \in History /\ st.runList = histories[h].runList
        /\ st.runs \in {None, list.runs} /\ st.events \in {None, histories[h].events}
        /\ st.state = IF list.state = "done" THEN "pending" ELSE "failed"
    BY <2>1, <2>2 DEF History, RunList, Rejected
  <2> HIDE DEF st
  <2>4. /\ histories' \in Seq(History) /\ DOMAIN histories' = DOMAIN histories
        /\ histories'[h] = st
        /\ \A p \in DOMAIN histories : p # h => histories'[p] = histories[p]
        /\ ListsKnown'
        /\ \A f \in refreshes : Fresh(f)'
    BY <2>1, <2>3, HistoryChange
  <2>5. HistoryTypeOK' /\ SettledIsDropped'
    BY <2>1, <2>3, <2>4 DEF HInv, HistoryTypeOK, SettledIsDropped
  <2> QED BY <2>1, <2>4, <2>5 DEF HInv
<1>8. ASSUME NEW h \in DOMAIN histories, ReadEvents(h) PROVE HInv'
  <2> DEFINE st == [histories[h] EXCEPT !.events = data]
  <2>1. /\ histories[h].state = "pending" /\ histories' = [histories EXCEPT ![h] = st]
        /\ UNCHANGED <<data, historyRequests, sandboxRunRequests, runLists, historyClears,
                       runClears, refreshes>>
    BY <1>8 DEF ReadEvents
  <2>2. /\ st \in History /\ st.state = "pending" /\ st.runList = histories[h].runList
        /\ st.runs = histories[h].runs /\ st.events = data
    <3>1. histories[h] \in History /\ data \in Nat
      BY HistoryCacheAssumption DEF HInv, HistoryTypeOK
    <3> QED BY <2>1, <3>1 DEF History
  <2> HIDE DEF st
  <2>3. /\ histories' \in Seq(History) /\ DOMAIN histories' = DOMAIN histories
        /\ histories'[h] = st
        /\ \A p \in DOMAIN histories : p # h => histories'[p] = histories[p]
        /\ ListsKnown'
        /\ \A f \in refreshes : Fresh(f)'
    BY <2>1, <2>2, HistoryChange
  <2>4. HistoryTypeOK' /\ SettledIsDropped'
    BY <2>1, <2>2, <2>3 DEF HInv, HistoryTypeOK, SettledIsDropped
  <2> QED BY <2>1, <2>3, <2>4 DEF HInv
<1>9. ASSUME NEW h \in DOMAIN histories, HistorySettles(h) PROVE HInv'
  <2>1. histories[h] \in History
    BY DEF HInv, HistoryTypeOK
  <2>2. PICK st \in {[histories[h] EXCEPT !.state = "done"], Rejected(histories[h])} :
          /\ histories' = [histories EXCEPT ![h] = st]
          /\ st.state = "done" => st.runs # None /\ st.events # None
    BY <1>9, <2>1 DEF HistorySettles, Rejected, History
  <2>3. /\ historyClears' = historyClears \cup {h}
        /\ UNCHANGED <<data, historyRequests, sandboxRunRequests, runLists, runClears,
                       refreshes>>
    BY <1>9 DEF HistorySettles
  <2>4. /\ st \in History /\ st.runList = histories[h].runList
        /\ st.runs \in {None, histories[h].runs}
        /\ st.events \in {None, histories[h].events}
    BY <2>1, <2>2 DEF History, Rejected
  <2>5. /\ histories' \in Seq(History) /\ DOMAIN histories' = DOMAIN histories
        /\ \A p \in DOMAIN histories : p # h => histories'[p] = histories[p]
        /\ ListsKnown'
        /\ \A f \in refreshes : Fresh(f)'
    BY <2>2, <2>3, <2>4, HistoryChange
  <2>6. HistoryTypeOK' /\ SettledIsDropped'
    BY <2>3, <2>5 DEF HInv, HistoryTypeOK, SettledIsDropped
  <2> QED BY <2>3, <2>5, <2>6 DEF HInv
<1>10. ASSUME NEW h \in DOMAIN histories, ClearHistory(h) PROVE HInv'
  BY <1>10 DEF ClearHistory, HInv, HistoryTypeOK, SettledIsDropped, ListsKnown, Fresh
<1>11. ASSUME NEW q \in DOMAIN runLists, ClearRuns(q) PROVE HInv'
  BY <1>11 DEF ClearRuns, HInv, HistoryTypeOK, SettledIsDropped, ListsKnown, Fresh
<1>12. CASE UNCHANGED historyVars
  BY <1>12 DEF historyVars, HInv, HistoryTypeOK, SettledIsDropped, ListsKnown, Fresh
<1> QED BY <1>1, <1>2, <1>3, <1>4, <1>5, <1>6, <1>7, <1>8, <1>9, <1>10, <1>11, <1>12
   DEF HistoryNext

-----------------------------------------------------------------------------
(* The theorems *)

THEOREM HistoryInvariant == HistorySpec => []HInv
BY HInvInit, HInvStep, PTL DEF HistorySpec

\* The cache has its type.
THEOREM HistoryTyped == HistorySpec => []HistoryTypeOK
BY HistoryInvariant, PTL DEF HInv

\* What a refresh delivers, and whoever asks after it, was read by the daemon after it was
\* asked for: nothing that was on its way from before is shared, whichever timers fire
\* meanwhile (sessions.ts:154-158, 175-187, 318-327).
THEOREM RefreshFresh == HistorySpec => []RefreshIsFresh
<1>1. ASSUME HInv, NEW f \in refreshes, NEW h \in DOMAIN histories, h >= f.history,
             histories[h].state = "done"
      PROVE  histories[h].runs >= f.since /\ histories[h].events >= f.since
  <2>1. histories[h].runs # None /\ histories[h].events # None
    BY <1>1 DEF HInv, ListsKnown
  <2> QED BY <1>1, <2>1 DEF HInv, Fresh, FreshHistory
<1>2. HInv => RefreshIsFresh
  BY <1>1 DEF RefreshIsFresh
<1> QED BY <1>2, HistoryInvariant, PTL

\* Nothing that has settled stays in the maps for good (sessions.ts:180-181, 323-324).
THEOREM SettledDropped == HistorySpec => []SettledIsDropped
BY HistoryInvariant, PTL DEF HInv
=============================================================================
