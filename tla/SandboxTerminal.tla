---------------------------- MODULE SandboxTerminal ----------------------------
(***************************************************************************)
(* The terminal of the sandbox workbench: the WebSocket session of         *)
(* openInteractiveTerminal (src/src/api/exec.ts) under the connections,    *)
(* automatic retries and callbacks of                                      *)
(* src/src/lib/components/sandbox-workbench.svelte.  A callback that a     *)
(* session makes is part of the step that makes it, and so are the effects *)
(* the change of a variable sets off.                                      *)
(***************************************************************************)
EXTENDS Integers, Sequences, Absent

CONSTANTS Sandboxes,
          MaxSessions   \* bound: connections made

ASSUME SandboxTerminalAssumption ==
  MaxSessions \in Nat /\ None \notin Sandboxes /\ None \notin Nat

VARIABLES sandboxId, tab,   \* tab: the terminal tab is the one shown
          runnable,         \* the status of the sandbox that was loaded last
          terminal,         \* the session the page writes to
          terminalAutoKey, terminalAutoAttempts, terminalRetryTimer,
          sessions          \* every connection, in the order they were made

vars == <<sandboxId, tab, runnable, terminal, terminalAutoKey, terminalAutoAttempts,
          terminalRetryTimer, sessions>>

\* current: terminalConnectionVersion has not moved since the session was made.
Session == [sandbox : Sandboxes, automatic : BOOLEAN, current : BOOLEAN,
            socket : {"connecting", "open", "closing", "closed"},
            connected : BOOLEAN, ended : BOOLEAN, connectTimer : BOOLEAN,
            closeNotified : BOOLEAN]

TypeOK ==
  /\ sandboxId \in Sandboxes /\ tab \in BOOLEAN /\ runnable \in BOOLEAN
  /\ terminal \in DOMAIN sessions \cup {None}
  /\ terminalAutoKey \in Sandboxes \cup {None}
  /\ terminalAutoAttempts \in Nat
  /\ terminalRetryTimer \in BOOLEAN
  /\ sessions \in Seq(Session)

Init ==
  /\ sandboxId \in Sandboxes /\ tab = FALSE /\ runnable = FALSE
  /\ terminal = None /\ terminalAutoKey = None
  /\ terminalAutoAttempts = 0 /\ terminalRetryTimer = FALSE
  /\ sessions = <<>>

-----------------------------------------------------------------------------
(* Sessions *)

NewSession(sandbox, automatic) ==
  [sandbox |-> sandbox, automatic |-> automatic, current |-> TRUE,
   socket |-> "connecting", connected |-> FALSE, ended |-> FALSE,
   connectTimer |-> TRUE, closeNotified |-> FALSE]

\* close
Closed(s) ==
  [s EXCEPT !.ended = TRUE, !.connectTimer = FALSE,
            !.socket = IF @ = "closed" THEN @ ELSE "closing"]

Outdated(ss) == [c \in DOMAIN ss |-> [ss[c] EXCEPT !.current = FALSE]]

-----------------------------------------------------------------------------
(* The page *)

\* connectTerminal of a sandbox that is loaded, where no session is held.
Connected(ss, sandbox, automatic) ==
  Append(Outdated(ss), NewSession(sandbox, automatic))

\* The effect that opens the terminal by itself, for the values key and the sessions ss
\* that a step leaves it with; held is the session it leaves.
AutoEffect(ss, held) ==
  LET key == IF tab' /\ runnable' THEN sandboxId' ELSE None
  IN  CASE key = None ->
             /\ terminalAutoKey' = None /\ terminalAutoAttempts' = 0
             /\ terminalRetryTimer' = FALSE
             /\ sessions' = ss /\ terminal' = held
        [] key # None /\ key # terminalAutoKey ->
             /\ terminalAutoKey' = key
             /\ IF held # None
                THEN /\ terminalAutoAttempts' = 0 /\ sessions' = ss /\ terminal' = held
                     /\ UNCHANGED terminalRetryTimer
                ELSE /\ Len(ss) < MaxSessions
                     /\ terminalAutoAttempts' = 1 /\ terminalRetryTimer' = FALSE
                     /\ sessions' = Connected(ss, sandboxId', TRUE)
                     /\ terminal' = Len(sessions')
        [] OTHER ->
             /\ sessions' = ss /\ terminal' = held
             /\ UNCHANGED <<terminalAutoKey, terminalAutoAttempts, terminalRetryTimer>>

\* The user shows another tab; the sandbox is stopped or resumed, or what was loaded of
\* it arrives.
ShowTab ==
  /\ tab' = ~tab
  /\ UNCHANGED <<sandboxId, runnable>>
  /\ AutoEffect(sessions, terminal)

StatusArrives ==
  /\ runnable' = ~runnable
  /\ tab' \in BOOLEAN
  /\ UNCHANGED sandboxId
  /\ AutoEffect(sessions, terminal)

\* resetTerminal, without the retry timer that AutoEffect looks at
Reset(ss, held) ==
  LET out == Outdated(ss)
  IN  IF held = None THEN out ELSE [out EXCEPT ![held] = Closed(@)]

\* Another sandbox: load resets the terminal, and the tab and the status are those of the
\* last one until it is answered.
OtherSandbox ==
  /\ sandboxId' \in Sandboxes \ {sandboxId}
  /\ UNCHANGED <<tab, runnable>>
  /\ LET ss == Reset(sessions, terminal)
     IN  \/ tab /\ runnable /\ AutoEffect(ss, None)
         \/ /\ ~(tab /\ runnable)
            /\ terminalAutoKey' = None /\ terminalAutoAttempts' = 0
            /\ terminalRetryTimer' = FALSE /\ sessions' = ss /\ terminal' = None

\* The button that connects, and the timer of a retry.
Connect(automatic) ==
  /\ terminal = None /\ Len(sessions) < MaxSessions
  /\ terminalRetryTimer' = FALSE
  /\ terminalAutoAttempts' = terminalAutoAttempts + (IF automatic THEN 1 ELSE 0)
  /\ sessions' = Connected(sessions, sandboxId, automatic)
  /\ terminal' = Len(sessions')
  /\ UNCHANGED <<sandboxId, tab, runnable, terminalAutoKey>>

ConnectButton == tab /\ runnable /\ Connect(FALSE)

Retry ==
  /\ terminalRetryTimer
  /\ \/ Connect(TRUE)
     \/ /\ terminal # None
        /\ terminalRetryTimer' = FALSE
        /\ UNCHANGED <<sandboxId, tab, runnable, terminal, terminalAutoKey,
                       terminalAutoAttempts, sessions>>

-----------------------------------------------------------------------------
(* Callbacks of session c, which the caller has changed to s *)

\* onClose after notifyClose
Notified(c, s) ==
  /\ terminal' = IF ~s.closeNotified /\ s.current THEN None ELSE terminal
  /\ sessions' = [sessions EXCEPT ![c] = [s EXCEPT !.closeNotified = TRUE]]
  /\ UNCHANGED <<sandboxId, tab, runnable, terminalAutoKey, terminalAutoAttempts,
                 terminalRetryTimer>>

FailedUnseen(c, s) ==
  /\ IF ~s.current
     THEN /\ sessions' = [sessions EXCEPT ![c] = s]
          /\ UNCHANGED <<terminal, terminalRetryTimer>>
     ELSE /\ terminalRetryTimer' = (terminalRetryTimer \/
               (s.automatic /\ terminalAutoAttempts < 2))
          /\ sessions' = Outdated([sessions EXCEPT ![c] = Closed(s)])
          /\ terminal' = None
  /\ UNCHANGED <<sandboxId, tab, runnable, terminalAutoKey, terminalAutoAttempts>>

FailedOpen(c, s) ==
  /\ IF ~s.current
     THEN /\ sessions' = [sessions EXCEPT ![c] = s]
          /\ UNCHANGED <<terminal, terminalRetryTimer>>
     ELSE /\ terminalRetryTimer' = (terminalRetryTimer \/
               (s.automatic /\ terminalAutoAttempts < 2 /\ tab /\ runnable))
          /\ sessions' = Outdated([sessions EXCEPT ![c] = s])
          /\ terminal' = None
  /\ UNCHANGED <<sandboxId, tab, runnable, terminalAutoKey, terminalAutoAttempts>>

\* onError: a session that is not the last one is left alone.
Failed(c, s) ==
  /\ IF ~s.current
     THEN /\ sessions' = [sessions EXCEPT ![c] = s]
          /\ UNCHANGED <<terminal, terminalRetryTimer>>
     ELSE /\ terminalRetryTimer' = (terminalRetryTimer \/
               (s.automatic /\ terminalAutoAttempts < 2 /\ tab /\ runnable))
          /\ sessions' = Outdated([sessions EXCEPT ![c] = Closed(s)])
          /\ terminal' = None
  /\ UNCHANGED <<sandboxId, tab, runnable, terminalAutoKey, terminalAutoAttempts>>

Opened(c) ==
  /\ sessions[c].socket = "connecting"
  /\ sessions' = [sessions EXCEPT ![c].socket = "open"]
  /\ UNCHANGED <<sandboxId, tab, runnable, terminal, terminalAutoKey,
                 terminalAutoAttempts, terminalRetryTimer>>

\* onmessage: "started", "result", or an error in a frame, as a text or in decoding.
Started(c) ==
  /\ sessions[c].socket = "open" /\ ~sessions[c].connected
  /\ sessions' = [sessions EXCEPT ![c].connected = TRUE, ![c].connectTimer = FALSE]
  /\ UNCHANGED <<sandboxId, tab, runnable, terminal, terminalAutoKey,
                 terminalAutoAttempts, terminalRetryTimer>>

Result(c) ==
  /\ sessions[c].socket = "open" /\ sessions[c].connected
  /\ Notified(c, [sessions[c] EXCEPT !.ended = TRUE, !.connectTimer = FALSE])

ErrorFrame(c) ==
  /\ sessions[c].socket = "open"
  /\ Failed(c, sessions[c])

\* The connect timer: onError and then the close that it makes itself.
ConnectTimeout(c) ==
  /\ sessions[c].connectTimer
  /\ LET s == [sessions[c] EXCEPT !.connectTimer = FALSE]
     IN  IF s.connected \/ s.ended
         THEN /\ sessions' = [sessions EXCEPT ![c] = s]
              /\ UNCHANGED <<sandboxId, tab, runnable, terminal, terminalAutoKey,
                             terminalAutoAttempts, terminalRetryTimer>>
         ELSE Failed(c, [Closed(s) EXCEPT !.closeNotified = TRUE])

\* onerror; the browser fires close after it.
SocketError(c) ==
  /\ sessions[c].socket \in {"connecting", "open"}
  /\ Failed(c, [sessions[c] EXCEPT !.connectTimer = FALSE, !.socket = "closing"])

SocketClosed(c) ==
  /\ sessions[c].socket \in {"open", "closing"}
  /\ Notified(c, [sessions[c] EXCEPT !.socket = "closed", !.connectTimer = FALSE])

Next ==
  \/ ShowTab \/ StatusArrives \/ OtherSandbox \/ ConnectButton \/ Retry
  \/ \E c \in DOMAIN sessions :
       \/ Opened(c) \/ Started(c) \/ Result(c) \/ ErrorFrame(c) \/ ConnectTimeout(c)
       \/ SocketError(c) \/ SocketClosed(c)

Spec == Init /\ [][Next]_vars

-----------------------------------------------------------------------------
(* Properties *)

Live(c) == sessions[c].socket \in {"connecting", "open"} /\ ~sessions[c].ended

\* No shell is left running out of sight: a connection that may still run one is the one
\* the page writes to, whatever was retried, closed or left meanwhile, and it is a shell
\* of the sandbox on the page (sandbox-workbench.svelte:366-406).
NoOrphanShell ==
  \A c \in DOMAIN sessions :
    Live(c) => terminal = c /\ sessions[c].sandbox = sandboxId

\* A session that waits for its start does so with a timer: it ends in a shell, an error
\* or a close (exec.ts:52-58, 93, 108).
ConnectDecided ==
  \A c \in DOMAIN sessions :
    Live(c) /\ ~sessions[c].connected => sessions[c].connectTimer

\* The page never connects by itself behind another tab or to a sandbox that does not
\* run, nor a third time (sandbox-workbench.svelte:183-193, 385-390).
RetryInSight ==
  /\ terminalRetryTimer => tab /\ runnable /\ terminal = None
  /\ terminalAutoAttempts <= 2
=============================================================================
