---------------------------- MODULE TerminalSession ----------------------------
(***************************************************************************)
(* One session of the terminal bridge, internal/terminal/bridge.go: the    *)
(* handler copies what the daemon answers to the browser, a goroutine (the *)
(* pump) what the browser sends to the daemon, through an io.Pipe that is  *)
(* the body of the request.  Either side may end first, and each of the    *)
(* two waits in a call that only the other, or the daemon, can end.        *)
(* Frames are counted, those that are under way.                           *)
(***************************************************************************)
EXTENDS Integers

CONSTANTS MaxFrames   \* bound: frames waiting in one direction

ASSUME MaxFramesAssumption == MaxFrames \in Nat

VARIABLES browser,    \* its end of the WebSocket
          conn,       \* the bridge's end of it is open
          typed,      \* frames from the browser that were not received yet
          pump,       \* copyWebSocketRequests and the goroutine around it
          canceled,   \* ctx
          writer,     \* the pipe may be written to
          uploading,  \* the transport reads the pipe
          daemon,     \* what becomes of the request
          printed,    \* frames of the daemon that were not copied yet
          handler,    \* serve
          outcome     \* what ServeHTTP records

sessionVars == <<browser, conn, typed, pump, canceled, writer, uploading, daemon, printed,
                 handler, outcome>>

\* daemon: how the stream ends, with the frame that says so ("ended", or "error" with what
\* went wrong), between two frames or behind a header ("eof"), or elsewhere in a frame ("broken").
Endings == {"ended", "error", "eof", "broken"}

SessionTypeOK ==
  /\ {browser, conn, canceled, writer, uploading} \subseteq BOOLEAN
  /\ typed \in 0 .. MaxFrames /\ printed \in 0 .. MaxFrames
  /\ pump \in {"idle", "receiving", "writing", "stopped", "done"}
  /\ daemon \in {"none", "asked", "streaming", "refused", "unreachable"} \cup Endings
  /\ handler \in {"idle", "asking", "copying", "closing", "returned"}
  /\ outcome \in {"none", "success", "failure"}

SessionInit ==
  /\ browser = FALSE /\ conn = FALSE /\ typed = 0
  /\ pump = "idle" /\ canceled = FALSE
  /\ writer = FALSE /\ uploading = FALSE
  /\ daemon = "none" /\ printed = 0
  /\ handler = "idle" /\ outcome = "none"

\* A browser attaches, and serve goes up to client.Do.
Attach ==
  /\ handler = "idle"
  /\ browser' = TRUE /\ conn' = TRUE
  /\ pump' = "receiving" /\ writer' = TRUE /\ uploading' = TRUE
  /\ daemon' = "asked" /\ handler' = "asking"
  /\ UNCHANGED <<typed, canceled, printed, outcome>>
-----------------------------------------------------------------------------
(* The browser *)

Type ==
  /\ browser /\ conn /\ typed < MaxFrames
  /\ typed' = typed + 1
  /\ UNCHANGED <<browser, conn, pump, canceled, writer, uploading, daemon, printed, handler,
                 outcome>>

Leave ==
  /\ browser
  /\ browser' = FALSE
  /\ UNCHANGED <<conn, typed, pump, canceled, writer, uploading, daemon, printed, handler,
                 outcome>>
-----------------------------------------------------------------------------
(* The goroutine *)

\* Receive: a frame, or an error when the connection has ended; or a frame too large.
Receive ==
  /\ pump = "receiving"
  /\ \/ /\ typed > 0 /\ conn
        /\ typed' = typed - 1
        /\ pump' = "writing" /\ UNCHANGED writer
     \/ /\ typed > 0 \/ ~browser \/ ~conn
        /\ pump' = "stopped" /\ writer' = FALSE
        /\ UNCHANGED typed
  /\ UNCHANGED <<browser, conn, canceled, uploading, daemon, printed, handler, outcome>>

\* writeConnectFrame fails when the transport has closed the body.
WriteFails ==
  /\ pump = "writing" /\ ~uploading
  /\ pump' = "stopped" /\ writer' = FALSE
  /\ UNCHANGED <<browser, conn, typed, canceled, uploading, daemon, printed, handler, outcome>>

PumpReturnsOnly ==
  /\ pump = "stopped"
  /\ pump' = "done"
  /\ UNCHANGED <<browser, conn, typed, canceled, writer, uploading, daemon, printed, handler,
                 outcome>>

\* readDone is sent, and the context canceled.
PumpReturns ==
  /\ pump = "stopped"
  /\ pump' = "done" /\ canceled' = TRUE
  /\ UNCHANGED <<browser, conn, typed, writer, uploading, daemon, printed, handler, outcome>>
-----------------------------------------------------------------------------
(* External: the transport and the daemon *)

\* The daemon takes a frame.
Upload ==
  /\ pump = "writing" /\ uploading
  /\ pump' = "receiving"
  /\ UNCHANGED <<browser, conn, typed, canceled, writer, uploading, daemon, printed, handler,
                 outcome>>

\* With the context the request ends, and with the request, or its writer, the reading of
\* the pipe.
StopUpload ==
  /\ uploading
  /\ canceled \/ ~writer \/ daemon \in {"refused", "unreachable"} \cup Endings
  /\ uploading' = FALSE
  /\ UNCHANGED <<browser, conn, typed, pump, canceled, writer, daemon, printed, handler,
                 outcome>>

DaemonAnswers ==
  /\ daemon = "asked" /\ ~canceled
  /\ daemon' \in {"streaming", "refused", "unreachable"}
  /\ UNCHANGED <<browser, conn, typed, pump, canceled, writer, uploading, printed, handler,
                 outcome>>

\* What it prints after the context has ended is not read from the network any more.
DaemonPrints ==
  /\ daemon = "streaming" /\ ~canceled /\ printed < MaxFrames
  /\ printed' = printed + 1
  /\ UNCHANGED <<browser, conn, typed, pump, canceled, writer, uploading, daemon, handler,
                 outcome>>

DaemonEnds ==
  /\ daemon = "streaming"
  /\ daemon' \in Endings
  /\ UNCHANGED <<browser, conn, typed, pump, canceled, writer, uploading, printed, handler,
                 outcome>>
-----------------------------------------------------------------------------
(* The handler *)

\* serve returns: the deferred calls close the body and cancel the context.
Returned(result) ==
  /\ handler' = "closing" /\ outcome' = result /\ canceled' = TRUE

\* client.Do returns: with the stream; with an error, also of a canceled context, and then
\* the pipe is closed; or with a status that is not one of success.
DoReturns ==
  /\ handler = "asking"
  /\ \/ /\ daemon \in {"streaming"} \cup Endings
        /\ handler' = "copying"
        /\ UNCHANGED <<canceled, outcome, writer>>
     \/ /\ canceled \/ daemon = "unreachable"
        /\ Returned("failure") /\ writer' = FALSE
     \/ /\ daemon = "refused"
        /\ Returned("failure") /\ UNCHANGED writer
  /\ UNCHANGED <<browser, conn, typed, pump, uploading, daemon, printed>>

\* copyConnectResponses: a frame is sent, or it cannot be sent any more, or has flags that
\* are not supported.
Copy ==
  /\ handler = "copying" /\ printed > 0
  /\ printed' = printed - 1
  /\ UNCHANGED <<handler, outcome, canceled>> \/ Returned("failure")
  /\ UNCHANGED <<browser, conn, typed, pump, writer, uploading, daemon>>

\* It returns at the end of the stream, or with the error of a canceled context.  What
\* io.ReadFull reports as io.EOF, serve takes for an ordinary end.
CopyReturns ==
  /\ handler = "copying"
  /\ \/ printed = 0 /\ daemon \in {"ended", "eof"}
        /\ Returned("success") /\ writer' = FALSE
     \/ /\ canceled \/ (printed = 0 /\ daemon \in {"error", "broken"})
        /\ Returned("failure") /\ UNCHANGED writer
  /\ UNCHANGED <<browser, conn, typed, pump, uploading, daemon, printed>>

\* ServeHTTP: the outcome is recorded, and the connection closed behind the handler.
HandlerReturns ==
  /\ handler = "closing"
  /\ handler' = "returned" /\ conn' = FALSE
  /\ UNCHANGED <<browser, typed, pump, canceled, writer, uploading, daemon, printed, outcome>>

PumpStep    == Receive \/ WriteFails \/ PumpReturns
HandlerStep == DoReturns \/ Copy \/ CopyReturns \/ HandlerReturns

SessionNext ==
  \/ Attach \/ Type \/ Leave \/ Upload \/ StopUpload
  \/ DaemonAnswers \/ DaemonPrints \/ DaemonEnds
  \/ PumpStep \/ HandlerStep

SessionSpec == SessionInit /\ [][SessionNext]_sessionVars

\* The two goroutines run, and the transport with them.  The daemon need not answer, print
\* or end anything, but takes what was typed (Upload): a pump that waits for it does not
\* see the browser leave.  And a browser that is there takes what is printed (Copy), since
\* writing to it has no deadline (bridge.go:174).
SessionFairness ==
  /\ WF_sessionVars(PumpStep) /\ WF_sessionVars(HandlerStep)
  /\ WF_sessionVars(StopUpload) /\ WF_sessionVars(Upload)
-----------------------------------------------------------------------------
(* Properties *)

Over == handler = "returned" /\ pump = "done" /\ ~uploading

OneSideGone ==
  handler # "idle" /\ (~browser \/ daemon \in {"refused", "unreachable"} \cup Endings)

\* A session is recorded as a success only if the daemon has ended it.
SuccessIsEnd == outcome = "success" => daemon \in {"ended", "eof"}

\* When either side is gone, the browser or the stream of the daemon, everything ends,
\* wherever each of the two copies was waiting: no goroutine, and no shell at the daemon, is
\* left behind.  And a session is recorded as a success only if the daemon has ended it
\* (bridge.go:54-58, 97-127, 150-186).
SessionEnds ==
  /\ OneSideGone ~> Over
  /\ []SuccessIsEnd
=============================================================================
