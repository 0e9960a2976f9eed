---------------------------- MODULE ServicesProofs ----------------------------
(***************************************************************************)
(* The services for any processes, builds, servers and requests.           *)
(*                                                                         *)
(* The migrations: what is registered was applied, and an opener that has  *)
(* met no other one cannot fail but at a changed file.  An opener alone    *)
(* finds what it read still true when it writes; one that is not may find  *)
(* anything, so that the invariant speaks of the ones outside met.         *)
(***************************************************************************)
EXTENDS MCServices, Migrations, FiniteSetTheorems, TLAPS

-----------------------------------------------------------------------------
(* The migrations *)

InVersion == {"inspecting", "registering", "migrating", "executed", "recorded"}

\* What is registered was applied.
SchemaInv ==
  /\ registered[1] # "none" => tables
  /\ registered[2] # "none" => column

\* An opener has the migrations before the one that it is at.
VersionInv ==
  \A o \in Openers :
    /\ step[o] = "preparing" => version[o] = 1
    /\ step[o] \in InVersion => version[o] \in DOMAIN build[o]
    /\ step[o] \in {"checking", "opened"} \cup InVersion =>
         \A v \in DOMAIN build[o] : v < version[o] => registered[v] = build[o][v]
    /\ step[o] = "opened" => version[o] \notin DOMAIN build[o]

\* Openers that are there together have met.
MetInv ==
  \A o \in Openers :
    /\ step[o] \notin {"stopped", "failed"} /\ Others(o) # {} => o \in met
    /\ step[o] = "failed" => o \in met \/ Changed(o)

\* What an opener has read is still so if it has met nobody.
AloneInv ==
  \A o \in Openers \ met :
    /\ step[o] \in InVersion => registered[version[o]] = "none"
    /\ step[o] = "migrating" /\ version[o] = 2 => ~column
    /\ o \notin overtaken

\* What it is about to write does not depend on anybody.
WriteInv ==
  \A o \in Openers :
    /\ step[o] = "registering" => version[o] = 2 /\ column
    /\ step[o] = "recorded" => lock = o /\ registered[version[o]] = "none"

MigrationsInv ==
  MigrationsTypeOK /\ SchemaInv /\ VersionInv /\ MetInv /\ AloneInv /\ WriteInv

LEMMA BuildsAre ==
  ASSUME NEW b \in Builds
  PROVE  /\ DOMAIN b \subseteq Versions
         /\ \A v \in DOMAIN b : b[v] \in Checksums /\ b[v] # "none"
         /\ \A v \in Versions \ DOMAIN b : \A w \in DOMAIN b : w < v
BY MigrationsAssumption DEF Builds, Versions

LEMMA MigrationsInvInit == MigrationsInit => MigrationsInv
BY MigrationsAssumption, BuildsAre
DEF MigrationsInit, MigrationsInv, MigrationsTypeOK, SchemaInv, VersionInv, MetInv, AloneInv, WriteInv,
    Builds, Versions, InVersion

LEMMA CrashStep ==
  ASSUME MigrationsInv, NEW o \in Openers, Crash(o)
  PROVE  MigrationsInv'
BY MigrationsAssumption
DEF MigrationsInv, MigrationsTypeOK, SchemaInv, VersionInv, MetInv, AloneInv, WriteInv,
    InVersion, Crash, Goto, Others, Changed

LEMMA LaunchStep ==
  ASSUME MigrationsInv, NEW o \in Openers, Launch(o)
  PROVE  MigrationsInv'
BY MigrationsAssumption
DEF MigrationsInv, MigrationsTypeOK, SchemaInv, VersionInv, MetInv, AloneInv, WriteInv,
    InVersion, Launch, Goto, Others, Changed, databaseVars

LEMMA FailStep ==
  ASSUME MigrationsInv, NEW o \in Openers, Fail(o), UNCHANGED <<build, met, launches>>,
         step[o] \notin {"stopped", "failed"}, o \in met \/ Changed(o)
  PROVE  MigrationsInv'
BY MigrationsAssumption
DEF MigrationsInv, MigrationsTypeOK, SchemaInv, VersionInv, MetInv, AloneInv, WriteInv,
    InVersion, Others, Changed, Goto, Versions, Fail

LEMMA PrepareStep ==
  ASSUME MigrationsInv, NEW o \in Openers, Prepare(o), UNCHANGED <<build, met, launches>>
  PROVE  MigrationsInv'
<1>1. CASE Goto(o, "checking") /\ UNCHANGED <<version, databaseVars>>
  <2>1. step[o] = "preparing" /\ version[o] = 1 /\ DOMAIN build[o] \subseteq 1 .. 2
    BY BuildsAre DEF MigrationsInv, MigrationsTypeOK, VersionInv, Prepare, Versions
  <2>2. \A v \in DOMAIN build[o] : ~(v < version[o])
    BY <2>1
  <2> QED  BY <1>1, <2>1, <2>2, MigrationsAssumption
  DEF MigrationsInv, MigrationsTypeOK, SchemaInv, VersionInv, MetInv, AloneInv, WriteInv,
      InVersion, Others, Changed, Goto, Versions, databaseVars, Prepare
<1>2. CASE Others(o) # {} /\ Fail(o)
  <2>1. o \in met /\ step[o] \notin {"stopped", "failed"}
    BY <1>2 DEF MigrationsInv, MetInv, Prepare
  <2> QED  BY <2>1, <1>2, FailStep
<1> QED  BY <1>1, <1>2 DEF Prepare

LEMMA CheckStep ==
  ASSUME MigrationsInv, NEW o \in Openers, Check(o), UNCHANGED <<build, met, launches>>
  PROVE  MigrationsInv'
BY MigrationsAssumption, BuildsAre
DEF MigrationsInv, MigrationsTypeOK, SchemaInv, VersionInv, MetInv, AloneInv, WriteInv,
    InVersion, Others, Changed, Goto, Versions, databaseVars,
    Check, Fail, NextVersion

LEMMA InspectStep ==
  ASSUME MigrationsInv, NEW o \in Openers, Inspect(o), UNCHANGED <<build, met, launches>>
  PROVE  MigrationsInv'
BY MigrationsAssumption, BuildsAre
DEF MigrationsInv, MigrationsTypeOK, SchemaInv, VersionInv, MetInv, AloneInv, WriteInv,
    InVersion, Others, Changed, Goto, Versions, databaseVars,
    Inspect, AlreadyApplied

LEMMA RegisterStep ==
  ASSUME MigrationsInv, NEW o \in Openers, Register(o), UNCHANGED <<build, met, launches>>
  PROVE  MigrationsInv'
BY MigrationsAssumption, BuildsAre
DEF MigrationsInv, MigrationsTypeOK, SchemaInv, VersionInv, MetInv, AloneInv, WriteInv,
    InVersion, Others, Changed, Goto, Versions, databaseVars,
    Register, Fail, NextVersion, TimesOut, Readers

LEMMA ExecuteStep ==
  ASSUME MigrationsInv, NEW o \in Openers, Execute(o), UNCHANGED <<build, met, launches>>
  PROVE  MigrationsInv'
BY MigrationsAssumption, BuildsAre
DEF MigrationsInv, MigrationsTypeOK, SchemaInv, VersionInv, MetInv, AloneInv, WriteInv,
    InVersion, Others, Changed, Goto, Versions, databaseVars,
    Execute, Fail, TimesOut

LEMMA InsertStep ==
  ASSUME MigrationsInv, NEW o \in Openers, Insert(o), UNCHANGED <<build, met, launches>>
  PROVE  MigrationsInv'
BY MigrationsAssumption, BuildsAre
DEF MigrationsInv, MigrationsTypeOK, SchemaInv, VersionInv, MetInv, AloneInv, WriteInv,
    InVersion, Others, Changed, Goto, Versions, databaseVars,
    Insert, Fail, TimesOut

LEMMA CommitStep ==
  ASSUME MigrationsInv, NEW o \in Openers, CommitMigration(o), UNCHANGED <<build, met, launches>>
  PROVE  MigrationsInv'
BY MigrationsAssumption, BuildsAre
DEF MigrationsInv, MigrationsTypeOK, SchemaInv, VersionInv, MetInv, AloneInv, WriteInv,
    InVersion, Others, Changed, Goto, Versions, databaseVars,
    CommitMigration, NextVersion, Readers

LEMMA WriteStep ==
  ASSUME MigrationsInv, NEW o \in Openers, Write(o)
  PROVE  MigrationsInv'
BY MigrationsAssumption
DEF MigrationsInv, MigrationsTypeOK, SchemaInv, VersionInv, MetInv, AloneInv, WriteInv,
    InVersion, Others, Changed, Goto, Versions, databaseVars,
    Write, Readers

\* Every step keeps the invariant.
LEMMA MigrationsInvStep == MigrationsInv /\ [MigrationsNext]_migrationVars => MigrationsInv'
<1> SUFFICES ASSUME MigrationsInv, [MigrationsNext]_migrationVars
             PROVE  MigrationsInv'
  OBVIOUS
<1>1. CASE UNCHANGED migrationVars
  BY <1>1 DEF migrationVars, databaseVars, MigrationsInv, MigrationsTypeOK, SchemaInv, VersionInv,
              MetInv, AloneInv, WriteInv, Others, Changed
<1>2. ASSUME NEW o \in Openers, Launch(o) \/ Crash(o) \/ Statement(o) \/ Write(o)
      PROVE  MigrationsInv'
  BY <1>2, LaunchStep, CrashStep, PrepareStep, CheckStep, InspectStep, RegisterStep, ExecuteStep,
     InsertStep, CommitStep, WriteStep DEF Statement
<1> QED  BY <1>1, <1>2 DEF MigrationsNext

LEMMA MigrationsInvariant == MigrationsSpec => []MigrationsInv
BY MigrationsInvInit, MigrationsInvStep, PTL DEF MigrationsSpec

\* The types of the migrations' state (migrate.go:30-133).
THEOREM MigrationsTyped == MigrationsSpec => []MigrationsTypeOK
BY MigrationsInvariant, PTL DEF MigrationsInv

\* A migration that is registered was applied, a store that is open has every migration of
\* its build, and one that does not open has met another opener or a changed file, for any
\* number of processes and any builds (migrate.go:52-58, 102-133).
THEOREM OpeningIsRight == MigrationsSpec => []OpeningRight
<1>1. MigrationsInv => OpeningRight
  <2> SUFFICES ASSUME MigrationsInv, NEW o \in Openers, step[o] = "opened",
                      NEW v \in DOMAIN build[o]
               PROVE  v < version[o]
    BY DEF MigrationsInv, OpeningRight, SchemaInv, VersionInv, MetInv
  <2>1. version[o] \in 1 .. 3 /\ version[o] \notin DOMAIN build[o] /\ build[o] \in Builds
    BY DEF MigrationsInv, MigrationsTypeOK, VersionInv
  <2>2. CASE version[o] \in Versions
    BY <2>1, <2>2, BuildsAre
  <2>3. CASE version[o] = 3
    BY <2>1, <2>3, BuildsAre DEF Versions
  <2> QED  BY <2>1, <2>2, <2>3 DEF Versions
<1> QED  BY <1>1, MigrationsInvariant, PTL

-----------------------------------------------------------------------------
(* How the process stops *)

\* The stores are closed behind a drain that has ended for every server, and a server that
\* was drained has no request left that it tracks.
DrainInv ==
  /\ main \notin {"serving", "draining"} => AllDrained
  /\ ~audits => main \in {"closing tokens", "returned"}
  /\ \A r \in Requests :
       requests[r].tracked /\ shutdown[requests[r].server] = "drained" => requests[r].state # "active"
  /\ OnlyUntrackedLost

ServerFlags == {signalled, deadline, audits, tokens} \subseteq BOOLEAN

ServerStates ==
  /\ main \in {"serving", "draining", "collecting", "closing audits", "closing tokens",
               "returned"}
  /\ listening \subseteq Servers /\ results \subseteq Servers
  /\ received \in 0 .. Cardinality(Servers)
  /\ shutdown \in [Servers -> {"idle", "waiting", "drained", "cut off"}]
  /\ requests \in [Requests -> Request]
  /\ lost \subseteq Requests

LEMMA ServerTypes == ServerTypeOK <=> ServerFlags /\ ServerStates
BY Zenon DEF ServerTypeOK, ServerFlags, ServerStates

ServerInv == ServerFlags /\ ServerStates /\ DrainInv

LEMMA ServersCounted ==
  /\ Cardinality(Servers) \in Nat
  /\ Servers # {} => Cardinality(Servers) > 0
<1>1. Cardinality(Servers) \in Nat /\ (Cardinality(Servers) = 0 <=> Servers = {})
  BY ServersAssumption, FS_CardinalityType, FS_EmptySet
<1> QED  BY <1>1

\* A request under way that becomes another state is the same request.
LEMMA RequestMoves ==
  ASSUME requests \in [Requests -> Request], NEW r \in Requests, NEW state \in {"active", "done"},
         requests' = [requests EXCEPT ![r].state = state]
  PROVE  /\ requests' \in [Requests -> Request]
         /\ \A q \in Requests : q # r => requests'[q] = requests[q]
         /\ requests'[r] = [server |-> requests[r].server, tracked |-> requests[r].tracked,
                           state |-> state]
<1> DEFINE moved == [requests[r] EXCEPT !.state = state]
<1>1. requests[r] \in Request
  OBVIOUS
<1>2. moved = [server |-> requests[r].server, tracked |-> requests[r].tracked, state |-> state]
  BY <1>1 DEF Request
<1>3. moved \in Request
  BY <1>1, <1>2 DEF Request
<1>4. requests' = [requests EXCEPT ![r] = moved]
  OBVIOUS
<1> HIDE DEF moved
<1> QED  BY <1>2, <1>3, <1>4

LEMMA ServerInvInit == ServerInit => ServerInv
<1> SUFFICES ASSUME ServerInit
             PROVE  ServerInv
  OBVIOUS
<1>1. requests \in [Requests -> Request] /\ \A r \in Requests : requests[r].state = "none"
  BY DEF ServerInit
<1>2. ServerFlags
  BY Zenon DEF ServerInit, ServerFlags
<1>3. ServerStates
  BY <1>1, ServersCounted DEF ServerInit, ServerStates
<1>4. DrainInv
  BY DEF ServerInit, DrainInv, OnlyUntrackedLost
<1> QED  BY <1>2, <1>3, <1>4 DEF ServerInv

LEMMA ServerFlagsStep == ServerFlags /\ [ServerNext]_serverVars => ServerFlags'
BY Zenon
DEF ServerFlags, ServerNext, serverVars, process, Signal, StoppingStep, StopServing, Deadline,
    ShutdownAll, TakeResult, ServePairReturns, CloseAudits, CloseTokens, RequestArrives, RequestEnds,
    ListenerFails, Result, Shutdown, Drained

LEMMA ResultsCounted ==
  ASSUME ServerStates, StopServing \/ TakeResult
  PROVE  received' \in 0 .. Cardinality(Servers)
<1> DEFINE n == Cardinality(Servers)
<1>1. n \in Nat /\ (Servers # {} => n > 0)
  BY ServersCounted
<1>2. received \in 0 .. n
  BY DEF ServerStates
<1>3. \/ received' = received
      \/ Servers # {} /\ received' = 1
      \/ received < n /\ received' = received + 1
  BY DEF ServerStates, StopServing, TakeResult
<1> HIDE DEF n
<1>4. received' \in 0 .. n
  BY <1>1, <1>2, <1>3
<1> QED  BY <1>4 DEF n

LEMMA ServerStatesStep == ServerStates /\ [ServerNext]_serverVars => ServerStates'
<1> SUFFICES ASSUME ServerStates, [ServerNext]_serverVars
             PROVE  ServerStates'
  OBVIOUS
<1> USE ServersCounted DEF ServerStates, process
<1>1. CASE UNCHANGED serverVars
  BY <1>1 DEF serverVars
<1>2. CASE Signal
  BY <1>2 DEF Signal
<1>3. CASE StoppingStep
  <2>1. CASE StopServing
    BY <2>1, ResultsCounted DEF StopServing
  <2>2. CASE TakeResult
    BY <2>2, ResultsCounted DEF TakeResult
  <2> QED
    BY <1>3, <2>1, <2>2
    DEF StoppingStep, Deadline, ShutdownAll, ServePairReturns, CloseAudits, CloseTokens
<1>4. ASSUME NEW r \in Requests, RequestArrives(r) \/ RequestEnds(r)
      PROVE  ServerStates'
  BY <1>4, RequestMoves DEF RequestArrives, RequestEnds
<1>5. ASSUME NEW s \in Servers, ListenerFails(s) \/ Result(s) \/ Shutdown(s) \/ Drained(s)
      PROVE  ServerStates'
  BY <1>5 DEF ListenerFails, Result, Shutdown, Drained
<1> QED  BY <1>1, <1>2, <1>3, <1>4, <1>5 DEF ServerNext

LEMMA SameRequests ==
  ASSUME requests \in [Requests -> Request], NEW r \in Requests, NEW state \in {"active", "done"},
         requests' = [requests EXCEPT ![r].state = state]
  PROVE  \A q \in Requests :
           /\ requests'[q].tracked <=> requests[q].tracked
           /\ requests'[q].server = requests[q].server
           /\ requests'[q].state = IF q = r THEN state ELSE requests[q].state
BY RequestMoves

LEMMA TrackedIsBusy ==
  ASSUME NEW r \in Requests, requests[r] \in Request, requests[r].tracked,
         requests[r].state = "active"
  PROVE  r \in Busy(requests[r].server)
BY DEF Busy, Request

LEMMA DrainStep == ServerStates /\ DrainInv /\ [ServerNext]_serverVars => DrainInv'
<1> SUFFICES ASSUME ServerStates, DrainInv, [ServerNext]_serverVars
             PROVE  DrainInv'
  OBVIOUS
<1> USE DEF ServerStates, DrainInv, OnlyUntrackedLost, AllDrained
<1>1. CASE UNCHANGED serverVars
  BY <1>1 DEF serverVars
<1>2. CASE Signal
  BY <1>2 DEF Signal
<1>3. CASE StoppingStep
  BY <1>3
  DEF StoppingStep, StopServing, Deadline, ShutdownAll, TakeResult, ServePairReturns, CloseAudits,
      CloseTokens
<1>4. \A r \in Requests : requests[r] \in Request /\ requests[r].server \in Servers
  BY DEF Request
<1>5. ASSUME NEW r \in Requests, RequestArrives(r)
      PROVE  DrainInv'
  BY <1>4, <1>5, SameRequests DEF RequestArrives, process
\* A request that somebody waits for cannot be under way when the audit store is closed.
<1>6. ASSUME NEW r \in Requests, RequestEnds(r)
      PROVE  DrainInv'
  <2>1. ~audits /\ requests[r].tracked => shutdown[requests[r].server] = "cut off"
    BY <1>4, <1>6 DEF RequestEnds
  <2>2. \A q \in Requests : /\ requests'[q].tracked <=> requests[q].tracked
                            /\ requests'[q].server = requests[q].server
                            /\ requests'[q].state = IF q = r THEN "done" ELSE requests[q].state
    BY <1>6, SameRequests DEF RequestEnds
  <2>3. \A q \in lost' : q \in lost \/ (~audits /\ q = r)
    BY <1>6 DEF RequestEnds
  <2>4. OnlyUntrackedLost'
    BY ZenonT(60), <1>6, <2>1, <2>2, <2>3 DEF RequestEnds, process
  <2>5. UNCHANGED <<main, shutdown, audits>>
    BY <1>6 DEF RequestEnds, process
  <2> QED  BY ZenonT(60), <2>2, <2>4, <2>5
<1>7. ASSUME NEW s \in Servers, ListenerFails(s) \/ Result(s)
      PROVE  DrainInv'
  BY <1>7 DEF ListenerFails, Result, process
<1>8. ASSUME NEW s \in Servers, Shutdown(s)
      PROVE  DrainInv'
  BY <1>4, <1>8 DEF Shutdown
<1>9. ASSUME NEW s \in Servers, Drained(s)
      PROVE  DrainInv'
  BY <1>4, <1>9, TrackedIsBusy DEF Drained
<1> QED  BY <1>1, <1>2, <1>3, <1>5, <1>6, <1>7, <1>8, <1>9 DEF ServerNext

LEMMA ServerInvariant == ServerSpec => []ServerInv
<1>1. ServerInv /\ [ServerNext]_serverVars => ServerInv'
  BY ServerFlagsStep, ServerStatesStep, DrainStep DEF ServerInv
<1> QED  BY <1>1, ServerInvInit, PTL DEF ServerSpec

\* The types of the state of Run and servePair (server.go:275-308).
THEOREM ServerTyped == ServerSpec => []ServerTypeOK
BY ServerInvariant, ServerTypes, PTL DEF ServerInv

\* However many servers and requests: an outcome that comes after the audit store was closed
\* belongs to a connection taken over from the server, or to a drain that was cut off
\* (server.go:275-308).
THEOREM OnlyUntrackedAreLost == ServerSpec => []OnlyUntrackedLost
BY ServerInvariant, PTL DEF ServerInv, DrainInv

-----------------------------------------------------------------------------
(* A session of the terminal bridge *)

SessionFlags == {browser, conn, canceled, writer, uploading} \subseteq BOOLEAN

SessionStates ==
  /\ typed \in 0 .. MaxFrames /\ printed \in 0 .. MaxFrames
  /\ pump \in {"idle", "receiving", "writing", "stopped", "done"}
  /\ daemon \in {"none", "asked", "streaming", "refused", "unreachable"} \cup Endings
  /\ handler \in {"idle", "asking", "copying", "closing", "returned"}
  /\ outcome \in {"none", "success", "failure"}

LEMMA SessionTypes == SessionTypeOK <=> SessionFlags /\ SessionStates
BY Zenon DEF SessionTypeOK, SessionFlags, SessionStates

\* The outcome is decided with the last thing that the handler does.
OutcomeIsLast == outcome # "none" => handler \in {"closing", "returned"}

SessionInv == SessionFlags /\ SessionStates /\ SuccessIsEnd /\ OutcomeIsLast

LEMMA SessionInvInit == SessionInit => SessionInv
<1>1. SessionInit => SessionFlags
  BY Zenon DEF SessionInit, SessionFlags
<1>2. SessionInit => SessionStates /\ SuccessIsEnd /\ OutcomeIsLast
  BY MaxFramesAssumption DEF SessionInit, SessionStates, SuccessIsEnd, OutcomeIsLast
<1> QED  BY <1>1, <1>2 DEF SessionInv

LEMMA SessionFlagsStep == SessionFlags /\ [SessionNext]_sessionVars => SessionFlags'
BY Zenon
DEF SessionNext, SessionFlags, sessionVars, Attach, Type, Leave, Upload, StopUpload, DaemonAnswers,
    DaemonPrints, DaemonEnds, PumpStep, Receive, WriteFails, PumpReturns, HandlerStep, DoReturns,
    Copy, CopyReturns, HandlerReturns, Returned

LEMMA SessionStatesStep ==
  SessionStates /\ SuccessIsEnd /\ OutcomeIsLast /\ [SessionNext]_sessionVars
    => (SessionStates /\ SuccessIsEnd /\ OutcomeIsLast)'
<1> SUFFICES ASSUME SessionStates, SuccessIsEnd, OutcomeIsLast, [SessionNext]_sessionVars
             PROVE  (SessionStates /\ SuccessIsEnd /\ OutcomeIsLast)'
  OBVIOUS
<1> USE MaxFramesAssumption DEF SessionStates, SuccessIsEnd, OutcomeIsLast, Endings
<1>1. CASE UNCHANGED sessionVars
  BY <1>1 DEF sessionVars
<1>2. CASE Attach \/ Type \/ Leave
  BY <1>2 DEF Attach, Type, Leave
<1>3. CASE Upload \/ StopUpload
  BY <1>3 DEF Upload, StopUpload
<1>4. CASE DaemonAnswers \/ DaemonPrints \/ DaemonEnds
  BY <1>4 DEF DaemonAnswers, DaemonPrints, DaemonEnds
<1>5. CASE PumpStep
  BY <1>5 DEF PumpStep, Receive, WriteFails, PumpReturns
<1>6. CASE HandlerStep
  BY <1>6 DEF HandlerStep, DoReturns, Copy, CopyReturns, HandlerReturns, Returned
<1> QED  BY <1>1, <1>2, <1>3, <1>4, <1>5, <1>6 DEF SessionNext

LEMMA SessionInvariant == SessionSpec => []SessionInv
BY SessionInvInit, SessionFlagsStep, SessionStatesStep, PTL DEF SessionSpec, SessionInv

\* The types of a session's state (bridge.go:44-190).
THEOREM SessionTyped == SessionSpec => []SessionTypeOK
BY SessionInvariant, SessionTypes, PTL DEF SessionInv

\* A session is recorded as a success only if the daemon has ended its stream between two
\* frames or with the frame that says so, whatever the browser did before (bridge.go:54-58,
\* 150-186).
THEOREM SuccessMeansEnd == SessionSpec => []SuccessIsEnd
BY SessionInvariant, PTL DEF SessionInv

-----------------------------------------------------------------------------
(* The composition that the run checks *)

MCInv == ServerInv /\ SessionInv

LEMMA MCInvariant == MCSpec => []MCInv
<1>1. MCInit => MCInv
  BY ServerInvInit, SessionInvInit DEF MCInit, MCInv
<1>2. MCInv /\ [MCNext]_<<shown, vars, serverVars, sessionVars>> => MCInv'
  <2>1. [MCNext]_<<shown, vars, serverVars, sessionVars>> =>
          [ServerNext]_serverVars /\ [SessionNext]_sessionVars
    BY DEF MCNext, AuditStep, ServerStep, SessionStep
  <2> QED
    BY <2>1, ServerFlagsStep, ServerStatesStep, DrainStep, SessionFlagsStep, SessionStatesStep
    DEF MCInv, ServerInv, SessionInv
<1> QED  BY <1>1, <1>2, PTL DEF MCSpec

\* The types of the server and the session, beside an audit store (AuditStoreProofs has its own).
THEOREM ServicesTyped == MCSpec => []MCTypeOK
BY MCInvariant, ServerTypes, SessionTypes, PTL
DEF MCInv, ServerInv, SessionInv, MCTypeOK
=============================================================================
