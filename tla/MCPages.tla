-------------------------------- MODULE MCPages --------------------------------
(***************************************************************************)
(* The other pages and parts of pages, which share no state with each      *)
(* other: the terminal, the conversation and the log of a sandbox          *)
(* (SandboxTerminal, HistoryCache, LogFeed), the list of sandboxes         *)
(* (SandboxesPage) and the projects with their editors (ProjectEditor).    *)
(* A behaviour is about one of them, which shown names; the others stay in *)
(* an initial state.                                                       *)
(***************************************************************************)
EXTENDS SandboxTerminal, HistoryCache, LogFeed, SandboxesPage, ProjectEditor, TLC

VARIABLE shown

ItemsOfDef == [q \in Queries |-> IF q = "first" THEN {1, 2, 3} ELSE {3, 4}]

MCInit ==
  /\ shown \in {"terminal", "conversation", "log", "sandboxes", "projects"}
  /\ Init /\ HistoryInit /\ LogInit /\ SandboxesInit /\ EditorInit
  /\ shown # "terminal" => sandboxId = (CHOOSE s \in Sandboxes : TRUE)
  /\ shown # "log" => written = 0 /\ ~running /\ ~follow
  /\ shown # "sandboxes" => query = "first"
  /\ shown # "projects" => projectID = (CHOOSE p \in Projects : TRUE) /\ page = "view"

TerminalStep ==
  /\ shown = "terminal" /\ Next
  /\ UNCHANGED <<shown, historyVars, logVars, sandboxesVars, editorVars>>
ConversationStep ==
  /\ shown = "conversation" /\ HistoryNext
  /\ UNCHANGED <<shown, vars, logVars, sandboxesVars, editorVars>>
LogStep ==
  /\ shown = "log" /\ LogNext
  /\ UNCHANGED <<shown, vars, historyVars, sandboxesVars, editorVars>>
SandboxesStep ==
  /\ shown = "sandboxes" /\ SandboxesNext
  /\ UNCHANGED <<shown, vars, historyVars, logVars, editorVars>>
ProjectsStep ==
  /\ shown = "projects" /\ EditorNext
  /\ UNCHANGED <<shown, vars, historyVars, logVars, sandboxesVars>>

MCNext == TerminalStep \/ ConversationStep \/ LogStep \/ SandboxesStep \/ ProjectsStep
MCSpec == MCInit /\ [][MCNext]_<<shown, vars, historyVars, logVars, sandboxesVars, editorVars>>

\* Neither the sandboxes of the terminal nor the projects are told apart by their names.
Symmetry == Permutations(Sandboxes) \cup Permutations(Projects)

MCTypeOK == TypeOK /\ HistoryTypeOK /\ LogTypeOK /\ SandboxesTypeOK /\ EditorTypeOK
=============================================================================
