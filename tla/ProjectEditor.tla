---------------------------- MODULE ProjectEditor ----------------------------
(***************************************************************************)
(* The project page and its editors, src/src/routes/Projects.svelte: what  *)
(* it lists, what it puts into the editors and which specHash it sends     *)
(* along when it asks for the previews that ProjectDeploy models.          *)
(*                                                                         *)
(* A configuration is its revision, which stands for its specHash, its     *)
(* variables and its agents.  What a user types is not modelled: an editor *)
(* holds the revision of the project that its content was taken from.      *)
(***************************************************************************)
EXTENDS Naturals, FiniteSets, Functions, Absent

CONSTANTS Projects,
          MaxRevision,  \* bound: deployments of all projects, by the user and by others
          MaxAsked      \* bound: requests under way when the user does something

VARIABLES
  projectID,         \* of the address
  page,              \* of the address: "view", "settings", "edit", "new"
  projects,          \* projects[p]: what is listed of p, None without
  summariesLoaded, detailLoadedIDs, detailLoading,
  variables, draft,  \* the two editors: what they were filled from
  saving, preview,
  asked,             \* requests under way
  failed,            \* history: projects whose last detail request failed
  filled,            \* history: the editor was filled for the address it is shown at
  revision           \* the daemon

editors == <<variables, draft, filled>>
listing == <<projects, summariesLoaded, detailLoadedIDs>>
details == <<detailLoading, failed>>
editorVars == <<projectID, page, listing, details, editors, saving, preview, asked, revision>>

Pages == {"view", "settings", "edit", "new"}
Revisions == Nat

\* A summary has the hash but neither variables nor agents (whole is FALSE).
Listed == [hash : Revisions, whole : BOOLEAN]
Content == [project : Projects, rev : Revisions] \cup {None}

ASSUME ProjectEditorAssumption == None \notin Projects \cup Listed

\* A mutation: its project, the hash and the content it was made from.
Mutation == [project : Projects, page : Pages \ {"view"}, base : Revisions, content : Content]

\* answer is None until the server has handled the request; then is the project the page
\* moves on to after a deployment.
Request ==
  [kind : {"list"}, then : Projects \cup {None}, answer : [Projects -> Revisions] \cup {None}]
  \cup [kind : {"detail"}, project : Projects, answer : Revisions \cup {None}]
  \cup [kind : {"preview", "apply"}, mutation : Mutation, answer : BOOLEAN \cup {None}]

EditorTypeOK ==
  /\ projectID \in Projects /\ page \in Pages
  /\ projects \in [Projects -> Listed \cup {None}]
  /\ summariesLoaded \in BOOLEAN /\ detailLoadedIDs \subseteq Projects
  /\ detailLoading \in BOOLEAN
  /\ variables \in Content /\ draft \in Content
  /\ saving \in BOOLEAN /\ preview \in Mutation \cup {None}
  /\ asked \subseteq Request
  /\ failed \subseteq Projects /\ filled \in BOOLEAN
  /\ revision \in [Projects -> Revisions]

ListRequest(then) == [kind |-> "list", then |-> then, answer |-> None]
DetailRequest(p) == [kind |-> "detail", project |-> p, answer |-> None]
MutationRequest(kind, m) == [kind |-> kind, mutation |-> m, answer |-> None]

\* onMount, at the address the browser was opened with or has come back to.
EditorInit ==
  /\ projectID \in Projects /\ page \in Pages
  /\ projects = [p \in Projects |-> None]
  /\ summariesLoaded = FALSE /\ detailLoadedIDs = {} /\ detailLoading = FALSE
  /\ variables = None /\ draft = None
  /\ saving = FALSE /\ preview = None
  /\ asked = {ListRequest(None)}
  /\ failed = {} /\ filled = TRUE
  /\ revision = [p \in Projects |-> 0]

-----------------------------------------------------------------------------
(* The server *)

Current(m) == m.base = revision[m.project]

\* A deployment of a project makes another configuration current.
Deployed(p) ==
  /\ FoldFunction(+, 0, revision) < MaxRevision
  /\ revision' = [revision EXCEPT ![p] = @ + 1]

\* Lists and details as they are; a deployment is refused unless its base is the current
\* hash.
Serve(r) ==
  /\ r.kind # "preview" /\ r.answer = None
  /\ asked' = (asked \ {r}) \cup
       {[r EXCEPT !.answer = CASE r.kind = "list" -> revision
                               [] r.kind = "detail" -> revision[r.project]
                               [] OTHER -> Current(r.mutation)]}
  /\ IF r.kind = "apply" /\ Current(r.mutation)
     THEN Deployed(r.mutation.project)
     ELSE UNCHANGED revision
  /\ UNCHANGED <<projectID, page, listing, editors, saving, preview, details>>

\* Somebody else deploys.
OthersDeploy ==
  /\ \E p \in Projects : Deployed(p)
  /\ UNCHANGED <<projectID, page, listing, editors, saving, preview, asked, details>>

-----------------------------------------------------------------------------
(* Effects *)

DetailEffectOnce(rs, ps, others) ==
  LET missing == {p \in ps : summariesLoaded' /\ p \notin detailLoadedIDs' /\ ~summariesLoaded}
  IN  /\ asked' = rs \cup {DetailRequest(p) : p \in missing}
      /\ failed' = failed \ missing
      /\ detailLoading' = (others \/ missing # {})

\* The effect on the address and the lists: requests for the details of the projects ps
\* that are shown and not loaded yet; others is what detailLoading is without them.
DetailEffect(rs, ps, others) ==
  LET missing == {p \in ps : summariesLoaded' /\ p \notin detailLoadedIDs'}
  IN  /\ asked' = rs \cup {DetailRequest(p) : p \in missing}
      /\ failed' = failed \ missing
      /\ detailLoading' = (others \/ missing # {})

\* What an editor is filled with from what is listed
ContentOf(p, listed) ==
  IF listed # None /\ listed.whole THEN [project |-> p, rev |-> listed.hash] ELSE None

RestoreNothing == UNCHANGED editors

\* restoreEditorDraft: the editor that is shown is filled again.  A summary has no
\* variables, and no agent to fill a draft from.
RestoreEditorDraft ==
  LET listed == projects'[projectID]
  IN  /\ variables' = IF page = "settings" /\ listed # None
                      THEN ContentOf(projectID, listed) ELSE variables
      /\ draft' = IF page = "edit" /\ ContentOf(projectID, listed) # None
                  THEN ContentOf(projectID, listed) ELSE draft
      /\ filled' = (filled \/ (page \in {"settings", "edit"}
                               /\ ContentOf(projectID, listed) # None))

-----------------------------------------------------------------------------
(* Lists and details *)

\* load goes on.  After a deployment the page moves on to the project it was for.
ListAnswer(r) ==
  /\ r.kind = "list" /\ r.answer # None
  /\ projects' = [p \in Projects |-> [hash |-> r.answer[p], whole |-> FALSE]]
  /\ summariesLoaded' = TRUE /\ detailLoadedIDs' = {}
  /\ RestoreEditorDraft
  /\ IF r.then = None
     THEN UNCHANGED <<projectID, page, saving>>
     ELSE projectID' = r.then /\ page' = "view" /\ saving' = FALSE
  /\ DetailEffect(asked \ {r}, {projectID, projectID'}, detailLoading)
  /\ UNCHANGED <<preview, revision>>

ListFails(r) ==
  /\ r.kind = "list"
  /\ IF r.then = None
     THEN UNCHANGED <<projectID, page, saving>>
     ELSE projectID' = r.then /\ page' = "view" /\ saving' = FALSE
  /\ UNCHANGED <<listing, editors, preview, revision>>
  /\ DetailEffect(asked \ {r}, {projectID'} \ {projectID}, detailLoading)

DetailAnswer(r) ==
  /\ r.kind = "detail" /\ r.answer # None
  /\ projects' = [projects EXCEPT ![r.project] = [hash |-> r.answer, whole |-> TRUE]]
  /\ detailLoadedIDs' = detailLoadedIDs \cup {r.project}
  /\ RestoreEditorDraft
  /\ UNCHANGED <<projectID, page, summariesLoaded, saving, preview, revision>>
  /\ DetailEffect(asked \ {r},
                  IF r.project \in detailLoadedIDs THEN {} ELSE {projectID}, FALSE)

DetailFails(r) ==
  /\ r.kind = "detail"
  /\ asked' = asked \ {r}
  /\ failed' = failed \cup {r.project}
  /\ detailLoading' = FALSE
  /\ UNCHANGED <<projectID, page, listing, editors, saving, preview, revision>>

-----------------------------------------------------------------------------
(* The address *)

Goto(p, to) ==
  /\ projectID' = p /\ page' = to
  /\ UNCHANGED listing
  /\ DetailEffect(asked, IF p = projectID THEN {} ELSE {p}, detailLoading)

\* A project of the list is shown, or the history of the browser leads to any address of
\* the page, past the guard of navigate.  The editors keep what they hold.
Visit ==
  /\ Cardinality(asked) < MaxAsked
  /\ \E p \in Projects, to \in Pages : Goto(p, to)
  /\ filled' = FALSE
  /\ UNCHANGED <<variables, draft, saving, preview, revision>>

\* The page of a project has its buttons unless details seem to be loading: the first
\* request for details that ends resets detailLoading for all.
Shown ==
  /\ page = "view" /\ projects[projectID] # None /\ preview = None
  /\ ~detailLoading

BeginProjectVariableEdit ==
  /\ Shown
  /\ variables' = ContentOf(projectID, projects[projectID])
  /\ filled' = TRUE
  /\ Goto(projectID, "settings")
  /\ UNCHANGED <<draft, saving, preview, revision>>

BeginAgentEdit ==
  /\ Shown /\ ContentOf(projectID, projects[projectID]) # None
  /\ draft' = ContentOf(projectID, projects[projectID])
  /\ filled' = TRUE
  /\ Goto(projectID, "edit")
  /\ UNCHANGED <<variables, saving, preview, revision>>

BeginAgentCreate ==
  /\ Shown
  /\ draft' = None
  /\ filled' = TRUE
  /\ Goto(projectID, "new")
  /\ UNCHANGED <<variables, saving, preview, revision>>

-----------------------------------------------------------------------------
(* Deployments *)

\* requestPreview of what the editor holds, with the hash that is listed now.  A draft
\* that was never filled does not get through validateDraft unless it is a new agent.
RequestPreview ==
  /\ Cardinality(asked) < MaxAsked
  /\ page # "view" /\ ~saving /\ preview = None /\ projects[projectID] # None
  /\ page = "edit" => draft # None
  /\ saving' = TRUE
  /\ asked' = asked \cup {MutationRequest("preview",
       [project |-> projectID, page |-> page, base |-> projects[projectID].hash,
        content |-> CASE page = "settings" -> variables [] page = "edit" -> draft
                      [] OTHER -> None])}
  /\ UNCHANGED <<projectID, page, listing, editors, preview, details, revision>>

\* A preview is refused unless its base is the current hash.
PreviewAnswer(r) ==
  /\ r.kind = "preview"
  /\ asked' = asked \ {r}
  /\ saving' = FALSE
  /\ preview' \in IF Current(r.mutation) THEN {r.mutation, preview} ELSE {preview}
  /\ UNCHANGED <<projectID, page, listing, editors, details, revision>>

\* The dialog is closed.
Dismiss ==
  /\ preview # None /\ ~saving
  /\ preview' = None
  /\ UNCHANGED <<projectID, page, listing, editors, saving, asked, details, revision>>

DeployPreview ==
  /\ preview # None /\ ~saving
  /\ saving' = TRUE
  /\ asked' = asked \cup {MutationRequest("apply", preview)}
  /\ UNCHANGED <<projectID, page, listing, editors, preview, details, revision>>

DeployAnswerSaving(r) ==
  /\ r.kind = "apply" /\ r.answer # None
  /\ preview' = None
  /\ saving' = TRUE
  /\ asked' = (asked \ {r}) \cup (IF r.answer THEN {ListRequest(r.mutation.project)} ELSE {})
  /\ UNCHANGED <<projectID, page, listing, editors, details, revision>>

\* deployPreview goes on: with load, or with the error.
DeployAnswer(r) ==
  /\ r.kind = "apply" /\ r.answer # None
  /\ preview' = None
  /\ saving' = r.answer
  /\ asked' = (asked \ {r}) \cup (IF r.answer THEN {ListRequest(r.mutation.project)} ELSE {})
  /\ UNCHANGED <<projectID, page, listing, editors, details, revision>>

EditorNext ==
  \/ OthersDeploy \/ Visit
  \/ BeginProjectVariableEdit \/ BeginAgentEdit \/ BeginAgentCreate
  \/ RequestPreview \/ Dismiss \/ DeployPreview
  \/ \E r \in asked :
       \/ Serve(r) \/ ListAnswer(r) \/ ListFails(r) \/ DetailAnswer(r) \/ DetailFails(r)
       \/ PreviewAnswer(r) \/ DeployAnswer(r)

EditorSpec == EditorInit /\ [][EditorNext]_editorVars

-----------------------------------------------------------------------------
(* Properties *)

\* Details that count as loaded are there, and the project that is shown either has them,
\* waits for them, or has seen its last request for them fail, whatever lists and details
\* of other projects arrive meanwhile (Projects.svelte:128-132, 160, 200).
DetailsShown ==
  /\ \A p \in detailLoadedIDs : projects[p] # None /\ projects[p].whole
  /\ summariesLoaded /\ projectID \notin detailLoadedIDs =>
       \/ projectID \in failed
       \/ \E r \in asked : r.kind = "detail" /\ r.project = projectID

\* Unless the browser's history led to the editor, it holds the content of exactly the
\* configuration whose hash it will send along: the base check of the server then covers
\* what the user sees (Projects.svelte:284-295, 318, 347).
FilledFromBase ==
  filled /\ ContentOf(projectID, projects[projectID]) # None =>
    /\ page = "settings" => variables = ContentOf(projectID, projects[projectID])
    /\ page = "edit" => draft = ContentOf(projectID, projects[projectID])

\* A page that shows itself as saving has a request under way that will end it, however
\* previews, deployments and the loads after them fail (Projects.svelte:297-307, 354-374).
SavingEnds ==
  saving => \E r \in asked : \/ r.kind \in {"preview", "apply"}
                             \/ r.kind = "list" /\ r.then # None

\* Claimed at internal/projectdeploy/handler.go:495 ("the configuration has changed, reload
\* it before you edit"): an edit that was not made on the current configuration of its
\* project is not previewed for deployment.
EditedOnBase ==
  preview # None /\ preview.page # "new" =>
    preview.content = [project |-> preview.project, rev |-> preview.base]
===============================================================================
