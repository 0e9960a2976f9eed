------------------------- MODULE ProjectEditorProofs -------------------------
(***************************************************************************)
(* The project page for any projects, revisions and number of requests     *)
(* under way: what counts as loaded is there or on its way, an editor      *)
(* holds the configuration whose hash it sends, and saving ends.           *)
(***************************************************************************)
EXTENDS ProjectEditor, TLAPS

EInv == EditorTypeOK /\ DetailsShown /\ FilledFromBase /\ SavingEnds

-----------------------------------------------------------------------------
(* Lemmas: requests *)

\* The kind of a request tells its fields.
LEMMA Kinds ==
  ASSUME NEW r \in Request
  PROVE  /\ r.kind \in {"list", "detail", "preview", "apply"}
         /\ r.kind = "list" => /\ r.then \in Projects \cup {None}
                               /\ r.answer \in [Projects -> Revisions] \cup {None}
         /\ r.kind = "detail" => /\ r.project \in Projects
                                 /\ r.answer \in Revisions \cup {None}
         /\ r.kind \in {"preview", "apply"} => /\ r.mutation \in Mutation
                                               /\ r.answer \in BOOLEAN \cup {None}
BY DEF Request

LEMMA ListTyped ==
  ASSUME NEW then \in Projects \cup {None}
  PROVE  /\ ListRequest(then) \in Request
         /\ ListRequest(then).kind = "list" /\ ListRequest(then).then = then
BY DEF ListRequest, Request

LEMMA DetailTyped ==
  ASSUME NEW p \in Projects
  PROVE  /\ DetailRequest(p) \in Request
         /\ DetailRequest(p).kind = "detail" /\ DetailRequest(p).project = p
BY DEF DetailRequest, Request

LEMMA MutationTyped ==
  ASSUME NEW kind \in {"preview", "apply"}, NEW m \in Mutation
  PROVE  /\ MutationRequest(kind, m) \in Request
         /\ MutationRequest(kind, m).kind = kind /\ MutationRequest(kind, m).mutation = m
BY DEF MutationRequest, Request

LEMMA ContentTyped ==
  ASSUME NEW p \in Projects, NEW listed \in Listed \cup {None}
  PROVE  ContentOf(p, listed) \in Content
BY DEF ContentOf, Listed, Content

\* What the server answers keeps a request what it was.
LEMMA Served ==
  ASSUME NEW r \in Request, revision \in [Projects -> Revisions], r.kind # "preview",
         NEW a, a = CASE r.kind = "list" -> revision
                      [] r.kind = "detail" -> revision[r.project]
                      [] OTHER -> Current(r.mutation)
  PROVE  LET s == [r EXCEPT !.answer = a]
         IN  /\ s \in Request /\ s.kind = r.kind
             /\ r.kind = "list" => s.then = r.then
             /\ r.kind = "detail" => s.project = r.project
<1>1. CASE r \in [kind : {"list"}, then : Projects \cup {None},
                  answer : [Projects -> Revisions] \cup {None}]
  BY <1>1 DEF Request
<1>2. CASE r \in [kind : {"detail"}, project : Projects, answer : Revisions \cup {None}]
  BY <1>2 DEF Request
<1>3. CASE r \in [kind : {"preview", "apply"}, mutation : Mutation,
                  answer : BOOLEAN \cup {None}]
  <2>1. r.kind = "apply" /\ r.kind # "list" /\ r.kind # "detail"
    BY <1>3
  <2>2. a = Current(r.mutation)
    BY <2>1
  <2>3. Current(r.mutation) \in BOOLEAN
    BY Zenon DEF Current
  <2>4. a \in BOOLEAN
    BY <2>2, <2>3, Zenon
  <2> QED BY <1>3, <2>1, <2>4 DEF Request
<1> QED BY <1>1, <1>2, <1>3 DEF Request

-----------------------------------------------------------------------------
(* Lemmas: effects *)

\* The effect only adds requests for details, and leaves the projects it is for covered.
LEMMA EffectCovers ==
  ASSUME EditorTypeOK, NEW rs \in SUBSET Request, NEW ps \in SUBSET Projects,
         NEW others \in BOOLEAN, DetailEffect(rs, ps, others)
  PROVE  /\ asked' \subseteq Request /\ failed' \subseteq Projects /\ detailLoading' \in BOOLEAN
         /\ rs \subseteq asked'
         /\ \A p \in ps : summariesLoaded' /\ p \notin detailLoadedIDs' =>
              \E r \in asked' : r.kind = "detail" /\ r.project = p
         /\ \A p \in failed \ ps : p \in failed'
<1> DEFINE missing == {p \in ps : summariesLoaded' /\ p \notin detailLoadedIDs'}
<1>1. /\ asked' = rs \cup {DetailRequest(p) : p \in missing} /\ failed' = failed \ missing
      /\ detailLoading' = (others \/ missing # {})
  BY DEF DetailEffect
<1>2. \A p \in missing : DetailRequest(p) \in Request
  BY DetailTyped
<1>3. ASSUME NEW p \in missing
      PROVE  \E r \in asked' : r.kind = "detail" /\ r.project = p
  BY <1>1, DetailTyped
<1>4. failed \subseteq Projects
  BY DEF EditorTypeOK
<1>5. detailLoading' \in BOOLEAN
  BY <1>1, Zenon
<1> QED BY <1>1, <1>2, <1>3, <1>4, <1>5

\* A draft is only filled with what is listed.
LEMMA RestoreTyped ==
  ASSUME EditorTypeOK, projects' \in [Projects -> Listed \cup {None}], RestoreEditorDraft
  PROVE  variables' \in Content /\ draft' \in Content /\ filled' \in BOOLEAN
<1>1. projects'[projectID] \in Listed \cup {None} /\ projectID \in Projects
  BY DEF EditorTypeOK
<1>2. ContentOf(projectID, projects'[projectID]) \in Content
  BY <1>1, ContentTyped
<1>3. variables' \in Content /\ draft' \in Content
  BY <1>2 DEF RestoreEditorDraft, EditorTypeOK
<1>4. filled' \in BOOLEAN
  BY DEF RestoreEditorDraft
<1> QED BY <1>3, <1>4

\* The effect keeps what is shown covered, where rs has all requests for details but those
\* for a project that is loaded.
LEMMA EffectShows ==
  ASSUME EInv, NEW rs \in SUBSET Request, NEW ps \in SUBSET Projects,
         NEW others \in BOOLEAN, DetailEffect(rs, ps, others),
         \A r \in asked : r.kind = "detail" => r \in rs \/ r.project \in detailLoadedIDs',
         projectID' \in ps \/ /\ projectID' = projectID
                              /\ summariesLoaded' = summariesLoaded
                              /\ projectID \notin detailLoadedIDs' =>
                                   projectID \notin detailLoadedIDs,
         \A p \in detailLoadedIDs' : projects'[p] # None /\ projects'[p].whole
  PROVE  DetailsShown'
<1>1. /\ rs \subseteq asked'
      /\ \A p \in ps : summariesLoaded' /\ p \notin detailLoadedIDs' =>
           \E r \in asked' : r.kind = "detail" /\ r.project = p
      /\ \A p \in failed \ ps : p \in failed'
  BY EffectCovers DEF EInv
<1>2. ASSUME summariesLoaded', projectID' \notin detailLoadedIDs', projectID' \notin ps
      PROVE  projectID' \in failed' \/ \E r \in asked' : r.kind = "detail" /\ r.project = projectID'
  <2>1. /\ projectID' = projectID /\ summariesLoaded /\ projectID \notin detailLoadedIDs
    BY <1>2
  <2>2. projectID \in failed \/ \E r \in asked : r.kind = "detail" /\ r.project = projectID
    BY <2>1 DEF EInv, DetailsShown
  <2> QED BY <1>1, <1>2, <2>1, <2>2
<1> QED BY <1>1, <1>2 DEF DetailsShown

\* Saving is ended by what is still asked.
LEMMA StillSaving ==
  ASSUME EInv, saving' => saving,
         \A r \in asked : r \in asked' \/ r.kind = "detail" \/ (r.kind = "list" /\ r.then = None)
  PROVE  SavingEnds'
BY DEF EInv, SavingEnds

-----------------------------------------------------------------------------
(* The steps *)

\* Steps that leave the lists, the address and the requests for details alone.
LEMMA SameDetails ==
  ASSUME EInv, UNCHANGED <<projectID, listing>>, failed \subseteq failed',
         \A r \in asked : r.kind = "detail" =>
           \/ \E s \in asked' : s.kind = "detail" /\ s.project = r.project
           \/ r.project \in failed'
  PROVE  DetailsShown'
BY DEF EInv, DetailsShown, listing

LEMMA SameFill ==
  ASSUME EInv, UNCHANGED <<projectID, page, projects, editors>>
  PROVE  FilledFromBase'
BY DEF EInv, FilledFromBase, editors

LEMMA ServeStep ==
  ASSUME EInv, NEW r \in asked, Serve(r)
  PROVE  EInv'
<1> USE DEF EInv
<1> DEFINE a == CASE r.kind = "list" -> revision
                  [] r.kind = "detail" -> revision[r.project]
                  [] OTHER -> Current(r.mutation)
           s == [r EXCEPT !.answer = a]
<1>1. /\ asked' = (asked \ {r}) \cup {s}
      /\ UNCHANGED <<projectID, page, listing, editors, saving, preview, details>>
  BY DEF Serve
<1>2. /\ s \in Request /\ s.kind = r.kind
      /\ r.kind = "list" => s.then = r.then
      /\ r.kind = "detail" => s.project = r.project
  BY Served DEF Serve, EditorTypeOK
<1> HIDE DEF a, s
<1>3. revision' \in [Projects -> Revisions]
  <2>1. revision' = revision \/ \E p : revision' = [revision EXCEPT ![p] = @ + 1]
    BY DEF Serve, Deployed
  <2> QED BY <2>1 DEF EditorTypeOK, Revisions
<1>4. EditorTypeOK'
  BY <1>1, <1>2, <1>3 DEF EditorTypeOK, listing, details, editors
<1>5. DetailsShown'
  BY <1>1, <1>2, SameDetails DEF details
<1>6. FilledFromBase'
  BY <1>1, SameFill DEF listing
<1>7. SavingEnds'
  BY <1>1, <1>2 DEF SavingEnds
<1> QED BY <1>4, <1>5, <1>6, <1>7

LEMMA ListAnswerStep ==
  ASSUME EInv, NEW r \in asked, ListAnswer(r)
  PROVE  EInv'
<1> USE DEF EInv
<1>1. /\ r.kind = "list" /\ r.answer # None
      /\ projects' = [p \in Projects |-> [hash |-> r.answer[p], whole |-> FALSE]]
      /\ summariesLoaded' = TRUE /\ detailLoadedIDs' = {}
      /\ RestoreEditorDraft
      /\ DetailEffect(asked \ {r}, {projectID, projectID'}, detailLoading)
      /\ UNCHANGED <<preview, revision>>
  BY DEF ListAnswer
<1>2. r.answer \in [Projects -> Revisions] /\ r.then \in Projects \cup {None}
  BY <1>1, Kinds DEF EditorTypeOK
<1>3. projects' \in [Projects -> Listed \cup {None}]
  BY <1>1, <1>2 DEF Listed
<1>4. /\ projectID' \in Projects /\ page' \in Pages /\ saving' \in BOOLEAN
      /\ saving' => saving /\ r.then = None
  BY <1>2 DEF ListAnswer, EditorTypeOK, Pages
<1>5. /\ asked \ {r} \in SUBSET Request /\ {projectID, projectID'} \in SUBSET Projects
      /\ detailLoading \in BOOLEAN
  BY <1>4 DEF EditorTypeOK
<1>6. /\ asked' \subseteq Request /\ failed' \subseteq Projects /\ detailLoading' \in BOOLEAN
      /\ asked \ {r} \subseteq asked'
  BY <1>1, <1>5, EffectCovers
<1>7. EditorTypeOK'
  BY <1>1, <1>3, <1>4, <1>6, RestoreTyped DEF EditorTypeOK
<1>8. DetailsShown'
  <2>1. \A q \in asked : q.kind = "detail" => q \in asked \ {r} \/ q.project \in detailLoadedIDs'
    BY <1>1
  <2> QED BY <1>1, <1>5, <2>1, EffectShows
<1>9. FilledFromBase'
  <2>1. ContentOf(projectID, projects[projectID])' = None
    BY <1>1, <1>4 DEF ContentOf
  <2> QED BY <2>1 DEF FilledFromBase
<1>10. SavingEnds'
  <2>1. CASE saving'
    <3>1. r.kind = "list" /\ r.then = None /\ saving
      BY <1>1, <1>4, <2>1
    <3> QED BY <1>6, <3>1, StillSaving
  <2>2. CASE ~saving'
    BY <2>2 DEF SavingEnds
  <2> QED BY <2>1, <2>2
<1> QED BY <1>7, <1>8, <1>9, <1>10

LEMMA ListFailsStep ==
  ASSUME EInv, NEW r \in asked, ListFails(r)
  PROVE  EInv'
<1> USE DEF EInv
<1>1. /\ r.kind = "list" /\ UNCHANGED <<listing, editors, preview, revision>>
      /\ DetailEffect(asked \ {r}, {projectID'} \ {projectID}, detailLoading)
  BY DEF ListFails
<1>2. r.then \in Projects \cup {None}
  BY <1>1, Kinds DEF EditorTypeOK
<1>3. /\ projectID' \in Projects /\ page' \in Pages /\ saving' \in BOOLEAN
      /\ saving' => saving /\ r.then = None
      /\ \/ UNCHANGED <<projectID, page>>
         \/ page' = "view"
  BY <1>2 DEF ListFails, EditorTypeOK, Pages
<1>4. /\ asked \ {r} \in SUBSET Request /\ {projectID'} \ {projectID} \in SUBSET Projects
      /\ detailLoading \in BOOLEAN
  BY <1>3 DEF EditorTypeOK
<1>5. /\ asked' \subseteq Request /\ failed' \subseteq Projects /\ detailLoading' \in BOOLEAN
      /\ asked \ {r} \subseteq asked'
  BY <1>1, <1>4, EffectCovers
<1>6. EditorTypeOK'
  BY <1>1, <1>3, <1>5 DEF EditorTypeOK, listing, details, editors
<1>7. DetailsShown'
  <2>1. \A q \in asked : q.kind = "detail" => q \in asked \ {r}
    BY <1>1
  <2>2. \A p \in detailLoadedIDs' : projects'[p] # None /\ projects'[p].whole
    BY <1>1 DEF DetailsShown, listing
  <2> QED BY <1>1, <1>4, <2>1, <2>2, EffectShows DEF listing
<1>8. FilledFromBase'
  BY <1>1, <1>3 DEF FilledFromBase, listing, editors
<1>9. SavingEnds'
  <2>1. CASE saving'
    <3>1. r.kind = "list" /\ r.then = None /\ saving
      BY <1>1, <1>3, <2>1
    <3> QED BY <1>5, <3>1, StillSaving
  <2>2. CASE ~saving'
    BY <2>2 DEF SavingEnds
  <2> QED BY <2>1, <2>2
<1> QED BY <1>6, <1>7, <1>8, <1>9

LEMMA DetailAnswerStep ==
  ASSUME EInv, NEW r \in asked, DetailAnswer(r)
  PROVE  EInv'
<1> USE DEF EInv
<1> DEFINE ps == IF r.project \in detailLoadedIDs THEN {} ELSE {projectID}
<1>1. /\ r.kind = "detail" /\ r.answer # None
      /\ projects' = [projects EXCEPT ![r.project] = [hash |-> r.answer, whole |-> TRUE]]
      /\ detailLoadedIDs' = detailLoadedIDs \cup {r.project}
      /\ RestoreEditorDraft
      /\ UNCHANGED <<projectID, page, summariesLoaded, saving, preview, revision>>
      /\ DetailEffect(asked \ {r}, ps, FALSE)
  BY DEF DetailAnswer
<1>2. r.answer \in Revisions /\ r.project \in Projects
  BY <1>1, Kinds DEF EditorTypeOK
<1>3. projects' \in [Projects -> Listed \cup {None}]
  BY <1>1, <1>2 DEF EditorTypeOK, Listed
<1>4. asked \ {r} \in SUBSET Request /\ ps \in SUBSET Projects
  BY DEF EditorTypeOK
<1> HIDE DEF ps
<1>5. /\ asked' \subseteq Request /\ failed' \subseteq Projects /\ detailLoading' \in BOOLEAN
      /\ asked \ {r} \subseteq asked'
  BY <1>1, <1>4, EffectCovers
<1>6. EditorTypeOK'
  BY <1>1, <1>2, <1>3, <1>5, RestoreTyped DEF EditorTypeOK
<1>7. DetailsShown'
  <2>1. \A q \in asked : q.kind = "detail" => q \in asked \ {r} \/ q.project \in detailLoadedIDs'
    BY <1>1
  <2>2. projectID \notin detailLoadedIDs' => projectID \notin detailLoadedIDs
    BY <1>1
  <2>3. ASSUME NEW p \in detailLoadedIDs' PROVE projects'[p] # None /\ projects'[p].whole
    <3>1. projects'[r.project] = [hash |-> r.answer, whole |-> TRUE]
      BY <1>1, <1>2 DEF EditorTypeOK
    <3>2. projects'[r.project] \in Listed /\ projects'[r.project].whole = TRUE
      BY <1>2, <3>1 DEF Listed
    <3>3. p # r.project => projects'[p] = projects[p] /\ p \in detailLoadedIDs
      BY <1>1 DEF EditorTypeOK
    <3> QED BY <3>2, <3>3, ProjectEditorAssumption DEF DetailsShown
  <2> QED BY <1>1, <1>4, <2>1, <2>2, <2>3, EffectShows
<1>8. FilledFromBase'
  BY <1>1 DEF RestoreEditorDraft, FilledFromBase, ContentOf
<1>9. SavingEnds'
  BY <1>1, <1>5 DEF SavingEnds
<1> QED BY <1>6, <1>7, <1>8, <1>9

LEMMA DetailFailsStep ==
  ASSUME EInv, NEW r \in asked, DetailFails(r)
  PROVE  EInv'
<1> USE DEF EInv
<1>1. /\ r.kind = "detail" /\ asked' = asked \ {r} /\ failed' = failed \cup {r.project}
      /\ detailLoading' = FALSE
      /\ UNCHANGED <<projectID, page, listing, editors, saving, preview, revision>>
  BY DEF DetailFails
<1>2. r.project \in Projects
  BY <1>1, Kinds DEF EditorTypeOK
<1>3. EditorTypeOK'
  BY <1>1, <1>2 DEF EditorTypeOK, listing, details, editors
<1>4. DetailsShown'
  BY <1>1, SameDetails
<1>5. FilledFromBase'
  BY <1>1, SameFill DEF listing
<1>6. SavingEnds'
  BY <1>1 DEF SavingEnds
<1> QED BY <1>3, <1>4, <1>5, <1>6

\* Goto changes the address and asks for what is shown there.
LEMMA GotoStep ==
  ASSUME EInv, NEW p \in Projects, NEW to \in Pages, Goto(p, to)
  PROVE  /\ projectID' \in Projects /\ page' \in Pages
         /\ asked' \subseteq Request /\ failed' \subseteq Projects /\ detailLoading' \in BOOLEAN
         /\ asked \subseteq asked'
         /\ UNCHANGED listing
         /\ DetailsShown'
<1> USE DEF EInv
<1> DEFINE ps == IF p = projectID THEN {} ELSE {p}
<1>1. projectID' = p /\ page' = to /\ UNCHANGED listing /\ DetailEffect(asked, ps, detailLoading)
  BY DEF Goto
<1>2. asked \in SUBSET Request /\ ps \in SUBSET Projects /\ detailLoading \in BOOLEAN
  BY DEF EditorTypeOK
<1>3. p = projectID \/ p \in ps
  OBVIOUS
<1> HIDE DEF ps
<1>4. /\ asked' \subseteq Request /\ failed' \subseteq Projects /\ detailLoading' \in BOOLEAN
      /\ asked \subseteq asked'
  BY <1>1, <1>2, EffectCovers
<1>5. \A q \in detailLoadedIDs' : projects'[q] # None /\ projects'[q].whole
  BY <1>1 DEF DetailsShown, listing
<1>6. DetailsShown'
  BY <1>1, <1>2, <1>3, <1>5, EffectShows DEF listing
<1> QED BY <1>1, <1>4, <1>6

\* The address changes and the editors are filled for it, or for no address.
LEMMA AddressStep ==
  ASSUME EInv, NEW p \in Projects, NEW to \in Pages, Goto(p, to),
         variables' \in Content, draft' \in Content, filled' \in BOOLEAN,
         UNCHANGED <<saving, preview, revision>>,
         FilledFromBase'
  PROVE  EInv'
<1>1. /\ projectID' \in Projects /\ page' \in Pages
      /\ asked' \subseteq Request /\ failed' \subseteq Projects /\ detailLoading' \in BOOLEAN
      /\ asked \subseteq asked'
      /\ UNCHANGED listing
      /\ DetailsShown'
  BY GotoStep
<1>2. EditorTypeOK'
  BY <1>1 DEF EInv, EditorTypeOK, listing
<1>3. SavingEnds'
  BY <1>1, StillSaving
<1> QED BY <1>1, <1>2, <1>3 DEF EInv

LEMMA AddressSteps ==
  ASSUME EInv, Visit \/ BeginProjectVariableEdit \/ BeginAgentEdit \/ BeginAgentCreate
  PROVE  EInv'
<1> DEFINE content == ContentOf(projectID, projects[projectID])
<1>1. /\ projectID \in Projects /\ content \in Content
      /\ variables \in Content /\ draft \in Content
      /\ {"view", "settings", "edit", "new"} = Pages
  BY ContentTyped DEF EInv, EditorTypeOK, Pages
<1>2. CASE Visit
  <2>1. PICK p \in Projects, to \in Pages : Goto(p, to)
    BY <1>2 DEF Visit
  <2>2. FilledFromBase'
    BY <1>2 DEF Visit, FilledFromBase
  <2> QED BY <1>1, <1>2, <2>1, <2>2, AddressStep DEF Visit
<1>3. CASE BeginProjectVariableEdit
  <2>1. Goto(projectID, "settings") /\ variables' = content /\ filled' = TRUE
        /\ UNCHANGED <<draft, saving, preview, revision>>
    BY <1>3 DEF BeginProjectVariableEdit
  <2>2. FilledFromBase'
    BY <2>1 DEF Goto, FilledFromBase, listing
  <2> HIDE DEF content
  <2> QED BY <1>1, <2>1, <2>2, AddressStep
<1>4. CASE BeginAgentEdit
  <2>1. Goto(projectID, "edit") /\ draft' = content /\ filled' = TRUE
        /\ UNCHANGED <<variables, saving, preview, revision>>
    BY <1>4 DEF BeginAgentEdit
  <2>2. FilledFromBase'
    BY <2>1 DEF Goto, FilledFromBase, listing
  <2> HIDE DEF content
  <2> QED BY <1>1, <2>1, <2>2, AddressStep
<1>5. CASE BeginAgentCreate
  <2>1. Goto(projectID, "new") /\ draft' = None /\ filled' = TRUE
        /\ UNCHANGED <<variables, saving, preview, revision>>
    BY <1>5 DEF BeginAgentCreate
  <2>2. FilledFromBase'
    BY <2>1 DEF Goto, FilledFromBase
  <2>3. draft' \in Content
    BY <2>1 DEF Content
  <2> QED BY <1>1, <2>1, <2>2, <2>3, AddressStep
<1> QED BY <1>2, <1>3, <1>4, <1>5

\* Steps of a deployment leave the lists, the address and the editors alone.
LEMMA DeploymentStep ==
  ASSUME EInv, UNCHANGED <<projectID, page, listing, editors, details>>,
         saving' \in BOOLEAN, preview' \in Mutation \cup {None}, asked' \subseteq Request,
         revision' \in [Projects -> Revisions],
         \A r \in asked : r.kind = "detail" => r \in asked',
         SavingEnds'
  PROVE  EInv'
<1>1. EditorTypeOK'
  BY DEF EInv, EditorTypeOK, listing, details, editors
<1>2. DetailsShown'
  BY SameDetails DEF details
<1>3. FilledFromBase'
  BY SameFill DEF listing
<1> QED BY <1>1, <1>2, <1>3 DEF EInv

LEMMA OthersDeployStep ==
  ASSUME EInv, OthersDeploy
  PROVE  EInv'
<1>1. UNCHANGED <<projectID, page, listing, editors, saving, preview, asked, details>>
  BY DEF OthersDeploy
<1>2. revision' \in [Projects -> Revisions]
  <2>1. PICK p \in Projects : revision' = [revision EXCEPT ![p] = revision[p] + 1]
    BY DEF OthersDeploy, Deployed
  <2>2. revision \in [Projects -> Nat]
    BY DEF EInv, EditorTypeOK, Revisions
  <2>3. revision[p] + 1 \in Nat
    BY <2>2
  <2> QED BY <2>1, <2>2, <2>3 DEF Revisions
<1>3. SavingEnds'
  BY <1>1, StillSaving
<1> QED BY <1>1, <1>2, <1>3, DeploymentStep DEF EInv, EditorTypeOK

LEMMA RequestPreviewStep ==
  ASSUME EInv, RequestPreview
  PROVE  EInv'
<1> DEFINE content == CASE page = "settings" -> variables [] page = "edit" -> draft
                        [] OTHER -> None
           m == [project |-> projectID, page |-> page, base |-> projects[projectID].hash,
                 content |-> content]
<1>1. /\ page # "view" /\ projects[projectID] # None
      /\ saving' = TRUE /\ asked' = asked \cup {MutationRequest("preview", m)}
      /\ UNCHANGED <<projectID, page, listing, editors, preview, details, revision>>
  BY DEF RequestPreview
<1>2. content \in Content
  BY DEF EInv, EditorTypeOK, Content
<1>3. projects[projectID].hash \in Revisions /\ page \in Pages \ {"view"} /\ projectID \in Projects
  BY <1>1 DEF EInv, EditorTypeOK, Listed
<1> HIDE DEF content
<1>4. m \in Mutation
  BY <1>2, <1>3 DEF Mutation
<1> HIDE DEF m
<1>5. /\ MutationRequest("preview", m) \in Request
      /\ MutationRequest("preview", m).kind = "preview"
  BY <1>4, MutationTyped
<1>6. SavingEnds'
  BY <1>1, <1>5 DEF SavingEnds
<1> QED BY <1>1, <1>5, <1>6, DeploymentStep DEF EInv, EditorTypeOK

LEMMA PreviewAnswerStep ==
  ASSUME EInv, NEW r \in asked, PreviewAnswer(r)
  PROVE  EInv'
<1>1. /\ r.kind = "preview" /\ asked' = asked \ {r} /\ saving' = FALSE
      /\ preview' \in {r.mutation, preview}
      /\ UNCHANGED <<projectID, page, listing, editors, details, revision>>
  BY DEF PreviewAnswer
<1>2. r.mutation \in Mutation
  BY <1>1, Kinds DEF EInv, EditorTypeOK
<1>3. SavingEnds'
  BY <1>1 DEF SavingEnds
<1> QED BY <1>1, <1>2, <1>3, DeploymentStep DEF EInv, EditorTypeOK

LEMMA DialogSteps ==
  ASSUME EInv, Dismiss \/ DeployPreview
  PROVE  EInv'
<1>1. CASE Dismiss
  <2>1. SavingEnds'
    BY <1>1, StillSaving DEF Dismiss
  <2> QED BY <1>1, <2>1, DeploymentStep DEF Dismiss, EInv, EditorTypeOK
<1>2. CASE DeployPreview
  <2>1. preview \in Mutation
    BY <1>2 DEF DeployPreview, EInv, EditorTypeOK
  <2>2. /\ MutationRequest("apply", preview) \in Request
        /\ MutationRequest("apply", preview).kind = "apply"
    BY <2>1, MutationTyped
  <2>3. SavingEnds'
    BY <1>2, <2>2 DEF DeployPreview, SavingEnds
  <2> QED BY <1>2, <2>2, <2>3, DeploymentStep DEF DeployPreview, EInv, EditorTypeOK
<1> QED BY <1>1, <1>2

LEMMA DeployAnswerStep ==
  ASSUME EInv, NEW r \in asked, DeployAnswer(r)
  PROVE  EInv'
<1> DEFINE list == ListRequest(r.mutation.project)
<1>1. /\ r.kind = "apply" /\ r.answer # None /\ preview' = None /\ saving' = r.answer
      /\ asked' = (asked \ {r}) \cup (IF r.answer THEN {list} ELSE {})
      /\ UNCHANGED <<projectID, page, listing, editors, details, revision>>
  BY DEF DeployAnswer
<1>2. r.answer \in BOOLEAN /\ r.mutation.project \in Projects
  BY <1>1, Kinds DEF EInv, EditorTypeOK, Mutation
<1>3. list \in Request /\ list.kind = "list" /\ list.then # None
  BY <1>2, ListTyped, ProjectEditorAssumption
<1> HIDE DEF list
<1>4. SavingEnds'
  BY <1>1, <1>3 DEF SavingEnds
<1>5. asked' \subseteq Request
  BY <1>1, <1>3 DEF EInv, EditorTypeOK
<1>6. \A q \in asked : q.kind = "detail" => q \in asked'
  BY <1>1
<1> QED BY <1>1, <1>2, <1>4, <1>5, <1>6, DeploymentStep DEF EInv, EditorTypeOK

-----------------------------------------------------------------------------
(* The theorems *)

LEMMA EInvInit == EditorInit => EInv
<1> SUFFICES ASSUME EditorInit PROVE EInv
  OBVIOUS
<1>1. ListRequest(None) \in Request
  BY ListTyped
<1>2. EditorTypeOK
  BY <1>1 DEF EditorInit, EditorTypeOK, Content, Revisions
<1>3. DetailsShown /\ FilledFromBase /\ SavingEnds
  BY DEF EditorInit, DetailsShown, FilledFromBase, SavingEnds, ContentOf
<1> QED BY <1>2, <1>3 DEF EInv

LEMMA EInvStep == EInv /\ [EditorNext]_editorVars => EInv'
<1> SUFFICES ASSUME EInv, [EditorNext]_editorVars PROVE EInv'
  OBVIOUS
<1>1. CASE OthersDeploy
  BY <1>1, OthersDeployStep
<1>2. CASE Visit \/ BeginProjectVariableEdit \/ BeginAgentEdit \/ BeginAgentCreate
  BY <1>2, AddressSteps
<1>3. CASE RequestPreview
  BY <1>3, RequestPreviewStep
<1>4. CASE Dismiss \/ DeployPreview
  BY <1>4, DialogSteps
<1>5. ASSUME NEW r \in asked,
             \/ Serve(r) \/ ListAnswer(r) \/ ListFails(r) \/ DetailAnswer(r) \/ DetailFails(r)
             \/ PreviewAnswer(r) \/ DeployAnswer(r)
      PROVE  EInv'
  BY <1>5, ServeStep, ListAnswerStep, ListFailsStep, DetailAnswerStep, DetailFailsStep,
     PreviewAnswerStep, DeployAnswerStep
<1>6. CASE UNCHANGED editorVars
  BY <1>6 DEF editorVars, listing, details, editors, EInv, EditorTypeOK, DetailsShown, FilledFromBase,
     SavingEnds
<1> QED BY <1>1, <1>2, <1>3, <1>4, <1>5, <1>6 DEF EditorNext

THEOREM EditorInvariant == EditorSpec => []EInv
BY EInvInit, EInvStep, PTL DEF EditorSpec

\* The state of the page has its type.
THEOREM EditorTyped == EditorSpec => []EditorTypeOK
BY EditorInvariant, PTL DEF EInv

\* Details that count as loaded are there, and those of the project that is shown are
\* there, on their way, or were refused (Projects.svelte:128-132, 160, 200).
THEOREM DetailsCovered == EditorSpec => []DetailsShown
BY EditorInvariant, PTL DEF EInv

\* An editor that was filled for its address holds what the hash it sends stands for, for
\* any deployments by others meanwhile (Projects.svelte:284-295, 318, 347).
THEOREM EditorOnBase == EditorSpec => []FilledFromBase
BY EditorInvariant, PTL DEF EInv

\* A page that is saving has a request that ends it (Projects.svelte:297-307, 354-374).
THEOREM SavingIsEnded == EditorSpec => []SavingEnds
BY EditorInvariant, PTL DEF EInv
=============================================================================
