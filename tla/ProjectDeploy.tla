---------------------------- MODULE ProjectDeploy ----------------------------
(***************************************************************************)
(* internal/projectdeploy/handler.go: changing a project in two requests.  *)
(* POST project-deployment-previews plans one mutation against the project *)
(* as the daemon holds it and keeps the plan; POST .../apply carries it    *)
(* out.  Between the two, and between any two daemon calls, other clients  *)
(* of the daemon, other previews and repeated applies interfere.           *)
(*                                                                         *)
(* Abstractions.                                                           *)
(*  - A configuration keeps the project's variables and, for each agent,   *)
(*    its editable fields (config) and its scheduler, each as one value;   *)
(*    specHash stands for the configuration itself.                        *)
(*  - A project is its name; the id a dry run reports for a project to be  *)
(*    created depends on the name only.                                    *)
(*  - A daemon call is one step.  Its answer may be an error at any time,  *)
(*    so a refusal needs no guard; a request to change the project stays   *)
(*    with the daemon when the handler stops waiting for its answer.       *)
(***************************************************************************)
EXTENDS Naturals

CONSTANTS
  Projects,
  Agents,
  Values,     \* what a field of a configuration can be
  Normal,     \* what normalizeDaemonProjectSpec makes of a field
  Actors,     \* principals that are signed in
  Previews,   \* one per preview request: the ids of the records
  Applies,    \* one per apply request
  None        \* no project, agent, scheduler or base hash

Field == Values \cup {None}
AgentSpec == [config : Values, scheduler : Field]
Specs == [variables : Values, agents : [Agents -> AgentSpec \cup {None}]]

ASSUME ProjectDeployAssumption ==
  /\ Normal \in [Values -> Values]
  /\ None \notin Previews \cup AgentSpec
  /\ None \notin [project : Projects, base : Specs \cup {None}, candidate : Specs]

AgentKinds == {"create_agent", "update_agent", "delete_agent"}
SchedulerKinds == {"create_scheduler", "update_scheduler", "delete_scheduler"}
Kinds == {"create_project_with_agent", "update_project_variables"} \cup AgentKinds \cup SchedulerKinds

\* What validateMutation lets through: value is the new variables, agent or
\* scheduler, env the agent's environment, which only a new scheduler carries.
Mutations == {m \in [kind : Kinds, agent : Agents, value : Values, env : Field] :
                m.kind \notin {"create_scheduler", "update_scheduler"} => m.env = None}

VARIABLES
  spec,       \* the daemon: spec[p], or None
  ppc,        \* preview request i: "idle", "loaded", "shown", "failed"
  editor,     \* what the editor i comes from has loaded, or None
  plan,       \* the request and the record made of it, or None
  stored,     \* the ids in h.previews
  used,       \* ... whose record is Used
  expired,    \* ... whose ExpiresAt has passed
  apc,        \* apply request a: "idle", "taken", "sent", "done"
  taken,      \* the id of the record a works on, or None
  inflight,   \* applies whose request is with the daemon
  held,       \* the keys of h.locks that are locked
  deployed    \* history: how many times the daemon carried i out

records  == <<stored, used, expired>>
applying == <<apc, taken, inflight>>
vars == <<spec, ppc, editor, plan, records, applying, held, deployed>>

Editors == [project : Projects, spec : Specs]

\* previewRecord, with the request it answers: draft is its BaseSpecHash (None
\* if not given), base the record's (None to create the project).
Plans == [project : Projects, actor : Actors, draft : Specs \cup {None}, change : Mutations,
          base : Specs \cup {None}, candidate : Specs]

Creates(m) == m.kind = "create_project_with_agent"

\* h.locks: a creation is previewed under its name, and applied under the id.
Keys == [key : {"id", "new"}, project : Projects]
PreviewKey(p, m) == [key |-> IF Creates(m) THEN "new" ELSE "id", project |-> p]
ApplyKey(p) == [key |-> "id", project |-> p]

TypeOK ==
  /\ spec \in [Projects -> Specs \cup {None}]
  /\ ppc \in [Previews -> {"idle", "loaded", "shown", "failed"}]
  /\ editor \in [Previews -> Editors \cup {None}]
  /\ plan \in [Previews -> Plans \cup {None}]
  /\ stored \subseteq Previews /\ used \subseteq stored /\ expired \subseteq Previews
  /\ apc \in [Applies -> {"idle", "taken", "sent", "done"}]
  /\ taken \in [Applies -> Previews \cup {None}]
  /\ inflight \subseteq Applies
  /\ held \subseteq Keys
  /\ deployed \in [Previews -> 0..1]

Init ==
  /\ spec \in [Projects -> Specs \cup {None}]
  /\ ppc = [i \in Previews |-> "idle"]
  /\ editor = [i \in Previews |-> None] /\ plan = [i \in Previews |-> None]
  /\ stored = {} /\ used = {} /\ expired = {}
  /\ apc = [a \in Applies |-> "idle"] /\ taken = [a \in Applies |-> None]
  /\ inflight = {} /\ held = {}
  /\ deployed = [i \in Previews |-> 0]
-------------------------------------------------------------------------------
(* Mutations *)

HasAgent(s, m) == s.agents[m.agent] # None
HasScheduler(s, m) == HasAgent(s, m) /\ s.agents[m.agent].scheduler # None

\* The checks preparePreview makes on the loaded configuration.
Applicable(s, m) ==
  CASE m.kind = "update_project_variables" -> TRUE
    [] m.kind = "create_agent" -> ~HasAgent(s, m)
    [] m.kind \in {"update_agent", "delete_agent"} -> HasAgent(s, m)
    [] m.kind = "create_scheduler" -> HasAgent(s, m) /\ ~HasScheduler(s, m)
    [] OTHER -> HasScheduler(s, m)

NewAgent(m) == [config |-> m.value, scheduler |-> None]

\* Mutant of PatchedAgent: the agent is built anew from the request.
ReplacedAgent(agent, m) == NewAgent(m)

\* patchAgentSpec: the editable fields are replaced, everything else is kept.
PatchedAgent(agent, m) == [agent EXCEPT !.config = m.value]

\* A scheduler is replaced as a whole; env, if given, replaces the agent's.
Scheduled(agent, m) == [config |-> IF m.env = None THEN agent.config ELSE m.env,
                        scheduler |-> m.value]

MutatedAgent(agent, m) ==
  CASE m.kind = "create_agent" -> NewAgent(m)
    [] m.kind = "update_agent" -> PatchedAgent(agent, m)
    [] m.kind = "delete_agent" -> None
    [] m.kind = "delete_scheduler" -> [agent EXCEPT !.scheduler = None]
    [] OTHER -> Scheduled(agent, m)

\* Mutant of Mutated: deleting an agent cuts the list off there.
MutatedCutOff(s, m) ==
  IF m.kind = "update_project_variables"
  THEN [s EXCEPT !.variables = m.value]
  ELSE [s EXCEPT !.agents = [g \in Agents |-> IF g = m.agent THEN MutatedAgent(s.agents[g], m)
                                              ELSE IF m.kind = "delete_agent" THEN None
                                              ELSE s.agents[g]]]

\* What the mutation makes of an existing project.
Mutated(s, m) ==
  IF m.kind = "update_project_variables"
  THEN [s EXCEPT !.variables = m.value]
  ELSE [s EXCEPT !.agents[m.agent] = MutatedAgent(@, m)]

\* The project that a creation begins with.
NewProject(m) == [variables |-> m.value,
                  agents |-> [g \in Agents |-> IF g = m.agent THEN NewAgent(m) ELSE None]]

\* normalizeDaemonProjectSpec: the driver and the scheduler of every agent, named or not,
\* are rewritten to what the daemon calls them today; the variables are left alone.
NormalAgent(agent) ==
  [config |-> Normal[agent.config],
   scheduler |-> IF agent.scheduler = None THEN None ELSE Normal[agent.scheduler]]
NormalSpec(s) ==
  [s EXCEPT !.agents = [g \in Agents |-> IF s.agents[g] = None THEN None ELSE NormalAgent(s.agents[g])]]

Candidate(s, m) == NormalSpec(IF Creates(m) THEN NewProject(m) ELSE Mutated(s, m))
-------------------------------------------------------------------------------
(* The daemon's other clients, and the editors *)

\* The configuration is changed, created or removed by somebody else.
EditTo(p, s) ==
  /\ spec' = [spec EXCEPT ![p] = s]
  /\ UNCHANGED <<ppc, editor, plan, records, applying, held, deployed>>
Edit(p) == \E s \in Specs \cup {None} : EditTo(p, s)

\* Projects.svelte has loaded the project a mutation will be based on.
OpenEditor(i, p) ==
  /\ ppc[i] = "idle" /\ spec[p] # None
  /\ editor' = [editor EXCEPT ![i] = [project |-> p, spec |-> spec[p]]]
  /\ UNCHANGED <<spec, ppc, plan, records, applying, held, deployed>>
-------------------------------------------------------------------------------
(* preview *)

\* BaseSpecHash, which the editor sends along.
Draft(i) == IF editor[i] = None THEN None ELSE editor[i].spec

\* Mutant of DraftIsCurrent: BaseSpecHash is ignored.
AnyDraft(i, p) == TRUE

\* The mutation was made for the configuration that is loaded now.
DraftIsCurrent(i, p) == Draft(i) \in {None, spec[p]}

\* projectNameExists for a creation, loadProject and the checks otherwise.
Preparable(i, p, m) ==
  IF Creates(m)
  THEN spec[p] = None
  ELSE spec[p] # None /\ DraftIsCurrent(i, p) /\ Applicable(spec[p], m)

\* preparePreview up to the dry run, under the lock.
Load(i, p, m, actor) ==
  /\ ppc[i] = "idle"
  /\ editor[i] # None => ~Creates(m) /\ p = editor[i].project
  /\ PreviewKey(p, m) \notin held
  /\ editor' = [editor EXCEPT ![i] = None]
  /\ \/ /\ Preparable(i, p, m)
        /\ plan' = [plan EXCEPT ![i] = [project |-> p, actor |-> actor, draft |-> Draft(i), change |-> m,
                                        base |-> spec[p], candidate |-> Candidate(spec[p], m)]]
        /\ ppc' = [ppc EXCEPT ![i] = "loaded"]
        /\ held' = held \cup {PreviewKey(p, m)}
     \/ /\ ppc' = [ppc EXCEPT ![i] = "failed"]
        /\ UNCHANGED <<plan, held>>
  /\ UNCHANGED <<spec, records, applying, deployed>>

\* A dry run that found no error and a change.
Deployable(r) == r.base \in {None, spec[r.project]} /\ r.candidate # r.base

\* The dry run of i, and storePreview, which sweeps the records, if it can be
\* deployed; otherwise there is no record and the id is of no use.
DryRun(i) ==
  /\ ppc[i] = "loaded"
  /\ held' = held \ {PreviewKey(plan[i].project, plan[i].change)}
  /\ \/ /\ Deployable(plan[i])
        /\ ppc' = [ppc EXCEPT ![i] = "shown"]
        /\ stored' = (stored \ (used \cup expired)) \cup {i}
        /\ used' = {}
        /\ UNCHANGED plan
     \/ /\ ppc' = [ppc EXCEPT ![i] = "failed"]
        /\ plan' = [plan EXCEPT ![i] = None]
        /\ UNCHANGED <<stored, used>>
  /\ UNCHANGED <<spec, editor, expired, applying, deployed>>

\* previewTTL passes for i.
Expire(i) ==
  /\ i \in stored \ expired
  /\ expired' = expired \cup {i}
  /\ UNCHANGED <<spec, ppc, editor, plan, stored, used, applying, held, deployed>>
-------------------------------------------------------------------------------
(* apply *)

\* Mutant of MarkUsed: the record stays as it was.
MarkNothing(i) == UNCHANGED used

MarkUsed(i) == used' = used \cup {i}

\* takePreview by an actor: a record is taken once, in time, by its owner.
Take(a, i, actor) ==
  /\ apc[a] = "idle" /\ ppc[i] = "shown"
  /\ IF i \in stored \ (used \cup expired)
     THEN /\ UNCHANGED stored
          /\ IF actor = plan[i].actor
             THEN /\ MarkUsed(i)
                  /\ apc' = [apc EXCEPT ![a] = "taken"]
                  /\ taken' = [taken EXCEPT ![a] = i]
             ELSE /\ apc' = [apc EXCEPT ![a] = "done"]
                  /\ UNCHANGED <<used, taken>>
     ELSE /\ stored' = stored \ {i} /\ used' = used \ {i}
          /\ apc' = [apc EXCEPT ![a] = "done"]
          /\ UNCHANGED taken
  /\ UNCHANGED <<spec, ppc, editor, plan, expired, inflight, held, deployed>>

\* The record a works on.
Record(a) == plan[taken[a]]

\* The lock, loadProject (or projectNameExists) and the check on it, and the
\* request to the daemon; or an answer 404, 409 or 502.
Check(a) ==
  /\ apc[a] = "taken"
  /\ ApplyKey(Record(a).project) \notin held
  /\ \/ /\ spec[Record(a).project] = Record(a).base
        /\ apc' = [apc EXCEPT ![a] = "sent"]
        /\ inflight' = inflight \cup {a}
        /\ held' = held \cup {ApplyKey(Record(a).project)}
     \/ /\ apc' = [apc EXCEPT ![a] = "done"]
        /\ UNCHANGED <<inflight, held>>
  /\ UNCHANGED <<spec, ppc, editor, plan, records, taken, deployed>>

\* Mutant of Accepts: expectedCurrentSpecHash is not sent.
AcceptsAny(r) == TRUE

\* PatchProject compares the current hash with expectedCurrentSpecHash;
\* ApplyProject, which creates, compares nothing.
Accepts(r) == r.base \in {None, spec[r.project]}

\* The daemon carries the request out, or rejects it.
DaemonDeploy(a) ==
  /\ a \in inflight
  /\ inflight' = inflight \ {a}
  /\ \/ /\ Accepts(Record(a))
        /\ spec' = [spec EXCEPT ![Record(a).project] = Record(a).candidate]
        /\ deployed' = [deployed EXCEPT ![taken[a]] = @ + 1]
     \/ UNCHANGED <<spec, deployed>>
  /\ UNCHANGED <<ppc, editor, plan, records, apc, taken, held>>

Unlock(a) == held \ {ApplyKey(Record(a).project)}

\* apply returns: the daemon has answered, backendRequestTimeout has passed, or
\* the client is gone.
Answer(a) ==
  /\ apc[a] = "sent"
  /\ apc' = [apc EXCEPT ![a] = "done"]
  /\ held' = Unlock(a)
  /\ UNCHANGED <<spec, ppc, editor, plan, records, taken, inflight, deployed>>
-------------------------------------------------------------------------------
Preview(i) ==
  \/ \E p \in Projects : OpenEditor(i, p)
  \/ \E p \in Projects, m \in Mutations, actor \in Actors : Load(i, p, m, actor)
  \/ DryRun(i) \/ Expire(i)

Apply(a) ==
  \/ \E i \in Previews, actor \in Actors : Take(a, i, actor)
  \/ Check(a) \/ DaemonDeploy(a) \/ Answer(a)

Next ==
  \/ \E p \in Projects : Edit(p)
  \/ \E i \in Previews : Preview(i)
  \/ \E a \in Applies : Apply(a)

Spec == Init /\ [][Next]_vars
-------------------------------------------------------------------------------
(* Properties *)

\* A lock is held exactly while one request is between its first daemon call
\* and its answer: no path leaks one, no two requests share one.
Inside == {<<"preview", i>> : i \in {j \in Previews : ppc[j] = "loaded"}}
          \cup {<<"apply", a>> : a \in {b \in Applies : apc[b] = "sent"}}
KeyOf(h) == IF h[1] = "preview" THEN PreviewKey(plan[h[2]].project, plan[h[2]].change)
            ELSE ApplyKey(Record(h[2]).project)
LocksMatch ==
  /\ held = {KeyOf(h) : h \in Inside}
  /\ \A g, h \in Inside : KeyOf(g) = KeyOf(h) => g = h

\* The daemon's view is that of ReviewedDeploys: what a preview has shown takes
\* effect at most once, exactly, and only on the configuration it was shown for.
Shown(i) ==
  IF ppc[i] # "shown" THEN None
  ELSE [project |-> plan[i].project, base |-> plan[i].base, candidate |-> plan[i].candidate]
Contract == INSTANCE ReviewedDeploys WITH reviewed <- [i \in Previews |-> Shown(i)]
ImplementsContract == Contract!Spec

CarriedOut(i) == deployed'[i] # deployed[i]

\* An edit made in an editor never overwrites anything the editor did not show:
\* between the page's load and the daemon's commit nothing else has changed.
NoLostUpdate ==
  [][\A i \in Previews : CarriedOut(i) /\ plan[i].draft # None
                         => spec[plan[i].project] = plan[i].draft]_vars

\* A deployment changes what its mutation names, and beside it nothing but the spelling of a
\* value: the other agents, and the scheduler of an agent that is edited, are what was there
\* in its normal form (handler.go:568, 698-730), the variables exactly what was there.
Kept(s, t, m) ==
  /\ m.kind # "update_project_variables" => s.variables = t.variables
  /\ \A g \in Agents : g # m.agent \/ m.kind = "update_project_variables" => s.agents[g] = t.agents[g]
  /\ m.kind = "update_agent" => s.agents[m.agent].scheduler = t.agents[m.agent].scheduler
  /\ m.kind \in SchedulerKinds /\ m.env = None => s.agents[m.agent].config = t.agents[m.agent].config
SiblingsKept ==
  [][\A i \in Previews : CarriedOut(i) /\ ~Creates(plan[i].change)
       => Kept(NormalSpec(spec[plan[i].project]), spec'[plan[i].project], plan[i].change)]_vars

\* "A project of this name exists already": a creation never replaces a project
\* that somebody else has created by then.
CreateReplacesNothing ==
  [][\A i \in Previews : CarriedOut(i) /\ Creates(plan[i].change)
                         => spec[plan[i].project] = None]_vars
===============================================================================
