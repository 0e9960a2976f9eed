------------------------- MODULE ProjectDeployProofs -------------------------
(***************************************************************************)
(* ProjectDeploy keeps its safety properties, and implements               *)
(* ReviewedDeploys, for every number of projects, agents, values, actors   *)
(* and requests.                                                           *)
(***************************************************************************)
EXTENDS ProjectDeploy, TLAPS

(* The candidate *)

\* What a mutation makes of an agent is an agent, or none.
LEMMA MutatedAgentTyped ==
  ASSUME NEW s \in Specs, NEW m \in Mutations, Applicable(s, m), ~Creates(m),
         m.kind # "update_project_variables"
  PROVE  MutatedAgent(s.agents[m.agent], m) \in AgentSpec \cup {None}
<1> DEFINE agent == s.agents[m.agent]
<1>1. agent \in AgentSpec \cup {None}
  BY DEF Specs, Mutations
<1>2. m.value \in Values /\ m.env \in Values \cup {None} /\ m.kind \in Kinds
  BY DEF Mutations, Field
<1>3. CASE m.kind = "create_agent"
  BY <1>2, <1>3 DEF MutatedAgent, NewAgent, AgentSpec, Field
<1>4. CASE m.kind = "delete_agent"
  BY <1>4 DEF MutatedAgent
<1>5. CASE m.kind = "update_agent"
  <2>1. agent \in AgentSpec
    BY <1>1, <1>5 DEF Applicable, HasAgent
  <2> QED
    BY <1>2, <1>5, <2>1 DEF MutatedAgent, PatchedAgent, AgentSpec
<1>6. CASE m.kind \in SchedulerKinds
  <2>1. agent \in AgentSpec
    BY <1>1, <1>6 DEF Applicable, HasAgent, HasScheduler, SchedulerKinds
  <2>2. CASE m.kind = "delete_scheduler"
    BY <2>1, <2>2 DEF MutatedAgent, AgentSpec, Field
  <2>3. CASE m.kind # "delete_scheduler"
    BY <1>2, <1>6, <2>1, <2>3 DEF MutatedAgent, Scheduled, AgentSpec, Field, SchedulerKinds
  <2> QED
    BY <2>2, <2>3
<1> QED
  BY <1>2, <1>3, <1>4, <1>5, <1>6 DEF Kinds, AgentKinds, Creates

\* The normal form of a configuration is one, and has the same variables and agents.
LEMMA NormalTyped ==
  ASSUME NEW s \in Specs
  PROVE  /\ NormalSpec(s) \in Specs
         /\ NormalSpec(s).variables = s.variables
         /\ \A g \in Agents : NormalSpec(s).agents[g] =
              IF s.agents[g] = None THEN None ELSE NormalAgent(s.agents[g])
<1> DEFINE agents == [g \in Agents |-> IF s.agents[g] = None THEN None ELSE NormalAgent(s.agents[g])]
<1>1. ASSUME NEW a \in AgentSpec
      PROVE  NormalAgent(a) \in AgentSpec
  <2>1. Normal[a.config] \in Values /\ a.scheduler \in Values \cup {None}
    BY ProjectDeployAssumption DEF AgentSpec, Field
  <2>2. (IF a.scheduler = None THEN None ELSE Normal[a.scheduler]) \in Field
    BY <2>1, ProjectDeployAssumption DEF Field
  <2> QED
    BY <2>1, <2>2 DEF NormalAgent, AgentSpec
<1>2. agents \in [Agents -> AgentSpec \cup {None}]
  BY <1>1 DEF Specs
<1>3. NormalSpec(s) = [s EXCEPT !.agents = agents]
  BY DEF NormalSpec
<1> HIDE DEF agents
<1>4. NormalSpec(s) \in Specs /\ NormalSpec(s).variables = s.variables /\ NormalSpec(s).agents = agents
  BY <1>2, <1>3 DEF Specs
<1> QED
  BY <1>4 DEF agents

\* What a mutation makes of an existing project is a project.
LEMMA MutatedTyped ==
  ASSUME NEW s \in Specs, NEW m \in Mutations, ~Creates(m), Applicable(s, m)
  PROVE  Mutated(s, m) \in Specs
<1>1. m.value \in Values /\ m.agent \in Agents
  BY DEF Mutations
<1>2. CASE m.kind = "update_project_variables"
  BY <1>1, <1>2 DEF Mutated, Specs
<1>3. CASE m.kind # "update_project_variables"
  <2>1. MutatedAgent(s.agents[m.agent], m) \in AgentSpec \cup {None}
    BY <1>3, MutatedAgentTyped
  <2>2. Mutated(s, m) = [s EXCEPT !.agents = [s.agents EXCEPT ![m.agent] = MutatedAgent(s.agents[m.agent], m)]]
    BY <1>1, <1>3 DEF Mutated, Specs
  <2> HIDE DEF MutatedAgent
  <2> QED
    BY <2>1, <2>2 DEF Specs
<1> QED
  BY <1>2, <1>3

\* What becomes the candidate is a project.
LEMMA CandidateTyped ==
  ASSUME NEW s \in Specs \cup {None}, NEW m \in Mutations,
         ~Creates(m) => s # None /\ Applicable(s, m)
  PROVE  Candidate(s, m) \in Specs
<1>1. CASE Creates(m)
  <2>1. m.value \in Values
    BY DEF Mutations
  <2>2. NewAgent(m) \in AgentSpec
    BY <2>1 DEF NewAgent, AgentSpec, Field
  <2>3. NewProject(m) \in Specs
    BY <2>1, <2>2 DEF NewProject, Specs
  <2> QED
    BY <1>1, <2>3, NormalTyped DEF Candidate
<1>2. CASE ~Creates(m)
  BY <1>2, MutatedTyped, NormalTyped DEF Candidate
<1> QED
  BY <1>1, <1>2

\* A mutation changes what it names and nothing beside it.
LEMMA MutatedKeeps ==
  ASSUME NEW s \in Specs, NEW m \in Mutations, ~Creates(m), Applicable(s, m)
  PROVE  Kept(s, Mutated(s, m), m)
<1> DEFINE t == Mutated(s, m)
           agent == s.agents[m.agent]
<1>1. m.agent \in Agents /\ m.kind \in Kinds /\ agent \in AgentSpec \cup {None}
  BY DEF Mutations, Specs
<1>2. CASE m.kind = "update_project_variables"
  <2>1. t.agents = s.agents
    BY <1>2 DEF Mutated, Specs
  <2> QED
    BY <1>2, <2>1 DEF Kept, SchedulerKinds
<1>3. CASE m.kind # "update_project_variables"
  <2>1. t = [s EXCEPT !.agents = [s.agents EXCEPT ![m.agent] = MutatedAgent(agent, m)]]
    BY <1>3, <1>1 DEF Mutated, Specs
  <2>2. t.variables = s.variables
    BY <2>1 DEF Specs
  <2>3. /\ \A g \in Agents : g # m.agent => t.agents[g] = s.agents[g]
        /\ t.agents[m.agent] = MutatedAgent(agent, m)
    BY <1>1, <2>1 DEF Specs
  <2>4. ASSUME m.kind = "update_agent"
        PROVE  MutatedAgent(agent, m).scheduler = agent.scheduler
    <3>1. agent \in AgentSpec
      BY <1>1, <2>4 DEF Applicable, HasAgent
    <3> QED
      BY <2>4, <3>1 DEF MutatedAgent, PatchedAgent, AgentSpec
  <2>5. ASSUME m.kind \in SchedulerKinds, m.env = None
        PROVE  MutatedAgent(agent, m).config = agent.config
    <3>1. agent \in AgentSpec
      BY <1>1, <2>5 DEF Applicable, HasAgent, HasScheduler, SchedulerKinds
    <3> QED
      BY <2>5, <3>1 DEF MutatedAgent, Scheduled, AgentSpec, SchedulerKinds
  <2> QED
    BY <1>3, <2>2, <2>3, <2>4, <2>5 DEF Kept
<1> QED
  BY <1>2, <1>3
\* An agent that is edited, or whose scheduler is, is one before and after.
LEMMA EditedAgents ==
  ASSUME NEW s \in Specs, NEW m \in Mutations, ~Creates(m), Applicable(s, m),
         m.kind = "update_agent" \/ m.kind \in SchedulerKinds
  PROVE  s.agents[m.agent] \in AgentSpec /\ Mutated(s, m).agents[m.agent] \in AgentSpec
<1> DEFINE agent == s.agents[m.agent]
<1>1. m.agent \in Agents /\ m.value \in Values /\ m.env \in Values \cup {None}
      /\ agent \in AgentSpec \cup {None}
  BY DEF Mutations, Specs, Field
<1>2. agent \in AgentSpec
  BY <1>1 DEF Applicable, HasAgent, HasScheduler, SchedulerKinds
<1>3. MutatedAgent(agent, m) \in AgentSpec
  <2>1. CASE m.kind = "update_agent"
    BY <1>1, <1>2, <2>1 DEF MutatedAgent, PatchedAgent, AgentSpec
  <2>2. CASE m.kind = "delete_scheduler"
    BY <1>2, <2>2 DEF MutatedAgent, AgentSpec, Field
  <2>3. CASE m.kind \in SchedulerKinds \ {"delete_scheduler"}
    BY <1>1, <1>2, <2>3 DEF MutatedAgent, Scheduled, AgentSpec, Field, SchedulerKinds
  <2> QED
    BY <2>1, <2>2, <2>3
<1>4. Mutated(s, m).agents[m.agent] = MutatedAgent(agent, m)
  BY <1>1 DEF Mutated, Specs, SchedulerKinds
<1> QED
  BY <1>2, <1>3, <1>4

\* What is kept is kept by the normal forms.
LEMMA NormalKeeps ==
  ASSUME NEW s \in Specs, NEW t \in Specs, NEW m \in Mutations, Kept(s, t, m),
         m.kind = "update_agent" \/ m.kind \in SchedulerKinds
           => s.agents[m.agent] \in AgentSpec /\ t.agents[m.agent] \in AgentSpec
  PROVE  Kept(NormalSpec(s), NormalSpec(t), m)
<1> DEFINE u == NormalSpec(s)
           w == NormalSpec(t)
<1>1. /\ u.variables = s.variables /\ w.variables = t.variables
      /\ \A g \in Agents : s.agents[g] = t.agents[g] => u.agents[g] = w.agents[g]
  BY NormalTyped
<1>2. ASSUME m.kind = "update_agent" \/ m.kind \in SchedulerKinds
      PROVE  /\ u.agents[m.agent] = NormalAgent(s.agents[m.agent])
             /\ w.agents[m.agent] = NormalAgent(t.agents[m.agent])
  <2>1. m.agent \in Agents
    BY DEF Mutations
  <2>2. None \notin AgentSpec
    BY ProjectDeployAssumption
  <2> QED
    BY <1>2, <2>1, <2>2, NormalTyped
<1>3. m.kind = "update_agent" => u.agents[m.agent].scheduler = w.agents[m.agent].scheduler
  BY <1>2 DEF Kept, NormalAgent
<1>4. m.kind \in SchedulerKinds /\ m.env = None => u.agents[m.agent].config = w.agents[m.agent].config
  BY <1>2 DEF Kept, NormalAgent
<1> HIDE DEF u, w
<1>5. Kept(u, w, m)
  BY <1>1, <1>3, <1>4 DEF Kept
<1> QED
  BY <1>5 DEF u, w
-------------------------------------------------------------------------------
(* Previews and the applies that take them *)

\* What a record was made of: the mutation applied to its base, which is the
\* configuration the editor had loaded if there was one.
PlanInv ==
  \A i \in Previews :
    /\ ppc[i] \in {"loaded", "shown"} =>
         /\ plan[i] \in Plans
         /\ plan[i].draft \in {None, plan[i].base}
         /\ Creates(plan[i].change) => plan[i].base = None
         /\ ~Creates(plan[i].change) =>
              /\ plan[i].base # None /\ Applicable(plan[i].base, plan[i].change)
              /\ plan[i].candidate = NormalSpec(Mutated(plan[i].base, plan[i].change))
    /\ ppc[i] = "shown" => plan[i].candidate # plan[i].base

\* A record that was taken, or deployed, cannot be taken again.
Spent(i) == ppc[i] = "shown" /\ i \notin stored \ used

\* An apply that may still change the project.
Undecided(a) == apc[a] = "taken" \/ a \in inflight

\* A record has one apply at most, and it is deployed by that apply's end at
\* the latest.
TakeInv ==
  /\ \A a \in Applies :
       /\ apc[a] = "idle" => taken[a] = None
       /\ apc[a] \in {"taken", "sent"} \/ a \in inflight => taken[a] # None
       /\ a \in inflight => apc[a] # "taken"
       /\ taken[a] # None => Spent(taken[a])
       /\ Undecided(a) => deployed[taken[a]] = 0
  /\ \A a, b \in Applies : taken[a] = taken[b] => a = b \/ taken[a] = None
  /\ \A i \in Previews : deployed[i] # 0 => Spent(i)

\* The server starts without records and requests.
LEMMA DeployInit == Init => TypeOK /\ PlanInv /\ TakeInv
<1> SUFFICES ASSUME Init PROVE TypeOK /\ PlanInv /\ TakeInv
  OBVIOUS
<1>1. TypeOK
  BY DEF Init, TypeOK
<1>2. PlanInv
  BY DEF Init, PlanInv
<1>3. TakeInv
  BY ProjectDeployAssumption DEF Init, TakeInv, Undecided
<1> QED
  BY <1>1, <1>2, <1>3

\* An editor's base is none or the configuration loaded now.
LEMMA LoadedPlan ==
  ASSUME TypeOK, NEW i \in Previews, NEW p \in Projects, NEW m \in Mutations, NEW actor \in Actors,
         editor[i] # None => ~Creates(m) /\ p = editor[i].project,
         Preparable(i, p, m)
  PROVE  /\ [project |-> p, actor |-> actor, draft |-> Draft(i), change |-> m,
             base |-> spec[p], candidate |-> Candidate(spec[p], m)] \in Plans
         /\ Draft(i) \in {None, spec[p]}
         /\ Creates(m) => spec[p] = None
         /\ ~Creates(m) => /\ spec[p] # None /\ Applicable(spec[p], m)
                           /\ Candidate(spec[p], m) = NormalSpec(Mutated(spec[p], m))
<1>1. spec[p] \in Specs \cup {None}
  BY DEF TypeOK
<1>2. Draft(i) \in {None, spec[p]}
  BY DEF Preparable, DraftIsCurrent, Draft
<1>3. Creates(m) => spec[p] = None
  BY DEF Preparable
<1>4. ~Creates(m) => spec[p] # None /\ Applicable(spec[p], m)
  BY DEF Preparable
<1>5. Candidate(spec[p], m) \in Specs
  BY <1>1, <1>4, CandidateTyped
<1>6. ~Creates(m) => Candidate(spec[p], m) = NormalSpec(Mutated(spec[p], m))
  BY DEF Candidate
<1> QED
  BY <1>1, <1>2, <1>3, <1>4, <1>5, <1>6 DEF Plans

\* Every step keeps the types; a preview is deployed once at most because its
\* apply is undecided until then.
LEMMA TypeNext == TypeOK /\ PlanInv /\ TakeInv /\ [Next]_vars => TypeOK'
<1> SUFFICES ASSUME TypeOK, PlanInv, TakeInv, [Next]_vars PROVE TypeOK'
  OBVIOUS
<1>1. ASSUME NEW p \in Projects, Edit(p) PROVE TypeOK'
  BY <1>1 DEF Edit, EditTo, TypeOK, records, applying
<1>2. ASSUME NEW i \in Previews, NEW p \in Projects, OpenEditor(i, p) PROVE TypeOK'
  BY <1>2 DEF OpenEditor, TypeOK, records, applying, Editors
<1>3. ASSUME NEW i \in Previews, NEW p \in Projects, NEW m \in Mutations, NEW actor \in Actors,
             Load(i, p, m, actor)
      PROVE  TypeOK'
  <2>1. /\ UNCHANGED <<spec, records, applying, deployed>>
        /\ editor' = [editor EXCEPT ![i] = None]
        /\ editor[i] # None => ~Creates(m) /\ p = editor[i].project
    BY <1>3 DEF Load
  <2>2. PreviewKey(p, m) \in Keys
    BY DEF PreviewKey, Keys
  <2>3. ppc' \in [Previews -> {"idle", "loaded", "shown", "failed"}] /\ held' \subseteq Keys
    BY <1>3, <2>2 DEF Load, TypeOK
  <2>4. plan' \in [Previews -> Plans \cup {None}]
    <3>1. CASE UNCHANGED plan
      BY <3>1 DEF TypeOK
    <3>2. CASE /\ Preparable(i, p, m)
               /\ plan' = [plan EXCEPT ![i] =
                     [project |-> p, actor |-> actor, draft |-> Draft(i), change |-> m,
                      base |-> spec[p], candidate |-> Candidate(spec[p], m)]]
      <4>1. plan'[i] \in Plans
        BY <2>1, <3>2, LoadedPlan DEF TypeOK
      <4> QED
        BY <3>2, <4>1 DEF TypeOK
    <3> QED
      BY <1>3, <3>1, <3>2 DEF Load
  <2> QED
    BY <2>1, <2>3, <2>4 DEF TypeOK, records, applying
<1>4. ASSUME NEW i \in Previews, DryRun(i) PROVE TypeOK'
  BY <1>4 DEF DryRun, TypeOK, applying
<1>5. ASSUME NEW i \in Previews, Expire(i) PROVE TypeOK'
  BY <1>5 DEF Expire, TypeOK, applying
<1>6. ASSUME NEW a \in Applies, NEW i \in Previews, NEW actor \in Actors, Take(a, i, actor) PROVE TypeOK'
  BY <1>6 DEF Take, MarkUsed, TypeOK
<1>7. ASSUME NEW a \in Applies, Check(a) PROVE TypeOK'
  <2>1. ApplyKey(Record(a).project) \in Keys
    <3>1. taken[a] \in Previews /\ ppc[taken[a]] = "shown"
      BY <1>7 DEF Check, TakeInv, TypeOK, Spent
    <3>2. Record(a) \in Plans
      BY <3>1 DEF PlanInv, Record
    <3> QED
      BY <3>2 DEF ApplyKey, Keys, Plans
  <2> QED
    BY <1>7, <2>1 DEF Check, TypeOK, records
<1>8. ASSUME NEW a \in Applies, DaemonDeploy(a) PROVE TypeOK'
  <2>1. taken[a] \in Previews /\ ppc[taken[a]] = "shown" /\ deployed[taken[a]] = 0
    BY <1>8 DEF DaemonDeploy, TakeInv, TypeOK, Spent, Undecided
  <2>2. Record(a).candidate \in Specs
    BY <2>1 DEF PlanInv, Record, Plans
  <2>3. spec' \in [Projects -> Specs \cup {None}]
    BY <1>8, <2>2 DEF DaemonDeploy, TypeOK
  <2>4. deployed' \in [Previews -> 0..1]
    BY <1>8, <2>1 DEF DaemonDeploy, TypeOK
  <2> QED
    BY <1>8, <2>3, <2>4 DEF DaemonDeploy, TypeOK, records
<1>9. ASSUME NEW a \in Applies, Answer(a) PROVE TypeOK'
  BY <1>9 DEF Answer, Unlock, TypeOK, records
<1>10. CASE UNCHANGED vars
  BY <1>10 DEF vars, TypeOK, records, applying
<1> QED
  BY <1>1, <1>2, <1>3, <1>4, <1>5, <1>6, <1>7, <1>8, <1>9, <1>10 DEF Next, Preview, Apply

\* Every step keeps the records true to what they were made of.
LEMMA PlanNext == TypeOK /\ PlanInv /\ [Next]_vars => PlanInv'
<1> SUFFICES ASSUME TypeOK, PlanInv, [Next]_vars PROVE PlanInv'
  OBVIOUS
<1>1. ASSUME UNCHANGED <<ppc, plan>> PROVE PlanInv'
  BY <1>1 DEF PlanInv
<1>2. ASSUME NEW i \in Previews, NEW p \in Projects, NEW m \in Mutations, NEW actor \in Actors,
             Load(i, p, m, actor)
      PROVE  PlanInv'
  <2>1. CASE ppc' = [ppc EXCEPT ![i] = "failed"] /\ UNCHANGED plan
    BY <2>1 DEF PlanInv, TypeOK
  <2>2. CASE /\ Preparable(i, p, m)
             /\ plan' = [plan EXCEPT ![i] =
                   [project |-> p, actor |-> actor, draft |-> Draft(i), change |-> m,
                    base |-> spec[p], candidate |-> Candidate(spec[p], m)]]
             /\ ppc' = [ppc EXCEPT ![i] = "loaded"]
    <3>1. editor[i] # None => ~Creates(m) /\ p = editor[i].project
      BY <1>2 DEF Load
    <3>2. /\ plan'[i] \in Plans
          /\ plan'[i].draft \in {None, plan'[i].base}
          /\ Creates(plan'[i].change) => plan'[i].base = None
          /\ ~Creates(plan'[i].change) =>
               /\ plan'[i].base # None /\ Applicable(plan'[i].base, plan'[i].change)
               /\ plan'[i].candidate = NormalSpec(Mutated(plan'[i].base, plan'[i].change))
      BY <2>2, <3>1, LoadedPlan DEF TypeOK
    <3>3. \A j \in Previews : j # i => plan'[j] = plan[j] /\ ppc'[j] = ppc[j]
      BY <2>2 DEF TypeOK
    <3>4. ppc'[i] = "loaded"
      BY <2>2 DEF TypeOK
    <3> QED
      BY <3>2, <3>3, <3>4 DEF PlanInv
  <2> QED
    BY <1>2, <2>1, <2>2 DEF Load
<1>3. ASSUME NEW i \in Previews, DryRun(i) PROVE PlanInv'
  <2>1. CASE Deployable(plan[i]) /\ ppc' = [ppc EXCEPT ![i] = "shown"] /\ UNCHANGED plan
    BY <1>3, <2>1 DEF DryRun, Deployable, PlanInv, TypeOK
  <2>2. CASE ppc' = [ppc EXCEPT ![i] = "failed"] /\ plan' = [plan EXCEPT ![i] = None]
    <3>1. \A j \in Previews : j # i => plan'[j] = plan[j] /\ ppc'[j] = ppc[j]
      BY <2>2 DEF TypeOK
    <3>2. ppc'[i] = "failed"
      BY <2>2 DEF TypeOK
    <3> QED
      BY <3>1, <3>2 DEF PlanInv
  <2> QED
    BY <1>3, <2>1, <2>2 DEF DryRun
<1> QED
  BY <1>1, <1>2, <1>3
     DEF Next, Preview, Apply, Edit, EditTo, OpenEditor, Expire, Take, Check, DaemonDeploy, Answer, vars

\* No record is taken twice, and none is swept back into use.
LEMMA TakeNext == TypeOK /\ PlanInv /\ TakeInv /\ [Next]_vars => TakeInv'
<1> SUFFICES ASSUME TypeOK, PlanInv, TakeInv, [Next]_vars PROVE TakeInv'
  OBVIOUS
<1> USE ProjectDeployAssumption
<1>1. ASSUME UNCHANGED <<stored, used, apc, taken, inflight, deployed>>,
             \A i \in Previews : ppc[i] = "shown" => ppc'[i] = "shown"
      PROVE  TakeInv'
  BY <1>1 DEF TakeInv, Spent, Undecided, TypeOK
<1>2. ASSUME NEW i \in Previews, NEW p \in Projects, NEW m \in Mutations, NEW actor \in Actors,
             Load(i, p, m, actor)
      PROVE  TakeInv'
  BY <1>1, <1>2 DEF Load, TypeOK, records, applying
<1>3. ASSUME NEW i \in Previews, DryRun(i) PROVE TakeInv'
  <2>1. UNCHANGED <<apc, taken, inflight, deployed>> /\ ppc[i] = "loaded"
    BY <1>3 DEF DryRun, applying
  <2>2. \A j \in Previews : Spent(j) => ppc'[j] = "shown" /\ j \notin stored' \ used'
    BY <1>3 DEF DryRun, Spent, TypeOK
  <2>3. \A j \in Previews : Spent(j) => Spent(j)'
    BY <2>2 DEF Spent
  <2> QED
    BY <2>1, <2>3 DEF TakeInv, Undecided, TypeOK
<1>4. ASSUME NEW a \in Applies, NEW i \in Previews, NEW actor \in Actors, Take(a, i, actor) PROVE TakeInv'
  <2>1. UNCHANGED <<ppc, inflight, deployed>> /\ apc[a] = "idle" /\ ppc[i] = "shown"
    BY <1>4 DEF Take
  <2>2. \A j \in Previews : Spent(j) => Spent(j)'
    BY <1>4 DEF Take, MarkUsed, Spent
  <2>3. CASE apc' = [apc EXCEPT ![a] = "done"] /\ UNCHANGED taken
    BY <2>1, <2>2, <2>3 DEF TakeInv, Undecided, TypeOK
  <2>4. CASE /\ i \in stored \ used
             /\ stored' = stored /\ used' = used \cup {i}
             /\ apc' = [apc EXCEPT ![a] = "taken"]
             /\ taken' = [taken EXCEPT ![a] = i]
    <3>1. Spent(i)' /\ ~Spent(i)
      BY <2>1, <2>4 DEF Spent
    <3>2. deployed[i] = 0 /\ \A b \in Applies : taken[b] # i
      BY <3>1 DEF TakeInv
    <3>3. \A b \in Applies : b # a => taken'[b] = taken[b] /\ apc'[b] = apc[b]
      BY <2>4 DEF TypeOK
    <3>4. taken'[a] = i /\ apc'[a] = "taken" /\ a \notin inflight /\ taken[a] = None
      BY <2>1, <2>4 DEF TypeOK, TakeInv
    <3> QED
      BY <2>1, <2>2, <3>1, <3>2, <3>3, <3>4 DEF TakeInv, Undecided, TypeOK
  <2> QED
    BY <1>4, <2>3, <2>4 DEF Take, MarkUsed
<1>5. ASSUME NEW a \in Applies, Check(a) PROVE TakeInv'
  BY <1>5 DEF Check, TakeInv, Spent, Undecided, TypeOK, records
<1>6. ASSUME NEW a \in Applies, DaemonDeploy(a) PROVE TakeInv'
  <2>1. UNCHANGED <<ppc, stored, used, apc, taken>> /\ a \in inflight /\ inflight' = inflight \ {a}
    BY <1>6 DEF DaemonDeploy, records
  <2>2. taken[a] \in Previews /\ Spent(taken[a]) /\ apc[a] # "taken"
    BY <2>1 DEF TakeInv, TypeOK
  <2>3. \A j \in Previews : j # taken[a] => deployed'[j] = deployed[j]
    BY <1>6 DEF DaemonDeploy, TypeOK
  <2>4. \A b \in Applies : b # a /\ taken[b] # None => taken[b] # taken[a]
    BY DEF TakeInv
  <2>5. \A j \in Previews : Spent(j)' = Spent(j)
    BY <2>1 DEF Spent
  <2>6. \A b \in Applies : Undecided(b)' => b # a /\ Undecided(b)
    BY <2>1, <2>2 DEF Undecided
  <2>7. ASSUME NEW b \in Applies, Undecided(b)' PROVE deployed'[taken'[b]] = 0
    <3>1. taken[b] \in Previews /\ taken[b] # taken[a] /\ deployed[taken[b]] = 0
      BY <2>4, <2>6, <2>7 DEF TakeInv, Undecided, TypeOK
    <3> QED
      BY <2>1, <2>3, <3>1
  <2>8. \A j \in Previews : deployed'[j] # 0 => Spent(j)'
    BY <2>2, <2>3, <2>5 DEF TakeInv
  <2> QED
    BY <2>1, <2>5, <2>7, <2>8 DEF TakeInv, TypeOK
<1>7. ASSUME NEW a \in Applies, Answer(a) PROVE TakeInv'
  BY <1>7 DEF Answer, TakeInv, Spent, Undecided, TypeOK, records
<1> QED
  BY <1>1, <1>2, <1>3, <1>4, <1>5, <1>6, <1>7
     DEF Next, Preview, Apply, Edit, EditTo, OpenEditor, Expire, vars, records, applying

\* The three invariants together.
DeployInv == TypeOK /\ PlanInv /\ TakeInv

\* Types, records and takings are right throughout.
LEMMA DeployCorrect == Spec => []DeployInv
<1>1. Init => DeployInv
  BY DeployInit DEF DeployInv
<1>2. DeployInv /\ [Next]_vars => DeployInv'
  BY TypeNext, PlanNext, TakeNext DEF DeployInv
<1> QED
  BY <1>1, <1>2, PTL DEF Spec

\* Every variable keeps its type; in particular the daemon carries a preview
\* out once at most, however often it is applied.
THEOREM DeployTypeCorrect == Spec => []TypeOK
<1>1. DeployInv => TypeOK
  BY DEF DeployInv
<1> QED
  BY <1>1, DeployCorrect, PTL
-------------------------------------------------------------------------------
(* What a deployment does to the project *)

\* Only the daemon carries a preview out; it is the preview of an apply under
\* way, and what it asks for passes the daemon's precondition.
LEMMA CarriedOutBy ==
  ASSUME DeployInv, [Next]_vars, NEW i \in Previews, CarriedOut(i)
  PROVE  /\ ppc[i] = "shown" /\ plan[i] \in Plans /\ deployed[i] = 0
         /\ plan[i].base \in {None, spec[plan[i].project]}
         /\ spec' = [spec EXCEPT ![plan[i].project] = plan[i].candidate]
         /\ deployed' = [deployed EXCEPT ![i] = 1]
         /\ UNCHANGED <<ppc, plan>>
<1>1. PICK a \in Applies : DaemonDeploy(a)
  BY DEF CarriedOut, Next, Preview, Apply, Edit, EditTo, OpenEditor, Load, DryRun, Expire, Take, Check, Answer, vars
<1>2. /\ a \in inflight /\ Accepts(Record(a))
      /\ spec' = [spec EXCEPT ![Record(a).project] = Record(a).candidate]
      /\ deployed' = [deployed EXCEPT ![taken[a]] = @ + 1]
      /\ UNCHANGED <<ppc, plan>>
  BY <1>1 DEF DaemonDeploy, CarriedOut
<1>3. taken[a] \in Previews /\ ppc[taken[a]] = "shown" /\ deployed[taken[a]] = 0
  BY <1>2 DEF DeployInv, TakeInv, TypeOK, Spent, Undecided
<1>4. i = taken[a]
  BY <1>2 DEF CarriedOut, DeployInv, TypeOK
<1>5. plan[i] \in Plans
  BY <1>3, <1>4 DEF DeployInv, PlanInv
<1> QED
  BY <1>2, <1>3, <1>4, <1>5 DEF Record, Accepts

\* An edit made in an editor never overwrites anything the editor did not show.
THEOREM NothingOverwritten == Spec => NoLostUpdate
<1>1. ASSUME DeployInv, [Next]_vars, NEW i \in Previews, CarriedOut(i), plan[i].draft # None
      PROVE  spec[plan[i].project] = plan[i].draft
  <2>1. ppc[i] = "shown" /\ plan[i].base \in {None, spec[plan[i].project]}
    BY <1>1, CarriedOutBy
  <2>2. plan[i].draft \in {None, plan[i].base}
    BY <1>1, <2>1 DEF DeployInv, PlanInv
  <2> QED
    BY <1>1, <2>1, <2>2
<1>2. DeployInv /\ [Next]_vars
        => [\A i \in Previews : CarriedOut(i) /\ plan[i].draft # None
                                => spec[plan[i].project] = plan[i].draft]_vars
  BY <1>1
<1> QED
  BY <1>2, DeployCorrect, PTL DEF Spec, NoLostUpdate

\* A deployment changes what its mutation names and, beside it, brings the other agents into
\* their normal form and nothing else, for any set of agents and any values
\* (handler.go:497-568, 698-730).
THEOREM OnlyWhatIsNamed == Spec => SiblingsKept
<1>1. ASSUME DeployInv, [Next]_vars, NEW i \in Previews, CarriedOut(i), ~Creates(plan[i].change)
      PROVE  Kept(NormalSpec(spec[plan[i].project]), spec'[plan[i].project], plan[i].change)
  <2> DEFINE s == spec[plan[i].project]
             m == plan[i].change
  <2>1. /\ ppc[i] = "shown" /\ plan[i] \in Plans
        /\ plan[i].base \in {None, s}
        /\ spec' = [spec EXCEPT ![plan[i].project] = plan[i].candidate]
    BY <1>1, CarriedOutBy
  <2>2. plan[i].project \in Projects /\ m \in Mutations
    BY <2>1 DEF Plans
  <2>3. /\ s = plan[i].base /\ s # None /\ Applicable(s, m)
        /\ plan[i].candidate = NormalSpec(Mutated(s, m))
    BY <1>1, <2>1 DEF DeployInv, PlanInv
  <2>4. s \in Specs
    BY <2>2, <2>3, <1>1 DEF DeployInv, TypeOK
  <2>5. spec'[plan[i].project] = NormalSpec(Mutated(s, m))
    BY <2>1, <2>2, <2>3, <1>1 DEF DeployInv, TypeOK
  <2>6. Kept(s, Mutated(s, m), m) /\ Mutated(s, m) \in Specs
    BY <1>1, <2>2, <2>3, <2>4, MutatedKeeps, MutatedTyped
  <2>7. Kept(NormalSpec(s), NormalSpec(Mutated(s, m)), m)
    BY <1>1, <2>2, <2>3, <2>4, <2>6, NormalKeeps, EditedAgents
  <2> QED
    BY <2>5, <2>7
<1>2. DeployInv /\ [Next]_vars
        => [\A i \in Previews : CarriedOut(i) /\ ~Creates(plan[i].change)
              => Kept(NormalSpec(spec[plan[i].project]), spec'[plan[i].project], plan[i].change)]_vars
  BY <1>1
<1> QED
  BY <1>2, DeployCorrect, PTL DEF Spec, SiblingsKept
-------------------------------------------------------------------------------
(* ProjectDeploy implements ReviewedDeploys *)

\* What a preview shows is a review.
LEMMA ShownReview ==
  ASSUME NEW i \in Previews, ppc[i] = "shown", plan[i] \in Plans
  PROVE  /\ Shown(i) \in Contract!Reviews /\ Shown(i) # None
         /\ Shown(i).project = plan[i].project
         /\ Shown(i).base = plan[i].base /\ Shown(i).candidate = plan[i].candidate
<1>1. Shown(i) = [project |-> plan[i].project, base |-> plan[i].base, candidate |-> plan[i].candidate]
  BY DEF Shown
<1>2. Shown(i) \in Contract!Reviews
  BY <1>1 DEF Contract!Reviews, Plans
<1> QED
  BY <1>1, <1>2, ProjectDeployAssumption DEF Contract!Reviews

\* Nothing has been shown or deployed at first.
LEMMA ContractInit == Init => Contract!Init
<1> SUFFICES ASSUME Init PROVE Contract!Init
  OBVIOUS
<1>1. [i \in Previews |-> Shown(i)] = [i \in Previews |-> None]
  BY DEF Init, Shown
<1> QED
  BY <1>1 DEF Init, Contract!Init

\* A step is an edit by somebody, the end of a preview, the daemon's
\* deployment of a reviewed change, or invisible.
LEMMA ContractNext == DeployInv /\ DeployInv' /\ [Next]_vars => [Contract!Next]_(Contract!contract)
<1> SUFFICES ASSUME DeployInv, DeployInv', [Next]_vars PROVE [Contract!Next]_(Contract!contract)
  OBVIOUS
<1>1. ASSUME UNCHANGED <<spec, deployed>>, \A i \in Previews : Shown(i)' = Shown(i)
      PROVE  UNCHANGED Contract!contract
  BY <1>1 DEF Contract!contract
<1>2. ASSUME NEW p \in Projects, Edit(p) PROVE Contract!Next
  <2>1. UNCHANGED <<ppc, plan, deployed>>
    BY <1>2 DEF Edit, EditTo
  <2>2. [i \in Previews |-> Shown(i)]' = [i \in Previews |-> Shown(i)]
    BY <2>1 DEF Shown
  <2> QED
    BY <1>2, <2>1, <2>2 DEF Edit, EditTo, Contract!Next, Contract!Edit
<1>3. ASSUME NEW i \in Previews, NEW p \in Projects, NEW m \in Mutations, NEW actor \in Actors,
             Load(i, p, m, actor)
      PROVE  UNCHANGED Contract!contract
  <2>1. UNCHANGED <<spec, deployed>>
    BY <1>3 DEF Load
  <2>2. ppc[i] # "shown" /\ ppc'[i] # "shown"
    BY <1>3 DEF Load, DeployInv, TypeOK
  <2>3. \A j \in Previews : j # i => plan'[j] = plan[j] /\ ppc'[j] = ppc[j]
    BY <1>3 DEF Load, DeployInv, TypeOK
  <2> QED
    BY <1>1, <2>1, <2>2, <2>3 DEF Shown
<1>4. ASSUME NEW i \in Previews, DryRun(i) PROVE [Contract!Next]_(Contract!contract)
  <2>1. UNCHANGED <<spec, deployed>> /\ ppc[i] = "loaded"
    BY <1>4 DEF DryRun
  <2>2. \A j \in Previews : j # i => plan'[j] = plan[j] /\ ppc'[j] = ppc[j]
    BY <1>4 DEF DryRun, DeployInv, TypeOK
  <2>3. \A j \in Previews : j # i => Shown(j)' = Shown(j)
    BY <2>2 DEF Shown
  <2>4. Shown(i) = None
    BY <2>1 DEF Shown
  <2>5. CASE ppc'[i] = "shown"
    <3>1. plan'[i] \in Plans /\ plan'[i].candidate # plan'[i].base
      BY <2>5 DEF DeployInv, PlanInv
    <3>2. /\ Shown(i)' \in Contract!Reviews
          /\ Shown(i)'.base # Shown(i)'.candidate
      BY <2>5, <3>1 DEF Shown, Contract!Reviews, Plans
    <3>3. [j \in Previews |-> Shown(j)]' = [[j \in Previews |-> Shown(j)] EXCEPT ![i] = Shown(i)']
      BY <2>3
    <3>4. Contract!Review(i)
      BY <2>1, <2>4, <3>2, <3>3 DEF Contract!Review
    <3> QED
      BY <3>4 DEF Contract!Next
  <2>6. CASE ppc'[i] # "shown"
    <3>1. Shown(i)' = Shown(i)
      BY <2>4, <2>6 DEF Shown
    <3> QED
      BY <1>1, <2>1, <2>3, <3>1
  <2> QED
    BY <2>5, <2>6
<1>5. ASSUME NEW i \in Previews, CarriedOut(i) PROVE Contract!Next
  <2>1. /\ ppc[i] = "shown" /\ plan[i] \in Plans /\ deployed[i] = 0
        /\ plan[i].base \in {None, spec[plan[i].project]}
        /\ spec' = [spec EXCEPT ![plan[i].project] = plan[i].candidate]
        /\ deployed' = [deployed EXCEPT ![i] = 1]
        /\ UNCHANGED <<ppc, plan>>
    BY <1>5, CarriedOutBy
  <2>2. [j \in Previews |-> Shown(j)]' = [j \in Previews |-> Shown(j)]
    BY <2>1 DEF Shown
  <2>3. /\ Shown(i) # None /\ Shown(i).project = plan[i].project
        /\ Shown(i).base = plan[i].base /\ Shown(i).candidate = plan[i].candidate
    BY <2>1, ShownReview
  <2>4. Contract!Deploy(i)
    BY <2>1, <2>2, <2>3 DEF Contract!Deploy
  <2> QED
    BY <2>4 DEF Contract!Next
<1>6. ASSUME NEW a \in Applies, DaemonDeploy(a) PROVE [Contract!Next]_(Contract!contract)
  <2>1. UNCHANGED <<ppc, plan>>
    BY <1>6 DEF DaemonDeploy
  <2>2. CASE UNCHANGED <<spec, deployed>>
    BY <1>1, <2>1, <2>2 DEF Shown
  <2>3. CASE deployed' = [deployed EXCEPT ![taken[a]] = @ + 1]
    <3>1. taken[a] \in Previews /\ deployed[taken[a]] = 0
      BY <1>6 DEF DaemonDeploy, DeployInv, TakeInv, TypeOK, Undecided
    <3>2. CarriedOut(taken[a])
      BY <2>3, <3>1 DEF CarriedOut, DeployInv, TypeOK
    <3> QED
      BY <1>5, <3>1, <3>2
  <2> QED
    BY <1>6, <2>2, <2>3 DEF DaemonDeploy
<1>7. CASE UNCHANGED <<spec, ppc, plan, deployed>>
  BY <1>1, <1>7 DEF Shown
<1> QED
  BY <1>2, <1>3, <1>4, <1>6, <1>7
     DEF Next, Preview, Apply, OpenEditor, Expire, Take, Check, Answer, vars

\* The daemon sees what ReviewedDeploys allows: what was reviewed takes effect
\* at most once, exactly, and only on the configuration it was reviewed for.
THEOREM DeployImplementsContract == Spec => ImplementsContract
<1>1. DeployInv /\ DeployInv' /\ [Next]_vars => [Contract!Next]_(Contract!contract)
  BY ContractNext
<1> QED
  BY <1>1, ContractInit, DeployCorrect, PTL DEF Spec, ImplementsContract, Contract!Spec
-------------------------------------------------------------------------------
(* The locks *)

PKey(i) == PreviewKey(plan[i].project, plan[i].change)
AKey(a) == ApplyKey(Record(a).project)

\* LocksMatch, request by request: who is inside holds a key, every key has a
\* holder, and no two holders have the same key.
LockInv ==
  /\ \A i \in Previews : ppc[i] = "loaded" => PKey(i) \in held
  /\ \A a \in Applies : apc[a] = "sent" => AKey(a) \in held
  /\ \A k \in held : \/ \E i \in Previews : ppc[i] = "loaded" /\ k = PKey(i)
                     \/ \E a \in Applies : apc[a] = "sent" /\ k = AKey(a)
  /\ \A i, j \in Previews : ppc[i] = "loaded" /\ ppc[j] = "loaded" /\ PKey(i) = PKey(j) => i = j
  /\ \A a, b \in Applies : apc[a] = "sent" /\ apc[b] = "sent" /\ AKey(a) = AKey(b) => a = b
  /\ \A i \in Previews, a \in Applies : ~(ppc[i] = "loaded" /\ apc[a] = "sent" /\ PKey(i) = AKey(a))

\* The two ways to say it agree.
LEMMA LocksMatchIf == LockInv => LocksMatch
<1> SUFFICES ASSUME LockInv PROVE LocksMatch
  OBVIOUS
<1>1. ASSUME NEW h \in Inside
      PROVE  \/ \E i \in Previews : ppc[i] = "loaded" /\ h = <<"preview", i>> /\ KeyOf(h) = PKey(i)
             \/ \E a \in Applies : apc[a] = "sent" /\ h = <<"apply", a>> /\ KeyOf(h) = AKey(a)
  BY DEF Inside, KeyOf, PKey, AKey
<1>2. \A i \in Previews : ppc[i] = "loaded" => <<"preview", i>> \in Inside /\ KeyOf(<<"preview", i>>) = PKey(i)
  BY DEF Inside, KeyOf, PKey
<1>3. \A a \in Applies : apc[a] = "sent" => <<"apply", a>> \in Inside /\ KeyOf(<<"apply", a>>) = AKey(a)
  BY DEF Inside, KeyOf, AKey
<1>4. held = {KeyOf(h) : h \in Inside}
  <2>1. ASSUME NEW h \in Inside PROVE KeyOf(h) \in held
    BY <1>1 DEF LockInv
  <2>2. ASSUME NEW k \in held PROVE \E h \in Inside : k = KeyOf(h)
    <3>1. CASE \E i \in Previews : ppc[i] = "loaded" /\ k = PKey(i)
      <4>1. PICK i \in Previews : ppc[i] = "loaded" /\ k = PKey(i)
        BY <3>1
      <4>2. <<"preview", i>> \in Inside /\ KeyOf(<<"preview", i>>) = k
        BY <1>2, <4>1
      <4> QED
        BY <4>2
    <3>2. CASE \E a \in Applies : apc[a] = "sent" /\ k = AKey(a)
      <4>1. PICK a \in Applies : apc[a] = "sent" /\ k = AKey(a)
        BY <3>2
      <4>2. <<"apply", a>> \in Inside /\ KeyOf(<<"apply", a>>) = k
        BY <1>3, <4>1
      <4> QED
        BY <4>2
    <3> QED
      BY <3>1, <3>2 DEF LockInv
  <2> QED
    BY <2>1, <2>2
<1>5. ASSUME NEW g \in Inside, NEW h \in Inside, KeyOf(g) = KeyOf(h) PROVE g = h
  BY <1>1, <1>5 DEF LockInv
<1> QED
  BY <1>4, <1>5 DEF LocksMatch

\* A step that neither enters nor leaves a lock leaves the locks right.
LEMMA LocksElsewhere ==
  ASSUME LockInv, UNCHANGED held,
         \A i \in Previews : (ppc'[i] = "loaded") = (ppc[i] = "loaded"),
         \A i \in Previews : ppc[i] = "loaded" => PKey(i)' = PKey(i),
         \A a \in Applies : (apc'[a] = "sent") = (apc[a] = "sent"),
         \A a \in Applies : apc[a] = "sent" => AKey(a)' = AKey(a)
  PROVE  LockInv'
BY DEF LockInv

\* The lock of an apply is that of its record, which no other step changes.
LEMMA KeptKeys ==
  ASSUME DeployInv, NEW a \in Applies, apc[a] = "sent", NEW i \in Previews, ppc[i] # "shown"
  PROVE  taken[a] \in Previews /\ taken[a] # i
BY DEF DeployInv, TypeOK, TakeInv, Spent

\* Every step takes and releases the locks it should.
LEMMA LocksNext == DeployInv /\ LockInv /\ [Next]_vars => LockInv'
<1> SUFFICES ASSUME DeployInv, LockInv, [Next]_vars PROVE LockInv'
  OBVIOUS
<1>1. ASSUME UNCHANGED <<ppc, plan, apc, taken, held>> PROVE LockInv'
  BY <1>1, LocksElsewhere DEF PKey, AKey, Record
<1>2. ASSUME NEW i \in Previews, NEW p \in Projects, NEW m \in Mutations, NEW actor \in Actors,
             Load(i, p, m, actor)
      PROVE  LockInv'
  <2>1. ppc[i] = "idle" /\ UNCHANGED <<apc, taken>>
    BY <1>2 DEF Load, applying
  <2>2. \A j \in Previews : j # i => ppc'[j] = ppc[j] /\ plan'[j] = plan[j]
    BY <1>2 DEF Load, DeployInv, TypeOK
  <2>3. \A j \in Previews : j # i => PKey(j)' = PKey(j)
    BY <2>2 DEF PKey
  <2>4. \A a \in Applies : apc[a] = "sent" => AKey(a)' = AKey(a)
    BY <2>1, <2>2, KeptKeys DEF AKey, Record
  <2>5. CASE ppc'[i] = "failed" /\ UNCHANGED held
    BY <2>1, <2>2, <2>3, <2>4, <2>5, LocksElsewhere
  <2>6. CASE ppc'[i] = "loaded" /\ PKey(i)' = PreviewKey(p, m) /\ held' = held \cup {PreviewKey(p, m)}
    <3>1. PKey(i)' \notin held
      BY <1>2, <2>6 DEF Load
    <3> QED
      BY <2>1, <2>2, <2>3, <2>4, <2>6, <3>1 DEF LockInv
  <2>7. \/ ppc'[i] = "failed" /\ UNCHANGED held
        \/ ppc'[i] = "loaded" /\ PKey(i)' = PreviewKey(p, m) /\ held' = held \cup {PreviewKey(p, m)}
    BY <1>2 DEF Load, PKey, DeployInv, TypeOK
  <2> QED
    BY <2>5, <2>6, <2>7
<1>3. ASSUME NEW i \in Previews, DryRun(i) PROVE LockInv'
  <2>1. /\ ppc[i] = "loaded" /\ held' = held \ {PKey(i)} /\ UNCHANGED <<apc, taken>>
        /\ ppc'[i] # "loaded"
    BY <1>3 DEF DryRun, PKey, applying, DeployInv, TypeOK
  <2>2. \A j \in Previews : j # i => ppc'[j] = ppc[j] /\ plan'[j] = plan[j]
    BY <1>3 DEF DryRun, DeployInv, TypeOK
  <2>3. \A j \in Previews : j # i => PKey(j)' = PKey(j)
    BY <2>2 DEF PKey
  <2>4. \A a \in Applies : apc[a] = "sent" => AKey(a)' = AKey(a)
    BY <2>1, <2>2, KeptKeys DEF AKey, Record
  <2> QED
    BY <2>1, <2>2, <2>3, <2>4 DEF LockInv
<1>4. ASSUME NEW a \in Applies, NEW i \in Previews, NEW actor \in Actors, Take(a, i, actor) PROVE LockInv'
  <2>1. UNCHANGED <<ppc, plan, held>> /\ apc[a] = "idle" /\ apc'[a] # "sent"
    BY <1>4 DEF Take, DeployInv, TypeOK
  <2>2. \A b \in Applies : b # a => apc'[b] = apc[b] /\ taken'[b] = taken[b]
    BY <1>4 DEF Take, DeployInv, TypeOK
  <2>3. \A b \in Applies : b # a => AKey(b)' = AKey(b)
    BY <2>1, <2>2 DEF AKey, Record
  <2>4. \A j \in Previews : PKey(j)' = PKey(j)
    BY <2>1 DEF PKey
  <2> QED
    BY <2>1, <2>2, <2>3, <2>4, LocksElsewhere
<1>5. ASSUME NEW a \in Applies, Check(a) PROVE LockInv'
  <2>1. UNCHANGED <<ppc, plan, taken>> /\ apc[a] = "taken"
    BY <1>5 DEF Check
  <2>2. \A b \in Applies : b # a => apc'[b] = apc[b]
    BY <1>5 DEF Check, DeployInv, TypeOK
  <2>3. /\ \A b \in Applies : AKey(b)' = AKey(b)
        /\ \A j \in Previews : PKey(j)' = PKey(j)
    BY <2>1 DEF AKey, PKey, Record
  <2>4. CASE apc'[a] = "done" /\ UNCHANGED held
    BY <2>1, <2>2, <2>3, <2>4, LocksElsewhere
  <2>5. CASE apc'[a] = "sent" /\ AKey(a) \notin held /\ held' = held \cup {AKey(a)}
    BY <2>1, <2>2, <2>3, <2>5 DEF LockInv
  <2> QED
    BY <1>5, <2>4, <2>5 DEF Check, AKey, DeployInv, TypeOK
<1>6. ASSUME NEW a \in Applies, Answer(a) PROVE LockInv'
  <2>1. /\ UNCHANGED <<ppc, plan, taken>> /\ apc[a] = "sent" /\ apc'[a] = "done"
        /\ held' = held \ {AKey(a)}
    BY <1>6 DEF Answer, Unlock, AKey, DeployInv, TypeOK
  <2>2. \A b \in Applies : b # a => apc'[b] = apc[b]
    BY <1>6 DEF Answer, DeployInv, TypeOK
  <2>3. /\ \A b \in Applies : AKey(b)' = AKey(b)
        /\ \A j \in Previews : PKey(j)' = PKey(j)
    BY <2>1 DEF AKey, PKey, Record
  <2> QED
    BY <2>1, <2>2, <2>3 DEF LockInv
<1> QED
  BY <1>1, <1>2, <1>3, <1>4, <1>5, <1>6
     DEF Next, Preview, Apply, Edit, EditTo, OpenEditor, Expire, DaemonDeploy, vars, applying

\* A lock is held exactly while one request is between its first daemon call and
\* its answer: none is leaked, and no two requests hold the same.
THEOREM LocksAreRight == Spec => []LocksMatch
<1>1. Init => LockInv
  BY DEF Init, LockInv
<1>2. DeployInv /\ LockInv /\ [Next]_vars => LockInv'
  BY LocksNext
<1> QED
  BY <1>1, <1>2, LocksMatchIf, DeployCorrect, PTL DEF Spec
===============================================================================
