--------------------------- MODULE MCProjectDeploy ---------------------------
(***************************************************************************)
(* Small instances of ProjectDeploy for TLC.  A behaviour is of one kind,  *)
(* which mode names, and each kind is as large as its question needs:      *)
(*   "edits"     one agent, one preview and one apply, while other         *)
(*               clients interfere;                                        *)
(*   "siblings"  two agents, one preview and one apply, nobody else;       *)
(*   "race"      one agent, two previews, from no editor, and two applies  *)
(*               of configurations that differ in what there is of them    *)
(*               only.                                                     *)
(***************************************************************************)
EXTENDS ProjectDeploy, FiniteSets, TLC

CONSTANTS new, old, worker, alice

VARIABLE mode

\* The daemon calls the value old new today.
NormalDef == [v \in Values |-> IF v = old THEN new ELSE v]

\* Bound: the configurations and the changes that are about in each kind.
WorkerOnly == {s \in Specs : \A g \in Agents \ {worker} : s.agents[g] = None}
SpecsOf ==
  [edits    |-> {s \in WorkerOnly : s.agents[worker] # None => s.agents[worker].scheduler # old},
   siblings |-> Specs,
   race     |-> {s \in WorkerOnly :
                   /\ s.variables = new
                   /\ s.agents[worker] # None => /\ s.agents[worker].config = new
                                                 /\ s.agents[worker].scheduler # old}]
ChangesOf ==
  [edits    |-> {m \in Mutations : m.agent = worker /\ m.env # old},
   siblings |-> Mutations,
   race     |-> {m \in Mutations : m.agent = worker /\ m.value = new /\ m.env = None}]

\* Bound: the requests that are about.
Begun == {i \in Previews : ppc[i] # "idle" \/ editor[i] # None}
Few ==
  /\ mode # "race" => Cardinality(Begun) <= 1 /\ Cardinality({a \in Applies : apc[a] # "idle"}) <= 1
  /\ mode = "race" => \A i \in Previews : plan[i] # None => plan[i].candidate # plan[i].base

MCInit == /\ mode \in {"edits", "siblings", "race"}
          /\ Init
          /\ \A p \in Projects : spec[p] \in SpecsOf[mode] \cup {None}
MCNext ==
  /\ \/ /\ mode # "siblings"
        /\ \/ \E p \in Projects, s \in SpecsOf[mode] \cup {None} : EditTo(p, s)
           \/ \E i \in Previews : Expire(i)
     \/ mode # "race" /\ \E i \in Previews, p \in Projects : OpenEditor(i, p)
     \/ \E i \in Previews, p \in Projects, m \in ChangesOf[mode] : Load(i, p, m, alice)
     \/ \E i \in Previews : DryRun(i)
     \/ \E a \in Applies : Apply(a)
  /\ UNCHANGED mode /\ Few'
MCSpec == MCInit /\ [][MCNext]_<<vars, mode>>

Symmetry == Permutations(Previews) \cup Permutations(Applies)
===============================================================================
