--------------------------- MODULE ReviewedDeploys ---------------------------
(***************************************************************************)
(* What internal/projectdeploy promises, seen from the daemon: a reviewed  *)
(* change takes effect at most once, and a change to an existing project   *)
(* only on the configuration that was reviewed.  Requests, locks, expiry   *)
(* and editors are invisible here; ProjectDeploy implements this module.   *)
(***************************************************************************)
EXTENDS Naturals

CONSTANTS
  Projects,
  Previews,
  Specs,      \* the configurations a project can have
  None        \* no project, no review yet

VARIABLES
  spec,       \* spec[p]: the configuration the daemon holds
  reviewed,   \* reviewed[i]: what preview i showed, or None
  deployed    \* deployed[i]: how many times i took effect

contract == <<spec, reviewed, deployed>>

Reviews == [project : Projects, base : Specs \cup {None}, candidate : Specs]

Init ==
  /\ spec \in [Projects -> Specs \cup {None}]
  /\ reviewed = [i \in Previews |-> None]
  /\ deployed = [i \in Previews |-> 0]

\* Another client of the daemon changes, creates or removes a project.
Edit(p) ==
  /\ \E s \in Specs \cup {None} : spec' = [spec EXCEPT ![p] = s]
  /\ UNCHANGED <<reviewed, deployed>>

\* A preview is shown; what it shows never changes afterwards.
Review(i) ==
  /\ reviewed[i] = None
  /\ reviewed'[i] \in Reviews /\ reviewed'[i].base # reviewed'[i].candidate
  /\ reviewed' = [reviewed EXCEPT ![i] = reviewed'[i]]
  /\ UNCHANGED <<spec, deployed>>

\* The reviewed change takes effect.  A creation (base None) makes no promise
\* about what it finds under its name.
Deploy(i) ==
  /\ reviewed[i] # None /\ deployed[i] = 0
  /\ reviewed[i].base \in {None, spec[reviewed[i].project]}
  /\ spec' = [spec EXCEPT ![reviewed[i].project] = reviewed[i].candidate]
  /\ deployed' = [deployed EXCEPT ![i] = 1]
  /\ UNCHANGED reviewed

Next ==
  \/ \E p \in Projects : Edit(p)
  \/ \E i \in Previews : Review(i) \/ Deploy(i)

Spec == Init /\ [][Next]_contract
===============================================================================
