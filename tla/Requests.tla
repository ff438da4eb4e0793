------------------------------- MODULE Requests -------------------------------
(***************************************************************************)
(* The bound of the models of the office: an element of Task is one        *)
(* request, numbered as they come, and a behaviour plays one of the        *)
(* scenes: what is on file at first, and the most requests of each kind.   *)
(* A request that is refused before it changes anything or waits for       *)
(* anything is no request here.                                            *)
(***************************************************************************)
EXTENDS Integers, FiniteSets

Kind == {"contract", "promotion", "local", "return", "maintenance",
         "memorial", "grant", "tribute", "funeral", "remove", "update"}

CONSTANTS
  Task,    \* requests; also the ids, tokens and custom ids they draw
  NoTask,
  Scene,   \* the scenes
  Asked    \* scene -> the most requests of each kind

ASSUME RequestAssumption == Task \subseteq Nat /\ NoTask \notin Task
ASSUME AskedAssumption == Asked \in [Scene -> [Kind -> Nat]]

VARIABLES
  kind,    \* Task -> what the request is about
  scene    \* the scene of this behaviour

requestVars == <<kind, scene>>

RequestsTypeOK ==
  /\ kind \in [Task -> Kind \cup {"none"}]
  /\ scene \in Scene

RequestsInit ==
  /\ kind = [t \in Task |-> "none"]
  /\ scene \in Scene

\* The next request may be one about k.
Due(t, k) ==
  /\ kind[t] = "none"
  /\ Asked[scene][k] > 0
  /\ \A s \in Task : s < t => kind[s] # "none"
  /\ Cardinality({ s \in Task : kind[s] = k }) < Asked[scene][k]

Take(t, k) ==
  /\ Due(t, k)
  /\ kind' = [kind EXCEPT ![t] = k]
  /\ UNCHANGED scene

===============================================================================
