---------------------------- MODULE Administration ----------------------------
(***************************************************************************)
(* What the administration of the cemeteries does: financial control       *)
(* records, delinquency records and the grounds, in one process that stops *)
(* and starts again.                                                       *)
(*                                                                         *)
(* Bounds: one behaviour plays one scene, which says how many requests of  *)
(* each kind come in, how often the process starts again and which         *)
(* assignees come and go.                                                  *)
(***************************************************************************)
EXTENDS Defaulters, Grounds

CONSTANTS
  Scene,
  Limit        \* Scene -> how many requests about plans, records, grounds,
               \* how many restarts, and the ids assignees may have

ASSUME LimitAssumption ==
  Limit \in [Scene -> [plans : Nat, records : Nat, grounds : Nat,
                      restarts : Nat, ids : SUBSET Id]]

VARIABLE scene

administrationVars == <<vars, recordsVars, groundsVars, scene>>

Asked ==
  /\ Cardinality({ r \in Request : req[r].pc # "idle" }) <= Limit[scene].plans
  /\ Cardinality({ c \in Call : call[c].pc # "idle" }) <= Limit[scene].records
  /\ Cardinality({ t \in Task : job[t].pc # "idle" }) <= Limit[scene].grounds
  /\ restarts <= Limit[scene].restarts

NobodyElse == \A a \in Id \ Limit[scene].ids : assignees[a] = "absent"

AdministrationInit ==
  /\ Init
  /\ RecordsInit
  /\ GroundsInit
  /\ scene \in Scene
  /\ NobodyElse

\* The process stops and starts again, with none of its requests.
ProcessRestarts ==
  /\ Restart
  /\ call' = CallsAfterStop
  /\ job' = JobsAfterStop
  /\ UNCHANGED <<assignees, records, graveyards, squares, valts, drawers,
                 crowded>>

AdministrationNext ==
  /\ UNCHANGED scene
  /\ \/ RecordsNext /\ UNCHANGED groundsVars
     \/ GroundsNext /\ UNCHANGED <<vars, recordsVars>>
     \/ ProcessRestarts
  /\ Asked' /\ NobodyElse'

AdministrationSpec ==
  AdministrationInit /\ [][AdministrationNext]_administrationVars

===============================================================================
