----------------------------- MODULE BurialProofs -----------------------------
(***************************************************************************)
(* Proofs about Burial, for any sets of vaults, drawers, deceased and      *)
(* requests.                                                               *)
(***************************************************************************)
EXTENDS Burial, TLAPS

TaskRecord == [pc     : Pc,
               op     : {"none", "add", "clear", "bury", "exhume"},
               valt   : Valt \cup {NoValt},
               drawer : Drawer \cup {NoDrawer},
               who    : Deceased \cup {NoOne}]

\* A request knows what it is about.
RequestsNamed ==
  \A t \in Task :
    /\ task[t].op \in {"bury", "exhume"} => /\ task[t].drawer \in Drawer
                                           /\ task[t].who \in Deceased
    /\ task[t].op \in {"add", "clear"} => task[t].valt \in Valt

\* Only an exhumation that went on adds a row, before it frees the drawer.
RecordedFirst ==
  \A t \in Task :
    /\ t \in recorded => task[t].op = "exhume" /\ task[t].pc # "idle"
    /\ At(t, "exhume", "free") => t \in recorded

TypeInv == TypeOK /\ RequestsNamed /\ RecordedFirst

\* The names of one request, and of all others, stay.
SameRequest(s) == /\ task'[s].op = task[s].op
                  /\ task'[s].drawer = task[s].drawer
                  /\ task'[s].who = task[s].who
                  /\ task'[s].valt = task[s].valt

\* A request that goes on changes its place and nothing else.
LEMMA GoEffect ==
  ASSUME TypeOK, NEW t \in Task, NEW pc \in Pc, Go(t, pc)
  PROVE  /\ task' \in [Task -> TaskRecord]
         /\ \A s \in Task : SameRequest(s) /\ (s # t => task'[s] = task[s])
         /\ task'[t].pc = pc
<1>1. task \in [Task -> TaskRecord]
  BY DEF TypeOK, TaskRecord
<1>2. task' = [task EXCEPT ![t].pc = pc]
  BY DEF Go
<1>3. task[t] \in TaskRecord
  BY <1>1
<1>4. task'[t] = [task[t] EXCEPT !.pc = pc]
  BY <1>1, <1>2
<1>5. /\ task'[t] \in TaskRecord
      /\ task'[t].pc = pc
      /\ SameRequest(t)
  BY <1>3, <1>4 DEF TaskRecord, SameRequest
<1>6. \A s \in Task : s # t => task'[s] = task[s]
  BY <1>1, <1>2
<1>7. task' \in [Task -> TaskRecord]
  BY <1>1, <1>2, <1>3, <1>5 DEF TaskRecord
<1> QED BY <1>5, <1>6, <1>7 DEF SameRequest

\* A request that begins is what it is given, and was nothing before.
LEMMA BeginEffect ==
  ASSUME TypeOK, NEW t \in Task,
         NEW op \in {"none", "add", "clear", "bury", "exhume"},
         NEW v \in Valt \cup {NoValt}, NEW x \in Drawer \cup {NoDrawer},
         NEW d \in Deceased \cup {NoOne}, NEW pc \in Pc,
         Begin(t, op, v, x, d, pc)
  PROVE  /\ task' \in [Task -> TaskRecord]
         /\ \A s \in Task : s # t => task'[s] = task[s]
         /\ task'[t] = [pc |-> pc, op |-> op, valt |-> v, drawer |-> x,
                        who |-> d]
<1>1. task \in [Task -> TaskRecord]
  BY DEF TypeOK, TaskRecord
<1> DEFINE r == [pc |-> pc, op |-> op, valt |-> v, drawer |-> x, who |-> d]
<1>2. r \in TaskRecord
  BY DEF TaskRecord
<1>3. task' = [task EXCEPT ![t] = r]
  BY DEF Begin
<1> HIDE DEF r
<1>4. /\ task' \in [Task -> TaskRecord]
      /\ \A s \in Task : s # t => task'[s] = task[s]
      /\ task'[t] = r
  BY <1>1, <1>2, <1>3
<1> QED BY <1>4 DEF r

\* A crash changes the place of requests and nothing else.
LEMMA CrashEffect ==
  ASSUME TypeOK, Crash
  PROVE  /\ task' \in [Task -> TaskRecord]
         /\ \A s \in Task : /\ SameRequest(s)
                            /\ task'[s].pc = "failed" \/ task'[s] = task[s]
<1>1. task \in [Task -> TaskRecord]
  BY DEF TypeOK, TaskRecord
<1>2. \A s \in Task : /\ task'[s] \in TaskRecord
                      /\ SameRequest(s)
                      /\ task'[s].pc = "failed" \/ task'[s] = task[s]
  <2> TAKE s \in Task
  <2>1. task'[s] = IF task[s].pc \in {"idle", "done", "failed"} THEN task[s]
                   ELSE [task[s] EXCEPT !.pc = "failed"]
    BY DEF Crash
  <2>2. task[s] \in TaskRecord
    BY <1>1
  <2> QED BY <2>1, <2>2 DEF TaskRecord, Pc, SameRequest
<1>3. task' = [s \in Task |-> task'[s]]
  BY DEF Crash
<1> QED BY <1>2, <1>3

\* What a step of the requests must keep for RequestsNamed and RecordedFirst.
LEMMA KeptByGoing ==
  ASSUME TypeInv, NEW t \in Task, NEW pc \in Pc \ {"idle"}, Go(t, pc),
         recorded' \subseteq recorded \cup {t},
         recorded \subseteq recorded',
         t \in recorded' \ recorded => task[t].op = "exhume",
         task[t].op = "exhume" /\ pc = "free" => t \in recorded'
  PROVE  RequestsNamed' /\ RecordedFirst'
<1>1. /\ \A s \in Task : SameRequest(s) /\ (s # t => task'[s] = task[s])
      /\ task'[t].pc = pc
  BY GoEffect DEF TypeInv
<1>2. RequestsNamed'
  BY <1>1 DEF TypeInv, RequestsNamed, SameRequest
<1>3. RecordedFirst'
  <2> SUFFICES ASSUME NEW s \in Task
               PROVE  /\ s \in recorded' => /\ task'[s].op = "exhume"
                                            /\ task'[s].pc # "idle"
                      /\ task'[s].op = "exhume" /\ task'[s].pc = "free"
                           => s \in recorded'
    BY DEF RecordedFirst, At
  <2>1. CASE s = t
    BY <1>1, <2>1 DEF TypeInv, RecordedFirst, SameRequest
  <2>2. CASE s # t
    BY <1>1, <2>2 DEF TypeInv, RecordedFirst, At
  <2> QED BY <2>1, <2>2
<1> QED BY <1>2, <1>3

\* The same for a request that begins.
LEMMA KeptByBeginning ==
  ASSUME TypeInv, NEW t \in Task, task[t].pc = "idle",
         NEW op \in {"none", "add", "clear", "bury", "exhume"},
         NEW v \in Valt \cup {NoValt}, NEW x \in Drawer \cup {NoDrawer},
         NEW d \in Deceased \cup {NoOne}, NEW pc \in Pc \ {"idle", "free"},
         Begin(t, op, v, x, d, pc),
         op \in {"bury", "exhume"} => x \in Drawer /\ d \in Deceased,
         op \in {"add", "clear"} => v \in Valt,
         recorded' = recorded
  PROVE  RequestsNamed' /\ RecordedFirst'
<1>1. /\ \A s \in Task : s # t => task'[s] = task[s]
      /\ task'[t] = [pc |-> pc, op |-> op, valt |-> v, drawer |-> x,
                     who |-> d]
  <2>1. task \in [Task -> TaskRecord]
    BY DEF TypeInv, TypeOK, TaskRecord
  <2> QED BY <2>1 DEF Begin
<1>2. t \notin recorded
  BY DEF TypeInv, RecordedFirst
<1>3. RequestsNamed'
  BY <1>1 DEF TypeInv, RequestsNamed
<1>4. RecordedFirst'
  BY <1>1, <1>2 DEF TypeInv, RecordedFirst, At
<1> QED BY <1>3, <1>4

(***************************************************************************)
(* Types                                                                   *)
(***************************************************************************)

\* What TypeOK says of everything but the requests.
RowsOK ==
  /\ quantity \in [Valt -> Quantities]
  /\ valts \subseteq Valt
  /\ home \in [Drawer -> Valt \cup {NoValt}]
  /\ status \in [Drawer -> {"AVAILABLE", "UNAVAILABLE"}]
  /\ known \subseteq Deceased
  /\ grave \in [Deceased -> Drawer \cup {NoDrawer}]
  /\ exhumations \in [Task -> ExhumationRow]
  /\ history \subseteq Deceased \X Drawer
  /\ spent \subseteq Drawer \cup Deceased
  /\ OnFile \subseteq recorded /\ recorded \subseteq Task
  /\ \A x \in Drawer : IsDrawer(x) => home[x] \in valts
  /\ \A d \in Deceased :
       grave[d] # NoDrawer => d \in known /\ IsDrawer(grave[d])

\* The rows and the requests together.
LEMMA TypeSplit ==
  /\ TypeOK <=> RowsOK /\ task \in [Task -> TaskRecord]
  /\ TypeOK' <=> RowsOK' /\ task' \in [Task -> TaskRecord]
BY DEF TypeOK, RowsOK, OnFile, TaskRecord, IsDrawer, Pc

\* A delete of drawers leaves nobody in a drawer that is gone, and no drawer
\* without a vault.
LEMMA DeleteRows ==
  ASSUME RowsOK, NEW drawers \in SUBSET Drawer, Delete(drawers),
         valts' \subseteq valts, valts \ valts' \subseteq Valt,
         \A x \in Drawer \ drawers : home[x] \notin valts \ valts',
         UNCHANGED <<quantity, status, known, exhumations, history, spent,
                     recorded>>
  PROVE  RowsOK'
<1>1. home' = [x \in Drawer |-> IF x \in drawers THEN NoValt ELSE home[x]]
      /\ grave' = [d \in Deceased |-> IF grave[d] \in drawers THEN NoDrawer
                                      ELSE grave[d]]
  BY DEF Delete
<1>2. /\ home' \in [Drawer -> Valt \cup {NoValt}]
      /\ grave' \in [Deceased -> Drawer \cup {NoDrawer}]
  BY <1>1 DEF RowsOK
<1>3. \A x \in Drawer : IsDrawer(x)' => home'[x] \in valts'
  BY <1>1 DEF RowsOK, OnFile, IsDrawer
<1>4. \A d \in Deceased :
        grave'[d] # NoDrawer => d \in known' /\ home'[grave'[d]] # NoValt
  <2> SUFFICES ASSUME NEW d \in Deceased, grave'[d] # NoDrawer
               PROVE  d \in known' /\ home'[grave'[d]] # NoValt
    BY DEF RowsOK
  <2>1. grave'[d] = grave[d] /\ grave[d] \notin drawers
    BY <1>1
  <2>2. d \in known /\ home[grave[d]] # NoValt /\ grave[d] \in Drawer
    BY <2>1 DEF RowsOK, OnFile, IsDrawer
  <2> QED BY <1>1, <2>1, <2>2
<1> QED BY <1>2, <1>3, <1>4 DEF RowsOK, OnFile, IsDrawer

\* At the start nobody has asked for anything.
LEMMA TypeInvInit == Init => TypeInv
<1> SUFFICES ASSUME Init PROVE TypeInv
  OBVIOUS
<1>1. RowsOK
  BY SentinelsAssumption
  DEF Init, RowsOK, OnFile, IsDrawer, ExhumationRow, NoRow
<1>2. task \in [Task -> TaskRecord]
  BY DEF Init, NoTask, TaskRecord, Pc
<1>3. RequestsNamed /\ RecordedFirst
  BY DEF Init, NoTask, RequestsNamed, RecordedFirst, At
<1> QED BY <1>1, <1>2, <1>3, TypeSplit DEF TypeInv

\* Requests about drawers and vaults.
LEMMA VaultsTyped ==
  ASSUME TypeInv, NEW t \in Task, Vaults(t)
  PROVE  TypeInv'
<1>0. TypeOK /\ RowsOK /\ RequestsNamed /\ RecordedFirst
  BY TypeSplit DEF TypeInv
<1>p. /\ {"add", "clear", "done", "failed"} \subseteq Pc \ {"idle", "free"}
      /\ NoDrawer \in Drawer \cup {NoDrawer}
      /\ NoOne \in Deceased \cup {NoOne}
  BY DEF Pc
<1>1. ASSUME NEW v \in Valt, AddCheck(t, v)
      PROVE  TypeInv'
  <2>1. PICK pc \in {"add", "failed"} :
          Begin(t, "add", v, NoDrawer, NoOne, pc)
    BY <1>1 DEF AddCheck
  <2>2. task' \in [Task -> TaskRecord]
    BY <1>0, <1>p, <2>1, BeginEffect
  <2>3. RequestsNamed' /\ RecordedFirst'
    BY <1>p, <1>1, <2>1, KeptByBeginning DEF AddCheck
  <2>4. RowsOK'
    BY <1>0, <1>1 DEF AddCheck, RowsOK, OnFile, IsDrawer
  <2> QED BY <2>2, <2>3, <2>4, TypeSplit DEF TypeInv
<1>2. ASSUME NEW v \in Valt, RemoveValtCheck(t, v)
      PROVE  TypeInv'
  <2>1. PICK pc \in {"clear", "failed"} :
          Begin(t, "clear", v, NoDrawer, NoOne, pc)
    BY <1>2 DEF RemoveValtCheck
  <2>2. task' \in [Task -> TaskRecord]
    BY <1>0, <1>p, <2>1, BeginEffect
  <2>3. RequestsNamed' /\ RecordedFirst'
    BY <1>p, <1>2, <2>1, KeptByBeginning DEF RemoveValtCheck
  <2>4. RowsOK'
    BY <1>0, <1>2 DEF RemoveValtCheck, RowsOK, OnFile, IsDrawer
  <2> QED BY <2>2, <2>3, <2>4, TypeSplit DEF TypeInv
<1>3. CASE AddDrawer(t)
  <2>1. PICK pc \in {"done", "failed"} : Go(t, pc)
    BY <1>3 DEF AddDrawer
  <2>2. task' \in [Task -> TaskRecord]
    BY <1>0, <1>p, <2>1, GoEffect
  <2>3. RequestsNamed' /\ RecordedFirst'
    BY <1>p, <1>3, <2>1, KeptByGoing DEF AddDrawer
  <2>4. RowsOK'
    <3>1. CASE UNCHANGED <<home, spent>>
      BY <1>0, <1>3, <3>1 DEF AddDrawer, RowsOK, OnFile, IsDrawer
    <3>2. CASE task[t].valt \in valts
      <4>1. PICK x \in Drawer \ spent :
              /\ home' = [home EXCEPT ![x] = task[t].valt]
              /\ spent' = spent \cup {x}
        BY <1>3, <3>2 DEF AddDrawer
      <4>2. task[t].valt \in Valt
        BY <1>0, <3>2 DEF RowsOK
      <4> QED BY <1>0, <1>3, <3>2, <4>1, <4>2, SentinelsAssumption
           DEF AddDrawer, RowsOK, OnFile, IsDrawer
    <3> QED BY <1>3, <3>1, <3>2 DEF AddDrawer
  <2> QED BY <2>2, <2>3, <2>4, TypeSplit DEF TypeInv
<1>4. CASE RemoveValt(t)
  <2>2. task' \in [Task -> TaskRecord]
    BY <1>0, <1>p, <1>4, GoEffect DEF RemoveValt
  <2>3. RequestsNamed' /\ RecordedFirst'
    BY <1>p, <1>4, KeptByGoing DEF RemoveValt
  <2>4. RowsOK'
    BY <1>0, <1>4, DeleteRows DEF RemoveValt, DrawersOf, RowsOK
  <2> QED BY <2>2, <2>3, <2>4, TypeSplit DEF TypeInv
<1>5. CASE RemoveValtFails(t)
  <2>2. task' \in [Task -> TaskRecord]
    BY <1>0, <1>p, <1>5, GoEffect DEF RemoveValtFails
  <2>3. RequestsNamed' /\ RecordedFirst'
    BY <1>p, <1>5, KeptByGoing DEF RemoveValtFails
  <2>4. RowsOK'
    BY <1>0, <1>5 DEF RemoveValtFails, RowsOK, OnFile, IsDrawer
  <2> QED BY <2>2, <2>3, <2>4, TypeSplit DEF TypeInv
<1> QED BY <1>1, <1>2, <1>3, <1>4, <1>5 DEF Vaults

\* Burials.
LEMMA BurialsTyped ==
  ASSUME TypeInv, NEW t \in Task,
         Bury(t) \/ \E d \in Deceased, x \in Drawer : BuryCheck(t, d, x)
  PROVE  TypeInv'
<1>0. TypeOK /\ RowsOK /\ RequestsNamed /\ RecordedFirst
  BY TypeSplit DEF TypeInv
<1>p. /\ {"bury", "done", "failed"} \subseteq Pc \ {"idle", "free"}
      /\ NoValt \in Valt \cup {NoValt}
  BY DEF Pc
<1>1. ASSUME NEW d \in Deceased, NEW x \in Drawer, BuryCheck(t, d, x)
      PROVE  TypeInv'
  <2>2. task' \in [Task -> TaskRecord]
    BY <1>0, <1>p, <1>1, BeginEffect DEF BuryCheck
  <2>3. RequestsNamed' /\ RecordedFirst'
    BY <1>p, <1>1, KeptByBeginning DEF BuryCheck
  <2>4. RowsOK'
    BY <1>0, <1>1 DEF BuryCheck, RowsOK, OnFile, IsDrawer
  <2> QED BY <2>2, <2>3, <2>4, TypeSplit DEF TypeInv
<1>2. CASE Bury(t)
  <2>1. PICK pc \in {"done", "failed"} : Go(t, pc)
    BY <1>2 DEF Bury
  <2>2. task' \in [Task -> TaskRecord]
    BY <1>0, <1>p, <2>1, GoEffect
  <2>3. RequestsNamed' /\ RecordedFirst'
    BY <1>p, <1>2, <2>1, KeptByGoing DEF Bury
  <2>4. task[t].drawer \in Drawer /\ task[t].who \in Deceased
    BY <1>0, <1>2 DEF Bury, At, RequestsNamed
  <2>5. RowsOK'
    <3>1. CASE UNCHANGED <<status, known, grave>>
      BY <1>0, <1>2, <3>1 DEF Bury, RowsOK, OnFile, IsDrawer
    <3>2. CASE IsDrawer(task[t].drawer)
      <4>1. /\ status' = [status EXCEPT ![task[t].drawer] = "UNAVAILABLE"]
            /\ known' = known \cup {task[t].who}
            /\ grave' = [grave EXCEPT ![task[t].who] = task[t].drawer]
            /\ UNCHANGED <<quantity, valts, home, exhumations, history, spent,
                           recorded>>
        BY <1>2, <3>2 DEF Bury
      <4>2. \A d \in Deceased : grave'[d] # NoDrawer =>
              d \in known' /\ home'[grave'[d]] # NoValt
        BY <1>0, <2>4, <3>2, <4>1 DEF RowsOK, OnFile, IsDrawer
      <4> QED BY <1>0, <2>4, <4>1, <4>2 DEF RowsOK, OnFile, IsDrawer
    <3> QED BY <1>2, <3>1, <3>2 DEF Bury
  <2> QED BY <2>2, <2>3, <2>5, TypeSplit DEF TypeInv
<1> QED BY <1>1, <1>2

\* Exhumations.
LEMMA ExhumationsTyped ==
  ASSUME TypeInv, NEW t \in Task,
         Exhuming(t) \/ \E d \in Deceased, x \in Drawer : ExhumeCheck(t, d, x)
  PROVE  TypeInv'
<1>0. TypeOK /\ RowsOK /\ RequestsNamed /\ RecordedFirst
  BY TypeSplit DEF TypeInv
<1>p. /\ {"record", "note", "done", "failed"} \subseteq Pc \ {"idle", "free"}
      /\ "free" \in Pc \ {"idle"}
      /\ NoValt \in Valt \cup {NoValt}
  BY DEF Pc
<1>1. ASSUME NEW d \in Deceased, NEW x \in Drawer, ExhumeCheck(t, d, x)
      PROVE  TypeInv'
  <2>2. task' \in [Task -> TaskRecord]
    BY <1>0, <1>p, <1>1, BeginEffect DEF ExhumeCheck
  <2>3. RequestsNamed' /\ RecordedFirst'
    BY <1>p, <1>1, KeptByBeginning DEF ExhumeCheck
  <2>4. RowsOK'
    BY <1>0, <1>1 DEF ExhumeCheck, RowsOK, OnFile, IsDrawer
  <2> QED BY <2>2, <2>3, <2>4, TypeSplit DEF TypeInv
<1>n. ASSUME At(t, "exhume", "record") \/ At(t, "exhume", "free")
               \/ At(t, "exhume", "note")
      PROVE  task[t].drawer \in Drawer /\ task[t].who \in Deceased
  BY <1>0, <1>n DEF At, RequestsNamed
<1>2. CASE Record(t)
  <2>1. PICK pc \in {"free", "failed"} :
          Go(t, pc) /\ (pc = "free" => t \in recorded')
    BY <1>2 DEF Record
  <2>2. task' \in [Task -> TaskRecord]
    BY <1>0, <1>p, <2>1, GoEffect
  <2>3. RequestsNamed' /\ RecordedFirst'
    <3>1. recorded' \subseteq recorded \cup {t} /\ recorded \subseteq recorded'
          /\ task[t].op = "exhume"
      BY <1>2 DEF Record, At
    <3> QED BY <1>p, <2>1, <3>1, KeptByGoing
  <2>4. RowsOK'
    <3>1. task[t].drawer \in Drawer /\ task[t].who \in Deceased
      BY <1>2, <1>n DEF Record
    <3>2. [who |-> task[t].who, drawer |-> task[t].drawer] \in ExhumationRow
      BY <3>1 DEF ExhumationRow
    <3> QED BY <1>0, <1>2, <3>2 DEF Record, RowsOK, OnFile, IsDrawer
  <2> QED BY <2>2, <2>3, <2>4, TypeSplit DEF TypeInv
<1>3. CASE Free(t)
  <2>1. PICK pc \in {"note", "failed"} : Go(t, pc)
    BY <1>3 DEF Free
  <2>2. task' \in [Task -> TaskRecord]
    BY <1>0, <1>p, <2>1, GoEffect
  <2>3. RequestsNamed' /\ RecordedFirst'
    BY <1>p, <1>3, <2>1, KeptByGoing DEF Free
  <2>4. RowsOK'
    BY <1>0, <1>3 DEF Free, RowsOK, OnFile, IsDrawer
  <2> QED BY <2>2, <2>3, <2>4, TypeSplit DEF TypeInv
<1>4. CASE Note(t)
  <2>1. PICK pc \in {"done", "failed"} : Go(t, pc)
    BY <1>4 DEF Note
  <2>2. task' \in [Task -> TaskRecord]
    BY <1>0, <1>p, <2>1, GoEffect
  <2>3. RequestsNamed' /\ RecordedFirst'
    BY <1>p, <1>4, <2>1, KeptByGoing DEF Note
  <2>4. RowsOK'
    BY <1>0, <1>4, <1>n DEF Note, RowsOK, OnFile, IsDrawer
  <2> QED BY <2>2, <2>3, <2>4, TypeSplit DEF TypeInv
<1> QED BY <1>1, <1>2, <1>3, <1>4 DEF Exhuming

\* Every step.
LEMMA TypeInvNext == TypeInv /\ [Next]_vars => TypeInv'
<1> SUFFICES ASSUME TypeInv, [Next]_vars PROVE TypeInv'
  OBVIOUS
<1>0. TypeOK /\ RowsOK /\ RequestsNamed /\ RecordedFirst
  BY TypeSplit DEF TypeInv
<1>q. ASSUME UNCHANGED <<task, recorded>>, RowsOK'
      PROVE  TypeInv'
  BY <1>0, <1>q, TypeSplit DEF TypeInv, RequestsNamed, RecordedFirst, At
<1>1. ASSUME NEW t \in Task, RemoveExhumation(t)
      PROVE  TypeInv'
  <2>1. NoRow \in ExhumationRow
    BY DEF NoRow, ExhumationRow
  <2>2. RowsOK'
    BY <1>0, <1>1, <2>1 DEF RemoveExhumation, RowsOK, OnFile, IsDrawer
  <2> QED BY <1>1, <1>q, <2>2 DEF RemoveExhumation
<1>7. ASSUME NEW t \in Task, NEW d \in Deceased, NEW x \in Drawer,
             UpdateExhumation(t, d, x)
      PROVE  TypeInv'
  <2>1. [who |-> d, drawer |-> x] \in ExhumationRow
    BY DEF ExhumationRow
  <2>2. RowsOK'
    BY <1>0, <1>7, <2>1 DEF UpdateExhumation, RowsOK, OnFile, IsDrawer
  <2> QED BY <1>7, <1>q, <2>2 DEF UpdateExhumation
<1>2. ASSUME NEW v \in Valt, NEW n \in Quantities, UpdateQuantity(v, n)
      PROVE  TypeInv'
  BY <1>0, <1>2, <1>q DEF UpdateQuantity, RowsOK, OnFile, IsDrawer
<1>3. ASSUME NEW x \in Drawer, RemoveDrawer(x)
      PROVE  TypeInv'
  <2>1. RowsOK'
    BY <1>0, <1>3, DeleteRows DEF RemoveDrawer
  <2> QED BY <1>3, <2>1, <1>q DEF RemoveDrawer
<1>4. ASSUME NEW d \in Deceased, RemoveDeceased(d)
      PROVE  TypeInv'
  <2>1. RowsOK'
    BY <1>0, <1>4 DEF RemoveDeceased, RowsOK, OnFile, IsDrawer
  <2> QED BY <1>4, <2>1, <1>q DEF RemoveDeceased
<1>5. CASE Crash
  <2>1. /\ task' \in [Task -> TaskRecord]
        /\ \A s \in Task : /\ SameRequest(s)
                           /\ task'[s].pc = "failed" \/ task'[s] = task[s]
    BY <1>0, <1>5, CrashEffect
  <2>2. RequestsNamed'
    BY <1>0, <2>1 DEF RequestsNamed, SameRequest
  <2>3. RecordedFirst'
    BY <1>0, <1>5, <2>1 DEF RecordedFirst, SameRequest, At, Crash
  <2>4. RowsOK'
    BY <1>0, <1>5 DEF Crash, RowsOK, OnFile, IsDrawer
  <2> QED BY <2>1, <2>2, <2>3, <2>4, TypeSplit DEF TypeInv
<1>6. CASE UNCHANGED vars
  BY <1>0, <1>6, <1>q DEF vars, RowsOK, OnFile, IsDrawer
<1> QED BY <1>1, <1>2, <1>3, <1>4, <1>5, <1>6, <1>7, VaultsTyped,
           BurialsTyped, ExhumationsTyped DEF Next

\* The types and the names of requests hold throughout.
LEMMA TypeInvAlways == Spec => []TypeInv
BY TypeInvInit, TypeInvNext, PTL DEF Spec

\* Type correctness: the rows name rows that are there.
THEOREM TypeCorrect == Spec => []TypeOK
<1>1. TypeInv => TypeOK
  BY DEF TypeInv
<1> QED BY <1>1, TypeInvAlways, PTL

(***************************************************************************)
(* Exhumations                                                             *)
(***************************************************************************)

\* Only a note that succeeds ends an exhumation with success, and a request
\* keeps its names from its first step on.
Standing(s) ==
  /\ task[s].pc # "idle" => SameRequest(s)
  /\ At(s, "exhume", "done") => At(s, "exhume", "done")'
  /\ At(s, "exhume", "done")' => At(s, "exhume", "done") \/ Note(s)

\* A step of one request leaves all requests standing.
LEMMA GoStanding ==
  ASSUME TypeInv, NEW t \in Task, NEW pc \in Pc, Go(t, pc),
         ~ At(t, "exhume", "done"),
         pc = "done" /\ task[t].op = "exhume" => Note(t)
  PROVE  \A s \in Task : Standing(s)
<1>1. /\ \A s \in Task : SameRequest(s) /\ (s # t => task'[s] = task[s])
      /\ task'[t].pc = pc
  BY GoEffect DEF TypeInv
<1> QED BY <1>1 DEF Standing, At, SameRequest

\* A request that begins takes no other one's place, and had none.
LEMMA BeginStanding ==
  ASSUME TypeInv, NEW t \in Task, task[t].pc = "idle",
         NEW op \in {"none", "add", "clear", "bury", "exhume"},
         NEW v \in Valt \cup {NoValt}, NEW x \in Drawer \cup {NoDrawer},
         NEW d \in Deceased \cup {NoOne}, NEW pc \in Pc \ {"done"},
         Begin(t, op, v, x, d, pc)
  PROVE  \A s \in Task : Standing(s)
<1>1. task \in [Task -> TaskRecord]
  BY DEF TypeInv, TypeOK, TaskRecord
<1>2. /\ \A s \in Task : s # t => task'[s] = task[s]
      /\ task'[t].pc = pc
  BY <1>1 DEF Begin
<1> QED BY <1>2 DEF Standing, At, SameRequest

\* So every step leaves all requests standing.
LEMMA AlwaysStanding ==
  ASSUME TypeInv, [Next]_vars
  PROVE  \A s \in Task : Standing(s)
<1>p. /\ {"add", "clear", "failed", "bury", "record", "free", "note"}
           \subseteq Pc \ {"done"}
      /\ "done" \in Pc
      /\ NoDrawer \in Drawer \cup {NoDrawer}
      /\ NoOne \in Deceased \cup {NoOne}
      /\ NoValt \in Valt \cup {NoValt}
  BY DEF Pc
<1>1. ASSUME NEW t \in Task,
             \E pc \in {"done", "failed", "free", "note"} :
               /\ Go(t, pc)
               /\ pc = "done" /\ task[t].op = "exhume" => Note(t),
             ~ At(t, "exhume", "done")
      PROVE  \A s \in Task : Standing(s)
  BY <1>p, <1>1, GoStanding
<1>2. ASSUME NEW t \in Task, Vaults(t)
      PROVE  \A s \in Task : Standing(s)
  <2>1. ASSUME NEW v \in Valt, AddCheck(t, v) \/ RemoveValtCheck(t, v)
        PROVE  \A s \in Task : Standing(s)
    BY <1>p, <2>1, BeginStanding DEF AddCheck, RemoveValtCheck
  <2>2. CASE AddDrawer(t)
    BY <2>2, <1>1 DEF AddDrawer, At
  <2>3. CASE RemoveValt(t) \/ RemoveValtFails(t)
    BY <2>3, <1>1 DEF RemoveValt, RemoveValtFails, At
  <2> QED BY <1>2, <2>1, <2>2, <2>3 DEF Vaults
<1>3. ASSUME NEW t \in Task, Bury(t)
      PROVE  \A s \in Task : Standing(s)
  BY <1>3, <1>1 DEF Bury, At
<1>4. ASSUME NEW t \in Task, Exhuming(t)
      PROVE  \A s \in Task : Standing(s)
  <2>1. CASE Record(t) \/ Free(t)
    BY <2>1, <1>1 DEF Record, Free, At
  <2>2. CASE Note(t)
    <3>1. ~ At(t, "exhume", "done")
      BY <2>2 DEF Note, At
    <3>2. Go(t, "done") \/ Go(t, "failed")
      BY <2>2 DEF Note
    <3> QED BY <2>2, <3>1, <3>2, <1>1
  <2> QED BY <1>4, <2>1, <2>2 DEF Exhuming
<1>5. ASSUME NEW t \in Task, NEW d \in Deceased, NEW x \in Drawer,
             BuryCheck(t, d, x) \/ ExhumeCheck(t, d, x)
      PROVE  \A s \in Task : Standing(s)
  BY <1>p, <1>5, BeginStanding DEF BuryCheck, ExhumeCheck
<1>6. CASE Crash
  <2>1. \A s \in Task : /\ SameRequest(s)
                        /\ task'[s].pc = "failed" \/ task'[s] = task[s]
    BY <1>6, CrashEffect DEF TypeInv
  <2>2. \A s \in Task : task[s].pc = "done" => task'[s] = task[s]
    BY <1>6 DEF Crash
  <2> QED BY <2>1, <2>2 DEF Standing, At, SameRequest
<1>7. CASE UNCHANGED task
  BY <1>7 DEF Standing, At, SameRequest
<1>8. \/ \E t \in Task : Vaults(t) \/ Bury(t) \/ Exhuming(t)
      \/ \E t \in Task, d \in Deceased, x \in Drawer :
           BuryCheck(t, d, x) \/ ExhumeCheck(t, d, x)
      \/ Crash
      \/ UNCHANGED task
  BY DEF Next, vars, RemoveExhumation, UpdateExhumation, UpdateQuantity,
         RemoveDrawer, RemoveDeceased
<1> QED BY <1>2, <1>3, <1>4, <1>5, <1>6, <1>7, <1>8

\* The history is only added to; recorded too.
LEMMA OnlyAdded ==
  [Next]_vars => history \subseteq history' /\ recorded \subseteq recorded'
BY DEF Next, vars, Vaults, AddDrawer, RemoveValt, RemoveValtFails, AddCheck,
       RemoveValtCheck, Bury, Exhuming, Record, Free, Note, RemoveExhumation,
       UpdateExhumation, BuryCheck, ExhumeCheck, UpdateQuantity, RemoveDrawer,
       RemoveDeceased,
       Crash

\* Every exhumation that was answered with success is noted, and no two are
\* noted for one burial.
NotedInv ==
  /\ \A t \in Task : At(t, "exhume", "done") =>
       <<task[t].who, task[t].drawer>> \in history
  /\ NotedOnce

\* Every step keeps NotedInv: a note adds a pair nobody has noted.
LEMMA NotedInvKept ==
  ASSUME TypeInv, NotedInv, [Next]_vars
  PROVE  NotedInv'
<1>1. \A s \in Task : Standing(s)
  BY AlwaysStanding
<1>2. history \subseteq history'
  BY OnlyAdded
<1>3. \A s \in Task : At(s, "exhume", "done") =>
        /\ task'[s].who = task[s].who /\ task'[s].drawer = task[s].drawer
        /\ <<task[s].who, task[s].drawer>> \in history
  BY <1>1 DEF Standing, At, SameRequest, NotedInv
<1>4. ASSUME NEW t \in Task, Note(t), At(t, "exhume", "done")'
      PROVE  /\ task'[t].who = task[t].who /\ task'[t].drawer = task[t].drawer
             /\ <<task[t].who, task[t].drawer>> \notin history
             /\ <<task[t].who, task[t].drawer>> \in history'
             /\ \A s \in Task : s # t => task'[s] = task[s]
  <2>1. Go(t, "done") \/ Go(t, "failed")
    BY <1>4 DEF Note
  <2>2. \A s \in Task : s # t => task'[s] = task[s]
    BY <2>1, GoEffect DEF TypeInv, Pc
  <2>3. SameRequest(t)
    BY <2>1, GoEffect DEF TypeInv, Pc
  <2>4. ~ Go(t, "failed")
    <3>1. SUFFICES ASSUME Go(t, "failed") PROVE FALSE
      OBVIOUS
    <3>2. task'[t].pc = "failed"
      BY <3>1, GoEffect DEF TypeInv, Pc
    <3> QED BY <1>4, <3>2 DEF At
  <2> QED BY <1>4, <2>2, <2>3, <2>4 DEF Note, SameRequest
<1>5. \A s \in Task : At(s, "exhume", "done")' =>
        <<task'[s].who, task'[s].drawer>> \in history'
  BY <1>1, <1>2, <1>3, <1>4 DEF Standing
<1>6. NotedOnce'
  <2> SUFFICES ASSUME NEW s \in Task, NEW t \in Task, s # t,
                      At(s, "exhume", "done")', At(t, "exhume", "done")'
               PROVE  <<task'[s].who, task'[s].drawer>>
                        # <<task'[t].who, task'[t].drawer>>
    BY DEF NotedOnce
  <2>1. CASE At(s, "exhume", "done") /\ At(t, "exhume", "done")
    BY <1>3, <2>1 DEF NotedInv, NotedOnce
  <2>2. CASE Note(s)
    <3>1. task'[t] = task[t]
      BY <1>4, <2>2
    <3>2. At(t, "exhume", "done")
      BY <3>1 DEF At
    <3> QED BY <1>3, <1>4, <2>2, <3>2
  <2>3. CASE Note(t)
    <3>1. task'[s] = task[s]
      BY <1>4, <2>3
    <3>2. At(s, "exhume", "done")
      BY <3>1 DEF At
    <3> QED BY <1>3, <1>4, <2>3, <3>2
  <2> QED BY <1>1, <2>1, <2>2, <2>3 DEF Standing
<1> QED BY <1>5, <1>6 DEF NotedInv, At

\* The exhumations on file are of deceased and drawers that are on file.
FileInv ==
  \A t \in OnFile : /\ exhumations[t].who \in known
                    /\ exhumations[t].drawer \in Drawer
                    /\ IsDrawer(exhumations[t].drawer)

\* Every step keeps FileInv: what a row on file names is not removed.
LEMMA FileInvKept ==
  ASSUME TypeInv, FileInv, [Next]_vars
  PROVE  FileInv'
<1>0. exhumations \in [Task -> ExhumationRow]
  BY DEF TypeInv, TypeOK
<1>k. \A s \in OnFile : /\ exhumations[s].who \in known
                        /\ exhumations[s].drawer \in Drawer
                        /\ home[exhumations[s].drawer] # NoValt
  BY DEF FileInv, IsDrawer
<1>q. ASSUME UNCHANGED exhumations,
             \A s \in OnFile : /\ exhumations[s].who \in known'
                              /\ home'[exhumations[s].drawer] # NoValt
      PROVE  FileInv'
  BY <1>k, <1>q DEF FileInv, IsDrawer, OnFile
<1>r. ASSUME NEW t \in Task, NEW d, NEW x \in Drawer,
             d \in known, IsDrawer(x), UNCHANGED <<known, home>>,
             exhumations' = [exhumations EXCEPT
                               ![t] = [who |-> d, drawer |-> x]]
      PROVE  FileInv'
  <2> SUFFICES ASSUME NEW s \in Task, exhumations'[s] # NoRow
               PROVE  /\ exhumations'[s].who \in known
                      /\ exhumations'[s].drawer \in Drawer
                      /\ home[exhumations'[s].drawer] # NoValt
    BY <1>r DEF FileInv, IsDrawer, OnFile
  <2>1. CASE s = t
    BY <1>0, <1>r, <2>1 DEF IsDrawer
  <2>2. CASE s # t
    <3>1. exhumations'[s] = exhumations[s] /\ s \in OnFile
      BY <1>0, <1>r, <2>2 DEF OnFile
    <3> QED BY <1>k, <3>1
  <2> QED BY <2>1, <2>2
<1>2. ASSUME NEW t \in Task, AddDrawer(t)
      PROVE  FileInv'
  <2>1. CASE UNCHANGED home
    BY <1>2, <1>k, <1>q, <2>1 DEF AddDrawer
  <2>2. CASE task[t].valt \in valts
    <3>1. PICK x \in Drawer : home' = [home EXCEPT ![x] = task[t].valt]
      BY <1>2, <2>2 DEF AddDrawer
    <3>2. task[t].valt # NoValt /\ home \in [Drawer -> Valt \cup {NoValt}]
      BY <2>2, SentinelsAssumption DEF TypeInv, TypeOK
    <3>3. \A s \in OnFile : home'[exhumations[s].drawer] # NoValt
      BY <1>k, <3>1, <3>2
    <3> QED BY <1>2, <1>k, <1>q, <3>3 DEF AddDrawer
  <2> QED BY <1>2, <2>1, <2>2 DEF AddDrawer
<1>3. ASSUME NEW drawers \in SUBSET Drawer, Delete(drawers),
             UNCHANGED <<known, exhumations>>
      PROVE  FileInv'
  BY <1>3, <1>k, <1>q DEF Delete
<1>4. ASSUME NEW t \in Task, Record(t)
      PROVE  FileInv'
  <2>1. CASE UNCHANGED exhumations
    BY <1>4, <2>1, <1>k, <1>q DEF Record
  <2>2. CASE task[t].who \in known /\ IsDrawer(task[t].drawer)
    <3>1. task[t].drawer \in Drawer
      BY <1>4 DEF Record, At, TypeInv, RequestsNamed
    <3> QED BY <1>4, <1>r, <2>2, <3>1 DEF Record
  <2> QED BY <1>4, <2>1, <2>2 DEF Record
<1>5. ASSUME NEW d \in Deceased, RemoveDeceased(d)
      PROVE  FileInv'
  BY <1>5, <1>k, <1>q DEF RemoveDeceased
<1>6. ASSUME known \subseteq known', UNCHANGED <<home, exhumations>>
      PROVE  FileInv'
  BY <1>6, <1>k, <1>q
<1>8. ASSUME NEW t \in Task, NEW d \in Deceased, NEW x \in Drawer,
             UpdateExhumation(t, d, x)
      PROVE  FileInv'
  BY <1>8, <1>r DEF UpdateExhumation
<1>9. ASSUME NEW t \in Task, RemoveExhumation(t)
      PROVE  FileInv'
  <2>1. \A s \in Task : exhumations'[s] # NoRow =>
          s \in OnFile /\ exhumations'[s] = exhumations[s]
    BY <1>0, <1>9 DEF RemoveExhumation, OnFile
  <2> QED BY <1>9, <1>k, <2>1 DEF RemoveExhumation, FileInv, IsDrawer, OnFile
<1>7. \/ \E t \in Task : AddDrawer(t) \/ Record(t) \/ RemoveExhumation(t)
      \/ \E t \in Task, d \in Deceased, x \in Drawer : UpdateExhumation(t, d, x)
      \/ \E drawers \in SUBSET Drawer :
           Delete(drawers) /\ UNCHANGED <<known, exhumations>>
      \/ \E d \in Deceased : RemoveDeceased(d)
      \/ known \subseteq known' /\ UNCHANGED <<home, exhumations>>
  BY DEF Next, vars, Vaults, RemoveValt, RemoveValtFails, AddCheck,
         RemoveValtCheck, Bury, Exhuming, Free, Note, BuryCheck, ExhumeCheck,
         UpdateQuantity, RemoveDrawer, Crash, DrawersOf
<1> QED BY <1>2, <1>3, <1>4, <1>5, <1>6, <1>7, <1>8, <1>9

\* A drawer looks free while somebody lies in it only after an exhumation.
LEMMA FreedKept ==
  ASSUME TypeInv, FreedByExhumation, [Next]_vars
  PROVE  FreedByExhumation'
<1>0. /\ grave \in [Deceased -> Drawer \cup {NoDrawer}]
      /\ status \in [Drawer -> {"AVAILABLE", "UNAVAILABLE"}]
      /\ recorded \subseteq Task
  BY DEF TypeInv, TypeOK
<1>1. \A s \in recorded : s \in recorded' /\ task'[s].drawer = task[s].drawer
  BY <1>0, AlwaysStanding, OnlyAdded
  DEF TypeInv, RecordedFirst, Standing, SameRequest
<1>q. ASSUME \A d \in Deceased : grave'[d] # NoDrawer => grave'[d] = grave[d],
             \A x \in Drawer : status'[x] = "AVAILABLE" =>
               \/ status[x] = "AVAILABLE"
               \/ \E t \in recorded : task[t].drawer = x
      PROVE  FreedByExhumation'
  <2> SUFFICES ASSUME NEW d \in Deceased, grave'[d] # NoDrawer,
                      status'[grave'[d]] = "AVAILABLE"
               PROVE  \E t \in recorded' : task'[t].drawer = grave'[d]
    BY DEF FreedByExhumation
  <2>1. grave'[d] = grave[d] /\ grave[d] \in Drawer
    BY <1>0, <1>q
  <2>2. \E t \in recorded : task[t].drawer = grave[d]
    BY <1>q, <2>1 DEF FreedByExhumation
  <2> QED BY <1>1, <2>1, <2>2
<1>2. ASSUME NEW t \in Task, Bury(t)
      PROVE  FreedByExhumation'
  <2>1. CASE UNCHANGED <<status, grave>>
    BY <2>1, <1>q
  <2>2. CASE IsDrawer(task[t].drawer)
    <3>1. task[t].drawer \in Drawer
      BY <1>2 DEF Bury, At, TypeInv, RequestsNamed
    <3>2. /\ status' = [status EXCEPT ![task[t].drawer] = "UNAVAILABLE"]
          /\ grave' = [grave EXCEPT ![task[t].who] = task[t].drawer]
      BY <1>2, <2>2 DEF Bury
    <3> SUFFICES ASSUME NEW d \in Deceased, grave'[d] # NoDrawer,
                        status'[grave'[d]] = "AVAILABLE"
                 PROVE  \E s \in recorded' : task'[s].drawer = grave'[d]
      BY DEF FreedByExhumation
    <3>3. grave'[d] = grave[d] /\ status[grave[d]] = "AVAILABLE"
      BY <1>0, <3>1, <3>2
    <3>4. \E s \in recorded : task[s].drawer = grave[d]
      BY <3>3 DEF FreedByExhumation
    <3> QED BY <1>1, <3>3, <3>4
  <2> QED BY <1>2, <2>1, <2>2 DEF Bury
<1>3. ASSUME NEW t \in Task, Free(t)
      PROVE  FreedByExhumation'
  <2>1. t \in recorded
    BY <1>3 DEF Free, TypeInv, RecordedFirst
  <2>2. \/ status' = status
        \/ status' = [status EXCEPT ![task[t].drawer] = "AVAILABLE"]
    BY <1>3 DEF Free
  <2>3. UNCHANGED grave
    BY <1>3 DEF Free
  <2> QED BY <1>0, <1>q, <2>1, <2>2, <2>3
<1>4. ASSUME NEW drawers \in SUBSET Drawer, Delete(drawers), UNCHANGED status
      PROVE  FreedByExhumation'
  BY <1>4, <1>q DEF Delete
<1>5. ASSUME NEW d \in Deceased, RemoveDeceased(d)
      PROVE  FreedByExhumation'
  BY <1>0, <1>5, <1>q DEF RemoveDeceased
<1>6. CASE UNCHANGED <<status, grave>>
  BY <1>6, <1>q
<1>7. \/ \E t \in Task : Bury(t) \/ Free(t)
      \/ \E drawers \in SUBSET Drawer : Delete(drawers) /\ UNCHANGED status
      \/ \E d \in Deceased : RemoveDeceased(d)
      \/ UNCHANGED <<status, grave>>
  BY DEF Next, vars, Vaults, AddDrawer, RemoveValt, RemoveValtFails, AddCheck,
         RemoveValtCheck, Exhuming, Record, Note, RemoveExhumation,
         UpdateExhumation, BuryCheck, ExhumeCheck, UpdateQuantity, RemoveDrawer,
         Crash, DrawersOf
<1> QED BY <1>2, <1>3, <1>4, <1>5, <1>6, <1>7

BurialInv == TypeInv /\ NotedInv /\ FileInv /\ FreedByExhumation

\* All of it holds throughout.
LEMMA BurialInvAlways == Spec => []BurialInv
<1>1. Init => BurialInv
  <2> SUFFICES ASSUME Init PROVE BurialInv
    OBVIOUS
  <2>1. TypeInv
    BY TypeInvInit
  <2>2. NotedInv /\ FileInv /\ FreedByExhumation
    BY DEF Init, NoTask, NotedInv, NotedOnce, FileInv, OnFile,
           FreedByExhumation, At
  <2> QED BY <2>1, <2>2 DEF BurialInv
<1>2. BurialInv /\ [Next]_vars => BurialInv'
  BY TypeInvNext, NotedInvKept, FileInvKept, FreedKept DEF BurialInv
<1> QED BY <1>1, <1>2, PTL DEF Spec

\* No burial, failed exhumation, crash or removal makes an occupied drawer look
\* free: only a recorded exhumation from that drawer does.
THEOREM OccupiedUntilExhumed == Spec => []FreedByExhumation
<1>1. BurialInv => FreedByExhumation
  BY DEF BurialInv
<1> QED BY <1>1, BurialInvAlways, PTL

\* An exhumation that succeeded is in the history, and the row of one on file
\* names a deceased and a drawer on file, whatever is corrected or removed
\* beside it.
THEOREM ExhumationsStayOnFile == Spec => []ExhumationsOnFile
<1>1. BurialInv => ExhumationsOnFile
  BY DEF BurialInv, NotedInv, FileInv, ExhumationsOnFile
<1> QED BY <1>1, BurialInvAlways, PTL

\* Of any number of overlapping exhumations of one burial, one is answered with
\* success.
THEOREM ExhumedOnce == Spec => []NotedOnce
<1>1. BurialInv => NotedOnce
  BY DEF BurialInv, NotedInv
<1> QED BY <1>1, BurialInvAlways, PTL

===============================================================================
