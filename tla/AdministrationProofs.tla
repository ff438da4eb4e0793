------------------------- MODULE AdministrationProofs -------------------------
(***************************************************************************)
(* Proofs about Administration, for any sets of records, requests, ids,    *)
(* graveyards, names and scenes, and any number of drawers and restarts.   *)
(***************************************************************************)
EXTENDS Administration, FinancialManagementProofs, FiniteSetTheorems

(***************************************************************************)
(* The financial control records                                           *)
(***************************************************************************)

\* Every step of the administration is a step of FinancialManagement, or
\* changes nothing there.
LEMMA PlansStep ==
  [AdministrationNext]_administrationVars => [Next]_vars
<1> SUFFICES ASSUME [AdministrationNext]_administrationVars
             PROVE  [Next]_vars
  OBVIOUS
<1>1. ASSUME NEW c \in Call, Handle(c) PROVE UNCHANGED vars
  BY <1>1 DEF Handle, CreateLookUp, Judged, RemoveLookUp, UpdateLookUp,
     ReadActive, CreateRecord, UpdateRecord, RemoveRecord
<1>2. ASSUME NEW a \in Id, Register(a) \/ RemoveAssignee(a)
      PROVE  UNCHANGED vars
  BY <1>2 DEF Register, RemoveAssignee
<1>3. CASE RequestStep
  BY <1>3 DEF RequestStep, Next
<1>4. CASE ProcessRestarts
  BY <1>4 DEF ProcessRestarts, Next
<1>5. CASE GroundsNext /\ UNCHANGED <<vars, recordsVars>>
  BY <1>5
<1>6. CASE UNCHANGED administrationVars
  BY <1>6 DEF administrationVars
<1> QED
  BY <1>1, <1>2, <1>3, <1>4, <1>5, <1>6 DEF AdministrationNext, RecordsNext

\* The delinquency records and the grounds do not disturb the financial control
\* records: beside them they behave as FinancialManagement alone, so all that is
\* proved about it holds.
THEOREM PlansUndisturbed == AdministrationSpec => Spec
<1>1. AdministrationInit => Init
  BY DEF AdministrationInit
<1> QED
  BY <1>1, PlansStep, PTL DEF AdministrationSpec, Spec

(***************************************************************************)
(* The delinquency records                                                 *)
(***************************************************************************)
RecordRow == [state : {"absent", "on", "removed"}, who : Id \cup {NoId},
              plan : Plan \cup {NoPlan}]

CallRow == [pc   : {"idle", "known", "write", "done", "unknown", "failed"},
            op   : {"create", "update", "remove"},
            of   : Call \cup {NoCall},
            who  : Id \cup {NoId},
            plan : Plan \cup {NoPlan}]

\* What a request about a record is about, once it is to write.
CallsNamed ==
  \A c \in Call :
    /\ call[c].op = "create" /\ call[c].pc \in {"known", "write"} =>
         call[c].who \in Id
    /\ CallAt(c, "write", "create") => call[c].plan \in Plan
    /\ call[c].op # "create" /\ call[c].pc = "write" => call[c].of \in Call

RecordsInv ==
  RecordsTypeOK /\ CallsNamed /\ RecordsOnFile /\ OneRecordPerPlan

\* The first state.
LEMMA RecordsInvInit == RecordsInit => RecordsInv
<1> SUFFICES ASSUME RecordsInit PROVE RecordsInv
  OBVIOUS
<1>1. NoRow \in RecordRow /\ NoAsk \in CallRow
  BY DEF NoRow, NoAsk, RecordRow, CallRow
<1>2. RecordsTypeOK
  BY <1>1 DEF RecordsInit, RecordsTypeOK, RecordRow, CallRow
<1>3. \A c \in Call : /\ call[c].pc = "idle"
                      /\ records[c].who = NoId /\ records[c].plan = NoPlan
  BY DEF RecordsInit, NoRow, NoAsk
<1> QED
  BY <1>2, <1>3
  DEF RecordsInv, CallsNamed, CallAt, RecordsOnFile, OneRecordPerPlan

\* A request that begins.
LEMMA AskRecordTyped ==
  ASSUME RecordsInv, NEW c \in Call, NEW op \in {"create", "update", "remove"},
         NEW of \in Call \cup {NoCall}, NEW who \in Id \cup {NoId},
         NEW pc \in {"known", "write", "unknown"},
         op = "create" => who \in Id /\ pc # "write",
         op # "create" => of \in Call,
         AskRecord(c, op, of, who, pc), UNCHANGED <<assignees, records>>,
         UNCHANGED vars
  PROVE  RecordsInv'
<1> DEFINE new == [pc |-> pc, op |-> op, of |-> of, who |-> who,
                   plan |-> NoPlan]
<1>1. call \in [Call -> CallRow]
  BY DEF RecordsInv, RecordsTypeOK, CallRow
<1>2. call' = [call EXCEPT ![c] = new]
  BY DEF AskRecord
<1>3. new \in CallRow
  BY DEF CallRow
<1>4. call' \in [Call -> CallRow]
  BY <1>1, <1>2, <1>3
<1>5. CallsNamed'
  <2> SUFFICES ASSUME NEW d \in Call
               PROVE  /\ call'[d].op = "create" /\ call'[d].pc \in {"known", "write"}
                           => call'[d].who \in Id
                      /\ call'[d].pc = "write" /\ call'[d].op = "create"
                           => call'[d].plan \in Plan
                      /\ call'[d].op # "create" /\ call'[d].pc = "write"
                           => call'[d].of \in Call
    BY DEF CallsNamed, CallAt
  <2>1. CASE d = c
    BY <1>1, <1>2, <2>1
  <2>2. CASE d # c
    BY <1>1, <1>2, <2>2 DEF RecordsInv, CallsNamed, CallAt
  <2> QED BY <2>1, <2>2
<1>6. RecordsOnFile' /\ OneRecordPerPlan'
  BY DEF RecordsInv, RecordsOnFile, OneRecordPerPlan, Kept, OnFile, Stored, vars
<1> QED
  BY <1>4, <1>5, <1>6 DEF RecordsInv, RecordsTypeOK, CallRow

\* A request that ends.
LEMMA AnswerTyped ==
  ASSUME RecordsInv, NEW c \in Call, NEW pc \in {"done", "failed"},
         Answer(c, pc)
  PROVE  call' \in [Call -> CallRow] /\ CallsNamed'
<1>1. call \in [Call -> CallRow]
  BY DEF RecordsInv, RecordsTypeOK, CallRow
<1>2. call' = [call EXCEPT ![c].pc = pc]
  BY DEF Answer
<1>3. call' \in [Call -> CallRow]
  BY <1>1, <1>2 DEF CallRow
<1>4. \A d \in Call : d # c => call'[d] = call[d]
  BY <1>1, <1>2
<1>5. call'[c].pc = pc
  BY <1>1, <1>2 DEF CallRow
<1> QED
  BY <1>3, <1>4, <1>5 DEF RecordsInv, CallsNamed, CallAt

\* A row that changes keeps the type of the table.
LEMMA WithoutPlanTyped ==
  ASSUME RecordsInv, NEW p \in Plan
  PROVE  /\ WithoutPlan(p) \in [Call -> RecordRow]
         /\ \A r \in Call :
              /\ WithoutPlan(p)[r].who = records[r].who
              /\ WithoutPlan(p)[r].state = records[r].state
              /\ WithoutPlan(p)[r].plan # p
              /\ WithoutPlan(p)[r].plan \in {records[r].plan, NoPlan}
<1>1. records \in [Call -> RecordRow]
  BY DEF RecordsInv, RecordsTypeOK, RecordRow
<1>2. SUFFICES ASSUME NEW r \in Call
               PROVE  /\ WithoutPlan(p)[r] \in RecordRow
                      /\ WithoutPlan(p)[r].who = records[r].who
                      /\ WithoutPlan(p)[r].state = records[r].state
                      /\ WithoutPlan(p)[r].plan # p
                      /\ WithoutPlan(p)[r].plan \in {records[r].plan, NoPlan}
  BY <1>1 DEF WithoutPlan
<1>3. records[r] \in RecordRow
  BY <1>1
<1>4. CASE records[r].plan = p
  <2>1. WithoutPlan(p)[r] = [records[r] EXCEPT !.plan = NoPlan]
    BY <1>4 DEF WithoutPlan
  <2> QED BY <1>3, <2>1, NoPlanAssumption DEF RecordRow
<1>5. CASE records[r].plan # p
  BY <1>3, <1>5 DEF WithoutPlan
<1> QED BY <1>4, <1>5

\* The insert of a record takes the plan from the one that had it.
LEMMA CreateKeeps ==
  ASSUME RecordsInv, NEW c \in Call, CreateRecord(c)
  PROVE  RecordsInv'
<1>1. call' \in [Call -> CallRow] /\ CallsNamed'
  BY AnswerTyped DEF CreateRecord
<1>2. PICK a \in Id : a = call[c].who
  BY DEF CreateRecord, RecordsInv, CallsNamed, CallAt
<1>3. PICK p \in Plan : p = call[c].plan
  BY DEF CreateRecord, RecordsInv, CallsNamed
<1>4. UNCHANGED <<vars, assignees>>
  BY DEF CreateRecord
<1>5. CASE OnFile(a) /\ Stored(p)
  <2> DEFINE new == [state |-> "on", who |-> a, plan |-> p]
  <2>1. records' = [WithoutPlan(p) EXCEPT ![c] = new]
    BY <1>2, <1>3, <1>5 DEF CreateRecord
  <2>2. new \in RecordRow
    BY DEF RecordRow
  <2>3. records' \in [Call -> RecordRow]
    BY <2>1, <2>2, WithoutPlanTyped
  <2>4. records'[c] = new /\ \A r \in Call : r # c => records'[r] = WithoutPlan(p)[r]
    BY <2>1, WithoutPlanTyped
  <2>5. RecordsOnFile'
    <3> SUFFICES ASSUME NEW r \in Call
                 PROVE  /\ records'[r].who # NoId =>
                             records'[r].state = "on"
                             /\ assignees'[records'[r].who] = "on"
                        /\ records'[r].plan # NoPlan =>
                             records'[r].state = "on"
                             /\ table'[records'[r].plan].state \in {"on", "off"}
      BY DEF RecordsOnFile, Kept, OnFile, Stored
    <3>1. CASE r = c
      BY <1>4, <1>5, <2>4, <3>1 DEF OnFile, Stored, vars
    <3>2. CASE r # c
      BY <1>4, <2>4, <3>2, WithoutPlanTyped
      DEF RecordsInv, RecordsOnFile, Kept, OnFile, Stored, vars
    <3> QED BY <3>1, <3>2
  <2>6. OneRecordPerPlan'
    <3>1. \A r \in Call : r # c => /\ records'[r].plan # p
                                   /\ records'[r].plan \in {records[r].plan, NoPlan}
      BY <2>4, WithoutPlanTyped
    <3> QED
      BY <2>4, <3>1 DEF RecordsInv, OneRecordPerPlan
  <2> QED
    BY <1>1, <1>4, <2>3, <2>5, <2>6
    DEF RecordsInv, RecordsTypeOK, RecordRow, CallRow
<1>6. CASE ~ (OnFile(a) /\ Stored(p))
  <2>1. UNCHANGED records
    BY <1>2, <1>3, <1>6 DEF CreateRecord
  <2> QED
    BY <1>1, <1>4, <2>1 DEF RecordsInv, RecordsTypeOK, CallRow, RecordsOnFile,
       OneRecordPerPlan, Kept, OnFile, Stored, vars
<1> QED BY <1>5, <1>6

\* A record that is changed, removed or added by the hook keeps or drops its
\* plan, and is about somebody on file.
LEMMA OneRowKeeps ==
  ASSUME RecordsInv, NEW r \in Call, NEW new \in RecordRow,
         records' = [records EXCEPT ![r] = new],
         new.plan = NoPlan \/ (new.plan = records[r].plan /\ new.state = "on"),
         new.who # NoId => new.state = "on" /\ OnFile(new.who),
         call' \in [Call -> CallRow], CallsNamed',
         UNCHANGED <<vars, assignees>>
  PROVE  RecordsInv'
<1>1. records \in [Call -> RecordRow]
  BY DEF RecordsInv, RecordsTypeOK, RecordRow
<1>2. records' \in [Call -> RecordRow]
  BY <1>1
<1>3. records'[r] = new /\ \A q \in Call : q # r => records'[q] = records[q]
  BY <1>1
<1>4. RecordsOnFile'
  <2> SUFFICES ASSUME NEW q \in Call
               PROVE  /\ records'[q].who # NoId =>
                           records'[q].state = "on"
                           /\ assignees'[records'[q].who] = "on"
                      /\ records'[q].plan # NoPlan =>
                           records'[q].state = "on"
                           /\ table'[records'[q].plan].state \in {"on", "off"}
    BY DEF RecordsOnFile, Kept, OnFile, Stored
  <2>1. CASE q = r
    BY <1>3, <2>1
    DEF RecordsInv, RecordsOnFile, OnFile, Kept, Stored, vars
  <2>2. CASE q # r
    BY <1>3, <2>2
    DEF RecordsInv, RecordsOnFile, Kept, OnFile, Stored, vars
  <2> QED BY <2>1, <2>2
<1>5. OneRecordPerPlan'
  BY <1>3 DEF RecordsInv, OneRecordPerPlan
<1> QED
  BY <1>2, <1>4, <1>5 DEF RecordsInv, RecordsTypeOK, RecordRow, CallRow

\* Steps of the requests about records.
LEMMA HandleKeeps ==
  ASSUME TypeOK, RecordsInv, NEW c \in Call, Handle(c)
  PROVE  RecordsInv'
<1>0. /\ records \in [Call -> RecordRow]
      /\ call \in [Call -> CallRow]
  BY DEF RecordsInv, RecordsTypeOK, RecordRow, CallRow
<1>1. ASSUME NEW a \in Id, CreateLookUp(c, a) PROVE RecordsInv'
  <2>1. PICK pc \in {"known", "unknown"} :
          AskRecord(c, "create", NoCall, a, pc)
    BY <1>1 DEF CreateLookUp
  <2> QED BY <1>1, <2>1, AskRecordTyped DEF CreateLookUp
<1>2. ASSUME NEW r \in Call, NEW a \in Id \cup {NoId}, UpdateLookUp(c, r, a)
      PROVE  RecordsInv'
  <2>1. PICK pc \in {"write", "unknown"} : AskRecord(c, "update", r, a, pc)
    BY <1>2 DEF UpdateLookUp
  <2> QED BY <1>2, <2>1, AskRecordTyped DEF UpdateLookUp
<1>3. ASSUME NEW r \in Call, RemoveLookUp(c, r) PROVE RecordsInv'
  <2>1. AskRecord(c, "remove", r, NoId, "write")
    BY <1>3 DEF RemoveLookUp
  <2> QED BY <1>3, <2>1, AskRecordTyped DEF RemoveLookUp
<1>4. CASE ReadActive(c)
  <2>1. PICK p \in Plan \cup {NoPlan} : p = active.id
    BY DEF TypeOK, Record
  <2> DEFINE pc2 == IF p = NoPlan THEN "failed" ELSE "write"
             new == [call[c] EXCEPT !.pc = pc2, !.plan = p]
  <2>3. call' = [call EXCEPT ![c] = new]
    BY <1>4, <2>1 DEF ReadActive
  <2>4. call[c] \in CallRow /\ call[c].op = "create" /\ call[c].who \in Id
    BY <1>0, <1>4 DEF ReadActive, CallAt, RecordsInv, CallsNamed
  <2>5. /\ new \in CallRow /\ new.op = "create" /\ new.who \in Id
        /\ new.pc = "write" => new.plan \in Plan
    BY <2>4 DEF CallRow
  <2>6. call' \in [Call -> CallRow]
    BY <1>0, <2>3, <2>5
  <2>7. CallsNamed'
    <3>1. call'[c] = new /\ \A d \in Call : d # c => call'[d] = call[d]
      BY <1>0, <2>3
    <3> HIDE DEF new
    <3> QED BY <2>5, <3>1 DEF RecordsInv, CallsNamed, CallAt
  <2>8. UNCHANGED <<vars, assignees, records>>
    BY <1>4 DEF ReadActive
  <2> QED
    BY <2>6, <2>7, <2>8 DEF RecordsInv, RecordsTypeOK, CallRow, RecordsOnFile,
       OneRecordPerPlan, Kept, OnFile, Stored, vars
<1>5. CASE CreateRecord(c)
  BY <1>5, CreateKeeps
<1>6. CASE UpdateRecord(c)
  <2>1. call' \in [Call -> CallRow] /\ CallsNamed'
    BY <1>6, AnswerTyped DEF UpdateRecord
  <2>2. PICK r \in Call : r = call[c].of
    BY <1>6 DEF UpdateRecord, CallAt, RecordsInv, CallsNamed
  <2>3. PICK a \in Id \cup {NoId} : a = call[c].who
    BY <1>0 DEF CallRow
  <2>4. CASE Kept(r) /\ (a # NoId => OnFile(a))
    <3>1. PICK b : b = IF a = NoId THEN records[r].who ELSE a
      OBVIOUS
    <3>2. records[r] \in RecordRow /\ records[r].state = "on"
      BY <1>0, <2>4 DEF Kept
    <3>3. b \in Id \cup {NoId} /\ (b # NoId => OnFile(b))
      BY <2>4, <3>1, <3>2 DEF RecordRow, RecordsInv, RecordsOnFile
    <3>4. PICK new : new = [records[r] EXCEPT !.who = b]
      OBVIOUS
    <3>5. /\ new \in RecordRow /\ new.who = b /\ new.state = "on"
          /\ new.plan = records[r].plan
      BY <3>2, <3>3, <3>4 DEF RecordRow
    <3>6. records' = [records EXCEPT ![r] = new]
      BY <1>6, <2>2, <2>3, <2>4, <3>1, <3>4 DEF UpdateRecord
    <3>7. UNCHANGED <<vars, assignees>>
      BY <1>6 DEF UpdateRecord
    <3> QED BY <2>1, <3>3, <3>5, <3>6, <3>7, OneRowKeeps
  <2>5. CASE ~ (Kept(r) /\ (a # NoId => OnFile(a)))
    <3>1. UNCHANGED <<vars, assignees, records>>
      BY <1>6, <2>2, <2>3, <2>5 DEF UpdateRecord
    <3> QED
      BY <2>1, <3>1 DEF RecordsInv, RecordsTypeOK, CallRow, RecordsOnFile,
         OneRecordPerPlan, Kept, OnFile, Stored, vars
  <2> QED BY <2>4, <2>5
<1>7. CASE RemoveRecord(c)
  <2>1. call' \in [Call -> CallRow] /\ CallsNamed'
    BY <1>7, AnswerTyped DEF RemoveRecord
  <2>2. PICK r \in Call : r = call[c].of
    BY <1>7 DEF RemoveRecord, CallAt, RecordsInv, CallsNamed
  <2>3. UNCHANGED <<vars, assignees>>
    BY <1>7 DEF RemoveRecord
  <2>4. CASE Kept(r)
    <3>1. PICK new : new = [NoRow EXCEPT !.state = "removed"]
      OBVIOUS
    <3>2. new \in RecordRow /\ new.who = NoId /\ new.plan = NoPlan
      BY <3>1 DEF NoRow, RecordRow
    <3>3. records' = [records EXCEPT ![r] = new]
      BY <1>7, <2>2, <2>4, <3>1 DEF RemoveRecord
    <3>4. new.who # NoId => new.state = "on" /\ OnFile(new.who)
      BY <3>2
    <3>5. new.plan = NoPlan \/ (new.plan = records[r].plan /\ new.state = "on")
      BY <3>2
    <3>6. new \in RecordRow
      BY <3>2
    <3> QED BY <2>1, <2>3, <3>3, <3>4, <3>5, <3>6, OneRowKeeps
  <2>5. CASE ~ Kept(r)
    <3>1. UNCHANGED records
      BY <1>7, <2>2, <2>5 DEF RemoveRecord
    <3> QED
      BY <2>1, <2>3, <3>1 DEF RecordsInv, RecordsTypeOK, CallRow,
         RecordsOnFile, OneRecordPerPlan, Kept, OnFile, Stored, vars
  <2> QED BY <2>4, <2>5
<1>8. ASSUME NEW a \in Id, Judged(c, a) PROVE RecordsInv'
  <2>1. call' \in [Call -> CallRow] /\ CallsNamed'
    BY <1>8, AnswerTyped DEF Judged
  <2>2. PICK new : new = [NoRow EXCEPT !.state = "on", !.who = a]
    OBVIOUS
  <2>3. /\ new \in RecordRow /\ new.who = a /\ new.plan = NoPlan
        /\ new.state = "on"
    BY <2>2 DEF NoRow, RecordRow
  <2>4. /\ records' = [records EXCEPT ![c] = new]
        /\ OnFile(a) /\ UNCHANGED <<vars, assignees>>
    BY <1>8, <2>2 DEF Judged
  <2> QED BY <2>1, <2>3, <2>4, OneRowKeeps
<1> QED
  BY <1>1, <1>2, <1>3, <1>4, <1>5, <1>6, <1>7, <1>8 DEF Handle

\* What happens to assignees and plans.
LEMMA OthersKeep ==
  ASSUME RecordsInv,
         RequestStep \/ \E a \in Id : Register(a) \/ RemoveAssignee(a)
  PROVE  RecordsInv'
<1>0. /\ records \in [Call -> RecordRow]
      /\ assignees \in [Id -> {"absent", "on", "removed"}]
  BY DEF RecordsInv, RecordsTypeOK, RecordRow
<1>1. ASSUME NEW a \in Id, Register(a) PROVE RecordsInv'
  <2>1. /\ assignees' \in [Id -> {"absent", "on", "removed"}]
        /\ \A b \in Id : OnFile(b) => OnFile(b)'
    BY <1>0, <1>1 DEF Register, OnFile
  <2>2. UNCHANGED <<records, call>> /\ UNCHANGED vars
    BY <1>1 DEF Register
  <2>3. RecordsOnFile'
    <3> SUFFICES ASSUME NEW r \in Call
                 PROVE  /\ records[r].who # NoId =>
                             records[r].state = "on"
                             /\ assignees'[records[r].who] = "on"
                        /\ records[r].plan # NoPlan =>
                             records[r].state = "on"
                             /\ table[records[r].plan].state \in {"on", "off"}
      BY <2>2 DEF RecordsOnFile, Kept, OnFile, Stored, vars
    <3>1. records[r].who \in Id \cup {NoId}
      BY <1>0 DEF RecordRow
    <3> QED
      BY <2>1, <3>1 DEF RecordsInv, RecordsOnFile, Kept, OnFile, Stored
  <2> QED
    BY <2>1, <2>2, <2>3 DEF RecordsInv, RecordsTypeOK, CallsNamed, CallAt,
       OneRecordPerPlan
<1>2. ASSUME NEW a \in Id, RemoveAssignee(a) PROVE RecordsInv'
  <2>1. /\ assignees' \in [Id -> {"absent", "on", "removed"}]
        /\ \A b \in Id : b # a /\ OnFile(b) => OnFile(b)'
    BY <1>0, <1>2 DEF RemoveAssignee, OnFile
  <2>2. ASSUME NEW r \in Call
        PROVE  /\ records'[r] \in RecordRow
               /\ records'[r].state = records[r].state
               /\ records'[r].plan = records[r].plan
               /\ records'[r].who # a
               /\ records'[r].who \in {records[r].who, NoId}
    <3>1. records[r] \in RecordRow
      BY <1>0
    <3>2. records'[r] = IF records[r].who = a
                        THEN [records[r] EXCEPT !.who = NoId] ELSE records[r]
      BY <1>2 DEF RemoveAssignee
    <3> QED BY <3>1, <3>2, NoIdAssumption DEF RecordRow
  <2>3. records' \in [Call -> RecordRow]
    BY <1>2, <2>2 DEF RemoveAssignee
  <2>4. UNCHANGED call /\ UNCHANGED vars
    BY <1>2 DEF RemoveAssignee
  <2>5. RecordsOnFile'
    <3> SUFFICES ASSUME NEW r \in Call
                 PROVE  /\ records'[r].who # NoId =>
                             records'[r].state = "on"
                             /\ assignees'[records'[r].who] = "on"
                        /\ records'[r].plan # NoPlan =>
                             records'[r].state = "on"
                             /\ table'[records'[r].plan].state \in {"on", "off"}
      BY DEF RecordsOnFile, Kept, OnFile, Stored
    <3>1. records'[r].who \in Id \cup {NoId}
      BY <2>2 DEF RecordRow
    <3> QED
      BY <2>1, <2>2, <2>4, <3>1
      DEF RecordsInv, RecordsOnFile, Kept, OnFile, Stored, vars
  <2>6. OneRecordPerPlan'
    BY <2>2 DEF RecordsInv, OneRecordPerPlan
  <2> QED
    BY <2>1, <2>3, <2>4, <2>5, <2>6
    DEF RecordsInv, RecordsTypeOK, RecordRow, CallsNamed, CallAt
<1>3. CASE RequestStep
  <2>1. ASSUME NEW r \in Call
        PROVE  /\ records'[r] \in RecordRow
               /\ records'[r].state = records[r].state
               /\ records'[r].who = records[r].who
               /\ records'[r].plan \in {records[r].plan, NoPlan}
               /\ records'[r].plan # NoPlan =>
                    table'[records'[r].plan].state \in {"on", "off"}
    <3>1. records[r] \in RecordRow
      BY <1>0
    <3>2. records'[r] =
            IF \E p \in Plan : records[r].plan = p /\ Stored(p)'
            THEN records[r] ELSE [records[r] EXCEPT !.plan = NoPlan]
      BY <1>3 DEF RequestStep
    <3>3. CASE \E p \in Plan : records[r].plan = p /\ Stored(p)'
      BY <3>1, <3>2, <3>3 DEF Stored
    <3>4. CASE ~ \E p \in Plan : records[r].plan = p /\ Stored(p)'
      BY <3>1, <3>2, <3>4 DEF RecordRow
    <3> QED BY <3>3, <3>4
  <2>2. records' \in [Call -> RecordRow]
    BY <1>3, <2>1 DEF RequestStep
  <2>3. UNCHANGED <<assignees, call>>
    BY <1>3 DEF RequestStep
  <2>4. RecordsOnFile'
    BY <2>1, <2>3 DEF RecordsInv, RecordsOnFile, Kept, OnFile, Stored
  <2>5. OneRecordPerPlan'
    BY <2>1 DEF RecordsInv, OneRecordPerPlan
  <2> QED
    BY <2>2, <2>3, <2>4, <2>5
    DEF RecordsInv, RecordsTypeOK, RecordRow, CallsNamed, CallAt
<1> QED
  BY <1>1, <1>2, <1>3

\* A restart deletes no plan and ends the requests.
LEMMA RestartKeeps ==
  ASSUME RecordsInv, ProcessRestarts
  PROVE  RecordsInv'
<1>1. UNCHANGED <<table, assignees, records>>
  BY DEF ProcessRestarts, Restart
<1>2. call \in [Call -> CallRow]
  BY DEF RecordsInv, RecordsTypeOK, CallRow
<1>3. ASSUME NEW c \in Call
      PROVE  /\ call'[c] \in CallRow
             /\ call'[c].pc \notin {"known", "write"}
    <2>1. call[c] \in CallRow
      BY <1>2
    <2>2. call'[c] = IF CallOpen(c) THEN [call[c] EXCEPT !.pc = "failed"]
                     ELSE call[c]
      BY DEF ProcessRestarts, CallsAfterStop
    <2> QED BY <2>1, <2>2 DEF CallRow, CallOpen
<1>4. call' \in [Call -> CallRow]
  BY <1>3 DEF ProcessRestarts, CallsAfterStop
<1>5. CallsNamed'
  BY <1>3 DEF CallsNamed, CallAt
<1> QED
  BY <1>1, <1>4, <1>5 DEF RecordsInv, RecordsTypeOK, CallRow, RecordsOnFile,
     OneRecordPerPlan, Kept, OnFile, Stored

\* Every step.
LEMMA RecordsInvNext ==
  TypeOK /\ RecordsInv /\ [AdministrationNext]_administrationVars => RecordsInv'
<1> SUFFICES ASSUME TypeOK, RecordsInv,
                    [AdministrationNext]_administrationVars
             PROVE  RecordsInv'
  OBVIOUS
<1>1. CASE RecordsNext
  BY <1>1, HandleKeeps, OthersKeep DEF RecordsNext
<1>2. CASE UNCHANGED <<vars, recordsVars>>
  BY <1>2 DEF RecordsInv, RecordsTypeOK, CallsNamed, CallAt, RecordsOnFile,
     OneRecordPerPlan, Kept, OnFile, Stored, vars, recordsVars
<1>3. CASE ProcessRestarts
  BY <1>3, RestartKeeps
<1> QED
  BY <1>1, <1>2, <1>3 DEF AdministrationNext, administrationVars

\* What the records say holds throughout.
LEMMA RecordsInvAlways == AdministrationSpec => [](TypeOK /\ RecordsInv)
<1>1. AdministrationInit => RecordsInv
  BY RecordsInvInit DEF AdministrationInit
<1>2. AdministrationSpec => []TypeOK
  BY PlansUndisturbed, TypeCorrect, PTL
<1> QED
  BY <1>1, <1>2, RecordsInvNext, PTL DEF AdministrationSpec

\* A delinquency record is about an assignee on file or about nobody, under a
\* plan on file or under none, whatever is removed between the look and the
\* insert (defaulters.service.ts:22-60).
THEOREM RecordsStayOnFile == AdministrationSpec => []RecordsOnFile
<1>1. TypeOK /\ RecordsInv => RecordsOnFile
  BY DEF RecordsInv
<1> QED
  BY <1>1, RecordsInvAlways, PTL

\* A plan has one delinquency record, whichever requests made under it overlap.
THEOREM PlanHasOneRecord == AdministrationSpec => []OneRecordPerPlan
<1>1. TypeOK /\ RecordsInv => OneRecordPerPlan
  BY DEF RecordsInv
<1> QED
  BY <1>1, RecordsInvAlways, PTL

(***************************************************************************)
(* The grounds                                                             *)
(***************************************************************************)
SquareRow == [name : Name \cup {NoName}, in : Graveyard \cup {NoGraveyard}]

ValtRow == [name : Name \cup {NoName}, in : Task \cup {NoTask},
            quantity : 0..Most]

\* What a request that is to write is about.
JobNamed(j) ==
  j.pc = "write" =>
    /\ j.name \in Name
    /\ j.op \in {"newSquare", "square"} => j.to \in Graveyard
    /\ j.op # "newSquare" => j.of \in Task
    /\ j.op \in {"newValt", "valt", "drawer"} => j.n \in 1..Most

\* t is to add a drawer to the vault v.
Adds(t, v) == Writes(t, "drawer") /\ job[t].of = v

\* A vault is on file only after the request that makes it, and is asked for a
\* drawer only then.
MadeBefore ==
  /\ \A v \in Task : IsValt(v) => job[v].pc = "done"
  /\ \A t, v \in Task : Adds(t, v) => job[v].pc = "done"

\* Names are unique over all squares and over all vaults.
NamesUnique ==
  \A x, y \in Task : x # y =>
    /\ IsSquare(x) => squares[x].name # squares[y].name
    /\ IsValt(x) => valts[x].name # valts[y].name

\* A vault has room for the drawer that was counted, which is one.
RoomFor(v) ==
  /\ Cardinality(DrawersOf(v)) <= valts[v].quantity
  /\ \A t \in Task : Adds(t, v) =>
       Cardinality(DrawersOf(v)) < valts[v].quantity
  /\ \A s, t \in Task : Adds(s, v) /\ Adds(t, v) => s = t

Counted ==
  /\ \A v \in Task : IsFiniteSet(DrawersOf(v))
  /\ \A v \in Task \ crowded : IsValt(v) => RoomFor(v)

JobsTyped ==
  /\ job \in [Task -> JobRecord]
  /\ \A t \in Task : JobNamed(job[t])

GroundsTyped ==
  /\ graveyards \subseteq Graveyard
  /\ squares \in [Task -> SquareRow]
  /\ valts \in [Task -> ValtRow]
  /\ drawers \in [Label -> Task \cup {NoTask}]
  /\ crowded \subseteq Task

GroundsInv ==
  JobsTyped /\ GroundsTyped /\ MadeBefore /\ PlacedOnFile /\ NamesUnique
  /\ Counted

\* The first state.
LEMMA GroundsInvInit == GroundsInit => GroundsInv
<1> SUFFICES ASSUME GroundsInit PROVE GroundsInv
  OBVIOUS
<1>1. NoSquare \in SquareRow /\ NoVault \in ValtRow /\ NoJob \in JobRecord
  BY MostAssumption
  DEF NoSquare, NoVault, NoJob, SquareRow, ValtRow, JobRecord, Op
<1>2. \A t \in Task : /\ job[t].pc = "idle" /\ squares[t].name = NoName
                      /\ valts[t].name = NoName /\ valts[t].in = NoTask
  BY DEF GroundsInit, NoSquare, NoVault, NoJob
<1>3. JobsTyped /\ GroundsTyped
  BY <1>1, <1>2 DEF GroundsInit, JobsTyped, JobNamed, GroundsTyped
<1>4. MadeBefore /\ NamesUnique
  BY <1>2
  DEF MadeBefore, IsValt, IsSquare, Adds, Writes, NamesUnique
<1>5. \A l \in Label : drawers[l] = NoTask
  BY DEF GroundsInit
<1>6. PlacedOnFile
  BY <1>2, <1>5 DEF PlacedOnFile, IsSquare, IsValt
<1>7. Counted
  <2>1. \A v \in Task : DrawersOf(v) = {}
    BY <1>5, SentinelsAssumption DEF DrawersOf
  <2> QED BY <1>2, <2>1, FS_EmptySet DEF Counted, IsValt
<1> QED BY <1>3, <1>4, <1>6, <1>7 DEF GroundsInv

\* A request that begins.
LEMMA AskEffect ==
  ASSUME GroundsInv, NEW t \in Task,
         NEW op \in {"newSquare", "square", "newValt", "valt", "drawer"},
         NEW of \in Task \cup {NoTask}, NEW to \in Graveyard \cup {NoGraveyard},
         NEW name \in Name, NEW n \in 0..Most,
         op \in {"newSquare", "square"} => to \in Graveyard,
         op # "newSquare" => of \in Task,
         op \in {"newValt", "valt", "drawer"} => n \in 1..Most,
         Ask(t, op, of, to, name, n)
  PROVE  /\ JobsTyped'
         /\ job[t].pc = "idle" /\ job'[t].pc = "write"
         /\ job'[t].op = op /\ job'[t].of = of
         /\ \A s \in Task : s # t => job'[s] = job[s]
<1> DEFINE new == [pc |-> "write", op |-> op, of |-> of, to |-> to,
                   name |-> name, n |-> n]
<1>1. job \in [Task -> JobRecord] /\ \A s \in Task : JobNamed(job[s])
  BY DEF GroundsInv, JobsTyped
<1>2. job' = [job EXCEPT ![t] = new] /\ job[t].pc = "idle"
  BY DEF Ask
<1>3. new \in JobRecord
  BY DEF JobRecord, Op
<1>4. JobNamed(new)
  BY DEF JobNamed
<1>5. job' \in [Task -> JobRecord]
  BY <1>1, <1>2, <1>3
<1>6. job'[t] = new /\ \A s \in Task : s # t => job'[s] = job[s]
  BY <1>1, <1>2
<1>7. \A s \in Task : JobNamed(job'[s])
  <2> HIDE DEF new
  <2> QED BY <1>1, <1>4, <1>6
<1> QED BY <1>2, <1>5, <1>6, <1>7 DEF JobsTyped, JobNamed

\* A request that ends.
LEMMA EndEffect ==
  ASSUME GroundsInv, NEW t \in Task, NEW pc \in {"done", "refused", "failed"},
         job[t].pc = "write", End(t, pc)
  PROVE  /\ JobsTyped'
         /\ job'[t].pc = pc
         /\ \A s \in Task : s # t => job'[s] = job[s]
<1>1. job \in [Task -> JobRecord] /\ \A s \in Task : JobNamed(job[s])
  BY DEF GroundsInv, JobsTyped
<1>2. PICK new : new = [job[t] EXCEPT !.pc = pc]
  OBVIOUS
<1>3. job' = [job EXCEPT ![t] = new]
  BY <1>2 DEF End
<1>4. job[t] \in JobRecord
  BY <1>1
<1>5. new \in JobRecord /\ new.pc = pc
  BY <1>2, <1>4 DEF JobRecord
<1>6. job' \in [Task -> JobRecord]
  BY <1>1, <1>3, <1>5
<1>7. job'[t] = new /\ \A s \in Task : s # t => job'[s] = job[s]
  BY <1>1, <1>3
<1>8. \A s \in Task : JobNamed(job'[s])
  BY <1>1, <1>5, <1>7 DEF JobNamed
<1> QED BY <1>5, <1>6, <1>7, <1>8 DEF JobsTyped, JobNamed

\* A request of one statement.
LEMMA ServeEffect ==
  ASSUME GroundsInv, NEW t \in Task, Serve(t)
  PROVE  /\ JobsTyped'
         /\ job[t].pc = "idle" /\ job'[t].pc = "done"
         /\ \A s \in Task : s # t => job'[s] = job[s]
<1>1. job \in [Task -> JobRecord] /\ \A s \in Task : JobNamed(job[s])
  BY DEF GroundsInv, JobsTyped
<1>2. PICK new : new = [NoJob EXCEPT !.pc = "done", !.op = "remove"]
  OBVIOUS
<1>3. job' = [job EXCEPT ![t] = new] /\ job[t].pc = "idle"
  BY <1>2 DEF Serve
<1>4. new \in JobRecord /\ new.pc = "done"
  <2>1. new = [pc |-> "done", op |-> "remove", of |-> NoTask,
               to |-> NoGraveyard, name |-> NoName, n |-> 0]
    BY <1>2 DEF NoJob
  <2> QED BY <2>1, MostAssumption DEF JobRecord, Op
<1>5. job' \in [Task -> JobRecord]
  BY <1>1, <1>3, <1>4
<1>6. job'[t] = new /\ \A s \in Task : s # t => job'[s] = job[s]
  BY <1>1, <1>3
<1>7. \A s \in Task : JobNamed(job'[s])
  BY <1>1, <1>4, <1>6 DEF JobNamed
<1> QED BY <1>3, <1>4, <1>5, <1>6, <1>7 DEF JobsTyped, JobNamed

\* A step that adds no drawer and asks for none keeps the count right.
LEMMA CountKept ==
  ASSUME GroundsInv, crowded \subseteq crowded',
         \A v \in Task : DrawersOf(v)' \subseteq DrawersOf(v),
         \A t, v \in Task : Adds(t, v)' => Adds(t, v),
         valts' \in [Task -> ValtRow],
         \A v \in Task \ crowded' :
           IsValt(v)' => IsValt(v) /\ valts[v].quantity <= valts'[v].quantity
  PROVE  Counted'
<1>1. \A v \in Task : IsFiniteSet(DrawersOf(v)')
  BY FS_Subset DEF GroundsInv, Counted
<1>2. ASSUME NEW v \in Task, v \notin crowded', IsValt(v)'
      PROVE  RoomFor(v)'
  <2>1. RoomFor(v) /\ IsFiniteSet(DrawersOf(v))
    BY <1>2 DEF GroundsInv, Counted
  <2>2. PICK D : D = DrawersOf(v)
    OBVIOUS
  <2>3. PICK E : E = DrawersOf(v)'
    OBVIOUS
  <2>4. E \in SUBSET D /\ IsFiniteSet(D) /\ IsFiniteSet(E)
    BY <1>1, <2>1, <2>2, <2>3
  <2>5. /\ Cardinality(E) \in Nat /\ Cardinality(D) \in Nat
        /\ Cardinality(E) <= Cardinality(D)
    BY <2>4, FS_CardinalityType, FS_Subset
  <2>6. valts \in [Task -> ValtRow]
    BY DEF GroundsInv, GroundsTyped
  <2>7. /\ valts[v].quantity \in Nat /\ valts'[v].quantity \in Nat
        /\ valts[v].quantity <= valts'[v].quantity
    BY <1>2, <2>6, MostAssumption DEF ValtRow
  <2>8. Cardinality(E) <= valts'[v].quantity
    BY <2>1, <2>2, <2>5, <2>7 DEF RoomFor
  <2>9. \A t \in Task : Adds(t, v)' => Cardinality(E) < valts'[v].quantity
    BY <2>1, <2>2, <2>5, <2>7 DEF RoomFor
  <2>10. \A s, t \in Task : Adds(s, v)' /\ Adds(t, v)' => s = t
    BY <2>1 DEF RoomFor
  <2> QED BY <2>3, <2>8, <2>9, <2>10 DEF RoomFor
<1> QED BY <1>1, <1>2 DEF Counted

\* What a step does to the requests, when it asks for no drawer.
Quiet ==
  /\ JobsTyped'
  /\ \A t, v \in Task : Adds(t, v)' => Adds(t, v)
  /\ \A t \in Task : job[t].pc = "done" => job'[t].pc = "done"

\* A request of one statement asks for no drawer.
LEMMA ServeQuiet ==
  ASSUME GroundsInv, NEW t \in Task, Serve(t)
  PROVE  Quiet
BY ServeEffect DEF Quiet, Adds, Writes

\* Nor does one that ends.
LEMMA EndQuiet ==
  ASSUME GroundsInv, NEW t \in Task, NEW pc \in {"done", "refused", "failed"},
         job[t].pc = "write", End(t, pc)
  PROVE  Quiet
BY EndEffect DEF Quiet, Adds, Writes

\* Nor does one that begins, of any other kind.
LEMMA AskQuiet ==
  ASSUME GroundsInv, NEW t \in Task,
         NEW op \in {"newSquare", "square", "newValt", "valt"},
         NEW of \in Task \cup {NoTask}, NEW to \in Graveyard \cup {NoGraveyard},
         NEW name \in Name, NEW n \in 0..Most,
         op \in {"newSquare", "square"} => to \in Graveyard,
         op # "newSquare" => of \in Task,
         op \in {"newValt", "valt"} => n \in 1..Most,
         Ask(t, op, of, to, name, n)
  PROVE  Quiet
<1>1. /\ JobsTyped'
      /\ job[t].pc = "idle" /\ job'[t].op = op
      /\ \A s \in Task : s # t => job'[s] = job[s]
  BY AskEffect
<1> QED BY <1>1 DEF Quiet, Adds, Writes

\* A step that makes no vault and changes none but for its square.
LEMMA VaultsStay ==
  ASSUME GroundsInv, Quiet, UNCHANGED <<drawers, crowded>>,
         valts' \in [Task -> ValtRow],
         \A v \in Task : /\ valts'[v].name = valts[v].name
                         /\ valts'[v].quantity = valts[v].quantity
  PROVE  MadeBefore' /\ Counted'
<1>1. MadeBefore'
  BY DEF GroundsInv, MadeBefore, Quiet, IsValt
<1>2. \A v \in Task : DrawersOf(v)' \subseteq DrawersOf(v)
  BY DEF DrawersOf
<1>3. valts \in [Task -> ValtRow]
  BY DEF GroundsInv, GroundsTyped
<1>4. \A v \in Task \ crowded' :
        IsValt(v)' => IsValt(v) /\ valts[v].quantity <= valts'[v].quantity
  BY <1>3, MostAssumption DEF IsValt, ValtRow
<1> QED BY <1>1, <1>2, <1>4, CountKept DEF Quiet

\* A step that changes requests only.
LEMMA OnlyJobs ==
  ASSUME GroundsInv, Quiet,
         UNCHANGED <<graveyards, squares, valts, drawers, crowded>>
  PROVE  GroundsInv'
<1>1. MadeBefore' /\ Counted'
  BY VaultsStay DEF GroundsInv, GroundsTyped
<1> QED
  BY <1>1 DEF GroundsInv, GroundsTyped, Quiet, PlacedOnFile, NamesUnique,
     IsSquare, IsValt

\* A square that is added or changed.
LEMMA SquareWritten ==
  ASSUME GroundsInv, Quiet, NEW s \in Task, NEW name \in Name,
         NEW g \in graveyards,
         \A x \in Task \ {s} : squares[x].name # name,
         squares' = [squares EXCEPT ![s] = [name |-> name, in |-> g]],
         UNCHANGED <<graveyards, valts, drawers, crowded>>
  PROVE  GroundsInv'
<1>1. squares \in [Task -> SquareRow] /\ g \in Graveyard
  BY DEF GroundsInv, GroundsTyped
<1>2. /\ squares' \in [Task -> SquareRow]
      /\ squares'[s].name = name /\ squares'[s].in = g
      /\ \A x \in Task : x # s => squares'[x] = squares[x]
  BY <1>1 DEF SquareRow
<1>3. MadeBefore' /\ Counted'
  BY VaultsStay DEF GroundsInv, GroundsTyped
<1>4. name # NoName
  BY SentinelsAssumption
<1>5. \A x \in Task : IsSquare(x) => IsSquare(x)'
  BY <1>2, <1>4 DEF IsSquare
<1>6. PlacedOnFile'
  <2>1. ASSUME NEW x \in Task, IsSquare(x)'
        PROVE  squares'[x].in \in graveyards'
    BY <1>2, <2>1 DEF GroundsInv, PlacedOnFile, IsSquare
  <2>2. ASSUME NEW v \in Task, valts'[v].in # NoTask
        PROVE  IsValt(v)' /\ squares'[valts'[v].in].name # NoName
    <3>1. valts \in [Task -> ValtRow]
      BY DEF GroundsInv, GroundsTyped
    <3>2. PICK x \in Task : x = valts[v].in
      BY <2>2, <3>1 DEF ValtRow
    <3>3. IsValt(v) /\ IsSquare(x)
      BY <2>2, <3>2 DEF GroundsInv, PlacedOnFile
    <3>4. valts'[v].in = x /\ IsSquare(x)'
      BY <1>5, <3>2, <3>3
    <3> QED BY <3>3, <3>4 DEF IsSquare, IsValt
  <2> QED BY <2>1, <2>2 DEF GroundsInv, PlacedOnFile, IsValt, IsSquare
<1>7. NamesUnique'
  BY <1>2 DEF GroundsInv, NamesUnique, IsSquare, IsValt
<1> QED
  BY <1>2, <1>3, <1>6, <1>7 DEF GroundsInv, GroundsTyped, Quiet

\* Requests about graveyards and squares.
LEMMA SquaresKeep ==
  ASSUME GroundsInv, NEW t \in Task, Squares(t)
  PROVE  GroundsInv'
<1>0. /\ squares \in [Task -> SquareRow] /\ valts \in [Task -> ValtRow]
      /\ graveyards \subseteq Graveyard
      /\ JobNamed(job[t])
  BY DEF GroundsInv, GroundsTyped, JobsTyped
<1>1. ASSUME NEW g \in Graveyard, RemoveGraveyard(t, g) PROVE GroundsInv'
  <2>1. Quiet
    BY <1>1, ServeQuiet DEF RemoveGraveyard
  <2>2. /\ graveyards' = graveyards \ {g}
        /\ \A s \in Task : squares[s].in # g
        /\ UNCHANGED <<squares, valts, drawers, crowded>>
    BY <1>1 DEF RemoveGraveyard
  <2>3. MadeBefore' /\ Counted'
    BY <1>0, <2>1, <2>2, VaultsStay
  <2>4. PlacedOnFile'
    BY <2>2 DEF GroundsInv, PlacedOnFile, IsSquare, IsValt
  <2> QED
    BY <2>1, <2>2, <2>3, <2>4 DEF GroundsInv, GroundsTyped, Quiet,
       NamesUnique, IsSquare, IsValt
<1>2. ASSUME NEW name \in Name, NEW g \in Graveyard,
             CreateSquareCheck(t, name, g)
      PROVE  GroundsInv'
  <2>1. Ask(t, "newSquare", NoTask, g, name, 0)
    BY <1>2 DEF CreateSquareCheck
  <2>2. Quiet
    BY <2>1, MostAssumption, AskQuiet
  <2> QED BY <1>2, <2>2, OnlyJobs DEF CreateSquareCheck
<1>3. ASSUME NEW name \in Name, NEW g \in Graveyard, NEW s \in Task,
             UpdateSquareCheck(t, s, name, g)
      PROVE  GroundsInv'
  <2>1. Ask(t, "square", s, g, name, 0)
    BY <1>3 DEF UpdateSquareCheck
  <2>2. Quiet
    BY <2>1, MostAssumption, AskQuiet
  <2> QED BY <1>3, <2>2, OnlyJobs DEF UpdateSquareCheck
<1>4. CASE CreateSquare(t)
  <2>1. job[t].pc = "write"
    BY <1>4 DEF CreateSquare, Writes
  <2>2. job[t].op = "newSquare"
    BY <1>4 DEF CreateSquare, Writes
  <2>3. job[t].name \in Name
    BY <1>0, <2>1 DEF JobNamed
  <2>4. Quiet
    BY <1>4, <2>1, EndQuiet DEF CreateSquare
  <2>5. CASE /\ job[t].to \in graveyards
             /\ \A s \in Task : squares[s].name # job[t].name
    <3>1. /\ squares' = [squares EXCEPT ![t] = [name |-> job[t].name,
                                                in |-> job[t].to]]
          /\ UNCHANGED <<graveyards, valts, drawers, crowded>>
      BY <1>4, <2>5 DEF CreateSquare
    <3> QED BY <2>3, <2>4, <2>5, <3>1, SquareWritten
  <2>6. CASE ~ (/\ job[t].to \in graveyards
                /\ \A s \in Task : squares[s].name # job[t].name)
    BY <1>4, <2>4, <2>6, OnlyJobs DEF CreateSquare
  <2> QED BY <2>5, <2>6
<1>5. CASE UpdateSquare(t)
  <2>1. job[t].pc = "write" /\ job[t].op = "square"
    BY <1>5 DEF UpdateSquare, Writes
  <2>2. PICK s \in Task : s = job[t].of
    BY <1>0, <2>1 DEF JobNamed
  <2>3. job[t].name \in Name
    BY <1>0, <2>1 DEF JobNamed
  <2>4. Quiet
    BY <1>5, <2>1, EndQuiet DEF UpdateSquare
  <2>5. CASE /\ IsSquare(s) /\ job[t].to \in graveyards
             /\ \A x \in Task \ {s} : squares[x].name # job[t].name
    <3>1. /\ squares' = [squares EXCEPT ![s] = [name |-> job[t].name,
                                                in |-> job[t].to]]
          /\ UNCHANGED <<graveyards, valts, drawers, crowded>>
      BY <1>5, <2>2, <2>5 DEF UpdateSquare
    <3> QED BY <2>3, <2>4, <2>5, <3>1, SquareWritten
  <2>6. CASE ~ (/\ IsSquare(s) /\ job[t].to \in graveyards
                /\ \A x \in Task \ {s} : squares[x].name # job[t].name)
    BY <1>5, <2>2, <2>4, <2>6, OnlyJobs DEF UpdateSquare
  <2> QED BY <2>5, <2>6
<1>6. ASSUME NEW s \in Task, RemoveSquare(t, s) PROVE GroundsInv'
  <2>1. Quiet
    BY <1>6, ServeQuiet DEF RemoveSquare
  <2>2. NoSquare \in SquareRow /\ NoSquare.name = NoName
    BY DEF NoSquare, SquareRow
  <2>3. squares' = [squares EXCEPT ![s] = NoSquare]
    BY <1>6 DEF RemoveSquare
  <2>4. /\ squares' \in [Task -> SquareRow]
        /\ squares'[s].name = NoName
        /\ \A x \in Task : x # s => squares'[x] = squares[x]
    BY <1>0, <2>2, <2>3
  <2>5. ASSUME NEW v \in Task
        PROVE  /\ valts'[v] \in ValtRow
               /\ valts'[v].name = valts[v].name
               /\ valts'[v].quantity = valts[v].quantity
               /\ valts'[v].in # NoTask =>
                    valts'[v].in = valts[v].in /\ valts[v].in # s
    <3>1. valts[v] \in ValtRow
      BY <1>0
    <3>2. valts'[v] = [valts[v] EXCEPT !.in = IF @ = s THEN NoTask ELSE @]
      BY <1>6 DEF RemoveSquare
    <3>3. PICK x : x = IF valts[v].in = s THEN NoTask ELSE valts[v].in
      OBVIOUS
    <3>4. valts'[v] = [valts[v] EXCEPT !.in = x] /\ x \in Task \cup {NoTask}
      BY <3>1, <3>2, <3>3 DEF ValtRow
    <3> QED BY <3>1, <3>3, <3>4 DEF ValtRow
  <2>6. valts' \in [Task -> ValtRow]
    BY <1>6, <2>5 DEF RemoveSquare
  <2>7. UNCHANGED <<graveyards, drawers, crowded>>
    BY <1>6 DEF RemoveSquare
  <2>8. MadeBefore' /\ Counted'
    BY <2>1, <2>5, <2>6, <2>7, VaultsStay
  <2>9. PlacedOnFile'
    <3>1. ASSUME NEW x \in Task, IsSquare(x)'
          PROVE  squares'[x].in \in graveyards'
      BY <2>4, <2>7, <3>1 DEF GroundsInv, PlacedOnFile, IsSquare
    <3>2. ASSUME NEW v \in Task, valts'[v].in # NoTask
          PROVE  valts'[v].name # NoName /\ squares'[valts'[v].in].name # NoName
      <4>1. PICK x \in Task : x = valts[v].in /\ x # s /\ x = valts'[v].in
        BY <1>0, <2>5, <3>2 DEF ValtRow
      <4>2. IsValt(v) /\ IsSquare(x)
        BY <2>5, <3>2, <4>1 DEF GroundsInv, PlacedOnFile
      <4>3. squares'[x] = squares[x]
        BY <2>4, <4>1
      <4> QED BY <2>5, <4>1, <4>2, <4>3 DEF IsSquare, IsValt
    <3>3. ASSUME NEW l \in Label, drawers'[l] # NoTask
          PROVE  valts'[drawers'[l]].name # NoName
      <4>1. PICK v \in Task : v = drawers[l] /\ v = drawers'[l]
        BY <2>7, <3>3 DEF GroundsInv, GroundsTyped
      <4> QED BY <2>5, <3>3, <4>1, <2>7 DEF GroundsInv, PlacedOnFile, IsValt
    <3> QED BY <3>1, <3>2, <3>3 DEF PlacedOnFile, IsSquare, IsValt
  <2>10. NamesUnique'
    BY <2>4, <2>5 DEF GroundsInv, NamesUnique, IsSquare, IsValt
  <2> QED
    BY <2>1, <2>4, <2>6, <2>7, <2>8, <2>9, <2>10
    DEF GroundsInv, GroundsTyped, Quiet
<1> QED
  BY <1>1, <1>2, <1>3, <1>4, <1>5, <1>6 DEF Squares

\* The labels of the drawers a vault is made with are as many as it is asked to
\* have.
LEMMA LabelsCounted ==
  ASSUME NEW name \in Name, NEW n \in 1..Most
  PROVE  /\ Labels(name, n) \subseteq Label
         /\ IsFiniteSet(Labels(name, n))
         /\ Cardinality(Labels(name, n)) <= n
<1>1. n \in Nat /\ n >= 1 /\ n <= Most
  BY MostAssumption
<1>2. Labels(name, n) \subseteq Label
  BY <1>1, MostAssumption DEF Labels, Label
<1>3. IsFiniteSet(1..n) /\ Cardinality(1..n) = n
  BY <1>1, FS_Interval
<1>4. PICK f : f = [i \in 1..n |-> <<name, i>>]
  OBVIOUS
<1>5. f \in Surjection(1..n, Labels(name, n))
  BY <1>4 DEF Surjection, Labels
<1> QED BY <1>2, <1>3, <1>5, FS_Surjection

\* A vault is made.
LEMMA CreateValtKeeps ==
  ASSUME GroundsInv, NEW t \in Task, CreateValt(t)
  PROVE  GroundsInv'
<1>1. /\ job[t].pc = "write" /\ job[t].op = "newValt"
      /\ JobNamed(job[t])
  BY DEF CreateValt, Writes, GroundsInv, JobsTyped
<1>2. PICK s \in Task : s = job[t].of
  BY <1>1 DEF JobNamed
<1>3. PICK name \in Name : name = job[t].name
  BY <1>1 DEF JobNamed
<1>4. PICK n \in 1..Most : n = job[t].n
  BY <1>1 DEF JobNamed
<1>5. CASE /\ IsSquare(s)
           /\ \A v \in Task : valts[v].name # name
           /\ \A l \in Labels(name, n) : drawers[l] = NoTask
  <2>1. /\ valts' = [valts EXCEPT ![t] = [name |-> name, in |-> s,
                                          quantity |-> n]]
        /\ drawers' = [l \in Label |-> IF l \in Labels(name, n) THEN t
                                       ELSE drawers[l]]
        /\ End(t, "done")
        /\ UNCHANGED <<graveyards, squares, crowded>>
    BY <1>2, <1>3, <1>4, <1>5 DEF CreateValt
  <2>2. Quiet /\ job'[t].pc = "done"
    BY <1>1, <2>1, EndQuiet, EndEffect
  <2>3. valts \in [Task -> ValtRow] /\ drawers \in [Label -> Task \cup {NoTask}]
    BY DEF GroundsInv, GroundsTyped
  <2>4. PICK new : new = [name |-> name, in |-> s, quantity |-> n]
    OBVIOUS
  <2>5. /\ new \in ValtRow /\ new.name = name /\ new.in = s
        /\ new.quantity = n
    BY <2>4, MostAssumption DEF ValtRow
  <2>6. /\ valts' \in [Task -> ValtRow] /\ valts'[t] = new
        /\ \A v \in Task : v # t => valts'[v] = valts[v]
    BY <2>1, <2>3, <2>4, <2>5
  <2>7. name # NoName /\ t # NoTask
    BY SentinelsAssumption
  <2>8. ~ IsValt(t) /\ \A r \in Task : ~ Adds(r, t)
    BY <1>1 DEF GroundsInv, MadeBefore
  <2>9. drawers' \in [Label -> Task \cup {NoTask}]
    BY <2>1, <2>3
  <2>10. MadeBefore'
    BY <2>2, <2>6 DEF GroundsInv, MadeBefore, Quiet, IsValt
  <2>11. DrawersOf(t) = {}
    BY <2>7, <2>8 DEF GroundsInv, PlacedOnFile, DrawersOf
  <2>12. DrawersOf(t)' = Labels(name, n)
    BY <2>1, <2>7, <2>11, LabelsCounted DEF DrawersOf
  <2>13. ASSUME NEW v \in Task, v # t PROVE DrawersOf(v)' = DrawersOf(v)
    BY <1>5, <2>1, <2>13, SentinelsAssumption DEF DrawersOf
  <2>14. Counted'
    <3>1. ASSUME NEW v \in Task, v # t
          PROVE  /\ IsFiniteSet(DrawersOf(v)')
                 /\ v \notin crowded' /\ IsValt(v)' => RoomFor(v)'
      BY <2>1, <2>2, <2>6, <2>13, <3>1
      DEF GroundsInv, Counted, RoomFor, Quiet, IsValt
    <3>2. IsFiniteSet(DrawersOf(t)')
      BY <2>12, LabelsCounted
    <3>3. RoomFor(t)'
      <4>1. \A r \in Task : ~ Adds(r, t)'
        BY <2>2, <2>8 DEF Quiet
      <4>2. Cardinality(DrawersOf(t)') <= valts'[t].quantity
        BY <2>5, <2>6, <2>12, LabelsCounted
      <4> QED BY <4>1, <4>2 DEF RoomFor
    <3> QED BY <3>1, <3>2, <3>3 DEF Counted
  <2>15. PlacedOnFile'
    <3>1. \A v \in Task : IsValt(v)' <=> v = t \/ IsValt(v)
      BY <2>5, <2>6, <2>7 DEF IsValt
    <3>2. ASSUME NEW v \in Task, valts'[v].in # NoTask
          PROVE  IsValt(v)' /\ squares'[valts'[v].in].name # NoName
      BY <1>5, <2>1, <2>5, <2>6, <3>1, <3>2
      DEF GroundsInv, PlacedOnFile, IsSquare
    <3>3. ASSUME NEW l \in Label, drawers'[l] # NoTask
          PROVE  valts'[drawers'[l]].name # NoName
      <4>1. PICK v \in Task : v = drawers'[l]
        BY <2>9, <3>3
      <4>2. v = t \/ v = drawers[l]
        BY <2>1, <4>1
      <4>3. v = t \/ IsValt(v)
        BY <4>1, <4>2, SentinelsAssumption DEF GroundsInv, PlacedOnFile, IsValt
      <4> QED BY <3>1, <4>1, <4>3 DEF IsValt
    <3> QED
      BY <2>1, <3>2, <3>3 DEF GroundsInv, PlacedOnFile, IsSquare, IsValt
  <2>16. NamesUnique'
    BY <1>5, <2>1, <2>5, <2>6 DEF GroundsInv, NamesUnique, IsSquare, IsValt
  <2> QED
    BY <2>1, <2>2, <2>6, <2>9, <2>10, <2>14, <2>15, <2>16
    DEF GroundsInv, GroundsTyped, Quiet
<1>6. CASE ~ (/\ IsSquare(s)
              /\ \A v \in Task : valts[v].name # name
              /\ \A l \in Labels(name, n) : drawers[l] = NoTask)
  <2>1. /\ End(t, "refused")
        /\ UNCHANGED <<graveyards, squares, valts, drawers, crowded>>
    BY <1>2, <1>3, <1>4, <1>6 DEF CreateValt
  <2> QED BY <1>1, <2>1, EndQuiet, OnlyJobs
<1> QED BY <1>5, <1>6

\* A vault is changed.
LEMMA UpdateValtKeeps ==
  ASSUME GroundsInv, NEW t \in Task, UpdateValt(t)
  PROVE  GroundsInv'
<1>1. /\ job[t].pc = "write" /\ job[t].op = "valt"
      /\ JobNamed(job[t])
  BY DEF UpdateValt, Writes, GroundsInv, JobsTyped
<1>2. PICK v \in Task : v = job[t].of
  BY <1>1 DEF JobNamed
<1>3. PICK name \in Name : name = job[t].name
  BY <1>1 DEF JobNamed
<1>4. PICK n \in 1..Most : n = job[t].n
  BY <1>1 DEF JobNamed
<1>5. Quiet
  BY <1>1, EndQuiet DEF UpdateValt
<1>6. CASE IsValt(v) /\ \A x \in Task \ {v} : valts[x].name # name
  <2>1. /\ valts' = [valts EXCEPT ![v].name = name, ![v].quantity = n]
        /\ crowded' = crowded \cup { x \in {v} : n < valts[x].quantity }
        /\ UNCHANGED <<graveyards, squares, drawers>>
    BY <1>2, <1>3, <1>4, <1>6 DEF UpdateValt
  <2>2. valts \in [Task -> ValtRow]
    BY DEF GroundsInv, GroundsTyped
  <2>3. PICK new : new = [valts[v] EXCEPT !.name = name, !.quantity = n]
    OBVIOUS
  <2>4. valts[v] \in ValtRow
    BY <2>2
  <2>5. /\ new \in ValtRow /\ new.name = name /\ new.quantity = n
        /\ new.in = valts[v].in
    <3>1. n \in 0..Most
      BY MostAssumption
    <3>2. new = [name |-> name, in |-> valts[v].in, quantity |-> n]
      BY <2>3, <2>4 DEF ValtRow
    <3>3. valts[v].in \in Task \cup {NoTask}
      BY <2>4 DEF ValtRow
    <3> QED BY <3>1, <3>2, <3>3 DEF ValtRow
  <2>6. /\ valts' \in [Task -> ValtRow] /\ valts'[v] = new
        /\ \A x \in Task : x # v => valts'[x] = valts[x]
    BY <2>1, <2>2, <2>3, <2>5
  <2>7. name # NoName
    BY SentinelsAssumption
  <2>8. \A x \in Task : (IsValt(x)' <=> IsValt(x)) /\ valts'[x].in = valts[x].in
    BY <1>6, <2>5, <2>6, <2>7 DEF IsValt
  <2>9. MadeBefore'
    BY <1>5, <2>8 DEF GroundsInv, MadeBefore, Quiet
  <2>10. Counted'
    <3>1. \A x \in Task : DrawersOf(x)' \subseteq DrawersOf(x)
      BY <2>1 DEF DrawersOf
    <3>2. ASSUME NEW x \in Task \ crowded'
          PROVE  valts[x].quantity <= valts'[x].quantity
      <4>1. valts[x].quantity \in Nat /\ valts[v].quantity \in Nat /\ n \in Nat
        BY <2>2, <2>4, MostAssumption DEF ValtRow
      <4>2. CASE x = v
        BY <2>1, <2>5, <2>6, <3>2, <4>1, <4>2
      <4>3. CASE x # v
        BY <2>6, <4>1, <4>3
      <4> QED BY <4>2, <4>3
    <3>3. crowded \subseteq crowded'
      BY <2>1
    <3> QED BY <1>5, <2>6, <2>8, <3>1, <3>2, <3>3, CountKept DEF Quiet
  <2>11. PlacedOnFile'
    <3>1. ASSUME NEW x \in Task, valts'[x].in # NoTask
          PROVE  IsValt(x)' /\ squares'[valts'[x].in].name # NoName
      BY <2>1, <2>8, <3>1 DEF GroundsInv, PlacedOnFile, IsSquare
    <3>2. ASSUME NEW l \in Label, drawers'[l] # NoTask
          PROVE  valts'[drawers'[l]].name # NoName
      <4>1. PICK x \in Task : x = drawers[l] /\ x = drawers'[l]
        BY <2>1, <3>2 DEF GroundsInv, GroundsTyped
      <4> QED BY <2>1, <2>8, <3>2, <4>1 DEF GroundsInv, PlacedOnFile, IsValt
    <3> QED
      BY <2>1, <3>1, <3>2 DEF GroundsInv, PlacedOnFile, IsSquare, IsValt
  <2>12. NamesUnique'
    BY <1>6, <2>1, <2>5, <2>6, <2>8
    DEF GroundsInv, NamesUnique, IsSquare, IsValt
  <2>13. crowded' \subseteq Task
    BY <2>1 DEF GroundsInv, GroundsTyped
  <2> QED
    BY <1>5, <2>1, <2>6, <2>9, <2>10, <2>11, <2>12, <2>13
    DEF GroundsInv, GroundsTyped, Quiet
<1>7. CASE ~ (IsValt(v) /\ \A x \in Task \ {v} : valts[x].name # name)
  <2>1. UNCHANGED <<graveyards, squares, valts, drawers, crowded>>
    BY <1>2, <1>3, <1>7 DEF UpdateValt
  <2> QED BY <1>5, <2>1, OnlyJobs
<1> QED BY <1>6, <1>7

\* A vault is removed with its drawers.
LEMMA RemoveValtKeeps ==
  ASSUME GroundsInv, NEW t \in Task, NEW v \in Task, RemoveValt(t, v)
  PROVE  GroundsInv'
<1>1. Quiet
  BY ServeQuiet DEF RemoveValt
<1>2. /\ valts' = [valts EXCEPT ![v] = NoVault]
      /\ drawers' = [l \in Label |-> IF drawers[l] = v THEN NoTask
                                     ELSE drawers[l]]
      /\ UNCHANGED <<graveyards, squares, crowded>>
  BY DEF RemoveValt
<1>3. /\ valts \in [Task -> ValtRow]
      /\ drawers \in [Label -> Task \cup {NoTask}]
  BY DEF GroundsInv, GroundsTyped
<1>4. NoVault \in ValtRow /\ NoVault.name = NoName /\ NoVault.in = NoTask
  BY MostAssumption DEF NoVault, ValtRow
<1>5. /\ valts' \in [Task -> ValtRow] /\ valts'[v] = NoVault
      /\ \A x \in Task : x # v => valts'[x] = valts[x]
  BY <1>2, <1>3, <1>4
<1>6. drawers' \in [Label -> Task \cup {NoTask}]
  BY <1>2, <1>3
<1>7. \A x \in Task : IsValt(x)' <=> x # v /\ IsValt(x)
  BY <1>4, <1>5 DEF IsValt
<1>8. MadeBefore'
  BY <1>1, <1>7 DEF GroundsInv, MadeBefore, Quiet
<1>9. Counted'
  <2>1. \A x \in Task : DrawersOf(x)' \subseteq DrawersOf(x)
    BY <1>2, SentinelsAssumption DEF DrawersOf
  <2>2. \A x \in Task \ crowded' :
          IsValt(x)' => IsValt(x) /\ valts[x].quantity <= valts'[x].quantity
    BY <1>3, <1>5, <1>7, MostAssumption DEF ValtRow
  <2> QED BY <1>1, <1>2, <1>5, <2>1, <2>2, CountKept DEF Quiet
<1>10. PlacedOnFile'
  <2>1. ASSUME NEW x \in Task, valts'[x].in # NoTask
        PROVE  IsValt(x)' /\ squares'[valts'[x].in].name # NoName
    BY <1>2, <1>4, <1>5, <1>7, <2>1 DEF GroundsInv, PlacedOnFile, IsSquare
  <2>2. ASSUME NEW l \in Label, drawers'[l] # NoTask
        PROVE  valts'[drawers'[l]].name # NoName
    <3>1. PICK x \in Task : x = drawers'[l] /\ x = drawers[l] /\ x # v
      BY <1>2, <1>3, <2>2
    <3> QED BY <1>5, <2>2, <3>1 DEF GroundsInv, PlacedOnFile, IsValt
  <2> QED
    BY <1>2, <2>1, <2>2 DEF GroundsInv, PlacedOnFile, IsSquare, IsValt
<1>11. NamesUnique'
  BY <1>2, <1>4, <1>5, <1>7 DEF GroundsInv, NamesUnique, IsSquare, IsValt
<1> QED
  BY <1>1, <1>2, <1>5, <1>6, <1>8, <1>9, <1>10, <1>11
  DEF GroundsInv, GroundsTyped, Quiet

\* A drawer is asked for.
LEMMA AddDrawerCheckKeeps ==
  ASSUME GroundsInv, NEW t \in Task, NEW v \in Task, NEW name \in Name,
         NEW n \in 1..Most, AddDrawerCheck(t, v, name, n)
  PROVE  GroundsInv'
<1>1. Ask(t, "drawer", v, NoGraveyard, name, n)
  BY DEF AddDrawerCheck
<1>2. /\ JobsTyped'
      /\ job[t].pc = "idle" /\ job'[t].op = "drawer" /\ job'[t].of = v
      /\ \A s \in Task : s # t => job'[s] = job[s]
  BY <1>1, AskEffect, MostAssumption
<1>3. /\ IsValt(v) /\ Cardinality(DrawersOf(v)) < valts[v].quantity
      /\ UNCHANGED <<graveyards, squares, valts, drawers>>
      /\ crowded' = crowded \cup { x \in {v} : \E s \in Task :
                                     Writes(s, "drawer") /\ job[s].of = x }
  BY DEF AddDrawerCheck
<1>4. \A s, x \in Task : Adds(s, x)' => Adds(s, x) \/ (s = t /\ x = v)
  BY <1>2 DEF Adds, Writes
<1>5. \A s \in Task : job[s].pc = "done" => job'[s].pc = "done"
  BY <1>2
<1>6. MadeBefore'
  <2>1. job'[v].pc = "done"
    BY <1>3, <1>5 DEF GroundsInv, MadeBefore
  <2> QED
    BY <1>3, <1>4, <1>5, <2>1 DEF GroundsInv, MadeBefore, IsValt
<1>7. Counted'
  <2>1. \A x \in Task : DrawersOf(x)' = DrawersOf(x)
    BY <1>3 DEF DrawersOf
  <2>2. ASSUME NEW x \in Task \ crowded', IsValt(x)' PROVE RoomFor(x)'
    <3>1. x \notin crowded /\ IsValt(x)
      BY <1>3, <2>2 DEF IsValt
    <3>2. RoomFor(x)
      BY <3>1 DEF GroundsInv, Counted
    <3>3. CASE x # v
      BY <1>3, <1>4, <2>1, <3>2, <3>3 DEF RoomFor
    <3>4. CASE x = v
      <4>1. \A s \in Task : ~ Adds(s, v)
        BY <1>3, <2>2, <3>4 DEF Adds
      <4> QED BY <1>3, <1>4, <2>1, <3>2, <3>4, <4>1 DEF RoomFor
    <3> QED BY <3>3, <3>4
  <2>3. \A x \in Task : IsFiniteSet(DrawersOf(x)')
    BY <2>1 DEF GroundsInv, Counted
  <2> QED BY <2>2, <2>3 DEF Counted
<1> QED
  BY <1>2, <1>3, <1>6, <1>7 DEF GroundsInv, GroundsTyped, PlacedOnFile,
     NamesUnique, IsSquare, IsValt

\* A drawer is added.
LEMMA AddDrawerKeeps ==
  ASSUME GroundsInv, NEW t \in Task, AddDrawer(t)
  PROVE  GroundsInv'
<1>1. /\ job[t].pc = "write" /\ job[t].op = "drawer"
      /\ JobNamed(job[t])
  BY DEF AddDrawer, Writes, GroundsInv, JobsTyped
<1>2. PICK v \in Task : v = job[t].of
  BY <1>1 DEF JobNamed
<1>3. PICK l \in Label : l = <<job[t].name, job[t].n>>
  BY <1>1 DEF JobNamed, Label
<1>4. Quiet
  BY <1>1, EndQuiet DEF AddDrawer
<1>5. CASE IsValt(v) /\ drawers[l] = NoTask
  <2>1. /\ drawers' = [drawers EXCEPT ![l] = v]
        /\ UNCHANGED <<graveyards, squares, valts, crowded>>
        /\ End(t, "done")
    BY <1>2, <1>3, <1>5 DEF AddDrawer
  <2>2. drawers \in [Label -> Task \cup {NoTask}]
    BY DEF GroundsInv, GroundsTyped
  <2>3. /\ drawers' \in [Label -> Task \cup {NoTask}] /\ drawers'[l] = v
        /\ \A k \in Label : k # l => drawers'[k] = drawers[k]
    BY <2>1, <2>2
  <2>4. MadeBefore'
    BY <1>4, <2>1 DEF GroundsInv, MadeBefore, Quiet, IsValt
  <2>5. \A x \in Task : x # v => DrawersOf(x)' = DrawersOf(x)
    BY <1>5, <2>3, SentinelsAssumption DEF DrawersOf
  <2>6. PICK D : D = DrawersOf(v)
    OBVIOUS
  <2>7. l \notin D /\ DrawersOf(v)' = D \cup {l} /\ IsFiniteSet(D)
    BY <1>5, <2>3, <2>6, SentinelsAssumption
    DEF DrawersOf, GroundsInv, Counted
  <2>8. /\ IsFiniteSet(D \cup {l})
        /\ Cardinality(D \cup {l}) = Cardinality(D) + 1
        /\ Cardinality(D) \in Nat
    BY <2>7, FS_AddElement, FS_CardinalityType
  <2>9. Adds(t, v) /\ ~ Adds(t, v)'
    BY <1>1, <1>2, <2>1, EndEffect DEF Adds, Writes
  <2>10. Counted'
    <3>1. \A x \in Task : IsFiniteSet(DrawersOf(x)')
      BY <2>5, <2>7, <2>8 DEF GroundsInv, Counted
    <3>2. ASSUME NEW x \in Task \ crowded', IsValt(x)' PROVE RoomFor(x)'
      <4>1. RoomFor(x)
        BY <2>1, <3>2 DEF GroundsInv, Counted, IsValt
      <4>2. CASE x # v
        BY <1>4, <2>1, <2>5, <4>1, <4>2 DEF RoomFor, Quiet
      <4>3. CASE x = v
        <5>1. \A s \in Task : ~ Adds(s, v)'
          BY <1>4, <2>9, <4>1, <4>3 DEF RoomFor, Quiet
        <5>2. Cardinality(D) < valts[v].quantity
          BY <2>6, <2>9, <4>1, <4>3 DEF RoomFor
        <5>3. valts[v].quantity \in Nat
          BY MostAssumption DEF GroundsInv, GroundsTyped, ValtRow
        <5>4. Cardinality(DrawersOf(v)') <= valts'[v].quantity
          BY <2>1, <2>7, <2>8, <5>2, <5>3
        <5> QED BY <4>3, <5>1, <5>4 DEF RoomFor
      <4> QED BY <4>2, <4>3
    <3> QED BY <3>1, <3>2 DEF Counted
  <2>11. PlacedOnFile'
    BY <1>5, <2>1, <2>3 DEF GroundsInv, PlacedOnFile, IsSquare, IsValt
  <2> QED
    BY <1>4, <2>1, <2>3, <2>4, <2>10, <2>11 DEF GroundsInv, GroundsTyped,
       Quiet, NamesUnique, IsSquare, IsValt
<1>6. CASE ~ (IsValt(v) /\ drawers[l] = NoTask)
  <2>1. UNCHANGED <<graveyards, squares, valts, drawers, crowded>>
    BY <1>2, <1>3, <1>6 DEF AddDrawer
  <2> QED BY <1>4, <2>1, OnlyJobs
<1> QED BY <1>5, <1>6

\* A drawer is removed.
LEMMA RemoveDrawerKeeps ==
  ASSUME GroundsInv, NEW t \in Task, NEW l \in Label, RemoveDrawer(t, l)
  PROVE  GroundsInv'
<1>1. Quiet
  BY ServeQuiet DEF RemoveDrawer
<1>2. /\ drawers' = [drawers EXCEPT ![l] = NoTask]
      /\ UNCHANGED <<graveyards, squares, valts, crowded>>
  BY DEF RemoveDrawer
<1>3. drawers \in [Label -> Task \cup {NoTask}]
  BY DEF GroundsInv, GroundsTyped
<1>4. /\ drawers' \in [Label -> Task \cup {NoTask}] /\ drawers'[l] = NoTask
      /\ \A k \in Label : k # l => drawers'[k] = drawers[k]
  BY <1>2, <1>3
<1>5. MadeBefore'
  BY <1>1, <1>2 DEF GroundsInv, MadeBefore, Quiet, IsValt
<1>6. Counted'
  <2>1. \A x \in Task : DrawersOf(x)' \subseteq DrawersOf(x)
    BY <1>4, SentinelsAssumption DEF DrawersOf
  <2>2. valts \in [Task -> ValtRow]
    BY DEF GroundsInv, GroundsTyped
  <2>3. \A x \in Task \ crowded' :
          IsValt(x)' => IsValt(x) /\ valts[x].quantity <= valts'[x].quantity
    BY <1>2, <2>2, MostAssumption DEF ValtRow, IsValt
  <2> QED BY <1>1, <1>2, <2>1, <2>2, <2>3, CountKept DEF Quiet
<1>7. PlacedOnFile'
  BY <1>2, <1>4 DEF GroundsInv, PlacedOnFile, IsSquare, IsValt
<1> QED
  BY <1>1, <1>2, <1>4, <1>5, <1>6, <1>7 DEF GroundsInv, GroundsTyped, Quiet,
     NamesUnique, IsSquare, IsValt

\* Requests about vaults and drawers.
LEMMA ValtsKeep ==
  ASSUME GroundsInv, NEW t \in Task, Valts(t)
  PROVE  GroundsInv'
<1>1. ASSUME NEW name \in Name, NEW s \in Task, NEW n \in 1..Most,
             CreateValtCheck(t, name, s, n)
      PROVE  GroundsInv'
  <2>1. Ask(t, "newValt", s, NoGraveyard, name, n) /\ n \in 0..Most
    BY <1>1, MostAssumption DEF CreateValtCheck
  <2>2. Quiet
    BY <2>1, AskQuiet
  <2> QED BY <1>1, <2>2, OnlyJobs DEF CreateValtCheck
<1>2. ASSUME NEW name \in Name, NEW v \in Task, NEW n \in 1..Most,
             UpdateValtCheck(t, v, name, n)
      PROVE  GroundsInv'
  <2>1. Ask(t, "valt", v, NoGraveyard, name, n) /\ n \in 0..Most
    BY <1>2, MostAssumption DEF UpdateValtCheck
  <2>2. Quiet
    BY <2>1, AskQuiet
  <2> QED BY <1>2, <2>2, OnlyJobs DEF UpdateValtCheck
<1> QED
  BY <1>1, <1>2, CreateValtKeeps, UpdateValtKeeps, RemoveValtKeeps,
     AddDrawerCheckKeeps, AddDrawerKeeps, RemoveDrawerKeeps DEF Valts

\* A restart ends the requests.
LEMMA GroundsRestartKeeps ==
  ASSUME GroundsInv, ProcessRestarts
  PROVE  GroundsInv'
<1>1. job \in [Task -> JobRecord]
  BY DEF GroundsInv, JobsTyped
<1>2. ASSUME NEW t \in Task
      PROVE  /\ job'[t] \in JobRecord /\ job'[t].pc # "write"
             /\ job[t].pc = "done" => job'[t].pc = "done"
  <2>1. job[t] \in JobRecord
    BY <1>1
  <2>2. job'[t] = IF job[t].pc = "write"
                  THEN [job[t] EXCEPT !.pc = "failed"] ELSE job[t]
    BY DEF ProcessRestarts, JobsAfterStop
  <2>3. CASE job[t].pc = "write"
    <3>1. job'[t] = [job[t] EXCEPT !.pc = "failed"]
      BY <2>2, <2>3
    <3> QED BY <2>1, <2>3, <3>1 DEF JobRecord
  <2>4. CASE job[t].pc # "write"
    BY <2>1, <2>2, <2>4
  <2> QED BY <2>3, <2>4
<1>3. job' \in [Task -> JobRecord]
  BY <1>2 DEF ProcessRestarts, JobsAfterStop
<1>4. Quiet
  BY <1>2, <1>3 DEF Quiet, JobsTyped, JobNamed, Adds, Writes
<1> QED
  BY <1>4, OnlyJobs DEF ProcessRestarts

\* Every step.
LEMMA GroundsInvNext ==
  GroundsInv /\ [AdministrationNext]_administrationVars => GroundsInv'
<1> SUFFICES ASSUME GroundsInv, [AdministrationNext]_administrationVars
             PROVE  GroundsInv'
  OBVIOUS
<1>1. ASSUME NEW t \in Task, Fails(t) PROVE GroundsInv'
  BY <1>1, EndQuiet, OnlyJobs DEF Fails
<1>2. CASE UNCHANGED groundsVars
  <2>1. Quiet
    BY <1>2 DEF groundsVars, Quiet, GroundsInv, JobsTyped, Adds, Writes
  <2> QED BY <1>2, <2>1, OnlyJobs DEF groundsVars
<1> QED
  BY <1>1, <1>2, SquaresKeep, ValtsKeep, GroundsRestartKeeps
  DEF AdministrationNext, administrationVars, GroundsNext

\* What the grounds say holds throughout.
LEMMA GroundsInvAlways == AdministrationSpec => []GroundsInv
<1>1. AdministrationInit => GroundsInv
  BY GroundsInvInit DEF AdministrationInit
<1> QED
  BY <1>1, GroundsInvNext, PTL DEF AdministrationSpec

\* Squares are in graveyards on file, vaults in squares on file or in none, and
\* drawers in vaults on file, whatever is removed or moved between the look and
\* the write (squares.service.ts:24-300, valts.service.ts:96-188).
THEOREM PlacesStayOnFile == AdministrationSpec => []PlacedOnFile
<1>1. GroundsInv => PlacedOnFile
  BY DEF GroundsInv
<1> QED
  BY <1>1, GroundsInvAlways, PTL

\* A vault to which no two requests add drawers side by side, and whose number
\* is not lowered, has no more drawers than the number says
\* (drawers.service.ts:22-60).
THEOREM AloneStaysWithinQuantity == AdministrationSpec => []AloneWithinQuantity
<1>1. GroundsInv => AloneWithinQuantity
  BY DEF GroundsInv, Counted, RoomFor, AloneWithinQuantity
<1> QED
  BY <1>1, GroundsInvAlways, PTL

\* No two squares of a graveyard and no two vaults of a square get one name,
\* though names are looked up before they are written.
THEOREM NamesStayApart == AdministrationSpec => []NamesApart
<1>1. GroundsInv => NamesApart
  BY DEF GroundsInv, NamesUnique, NamesApart
<1> QED
  BY <1>1, GroundsInvAlways, PTL

===============================================================================
