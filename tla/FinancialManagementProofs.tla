----------------------- MODULE FinancialManagementProofs -----------------------
(***************************************************************************)
(* Proofs about FinancialManagement, for every set of records and          *)
(* requests and any number of restarts.                                    *)
(***************************************************************************)
EXTENDS FinancialManagement, TLAPS

Pc == {"idle", "found", "off", "write", "copy", "done"}

RequestRecord ==
  [pc : Pc, op : {"create", "update", "remove"}, plan : Plan \cup {NoPlan},
   wish : Wish, row : Record]

\* A record of the table has the type of a copy.
LEMMA RecordOfType ==
  ASSUME TypeOK, NEW p \in Plan
  PROVE  RecordOf(p) \in Record /\ RecordOf(p).id = p
BY DEF RecordOf, Record, TypeOK, On, RowState

\* A request that starts is well typed.
LEMMA BeginType ==
  ASSUME TypeOK, NEW r \in Request, NEW op \in {"create", "update", "remove"},
         NEW p \in Plan, NEW wish \in Wish, NEW pc \in Pc,
         Begin(r, op, p, wish, pc)
  PROVE  /\ req' \in [Request -> RequestRecord]
         /\ \A s \in Request : req'[s].pc # "idle" => req'[s].plan \in Plan
         /\ overlapped' \in BOOLEAN
<1>1. NoRecord \in Record
  BY DEF NoRecord, Record
<1>2. [pc |-> pc, op |-> op, plan |-> p, wish |-> wish, row |-> NoRecord]
        \in RequestRecord
  BY <1>1 DEF RequestRecord
<1>3. req \in [Request -> RequestRecord]
  BY DEF TypeOK, RequestRecord, Pc
<1> QED
  BY <1>2, <1>3 DEF Begin, Overlaps, TypeOK

\* Moving a request to another step keeps its type.
LEMMA GoType ==
  ASSUME TypeOK, NEW r \in Request, req[r].pc # "idle", NEW pc \in Pc,
         Go(r, pc)
  PROVE  /\ req' \in [Request -> RequestRecord]
         /\ \A s \in Request : req'[s].pc # "idle" => req'[s].plan \in Plan
<1>1. req \in [Request -> RequestRecord]
  BY DEF TypeOK, RequestRecord, Pc
<1>2. [req[r] EXCEPT !.pc = pc] \in RequestRecord
  BY <1>1 DEF RequestRecord
<1> QED
  BY <1>1, <1>2 DEF Go, TypeOK, RequestRecord

\* Every step keeps the types.
LEMMA TypeStep == TypeOK /\ [Next]_vars => TypeOK'
<1> SUFFICES ASSUME TypeOK, [Next]_vars
             PROVE  TypeOK'
  OBVIOUS
<1>0. req \in [Request -> RequestRecord]
  BY DEF TypeOK, RequestRecord, Pc
<1>w. \A wish \in Wish : FirstStep(wish) \in Pc
  BY DEF FirstStep, Pc
<1>1. ASSUME NEW r \in Request, NEW p \in Plan, NEW wish \in Wish,
             StartCreate(r, p, wish)
      PROVE  TypeOK'
  <2>1. Begin(r, "create", p, wish, FirstStep(wish))
    BY <1>1 DEF StartCreate
  <2> QED
    BY <1>1, <1>w, <2>1, BeginType DEF StartCreate, TypeOK, RequestRecord, Pc
<1>2. ASSUME NEW r \in Request, NEW p \in Plan, NEW wish \in Wish,
             StartUpdate(r, p, wish)
      PROVE  TypeOK'
  <2>1. PICK pc \in Pc : Begin(r, "update", p, wish, pc)
    BY <1>2, <1>w DEF StartUpdate, Pc
  <2> QED
    BY <1>2, <2>1, BeginType DEF StartUpdate, TypeOK, RequestRecord, Pc
<1>3. ASSUME NEW r \in Request, NEW p \in Plan, StartRemove(r, p)
      PROVE  TypeOK'
  <2>1. PICK pc \in Pc : Begin(r, "remove", p, "same", pc)
    BY <1>3 DEF StartRemove, Pc
  <2> QED
    BY <1>3, <2>1, BeginType DEF StartRemove, TypeOK, RequestRecord, Pc, Wish
<1>4. ASSUME NEW r \in Request, Deactivate(r)
      PROVE  TypeOK'
  <2>1. table' \in [Plan -> [state : RowState, version : Nat]]
    BY <1>4 DEF Deactivate, TypeOK, RowState
  <2> QED
    BY <1>4, <2>1, GoType DEF Deactivate, TypeOK, RequestRecord, Pc
<1>5. ASSUME NEW r \in Request, Write(r)
      PROVE  TypeOK'
  <2> DEFINE p == req[r].plan
             state == IF req[r].wish = "same" THEN table[p].state
                      ELSE req[r].wish
             row == [id |-> p, on |-> state = "on",
                     version |-> table[p].version + 1]
             new == [req[r] EXCEPT !.pc = "copy", !.row = row]
  <2>1. p \in Plan /\ req[r].wish \in Wish
    BY <1>0, <1>5 DEF Write, TypeOK, RequestRecord
  <2>2. state \in RowState /\ table[p].version + 1 \in Nat
    BY <2>1 DEF TypeOK, RowState, Wish
  <2>3. table' = [table EXCEPT ![p] = [state |-> state,
                                       version |-> table[p].version + 1]]
    BY <1>5 DEF Write
  <2>4. table' \in [Plan -> [state : RowState, version : Nat]]
    BY <2>1, <2>2, <2>3 DEF TypeOK
  <2>5. row \in Record
    BY <2>1, <2>2 DEF Record
  <2>6. new \in RequestRecord /\ new.plan = p
    BY <1>0, <2>5 DEF RequestRecord, Pc
  <2>7. req' = [req EXCEPT ![r] = new]
    BY <1>0, <1>5 DEF Write, RequestRecord
  <2>8. req' \in [Request -> RequestRecord]
    BY <1>0, <2>6, <2>7
  <2>9. \A s \in Request : req'[s].pc # "idle" => req'[s].plan \in Plan
    BY <1>0, <2>1, <2>6, <2>7 DEF TypeOK
  <2> QED
    BY <1>5, <2>4, <2>8, <2>9 DEF Write, TypeOK, RequestRecord, Pc
<1>6. ASSUME NEW r \in Request, WriteFails(r)
      PROVE  TypeOK'
  BY <1>6, GoType DEF WriteFails, Finish, Go, TypeOK, RequestRecord, Pc
<1>7. ASSUME NEW r \in Request, Copy(r)
      PROVE  TypeOK'
  BY <1>0, <1>7, GoType DEF Copy, Finish, Go, TypeOK, RequestRecord, Pc
<1>8. ASSUME NEW r \in Request, CheckActive(r)
      PROVE  TypeOK'
  BY <1>8, GoType DEF CheckActive, Finish, Go, TypeOK, RequestRecord, Pc
<1>9. ASSUME NEW r \in Request, Delete(r)
      PROVE  TypeOK'
  <2>1. table' \in [Plan -> [state : RowState, version : Nat]]
    BY <1>9 DEF Delete, TypeOK, RowState
  <2> QED
    BY <1>9, <2>1, GoType DEF Delete, Finish, Go, TypeOK, RequestRecord, Pc
<1>10. CASE Restart
  <2>1. active' \in Record
    <3>1. \A p \in Plan : RecordOf(p) \in Record
      BY RecordOfType
    <3>2. NoRecord \in Record
      BY DEF NoRecord, Record
    <3>3. active' = NoRecord \/ \E p \in Plan : active' = RecordOf(p)
      BY <1>10 DEF Restart
    <3> QED
      BY <3>1, <3>2, <3>3
  <2>2. /\ req' \in [Request -> RequestRecord]
        /\ \A s \in Request : req'[s].pc # "idle" => req'[s].plan \in Plan
    BY <1>0, <1>10 DEF Restart, Open, TypeOK, RequestRecord, Pc
  <2>3. restarts' \in 0..MaxRestarts
    BY <1>10, RestartsAssumption DEF Restart, TypeOK
  <2> QED
    BY <1>10, <2>1, <2>2, <2>3 DEF Restart, TypeOK, RequestRecord, Pc
<1>11. CASE UNCHANGED vars
  BY <1>11 DEF TypeOK, vars
<1> QED
  BY <1>1, <1>2, <1>3, <1>4, <1>5, <1>6, <1>7, <1>8, <1>9, <1>10, <1>11
     DEF Next, Start, Step

\* Every reachable state is well typed, whatever requests and restarts happen.
THEOREM TypeCorrect == Spec => []TypeOK
<1>1. Init => TypeOK
  <2> SUFFICES ASSUME Init PROVE TypeOK
    OBVIOUS
  <2>1. NoRecord \in Record
    BY DEF NoRecord, Record
  <2>2. NoRequest \in RequestRecord /\ NoRequest.pc = "idle"
    BY <2>1 DEF NoRequest, RequestRecord, Pc, Wish
  <2>3. req \in [Request -> RequestRecord]
    BY <2>2 DEF Init
  <2>4. \A r \in Request : req[r].pc # "idle" => req[r].plan \in Plan
    BY <2>2 DEF Init
  <2>5. restarts \in 0..MaxRestarts
    BY RestartsAssumption DEF Init
  <2>6. table \in [Plan -> [state : RowState, version : Nat]]
    BY DEF Init, RowState
  <2> QED
    BY <2>1, <2>3, <2>4, <2>5, <2>6 DEF Init, TypeOK, RequestRecord, Pc
<1> QED
  BY <1>1, TypeStep, PTL DEF Spec

(***************************************************************************)
(* What happens to a request, one fact for each kind of step.              *)
(***************************************************************************)
\* A start touches its own request only and puts it where Begin says.
LEMMA BeginFrame ==
  ASSUME TypeOK, NEW r \in Request, NEW op, NEW p, NEW wish, NEW pc,
         Begin(r, op, p, wish, pc)
  PROVE  /\ req'[r] = [pc |-> pc, op |-> op, plan |-> p, wish |-> wish,
                       row |-> NoRecord]
         /\ \A s \in Request : s # r => req'[s] = req[s]
BY DEF Begin, TypeOK

\* A step forward changes the step of its own request and nothing else of it.
LEMMA GoFrame ==
  ASSUME TypeOK, NEW r \in Request, NEW pc, Go(r, pc)
  PROVE  /\ req'[r].pc = pc /\ req'[r].op = req[r].op
         /\ req'[r].plan = req[r].plan /\ req'[r].wish = req[r].wish
         /\ req'[r].row = req[r].row
         /\ \A s \in Request : s # r => req'[s] = req[s]
BY DEF Go, TypeOK

\* Ending a request is the step to done.
LEMMA FinishGoes ==
  ASSUME NEW r \in Request, Finish(r)
  PROVE  Go(r, "done")
BY DEF Finish, Go

\* The state a write gives its row.
NewState(r) == IF req[r].wish = "same" THEN table[req[r].plan].state
               ELSE req[r].wish

\* What a write leaves: the row it wrote, also in the hands of the request.
LEMMA WriteFrame ==
  ASSUME TypeOK, NEW r \in Request, Write(r)
  PROVE  /\ req[r].plan \in Plan /\ req[r].wish \in Wish
         /\ table'[req[r].plan] = [state   |-> NewState(r),
                                   version |-> table[req[r].plan].version + 1]
         /\ \A x \in Plan : x # req[r].plan => table'[x] = table[x]
         /\ req'[r].pc = "copy" /\ req'[r].op = req[r].op
         /\ req'[r].plan = req[r].plan /\ req'[r].wish = req[r].wish
         /\ req'[r].row = [id |-> req[r].plan, on |-> NewState(r) = "on",
                           version |-> table[req[r].plan].version + 1]
         /\ \A s \in Request : s # r => req'[s] = req[s]
<1>1. req[r].plan \in Plan /\ req[r].wish \in Wish
  BY DEF Write, TypeOK
<1> QED
  BY <1>1 DEF Write, TypeOK, NewState

(***************************************************************************)
(* The copy was active                                                     *)
(***************************************************************************)
\* No step takes a row back in time or to where it never was.
LEMMA RowsGoOn ==
  ASSUME TypeOK, RequestsInOrder, [Next]_vars
  PROVE  \A p \in Plan :
           /\ table[p].version <= table'[p].version
           /\ table[p].state # "absent" => table'[p].state # "absent"
<1>1. ASSUME NEW r \in Request, Deactivate(r)
      PROVE  \A p \in Plan :
               /\ table[p].version <= table'[p].version
               /\ table[p].state # "absent" => table'[p].state # "absent"
  BY <1>1 DEF Deactivate, TypeOK
<1>2. ASSUME NEW r \in Request, Write(r)
      PROVE  \A p \in Plan :
               /\ table[p].version <= table'[p].version
               /\ table[p].state # "absent" => table'[p].state # "absent"
  <2> SUFFICES ASSUME NEW p \in Plan
               PROVE  /\ table[p].version <= table'[p].version
                      /\ table[p].state # "absent" => table'[p].state # "absent"
    OBVIOUS
  <2>1. table[p].version \in Nat
    BY DEF TypeOK
  <2>2. CASE p = req[r].plan
    <3>1. req[r].wish \in Wish
      BY <1>2, WriteFrame
    <3>2. table'[p] = [state |-> NewState(r), version |-> table[p].version + 1]
      BY <1>2, <2>2, WriteFrame
    <3>3. table[p].state # "absent" => NewState(r) # "absent"
      BY <2>2, <3>1 DEF NewState, Wish
    <3> QED
      BY <2>1, <3>2, <3>3
  <2>3. CASE p # req[r].plan
    <3>1. table'[p] = table[p]
      BY <1>2, <2>3, WriteFrame
    <3> QED
      BY <2>1, <3>1
  <2> QED
    BY <2>2, <2>3
<1>3. ASSUME NEW r \in Request, Delete(r)
      PROVE  \A p \in Plan :
               /\ table[p].version <= table'[p].version
               /\ table[p].state # "absent" => table'[p].state # "absent"
  BY <1>3 DEF Delete, TypeOK
<1>4. CASE UNCHANGED table
  BY <1>4 DEF TypeOK
<1> QED
  BY <1>1, <1>2, <1>3, <1>4
     DEF Next, vars, Start, Step, StartCreate, StartUpdate, StartRemove,
         WriteFails, Copy, CheckActive, Restart

\* Each step leaves the requests in order.
LEMMA OrderStep ==
  ASSUME TypeOK, RequestsInOrder, [Next]_vars
  PROVE  RequestsInOrder'
<1> DEFINE Ordered(q, t) ==
      /\ q.pc = "off" => q.op # "remove" /\ q.wish = "on"
      /\ q.pc = "found" => q.op = "remove"
      /\ q.op = "create" /\ q.pc # "idle" => q.wish # "same"
      /\ q.pc = "copy" => /\ q.row.id = q.plan
                          /\ q.row.version <= t[q.plan].version
                          /\ t[q.plan].state # "absent"
<1>0. TypeOK'
  BY TypeStep
<1>1. \A s \in Request : Ordered(req[s], table)
  BY DEF RequestsInOrder
<1>2. \A s \in Request : Ordered(req[s], table')
  <2> SUFFICES ASSUME NEW s \in Request, req[s].pc = "copy"
               PROVE  /\ req[s].row.version <= table'[req[s].plan].version
                      /\ table'[req[s].plan].state # "absent"
    BY <1>1
  <2>1. req[s].plan \in Plan /\ req[s].row.version \in Nat
    BY DEF TypeOK, Record
  <2>2. /\ table[req[s].plan].version \in Nat
        /\ table'[req[s].plan].version \in Nat
    BY <1>0, <2>1 DEF TypeOK
  <2>3. /\ table[req[s].plan].version <= table'[req[s].plan].version
        /\ req[s].row.version <= table[req[s].plan].version
        /\ table[req[s].plan].state # "absent"
    BY <1>1, <2>1, RowsGoOn
  <2> QED
    BY <2>1, <2>2, <2>3, RowsGoOn
<1> SUFFICES \A s \in Request : Ordered(req'[s], table')
  BY DEF RequestsInOrder
<1>3. ASSUME NEW r \in Request, Ordered(req'[r], table'),
             \A s \in Request : s # r => req'[s] = req[s]
      PROVE  \A s \in Request : Ordered(req'[s], table')
  BY <1>2, <1>3
<1> HIDE DEF Ordered
<1>4. ASSUME NEW r \in Request, NEW p \in Plan, NEW wish \in Wish,
             StartCreate(r, p, wish) \/ StartUpdate(r, p, wish)
      PROVE  \A s \in Request : Ordered(req'[s], table')
  <2>1. PICK op \in {"create", "update"}, pc \in {FirstStep(wish), "done"} :
          Begin(r, op, p, wish, pc) /\ (op = "create" => wish # "same")
    BY <1>4 DEF StartCreate, StartUpdate
  <2>2. req'[r] = [pc |-> pc, op |-> op, plan |-> p, wish |-> wish,
                   row |-> NoRecord]
    BY <2>1, BeginFrame
  <2>3. Ordered(req'[r], table')
    BY <2>1, <2>2 DEF Ordered, FirstStep
  <2> QED
    BY <1>3, <2>1, <2>3, BeginFrame
<1>5. ASSUME NEW r \in Request, NEW p \in Plan, StartRemove(r, p)
      PROVE  \A s \in Request : Ordered(req'[s], table')
  <2>1. PICK pc \in {"found", "done"} : Begin(r, "remove", p, "same", pc)
    BY <1>5 DEF StartRemove
  <2>2. req'[r] = [pc |-> pc, op |-> "remove", plan |-> p, wish |-> "same",
                   row |-> NoRecord]
    BY <2>1, BeginFrame
  <2>3. Ordered(req'[r], table')
    BY <2>2 DEF Ordered
  <2> QED
    BY <1>3, <2>1, <2>3, BeginFrame
<1>6. ASSUME NEW r \in Request, NEW pc \in {"write", "done"}, Go(r, pc),
             req[r].pc # "idle"
      PROVE  \A s \in Request : Ordered(req'[s], table')
  <2>1. Ordered(req'[r], table')
    BY <1>2, <1>6, GoFrame DEF Ordered
  <2> QED
    BY <1>3, <1>6, <2>1, GoFrame
<1>7. ASSUME NEW r \in Request, Write(r)
      PROVE  \A s \in Request : Ordered(req'[s], table')
  <2>1. table[req[r].plan].version \in Nat /\ req[r].plan \in Plan
    BY <1>7, WriteFrame DEF TypeOK
  <2>2. req[r].op = "create" => req[r].wish # "same"
    BY <1>2, <1>7 DEF Ordered, Write
  <2>3. req[r].op = "update" => table[req[r].plan].state # "absent"
    BY <1>7 DEF Write, Stored
  <2>4. table'[req[r].plan] =
          [state |-> NewState(r), version |-> table[req[r].plan].version + 1]
    BY <1>7, WriteFrame
  <2>5. NewState(r) # "absent"
    <3>1. req[r].wish \in Wish /\ req[r].op \in {"create", "update"}
      BY <1>7, WriteFrame DEF Write
    <3> QED
      BY <2>2, <2>3, <3>1 DEF NewState, Wish
  <2>6. /\ req'[r].pc = "copy" /\ req'[r].op = req[r].op
        /\ req'[r].plan = req[r].plan /\ req'[r].wish = req[r].wish
        /\ req'[r].row = [id |-> req[r].plan, on |-> NewState(r) = "on",
                          version |-> table[req[r].plan].version + 1]
    BY <1>7, WriteFrame
  <2>7. Ordered(req'[r], table')
    BY <2>1, <2>2, <2>4, <2>5, <2>6 DEF Ordered
  <2> QED
    BY <1>3, <1>7, <2>7, WriteFrame
<1>8. CASE Restart
  <2>1. \A s \in Request : req'[s] = req[s] \/ (/\ req[s].pc # "idle"
           /\ req'[s] = [req[s] EXCEPT !.pc = "done"])
    BY <1>8 DEF Restart, Open, TypeOK
  <2>2. ASSUME NEW s \in Request, req[s].pc # "idle",
               req'[s] = [req[s] EXCEPT !.pc = "done"]
        PROVE  Ordered(req'[s], table')
    <3>1. req'[s].pc = "done" /\ req'[s].op = req[s].op
          /\ req'[s].wish = req[s].wish
      BY <2>2 DEF TypeOK
    <3> QED
      BY <1>2, <2>2, <3>1 DEF Ordered
  <2> QED
    BY <1>2, <2>1, <2>2
<1>9. CASE UNCHANGED vars
  BY <1>2, <1>9 DEF vars
<1> QED
  BY <1>4, <1>5, <1>6, <1>7, <1>8, <1>9, FinishGoes
     DEF Next, Start, Step, Deactivate, WriteFails, Copy, CheckActive, Delete

\* Each step leaves the copy nothing or a row that was active.
LEMMA CopyStep ==
  ASSUME TypeOK, RequestsInOrder, CopyWasActive, [Next]_vars
  PROVE  CopyWasActive'
<1>0. TypeOK'
  BY TypeStep
<1>1. CASE active' = active
  <2> SUFFICES ASSUME active # NoRecord
               PROVE  /\ active.version <= table'[active.id].version
                      /\ table'[active.id].state # "absent"
    BY <1>1 DEF CopyWasActive
  <2>1. /\ active.id \in Plan /\ active.version <= table[active.id].version
        /\ table[active.id].state # "absent"
    BY DEF CopyWasActive
  <2>2. /\ active.version \in Nat /\ table[active.id].version \in Nat
        /\ table'[active.id].version \in Nat
    BY <1>0, <2>1 DEF TypeOK, Record
  <2> QED
    BY <2>1, <2>2, RowsGoOn
<1>2. ASSUME NEW r \in Request, Copy(r), req[r].row.on, active' = req[r].row
      PROVE  CopyWasActive'
  <2>1. req[r].plan \in Plan /\ req[r].pc = "copy" /\ table' = table
    BY <1>2 DEF Copy, TypeOK
  <2> QED
    BY <1>2, <2>1 DEF RequestsInOrder, CopyWasActive
<1>3. ASSUME NEW p \in Plan, On(p), active' = RecordOf(p), Restart
      PROVE  CopyWasActive'
  <2>1. table[p].version \in Nat /\ table' = table
    BY <1>3 DEF TypeOK, Restart
  <2>2. /\ active'.id = p /\ active'.on = On(p)
        /\ active'.version = table[p].version
    BY <1>3 DEF RecordOf
  <2>3. table[p].state = "on"
    BY <1>3 DEF On
  <2> QED
    BY <1>3, <2>1, <2>2, <2>3 DEF CopyWasActive
<1>4. CASE active' = NoRecord
  BY <1>4 DEF CopyWasActive
<1> QED
  BY <1>1, <1>2, <1>3, <1>4
     DEF Next, vars, Start, Step, StartCreate, StartUpdate, StartRemove,
         Deactivate, Write, WriteFails, Copy, CheckActive, Delete, Restart

\* At the start no request is open and there is no copy.
LEMMA CopyInit == Init => RequestsInOrder /\ CopyWasActive
BY DEF Init, RequestsInOrder, CopyWasActive, NoRequest

\* The copy of the active record (management.service.ts) is nothing or the
\* content a row had when it was active, under every interleaving and restart.
THEOREM CopyIsReal == Spec => []CopyWasActive
<1>1. Init => RequestsInOrder /\ CopyWasActive
  BY CopyInit
<1>2. TypeOK /\ RequestsInOrder /\ CopyWasActive /\ [Next]_vars
        => RequestsInOrder' /\ CopyWasActive'
  BY OrderStep, CopyStep
<1> QED
  BY <1>1, <1>2, TypeCorrect, PTL DEF Spec

(***************************************************************************)
(* Requests that come one at a time                                        *)
(***************************************************************************)
\* The only open request moves on, to a step at which it has not written, and
\* the table and the copy stay.
LEMMA AloneMove ==
  ASSUME TypeOK, AloneInv, ~ overlapped, NEW r \in Request, Open(r),
         NEW pc \in {"write", "done"}, Go(r, pc), UNCHANGED <<table, active>>,
         req[r].pc # "copy",
         pc = "write" => /\ req[r].op = "remove"
                         /\ ~ On(req[r].plan)
  PROVE  AloneInv'
<1>1. \A s \in Request : Open(s) => s = r
  BY DEF AloneInv
<1>2. /\ req'[r].pc = pc /\ req'[r].op = req[r].op /\ req'[r].plan = req[r].plan
      /\ \A s \in Request : s # r => req'[s] = req[s]
  BY GoFrame
<1>3. \A s \in Request : s # r => req'[s].pc \in {"idle", "done"}
  BY <1>1, <1>2 DEF Open
<1>4. \A s \in Request : Open(s)' => s = r
  BY <1>3 DEF Open
<1>5. \A s \in Request : req[s].pc # "copy"
  BY <1>1 DEF Open
<1>6. \A p \in Plan : On(p) => active = RecordOf(p)
  BY <1>5 DEF AloneInv
<1>7. \A p \in Plan : On(p)' = On(p) /\ RecordOf(p)' = RecordOf(p)
  BY DEF On, RecordOf
<1>8. \A p, q \in Plan : On(p) /\ On(q) => p = q
  BY DEF AloneInv
<1>9. \A s \in Request : req'[s].pc = "write" =>
        s = r /\ req'[s].op = "remove" /\ ~ On(req'[s].plan)
  BY <1>2, <1>3
<1>10. \A s \in Request : (req[s].pc = "write" => ~ On(req[s].plan))'
  BY <1>9 DEF On
<1>11. \A s \in Request : req'[s].pc # "copy"
  BY <1>2, <1>3
<1> QED
  BY <1>4, <1>6, <1>7, <1>8, <1>9, <1>10, <1>11 DEF AloneInv

\* A request that starts while none is open is the only one.
LEMMA AloneStart ==
  ASSUME TypeOK, AloneInv, ~ overlapped', NEW r \in Request, NEW op, NEW p,
         NEW wish, NEW pc \in {"off", "found", "write", "done"},
         Begin(r, op, p, wish, pc), UNCHANGED <<table, active>>,
         pc = "write" => op # "remove" /\ wish # "on"
  PROVE  AloneInv'
<1>0. ~ overlapped
  BY DEF Begin, Overlaps
<1>1. \A s \in Request : ~ Open(s)
  BY DEF Begin, Overlaps
<1>2. /\ req'[r] = [pc |-> pc, op |-> op, plan |-> p, wish |-> wish,
                    row |-> NoRecord]
      /\ \A s \in Request : s # r => req'[s] = req[s]
  BY BeginFrame
<1>3. \A s \in Request : s # r => req'[s].pc \in {"idle", "done"}
  BY <1>1, <1>2 DEF Open
<1>4. \A s \in Request : Open(s)' => s = r
  BY <1>3 DEF Open
<1>5. \A q \in Plan : On(q) => active = RecordOf(q)
  BY <1>0, <1>1 DEF AloneInv, Open
<1>6. \A q \in Plan : On(q)' = On(q) /\ RecordOf(q)' = RecordOf(q)
  BY DEF On, RecordOf
<1>7. \A q, x \in Plan : On(q) /\ On(x) => q = x
  BY <1>0 DEF AloneInv
<1>8. \A s \in Request : req'[s].pc = "write" =>
        req'[s].op # "remove" /\ req'[s].wish # "on"
  BY <1>2, <1>3
<1>9. \A s \in Request : req'[s].pc # "copy"
  BY <1>2, <1>3
<1> QED
  BY <1>4, <1>5, <1>6, <1>7, <1>8, <1>9 DEF AloneInv

\* Turning all records off leaves none on.
LEMMA AloneDeactivate ==
  ASSUME TypeOK, RequestsInOrder, AloneInv, ~ overlapped, NEW r \in Request,
         Deactivate(r)
  PROVE  AloneInv'
<1>1. \A s \in Request : Open(s) => s = r
  BY DEF AloneInv, Deactivate, Open
<1>2. /\ req'[r].pc = "write" /\ req'[r].op = req[r].op
      /\ \A s \in Request : s # r => req'[s] = req[s]
  BY GoFrame DEF Deactivate
<1>3. \A s \in Request : s # r => req'[s].pc \in {"idle", "done"}
  BY <1>1, <1>2 DEF Open
<1>4. \A s \in Request : Open(s)' => s = r
  BY <1>3 DEF Open
<1>5. \A p \in Plan : table'[p].state # "on"
  <2> SUFFICES ASSUME NEW p \in Plan PROVE table'[p].state # "on"
    OBVIOUS
  <2>1. table'[p] = IF On(p) THEN [table[p] EXCEPT !.state = "off"]
                    ELSE table[p]
    BY DEF Deactivate
  <2> QED
    BY <2>1 DEF On, TypeOK
<1>6. \A p \in Plan : ~ On(p)'
  BY <1>5 DEF On
<1>7. \A s \in Request : req'[s].pc = "write" => req'[s].op # "remove"
  BY <1>2, <1>3 DEF RequestsInOrder, Deactivate
<1>8. \A s \in Request : req'[s].pc # "copy"
  BY <1>2, <1>3
<1> QED
  BY <1>4, <1>6, <1>7, <1>8 DEF AloneInv

\* A write leaves at most its own record on, and the copy lacks behind no other.
LEMMA AloneWrite ==
  ASSUME TypeOK, AloneInv, ~ overlapped, NEW r \in Request, Write(r)
  PROVE  AloneInv'
<1>0. PICK p \in Plan : p = req[r].plan
  BY DEF Write, TypeOK
<1>1. \A s \in Request : Open(s) => s = r
  BY DEF AloneInv, Write, Open
<1>2. /\ req'[r].pc = "copy" /\ req'[r].plan = p
      /\ table'[p] = [state |-> NewState(r), version |-> table[p].version + 1]
      /\ req'[r].row = [id |-> p, on |-> NewState(r) = "on",
                        version |-> table[p].version + 1]
      /\ \A x \in Plan : x # p => table'[x] = table[x]
      /\ \A s \in Request : s # r => req'[s] = req[s]
  BY <1>0, WriteFrame
<1>3. \A s \in Request : s # r => req'[s].pc \in {"idle", "done"}
  BY <1>1, <1>2 DEF Open
<1>4. \A s \in Request : Open(s)' => s = r
  BY <1>3 DEF Open
<1>5. \A x \in Plan : x # p => On(x)' = On(x) /\ RecordOf(x)' = RecordOf(x)
  BY <1>2 DEF On, RecordOf
<1>6. On(p)' = (NewState(r) = "on")
  BY <1>2 DEF On
<1>7. RecordOf(p)' = req'[r].row
  BY <1>2, <1>6 DEF RecordOf
<1>8. \A x \in Plan : x # p /\ On(x) => NewState(r) # "on"
  <2>1. req[r].wish = "on" => \A x \in Plan : ~ On(x)
    BY DEF AloneInv, Write
  <2>2. req[r].wish = "same" /\ NewState(r) = "on" => On(p)
    BY <1>0 DEF NewState, On
  <2>3. \A x, q \in Plan : On(x) /\ On(q) => x = q
    BY DEF AloneInv
  <2>4. NewState(r) = "on" => req[r].wish \in {"on", "same"}
    BY DEF NewState
  <2> QED
    BY <1>2, <2>1, <2>2, <2>3, <2>4
<1>9. \A x, q \in Plan : On(x)' /\ On(q)' => x = q
  <2>1. \A x, q \in Plan : On(x) /\ On(q) => x = q
    BY DEF AloneInv
  <2> QED
    BY <1>2, <1>5, <1>6, <1>8, <2>1
<1>10. \A s \in Request : req[s].pc # "copy"
  BY <1>1 DEF Open, Write
<1>11. \A x \in Plan : On(x) => active = RecordOf(x)
  BY <1>10 DEF AloneInv
<1>12. active' = active
  BY DEF Write
<1>13. \A x \in Plan : On(x)' =>
         \/ active' = RecordOf(x)'
         \/ req'[r].pc = "copy" /\ req'[r].plan = x
  <2> SUFFICES ASSUME NEW x \in Plan, On(x)', x # p
               PROVE  active' = RecordOf(x)'
    BY <1>2
  <2>1. On(x) /\ RecordOf(x)' = RecordOf(x)
    BY <1>5
  <2> QED
    BY <1>11, <1>12, <2>1
<1>14. \A s \in Request : req'[s].pc # "write"
  BY <1>2, <1>3
<1>15. \A s \in Request :
         (req[s].pc = "copy" => req[s].row = RecordOf(req[s].plan))'
  <2>1. \A s \in Request : req'[s].pc = "copy" => s = r
    BY <1>3
  <2>2. (RecordOf(req[r].plan))' = RecordOf(p)'
    BY <1>2 DEF RecordOf, On
  <2> QED
    BY <1>7, <2>1, <2>2
<1> QED
  BY <1>4, <1>9, <1>13, <1>14, <1>15 DEF AloneInv

\* Setting the copy makes it the record that is on, if one is.
LEMMA AloneCopy ==
  ASSUME TypeOK, AloneInv, ~ overlapped, NEW r \in Request, Copy(r)
  PROVE  AloneInv'
<1>0. PICK p \in Plan : p = req[r].plan
  BY DEF Copy, TypeOK
<1>1. \A s \in Request : Open(s) => s = r
  BY DEF AloneInv, Copy, Open
<1>2. /\ req'[r].pc = "done"
      /\ \A s \in Request : s # r => req'[s] = req[s]
  BY GoFrame, FinishGoes DEF Copy
<1>3. \A s \in Request : req'[s].pc \in {"idle", "done"}
  BY <1>1, <1>2 DEF Open
<1>4. \A s \in Request : ~ Open(s)'
  BY <1>3 DEF Open
<1>5. \A x \in Plan : On(x)' = On(x) /\ RecordOf(x)' = RecordOf(x)
  BY DEF Copy, On, RecordOf
<1>6. \A x, q \in Plan : On(x) /\ On(q) => x = q
  BY DEF AloneInv
<1>7. req[r].row = RecordOf(p)
  BY <1>0 DEF AloneInv, Copy, TypeOK
<1>8. req[r].row.on = On(p)
  BY <1>7 DEF RecordOf
<1>9. \A x \in Plan : On(x) => active = RecordOf(x) \/ p = x
  BY <1>0, <1>1 DEF AloneInv, Open
<1>10. \A x \in Plan : On(x) => active' = RecordOf(x)
  BY <1>6, <1>7, <1>8, <1>9 DEF Copy
<1> QED
  BY <1>3, <1>4, <1>5, <1>6, <1>10 DEF AloneInv

\* A removal deletes a record that is off.
LEMMA AloneDelete ==
  ASSUME TypeOK, AloneInv, ~ overlapped, NEW r \in Request, Delete(r)
  PROVE  AloneInv' /\ ~ On(req[r].plan)
<1>0. PICK p \in Plan : p = req[r].plan
  BY DEF Delete, TypeOK
<1>1. \A s \in Request : Open(s) => s = r
  BY DEF AloneInv, Delete, Open
<1>2. /\ req'[r].pc = "done"
      /\ \A s \in Request : s # r => req'[s] = req[s]
  BY GoFrame, FinishGoes DEF Delete
<1>3. \A s \in Request : req'[s].pc \in {"idle", "done"}
  BY <1>1, <1>2 DEF Open
<1>4. \A s \in Request : ~ Open(s)'
  BY <1>3 DEF Open
<1>5. ~ On(p)
  BY <1>0 DEF AloneInv, Delete, TypeOK
<1>6. table' = [table EXCEPT ![p].state = "removed"]
  BY <1>0 DEF Delete
<1>7. ~ On(p)'
  BY <1>5, <1>6 DEF On, TypeOK
<1>8. \A x \in Plan : x # p => On(x)' = On(x) /\ RecordOf(x)' = RecordOf(x)
  BY <1>5, <1>6 DEF On, RecordOf, TypeOK
<1>9. \A x, q \in Plan : On(x) /\ On(q) => x = q
  BY DEF AloneInv
<1>10. \A x \in Plan : On(x) => active = RecordOf(x)
  BY <1>1 DEF AloneInv, Open, Delete
<1>11. active' = active
  BY DEF Delete
<1> QED
  BY <1>0, <1>3, <1>4, <1>5, <1>7, <1>8, <1>9, <1>10, <1>11 DEF AloneInv

\* A restart ends every request and loads the record that is on.
LEMMA AloneRestart ==
  ASSUME TypeOK, AloneInv, ~ overlapped, Restart
  PROVE  AloneInv'
<1>1. \A s \in Request : req'[s].pc \in {"idle", "done"}
  BY DEF Restart, Open, TypeOK
<1>2. \A s \in Request : ~ Open(s)'
  BY <1>1 DEF Open
<1>3. \A x \in Plan : On(x)' = On(x) /\ RecordOf(x)' = RecordOf(x)
  BY DEF Restart, On, RecordOf
<1>4. \A x, q \in Plan : On(x) /\ On(q) => x = q
  BY DEF AloneInv
<1>5. \A x \in Plan : On(x) => active' = RecordOf(x)
  BY <1>4 DEF Restart
<1> QED
  BY <1>1, <1>2, <1>3, <1>4, <1>5 DEF AloneInv

\* Every step keeps what is true of requests that come one at a time.
LEMMA AloneStep ==
  ASSUME TypeOK, RequestsInOrder, AloneInv, [Next]_vars
  PROVE  AloneInv'
<1> SUFFICES ASSUME ~ overlapped'
             PROVE  AloneInv'
  BY DEF AloneInv
<1>0. ~ overlapped
  BY DEF Next, vars, Start, Step, StartCreate, StartUpdate, StartRemove, Begin,
         Overlaps, Deactivate, Write, WriteFails, Copy, CheckActive, Delete,
         Restart
<1>1. ASSUME NEW r \in Request, NEW p \in Plan, NEW wish \in Wish,
             StartCreate(r, p, wish) \/ StartUpdate(r, p, wish)
      PROVE  AloneInv'
  <2>1. PICK op \in {"create", "update"}, pc \in {FirstStep(wish), "done"} :
          Begin(r, op, p, wish, pc)
    BY <1>1 DEF StartCreate, StartUpdate
  <2>2. UNCHANGED <<table, active>>
    BY <1>1 DEF StartCreate, StartUpdate
  <2>3. /\ pc \in {"off", "found", "write", "done"}
        /\ pc = "write" => op # "remove" /\ wish # "on"
    BY <2>1 DEF FirstStep
  <2> QED
    BY <2>1, <2>2, <2>3, AloneStart
<1>2. ASSUME NEW r \in Request, NEW p \in Plan, StartRemove(r, p)
      PROVE  AloneInv'
  <2>1. PICK pc \in {"found", "done"} : Begin(r, "remove", p, "same", pc)
    BY <1>2 DEF StartRemove
  <2> QED
    BY <1>2, <2>1, AloneStart DEF StartRemove
<1>3. ASSUME NEW r \in Request, WriteFails(r)
      PROVE  AloneInv'
  BY <1>0, <1>3, AloneMove, FinishGoes DEF WriteFails, Open
<1>4. ASSUME NEW r \in Request, CheckActive(r)
      PROVE  AloneInv'
  <2>1. Open(r) /\ req[r].pc # "copy" /\ UNCHANGED <<table, active>>
    BY <1>4 DEF CheckActive, Open
  <2>2. CASE On(req[r].plan)
    BY <1>0, <1>4, <2>1, <2>2, AloneMove, FinishGoes DEF CheckActive
  <2>3. CASE ~ On(req[r].plan)
    <3>1. Go(r, "write") /\ req[r].op = "remove"
      BY <1>4, <2>3 DEF CheckActive, RequestsInOrder
    <3> QED
      BY <1>0, <2>1, <2>3, <3>1, AloneMove
  <2> QED
    BY <2>2, <2>3
<1>5. CASE UNCHANGED vars
  BY <1>5 DEF vars, AloneInv, Open, On, RecordOf
<1> QED
  BY <1>0, <1>1, <1>2, <1>3, <1>4, <1>5, AloneDeactivate, AloneWrite, AloneCopy,
     AloneDelete, AloneRestart DEF Next, Start, Step

\* At the start nothing is open and nothing is on.
LEMMA AloneInit == Init => AloneInv
BY DEF Init, AloneInv, Open, On, NoRequest

\* All that is proved about the states, together.
LEMMA AloneInvariant == Spec => [](TypeOK /\ RequestsInOrder /\ AloneInv)
<1>1. Init => RequestsInOrder /\ AloneInv
  BY CopyInit, AloneInit
<1>2. TypeOK /\ RequestsInOrder /\ AloneInv /\ [Next]_vars
        => RequestsInOrder' /\ AloneInv'
  BY OrderStep, AloneStep
<1> QED
  BY <1>1, <1>2, TypeCorrect, PTL DEF Spec

\* As long as no two requests overlap, at most one financial record is active
\* and between requests the copy in memory is the active record as it is stored,
\* wherever the process stopped before.
THEOREM OneActiveAlone == Spec => []AloneOneActive
<1>1. AloneInv => AloneOneActive
  BY DEF AloneInv, AloneOneActive, Rest, Open
<1> QED
  BY <1>1, AloneInvariant, PTL

\* As long as no two requests overlap, remove never deletes the active record.
THEOREM ActiveKeptAlone == Spec => AloneKeepsActive
<1> DEFINE Kept == ~ overlapped' =>
             \A p \in Plan : On(p) => table'[p].state # "removed"
<1>1. TypeOK /\ RequestsInOrder /\ AloneInv /\ [Next]_vars => Kept
  <2> SUFFICES ASSUME TypeOK, RequestsInOrder, AloneInv, [Next]_vars,
                      ~ overlapped', NEW p \in Plan, On(p)
               PROVE  table'[p].state # "removed"
    OBVIOUS
  <2>0. ~ overlapped
    BY DEF Next, vars, Start, Step, StartCreate, StartUpdate, StartRemove,
           Begin, Overlaps, Deactivate, Write, WriteFails, Copy, CheckActive,
           Delete, Restart
  <2>1. ASSUME NEW r \in Request, Deactivate(r)
        PROVE  table'[p].state # "removed"
    BY <2>1 DEF Deactivate, On, TypeOK
  <2>2. ASSUME NEW r \in Request, Write(r)
        PROVE  table'[p].state # "removed"
    <3>1. /\ req[r].wish \in Wish
          /\ table'[req[r].plan] =
               [state |-> NewState(r), version |-> table[req[r].plan].version + 1]
      BY <2>2, WriteFrame
    <3>2. p # req[r].plan => table'[p] = table[p]
      BY <2>2, WriteFrame
    <3> QED
      BY <3>1, <3>2 DEF NewState, Wish, On
  <2>3. ASSUME NEW r \in Request, Delete(r)
        PROVE  table'[p].state # "removed"
    <3>1. p # req[r].plan
      BY <2>0, <2>3, AloneDelete
    <3> QED
      BY <2>3, <3>1 DEF Delete, On, TypeOK
  <2>4. CASE UNCHANGED table
    BY <2>4 DEF On
  <2> QED
    BY <2>1, <2>2, <2>3, <2>4
       DEF Next, vars, Start, Step, StartCreate, StartUpdate, StartRemove,
           WriteFails, Copy, CheckActive, Restart
<1>2. Spec => [][Kept]_vars
  BY <1>1, AloneInvariant, PTL DEF Spec
<1> QED
  BY <1>2 DEF AloneKeepsActive

================================================================================
