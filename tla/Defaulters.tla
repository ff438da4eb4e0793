------------------------------ MODULE Defaulters ------------------------------
(***************************************************************************)
(* The delinquency records (table DelinquencyRecords), beside the          *)
(* financial control records they point at and the assignees they are      *)
(* about.                                                                  *)
(*                                                                         *)
(* A record is made by hand, under the plan the static copy names, or by   *)
(* the hook that judges a payer (PaymentHooks), under none.  The service   *)
(* looks the assignee up among the users; the database ties the record to  *)
(* an assignee.  Both count their ids from 1.                              *)
(*                                                                         *)
(* Bounds: an element of Call is one request or one judgement, and the id  *)
(* of the record it adds; each id of Id is given to one assignee.  Dates,  *)
(* amounts and the status of a record are left out: nothing reads them.    *)
(*                                                                         *)
(* A definition Mutant... is the definition after it with a plausible bug, *)
(* for the mutation tests; no specification uses it.                       *)
(***************************************************************************)
EXTENDS FinancialManagement

CONSTANTS
  Call,
  Id,          \* ids of users and of assignees
  User,        \* those of users, who stay on file
  NoCall, NoId

ASSUME UserAssumption == User \subseteq Id
ASSUME NoCallAssumption == NoCall \notin Call
ASSUME NoIdAssumption == NoId \notin Id

VARIABLES
  assignees,   \* Id -> is there an assignee of that id?
  records,     \* Call -> the record it added
  call         \* Call -> a request under way

recordsVars == <<assignees, records, call>>

NoRow == [state |-> "absent", who |-> NoId, plan |-> NoPlan]

NoAsk == [pc |-> "idle", op |-> "create", of |-> NoCall, who |-> NoId,
          plan |-> NoPlan]

OnFile(a) == assignees[a] = "on"

Kept(r) == records[r].state = "on"

RecordsTypeOK ==
  /\ assignees \in [Id -> {"absent", "on", "removed"}]
  /\ records \in [Call -> [state : {"absent", "on", "removed"},
                           who   : Id \cup {NoId},
                           plan  : Plan \cup {NoPlan}]]
  /\ call \in [Call ->
       [pc   : {"idle", "known", "write", "done", "unknown", "failed"},
        op   : {"create", "update", "remove"},
        of   : Call \cup {NoCall},
        who  : Id \cup {NoId},
        plan : Plan \cup {NoPlan}]]

RecordsInit ==
  /\ assignees \in [Id -> {"absent", "on"}]
  /\ records = [c \in Call |-> NoRow]
  /\ call = [c \in Call |-> NoAsk]

CallOpen(c) == call[c].pc \in {"known", "write"}

Answer(c, pc) == call' = [call EXCEPT ![c].pc = pc]

AskRecord(c, op, of, who, pc) ==
  /\ call[c].pc = "idle"
  /\ call' = [call EXCEPT ![c] = [pc |-> pc, op |-> op, of |-> of,
                                  who |-> who, plan |-> NoPlan]]

CallAt(c, pc, op) == call[c].pc = pc /\ call[c].op = op

(***************************************************************************)
(* create                                                                  *)
(***************************************************************************)

\* The id of the assignee is looked up in the table of users.
CreateLookUp(c, a) ==
  /\ AskRecord(c, "create", NoCall, a,
               IF a \in User THEN "known" ELSE "unknown")
  /\ UNCHANGED <<vars, assignees, records>>

\* getActiveFinancialManagement: the static copy.
ReadActive(c) ==
  /\ CallAt(c, "known", "create")
  /\ call' = [call EXCEPT ![c].pc = IF active.id = NoPlan THEN "failed"
                                    ELSE "write",
                          ![c].plan = active.id]
  /\ UNCHANGED <<vars, assignees, records>>

\* A plan has one record: connecting it takes it from the record that had it.
WithoutPlan(p) ==
  [r \in Call |-> IF records[r].plan = p
                  THEN [records[r] EXCEPT !.plan = NoPlan]
                  ELSE records[r]]

MutantCreateRecord(c) ==
  LET a == call[c].who
      p == call[c].plan
  IN /\ CallAt(c, "write", "create")
     /\ IF OnFile(a)
          THEN /\ records' = [WithoutPlan(p) EXCEPT
                      ![c] = [state |-> "on", who |-> a, plan |-> p]]
               /\ Answer(c, "done")
          ELSE UNCHANGED records /\ Answer(c, "failed")
     /\ UNCHANGED <<vars, assignees>>

\* The insert finds an assignee and a plan to connect, or it is rolled back.
CreateRecord(c) ==
  LET a == call[c].who
      p == call[c].plan
  IN /\ CallAt(c, "write", "create")
     /\ IF OnFile(a) /\ Stored(p)
          THEN /\ records' = [WithoutPlan(p) EXCEPT
                      ![c] = [state |-> "on", who |-> a, plan |-> p]]
               /\ Answer(c, "done")
          ELSE UNCHANGED records /\ Answer(c, "failed")
     /\ UNCHANGED <<vars, assignees>>

(***************************************************************************)
(* update and remove                                                       *)
(***************************************************************************)

\* a = NoId: the body names no assignee.
UpdateLookUp(c, r, a) ==
  /\ Kept(r)
  /\ AskRecord(c, "update", r, a,
               IF a \in User \cup {NoId} THEN "write" ELSE "unknown")
  /\ UNCHANGED <<vars, assignees, records>>

\* The record that was found may be gone, the assignee may not exist.
UpdateRecord(c) ==
  LET j == call[c]
  IN /\ CallAt(c, "write", "update")
     /\ IF Kept(j.of) /\ (j.who # NoId => OnFile(j.who))
          THEN /\ records' = [records EXCEPT
                      ![j.of].who = IF j.who = NoId THEN @ ELSE j.who]
               /\ Answer(c, "done")
          ELSE UNCHANGED records /\ Answer(c, "failed")
     /\ UNCHANGED <<vars, assignees>>

RemoveLookUp(c, r) ==
  /\ Kept(r)
  /\ AskRecord(c, "remove", r, NoId, "write")
  /\ UNCHANGED <<vars, assignees, records>>

RemoveRecord(c) ==
  LET r == call[c].of
  IN /\ CallAt(c, "write", "remove")
     /\ IF Kept(r)
          THEN /\ records' = [records EXCEPT
                                ![r] = [NoRow EXCEPT !.state = "removed"]]
               /\ Answer(c, "done")
          ELSE UNCHANGED records /\ Answer(c, "failed")
     /\ UNCHANGED <<vars, assignees>>

(***************************************************************************)
(* What other parts do to the records                                      *)
(***************************************************************************)

\* The hook records a payer in default, under no plan.
Judged(c, a) ==
  /\ call[c].pc = "idle"
  /\ OnFile(a)
  /\ records' = [records EXCEPT ![c] = [NoRow EXCEPT !.state = "on",
                                                     !.who = a]]
  /\ Answer(c, "done")
  /\ UNCHANGED <<vars, assignees>>

Register(a) ==
  /\ assignees[a] = "absent"
  /\ assignees' = [assignees EXCEPT ![a] = "on"]
  /\ UNCHANGED <<vars, records, call>>

\* The records of an assignee stay, about nobody.
RemoveAssignee(a) ==
  /\ OnFile(a)
  /\ assignees' = [assignees EXCEPT ![a] = "removed"]
  /\ records' = [r \in Call |-> IF records[r].who = a
                                THEN [records[r] EXCEPT !.who = NoId]
                                ELSE records[r]]
  /\ UNCHANGED <<vars, call>>

\* A step of a request about plans.  The record of a plan that is deleted
\* stays, under none.
RequestStep ==
  /\ \E r \in Request : Start(r) \/ Step(r)
  /\ records' = [r \in Call |->
       IF \E p \in Plan : records[r].plan = p /\ Stored(p)'
         THEN records[r] ELSE [records[r] EXCEPT !.plan = NoPlan]]
  /\ UNCHANGED <<assignees, call>>

\* The process stops: every request under way fails.
CallsAfterStop ==
  [c \in Call |-> IF CallOpen(c) THEN [call[c] EXCEPT !.pc = "failed"]
                  ELSE call[c]]

Handle(c) ==
  \/ \E a \in Id : CreateLookUp(c, a) \/ Judged(c, a)
  \/ \E r \in Call :
       RemoveLookUp(c, r) \/ \E a \in Id \cup {NoId} : UpdateLookUp(c, r, a)
  \/ ReadActive(c)
  \/ CreateRecord(c)
  \/ UpdateRecord(c)
  \/ RemoveRecord(c)

RecordsNext ==
  \/ \E c \in Call : Handle(c)
  \/ \E a \in Id : Register(a) \/ RemoveAssignee(a)
  \/ RequestStep

(***************************************************************************)
(* Properties                                                              *)
(***************************************************************************)

\* A record is about an assignee on file or about nobody, and under a plan on
\* file or under none, though assignees and plans are removed, and the copy of
\* the plan may be of one long gone, between the look and the insert.
RecordsOnFile ==
  \A r \in Call :
    /\ records[r].who # NoId => Kept(r) /\ OnFile(records[r].who)
    /\ records[r].plan # NoPlan => Kept(r) /\ Stored(records[r].plan)

\* A plan has one record, whichever requests made under it overlap.
OneRecordPerPlan ==
  \A q, r \in Call :
    records[q].plan # NoPlan /\ records[q].plan = records[r].plan => q = r

===============================================================================
