------------------------- MODULE FinancialManagement -------------------------
(***************************************************************************)
(* The financial control records (table FinancialManagement) and the copy  *)
(* of the active one that every purchase works with.                       *)
(*                                                                         *)
(* ManagementService keeps the copy in a static field: it is loaded when   *)
(* the process starts and set again by the requests that activate or       *)
(* change a record.  A request deactivates all records, writes its own and *)
(* sets the copy in three steps, and requests run side by side.            *)
(*                                                                         *)
(* Bounds: an element of Request is one request, an element of Plan the id *)
(* of one record; there are at most MaxRestarts restarts.                  *)
(*                                                                         *)
(* A definition Mutant... is the definition after it with a plausible bug, *)
(* for the mutation tests; no specification uses it.                       *)
(***************************************************************************)
EXTENDS Naturals

CONSTANTS
  Plan,        \* ids of table FinancialManagement
  Request,     \* requests to create, update or remove a record
  MaxRestarts, \* how often the process starts again
  NoPlan

ASSUME NoPlanAssumption == NoPlan \notin Plan
ASSUME RestartsAssumption == MaxRestarts \in Nat

VARIABLES
  table,       \* Plan -> its row, or that it is not there
  active,      \* the static field activeFinancialManagement
  req,         \* Request -> a request under way
  restarts,
  overlapped   \* history: have two requests ever run side by side?

vars == <<table, active, req, restarts, overlapped>>

RowState == {"absent", "on", "off", "removed"}

\* What a record says: its id, whether it is active, how often it was changed.
Record == [id : Plan \cup {NoPlan}, on : BOOLEAN, version : Nat]

NoRecord == [id |-> NoPlan, on |-> FALSE, version |-> 0]

On(p) == table[p].state = "on"

RecordOf(p) == [id |-> p, on |-> On(p),
                version |-> table[p].version]

\* What a request asks of the status: set it, clear it, or do not mention it.
Wish == {"on", "off", "same"}

NoRequest == [pc |-> "idle", op |-> "create", plan |-> NoPlan,
              wish |-> "same", row |-> NoRecord]

TypeOK ==
  /\ table \in [Plan -> [state : RowState, version : Nat]]
  /\ active \in Record
  /\ req \in [Request ->
       [pc   : {"idle", "found", "off", "write", "copy", "done"},
        op   : {"create", "update", "remove"},
        plan : Plan \cup {NoPlan}, wish : Wish, row : Record]]
  /\ \A r \in Request : req[r].pc # "idle" => req[r].plan \in Plan
  /\ restarts \in 0..MaxRestarts
  /\ overlapped \in BOOLEAN

Init ==
  /\ table = [p \in Plan |-> [state |-> "absent", version |-> 0]]
  /\ active = NoRecord
  /\ req = [r \in Request |-> NoRequest]
  /\ restarts = 0
  /\ overlapped = FALSE

Stored(p) == table[p].state \in {"on", "off"}

Open(r) == req[r].pc \notin {"idle", "done"}

Finish(r) == req' = [req EXCEPT ![r].pc = "done"]

Go(r, pc) == req' = [req EXCEPT ![r].pc = pc]

Overlaps == overlapped' = (overlapped \/ \E r \in Request : Open(r))

\* A request that activates a record turns all others off first.
FirstStep(wish) == IF wish = "on" THEN "off" ELSE "write"

Begin(r, op, p, wish, pc) ==
  /\ req' = [req EXCEPT ![r] = [pc |-> pc, op |-> op, plan |-> p,
                                wish |-> wish, row |-> NoRecord]]
  /\ Overlaps

(***************************************************************************)
(* create_financial_control, update, remove                                *)
(***************************************************************************)
StartCreate(r, p, wish) ==
  /\ req[r].pc = "idle"
  /\ table[p].state = "absent"
  /\ wish # "same"
  /\ \A s \in Request : req[s].plan # p
  /\ Begin(r, "create", p, wish, FirstStep(wish))
  /\ UNCHANGED <<table, active, restarts>>

\* findOne: a record that is not there ends the request.
StartUpdate(r, p, wish) ==
  /\ req[r].pc = "idle"
  /\ Begin(r, "update", p, wish,
           IF Stored(p) THEN FirstStep(wish) ELSE "done")
  /\ UNCHANGED <<table, active, restarts>>

StartRemove(r, p) ==
  /\ req[r].pc = "idle"
  /\ Begin(r, "remove", p, "same", IF Stored(p) THEN "found" ELSE "done")
  /\ UNCHANGED <<table, active, restarts>>

MutantDeactivateOwn(r) ==
  /\ req[r].pc = "off"
  /\ table' = [table EXCEPT ![req[r].plan].state =
                 IF @ = "on" THEN "off" ELSE @]
  /\ Go(r, "write")
  /\ UNCHANGED <<active, restarts, overlapped>>

\* deactivateAllFinancialManagements: one statement.
Deactivate(r) ==
  /\ req[r].pc = "off"
  /\ table' = [p \in Plan |->
       IF On(p) THEN [table[p] EXCEPT !.state = "off"]
       ELSE table[p]]
  /\ Go(r, "write")
  /\ UNCHANGED <<active, restarts, overlapped>>

MutantWriteWish(r) ==
  LET p == req[r].plan
  IN /\ req[r].pc = "write" /\ req[r].op \in {"create", "update"}
     /\ req[r].op = "update" => Stored(p)
     /\ table' = [table EXCEPT ![p] = [state   |-> req[r].wish,
                                       version |-> @.version + 1]]
     /\ req' = [req EXCEPT ![r].pc = "copy",
                           ![r].row = [id |-> p, on |-> req[r].wish = "on",
                                       version |-> table[p].version + 1]]
     /\ UNCHANGED <<active, restarts, overlapped>>

\* The insert, or the update of a row that is still there; the row comes back
\* to the request as it was written.
Write(r) ==
  LET p     == req[r].plan
      state == IF req[r].wish = "same" THEN table[p].state ELSE req[r].wish
  IN /\ req[r].pc = "write" /\ req[r].op \in {"create", "update"}
     /\ req[r].op = "update" => Stored(p)
     /\ table' = [table EXCEPT ![p] = [state   |-> state,
                                       version |-> @.version + 1]]
     /\ req' = [req EXCEPT ![r].pc = "copy",
                           ![r].row = [id |-> p, on |-> state = "on",
                                       version |-> table[p].version + 1]]
     /\ UNCHANGED <<active, restarts, overlapped>>

\* The row is gone, or the database fails: the deactivation stays.
WriteFails(r) ==
  /\ req[r].pc = "write"
  /\ Finish(r)
  /\ UNCHANGED <<table, active, restarts, overlapped>>

MutantCopyAlways(r) ==
  /\ req[r].pc = "copy"
  /\ active' = req[r].row
  /\ Finish(r)
  /\ UNCHANGED <<table, restarts, overlapped>>

\* The copy is replaced by the row that was written, if that is active; a row
\* that was turned off leaves the copy as it is.
Copy(r) ==
  /\ req[r].pc = "copy"
  /\ active' = IF req[r].row.on THEN req[r].row ELSE active
  /\ Finish(r)
  /\ UNCHANGED <<table, restarts, overlapped>>

MutantCheckNothing(r) ==
  /\ req[r].pc = "found"
  /\ Go(r, "write")
  /\ UNCHANGED <<table, active, restarts, overlapped>>

\* remove reads the record once more and refuses the active one; one that is
\* gone by now goes on to the delete, which fails.
CheckActive(r) ==
  /\ req[r].pc = "found"
  /\ IF On(req[r].plan) THEN Finish(r) ELSE Go(r, "write")
  /\ UNCHANGED <<table, active, restarts, overlapped>>

Delete(r) ==
  /\ req[r].pc = "write" /\ req[r].op = "remove"
  /\ Stored(req[r].plan)
  /\ table' = [table EXCEPT ![req[r].plan].state = "removed"]
  /\ Finish(r)
  /\ UNCHANGED <<active, restarts, overlapped>>

\* The process stops with its requests and starts again: onModuleInit loads an
\* active record, whichever the database gives first, before requests come in.
Restart ==
  /\ restarts < MaxRestarts
  /\ restarts' = restarts + 1
  /\ req' = [r \in Request |-> IF Open(r) THEN [req[r] EXCEPT !.pc = "done"]
                               ELSE req[r]]
  /\ IF \E p \in Plan : On(p)
       THEN \E p \in Plan : On(p) /\ active' = RecordOf(p)
       ELSE active' = NoRecord
  /\ UNCHANGED <<table, overlapped>>

Start(r) == \E p \in Plan :
  \/ StartRemove(r, p)
  \/ \E wish \in Wish : StartCreate(r, p, wish) \/ StartUpdate(r, p, wish)

Step(r) == \/ Deactivate(r)
           \/ Write(r)
           \/ WriteFails(r)
           \/ Copy(r)
           \/ CheckActive(r)
           \/ Delete(r)

Next == (\E r \in Request : Start(r) \/ Step(r)) \/ Restart

Spec == Init /\ [][Next]_vars

(***************************************************************************)
(* Properties                                                              *)
(***************************************************************************)

\* The copy is never invented: it is nothing, or the content a row had when it
\* was active, and the row has not gone back in time since, whatever requests
\* and restarts come between the write and the copy.
CopyWasActive ==
  active # NoRecord =>
    /\ active.id \in Plan /\ active.on
    /\ active.version <= table[active.id].version
    /\ table[active.id].state # "absent"

Rest == \A r \in Request : ~ Open(r)

\* As long as no two requests overlap, and though the process may stop between
\* any two steps of one: at most one record is active, and between requests the
\* copy is the active record as it is now.
AloneOneActive ==
  ~ overlapped =>
    /\ \A p, q \in Plan : On(p) /\ On(q) => p = q
    /\ Rest => \A p \in Plan : On(p) => active = RecordOf(p)

\* As long as no two requests overlap, the active record is not deleted, as the
\* route promises (management.controller.ts:127); overlapping ones may delete
\* it.
AloneKeepsActive ==
  [][~ overlapped' =>
       \A p \in Plan : On(p) => table'[p].state # "removed"]_vars

\* What the route GET /management/active promises (management.controller.ts:60):
\* the record it answers with, the copy, is an active one.
CopyIsActive == Rest /\ active # NoRecord => On(active.id)

(***************************************************************************)
(* What keeps them true.                                                   *)
(***************************************************************************)

\* Which steps belong to which operation, and what a request that has written
\* knows of its row.
RequestsInOrder ==
  \A r \in Request :
    /\ req[r].pc = "off" => req[r].op # "remove" /\ req[r].wish = "on"
    /\ req[r].pc = "found" => req[r].op = "remove"
    /\ req[r].op = "create" /\ req[r].pc # "idle" => req[r].wish # "same"
    /\ req[r].pc = "copy" =>
         /\ req[r].row.id = req[r].plan
         /\ req[r].row.version <= table[req[r].plan].version
         /\ table[req[r].plan].state # "absent"

CopyInv == TypeOK /\ RequestsInOrder /\ CopyWasActive

\* While requests come one at a time: a request that turned all records off
\* finds them off, one that goes on to delete saw its record off, and the copy
\* lacks behind only the row the open request has just written.
AloneInv ==
  ~ overlapped =>
    /\ \A r, s \in Request : Open(r) /\ Open(s) => r = s
    /\ \A p, q \in Plan : On(p) /\ On(q) => p = q
    /\ \A r \in Request : req[r].pc = "write" =>
         /\ req[r].op # "remove" /\ req[r].wish = "on" =>
              \A p \in Plan : ~ On(p)
         /\ req[r].op = "remove" => ~ On(req[r].plan)
    /\ \A r \in Request :
         req[r].pc = "copy" => req[r].row = RecordOf(req[r].plan)
    /\ \A p \in Plan : On(p) =>
         \/ active = RecordOf(p)
         \/ \E r \in Request : req[r].pc = "copy" /\ req[r].plan = p

===============================================================================
