------------------------------ MODULE Maintenance ------------------------------
(***************************************************************************)
(* Maintenance of a vault: the fee of the assignee who holds it is billed  *)
(* at the gateway, a maintenance row is made, and one payment row for each *)
(* part is put on his owner row, one write after the other without a       *)
(* transaction.                                                            *)
(***************************************************************************)
EXTENDS OwnerRows

MaintenanceChoice == {"ANUAL", "SEMESTRAL", "MENSAL"}

PartsOf == [type \in MaintenanceChoice |->
              CASE type = "ANUAL" -> 1
                [] type = "SEMESTRAL" -> 2
                [] type = "MENSAL" -> 12]

CONSTANT Fee   \* Assignee -> Assignee.maintenanceValue, imported; 0 for none

ASSUME FeeAssumption == Fee \in [Assignee -> Nat]

VARIABLES
  maintenance,  \* Task -> a request and the maintenance row it made
  issued,       \* Task -> parts of it at the gateway
  billed        \* Task -> payment rows of it

maintenanceVars == <<maintenance, issued, billed>>

Method == {"PIX", "BOLETO", "CARNE", "CREDITO"}

MaintenanceRecord ==
  [pc     : {"none", "call", "record", "bill", "done", "failed"},
   who    : Assignee \cup {NoAssignee},
   valt   : Valt \cup {NoValt},
   parts  : 0..12,
   each   : 0..12,                  \* parts that one call issues
   open   : 0..12,                  \* calls without an answer
   made   : BOOLEAN,                \* the maintenance row is there
   rowFor : Valt \cup {NoValt}]     \* ValtMaintenance.valtsId

NoMaintenance == [pc |-> "none", who |-> NoAssignee, valt |-> NoValt,
                  parts |-> 0, each |-> 0, open |-> 0, made |-> FALSE,
                  rowFor |-> NoValt]

MaintenanceTypeOK ==
  /\ maintenance \in [Task -> MaintenanceRecord]
  /\ issued \in [Task -> 0..12]
  /\ billed \in [Task -> 0..12]

MaintenanceInit ==
  /\ maintenance = [t \in Task |-> NoMaintenance]
  /\ issued = [t \in Task |-> 0]
  /\ billed = [t \in Task |-> 0]

(***************************************************************************)
(* How a method bills the parts of a choice: in how many calls.  0 stands  *)
(* for a method that throws before it calls anything.                      *)
(***************************************************************************)

\* Months and half-years, and all of the cards, look for their service on
\* "this", which a function of a module does not have.  The amount of a PIX is
\* made from the fee, without which it throws.
PixCalls(type, fee) == IF type = "ANUAL" /\ fee > 0 THEN 1 ELSE 0

CreditCalls(type) == 0

\* A call for each slip, all at a time.
BilletCalls(type) == PartsOf[type]

\* A carnet is one call; the limits it checks are not those of the record but
\* 1 and 12, and the choices keep to them.
FleshCalls(type) == IF PartsOf[type] \in 1..12 THEN 1 ELSE 0

CallsFor(method, type, fee) ==
  CASE method = "PIX" -> PixCalls(type, fee)
    [] method = "BOLETO" -> BilletCalls(type)
    [] method = "CARNE" -> FleshCalls(type)
    [] method = "CREDITO" -> CreditCalls(type)

\* Only the owner of the vault may.  (Limits of the financial record may refuse
\* slips, before any is issued.)
StartMaintenance(t, a, v, method, type) ==
  LET calls == CallsFor(method, type, Fee[a]) IN
  /\ Take(t, "maintenance")
  /\ a \in assignees
  /\ v \in valts
  /\ \E r \in RowsOf(a) : owner[r].valt = v
  /\ calls > 0
  /\ maintenance' = [maintenance EXCEPT ![t] =
       [NoMaintenance EXCEPT !.pc = "call", !.who = a, !.valt = v,
          !.parts = PartsOf[type], !.each = PartsOf[type] \div calls,
          !.open = calls]]
  /\ UNCHANGED <<issued, billed, rowVars>>

MutantCallAnswered(t) ==
  LET m == maintenance[t] IN
  /\ m.pc = "call"
  /\ issued' = [issued EXCEPT ![t] = @ + m.each]
  /\ maintenance' = [maintenance EXCEPT
       ![t].open = @ - 1,
       ![t].pc = "record"]
  /\ UNCHANGED <<billed, rowVars, requestVars>>

\* The request goes on when every call is answered.
CallAnswered(t) ==
  LET m == maintenance[t] IN
  /\ m.pc = "call"
  /\ issued' = [issued EXCEPT ![t] = @ + m.each]
  /\ maintenance' = [maintenance EXCEPT
       ![t].open = @ - 1,
       ![t].pc = IF m.open = 1 THEN "record" ELSE "call"]
  /\ UNCHANGED <<billed, rowVars, requestVars>>

\* The first call that fails, or whose answer is lost, fails the request.
CallFails(t) ==
  LET m == maintenance[t] IN
  /\ m.pc = "call"
  /\ \E n \in {0, m.each} : issued' = [issued EXCEPT ![t] = @ + n]
  /\ maintenance' = [maintenance EXCEPT ![t].open = @ - 1,
                                        ![t].pc = "failed"]
  /\ UNCHANGED <<billed, rowVars, requestVars>>

\* The other calls go on after that.
CallGoesOn(t) ==
  LET m == maintenance[t] IN
  /\ m.pc = "failed"
  /\ m.open > 0
  /\ \E n \in {0, m.each} : issued' = [issued EXCEPT ![t] = @ + n]
  /\ maintenance' = [maintenance EXCEPT ![t].open = @ - 1]
  /\ UNCHANGED <<billed, rowVars, requestVars>>

\* A vault has one maintenance row: the new one takes it from an older one.
RecordMaintenance(t) ==
  LET m == maintenance[t] IN
  /\ m.pc = "record"
  /\ m.who \in assignees
  /\ m.valt \in valts
  /\ maintenance' = [s \in Task |->
       IF s = t
         THEN [m EXCEPT !.pc = "bill", !.made = TRUE, !.rowFor = m.valt]
         ELSE [maintenance[s] EXCEPT !.rowFor = IF @ = m.valt THEN NoValt
                                                ELSE @]]
  /\ UNCHANGED <<issued, billed, rowVars, requestVars>>

BillPart(t) ==
  LET m == maintenance[t] IN
  /\ m.pc = "bill"
  /\ billed' = [billed EXCEPT ![t] = @ + 1]
  /\ maintenance' = [maintenance EXCEPT
       ![t].pc = IF billed[t] + 1 = m.parts THEN "done" ELSE "bill"]
  /\ UNCHANGED <<issued, rowVars, requestVars>>

\* A write fails: what was written before stays.
MaintenanceFails(t) ==
  /\ maintenance[t].pc \in {"record", "bill"}
  /\ maintenance' = [maintenance EXCEPT ![t].pc = "failed"]
  /\ UNCHANGED <<issued, billed, rowVars, requestVars>>

\* The removal of a vault sets the foreign key of its maintenance to NULL.
MaintenanceWithout(v) ==
  [t \in Task |-> [maintenance[t] EXCEPT !.rowFor = IF @ = v THEN NoValt
                                                    ELSE @]]

\* Calls that were sent may still arrive after the process stopped.
MaintenanceAfterStop ==
  [t \in Task |-> [maintenance[t] EXCEPT
     !.pc = IF @ \in {"none", "done"} THEN @ ELSE "failed"]]

MaintenanceNext(t) ==
  \/ /\ Due(t, "maintenance")
     /\ \E a \in Assignee, v \in Valt, method \in Method,
           type \in MaintenanceChoice : StartMaintenance(t, a, v, method, type)
  \/ CallAnswered(t)
  \/ CallFails(t)
  \/ CallGoesOn(t)
  \/ RecordMaintenance(t)
  \/ BillPart(t)
  \/ MaintenanceFails(t)

(***************************************************************************)
(* Properties                                                              *)
(***************************************************************************)

\* No payment row of a maintenance is written unless its maintenance row is
\* there and every part is at the gateway, however the parallel slips came back;
\* and a request that succeeds has written them all.
MaintenanceBooked ==
  \A t \in Task :
    /\ billed[t] > 0 => maintenance[t].made /\ issued[t] = maintenance[t].parts
    /\ maintenance[t].pc = "done" => billed[t] = issued[t]

\* A maintenance row is for a vault that its assignee has held on an owner row,
\* though the vault may be sold on while the gateway is called.
MaintenanceByHolder ==
  \A t \in Task : maintenance[t].made =>
    \E r \in Assignee : <<r, maintenance[t].who, maintenance[t].valt>> \in held

\* Removals and later requests leave no maintenance row of somebody or of a
\* vault that is gone, and never two rows of one vault.
MaintenanceOnFile ==
  \A t \in Task : maintenance[t].made =>
    /\ maintenance[t].who \in assignees
    /\ maintenance[t].rowFor \in valts \cup {NoValt}
    /\ \A s \in Task : s # t /\ maintenance[t].rowFor # NoValt
                         => maintenance[s].rowFor # maintenance[t].rowFor

===============================================================================
