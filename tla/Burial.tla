-------------------------------- MODULE Burial --------------------------------
(***************************************************************************)
(* Drawers ("gavetas"), who lies in them, and exhumations.                 *)
(*                                                                         *)
(* A burial marks its drawer UNAVAILABLE and an exhumation marks it        *)
(* AVAILABLE again.  An exhumation makes its three writes one by one,      *)
(* outside any transaction; a vault is removed after a look at its         *)
(* drawers, a drawer is added after a count of them, and all of these      *)
(* requests run side by side.                                              *)
(*                                                                         *)
(* Bounds: an element of Task is one request, an element of Deceased is    *)
(* registered once, and the ids of removed drawers are not used again.     *)
(*                                                                         *)
(* A definition Mutant... is the definition after it with a plausible bug, *)
(* for the mutation tests; no specification uses it.                       *)
(***************************************************************************)
EXTENDS Naturals, FiniteSets

CONSTANTS
  Valt, Drawer, Deceased,
  Dated,       \* the deceased whose burial date (buriedIn) is on file
  Quantities,  \* what drawersQuantity of a vault may be
  Task,        \* requests of several steps
  NoValt, NoDrawer, NoOne

ASSUME DatedAssumption == Dated \subseteq Deceased
ASSUME QuantitiesAssumption == Quantities \subseteq Nat
ASSUME SentinelsAssumption ==
  NoValt \notin Valt /\ NoDrawer \notin Drawer /\ NoOne \notin Deceased

VARIABLES
  quantity,    \* Valt -> drawersQuantity
  valts,       \* the rows of table Valts
  home,        \* Drawer -> its vault, while the drawer has a row
  status,      \* Drawer -> Drawers.status
  known,       \* the rows of table Deceased
  grave,       \* Deceased -> Deceased.drawersId
  exhumations, \* Task -> the row of table Exhumation it made, or NoRow
  history,     \* <<deceased, drawer>>: DrawersHistory.identificator
  task,        \* Task -> a request under way
  spent,       \* history: the drawers and the deceased that were used before
  recorded     \* history: the tasks that ever added a row of Exhumation

vars == <<quantity, valts, home, status, known, grave, exhumations, history,
          task, spent, recorded>>

IsDrawer(x) == home[x] # NoValt

DrawersOf(v) == { x \in Drawer : home[x] = v }

Pc == {"idle", "add", "clear", "bury", "record", "free", "note", "done",
       "failed"}

NoTask == [pc |-> "idle", op |-> "none", valt |-> NoValt, drawer |-> NoDrawer,
           who |-> NoOne]

ExhumationRow == [who : Deceased \cup {NoOne}, drawer : Drawer \cup {NoDrawer}]

NoRow == [who |-> NoOne, drawer |-> NoDrawer]

OnFile == { t \in Task : exhumations[t] # NoRow }

TypeOK ==
  /\ quantity \in [Valt -> Quantities]
  /\ valts \subseteq Valt
  /\ home \in [Drawer -> Valt \cup {NoValt}]
  /\ status \in [Drawer -> {"AVAILABLE", "UNAVAILABLE"}]
  /\ known \subseteq Deceased
  /\ grave \in [Deceased -> Drawer \cup {NoDrawer}]
  /\ exhumations \in [Task -> ExhumationRow]
  /\ history \subseteq Deceased \X Drawer
  /\ task \in [Task -> [pc     : Pc,
                        op     : {"none", "add", "clear", "bury", "exhume"},
                        valt   : Valt \cup {NoValt},
                        drawer : Drawer \cup {NoDrawer},
                        who    : Deceased \cup {NoOne}]]
  /\ spent \subseteq Drawer \cup Deceased
  /\ OnFile \subseteq recorded /\ recorded \subseteq Task
  /\ \A x \in Drawer : IsDrawer(x) => home[x] \in valts
  /\ \A d \in Deceased :
       grave[d] # NoDrawer => d \in known /\ IsDrawer(grave[d])

\* A vault is created with as many drawers as drawersQuantity says.
Init ==
  /\ quantity \in [Valt -> Quantities]
  /\ valts = Valt
  /\ home \in [Drawer -> Valt \cup {NoValt}]
  /\ \A v \in Valt : Cardinality(DrawersOf(v)) = quantity[v]
  /\ status = [x \in Drawer |-> "AVAILABLE"]
  /\ known = {}
  /\ grave = [d \in Deceased |-> NoDrawer]
  /\ exhumations = [t \in Task |-> NoRow]
  /\ history = {}
  /\ task = [t \in Task |-> NoTask]
  /\ spent = { x \in Drawer : IsDrawer(x) }
  /\ recorded = {}

Begin(t, op, v, x, d, pc) ==
  task' = [task EXCEPT ![t] = [pc |-> pc, op |-> op, valt |-> v,
                               drawer |-> x, who |-> d]]

Go(t, pc) == task' = [task EXCEPT ![t].pc = pc]

At(t, op, pc) == task[t].op = op /\ task[t].pc = pc

(***************************************************************************)
(* Drawers and vaults                                                      *)
(***************************************************************************)
AddCheck(t, v) ==
  /\ task[t].pc = "idle"
  /\ v \in valts
  /\ Begin(t, "add", v, NoDrawer, NoOne,
           IF Cardinality(DrawersOf(v)) >= quantity[v] THEN "failed" ELSE "add")
  /\ UNCHANGED <<quantity, valts, home, status, known, grave, exhumations,
                 history, spent, recorded>>

MutantAddAnyway(t) ==
  /\ At(t, "add", "add")
  /\ \E x \in Drawer \ spent :
       /\ home' = [home EXCEPT ![x] = task[t].valt]
       /\ spent' = spent \cup {x}
       /\ Go(t, "done")
  /\ UNCHANGED <<quantity, valts, status, known, grave, exhumations, history,
                 recorded>>

\* The insert connects the vault, which must still be there.
AddDrawer(t) ==
  /\ At(t, "add", "add")
  /\ IF task[t].valt \in valts
       THEN \E x \in Drawer \ spent :
              /\ home' = [home EXCEPT ![x] = task[t].valt]
              /\ spent' = spent \cup {x}
              /\ Go(t, "done")
       ELSE Go(t, "failed") /\ UNCHANGED <<home, spent>>
  /\ UNCHANGED <<quantity, valts, status, known, grave, exhumations, history,
                 recorded>>

\* drawersQuantity is only a number: the drawers stay as they are.
UpdateQuantity(v, n) ==
  /\ v \in valts
  /\ n > 0
  /\ quantity' = [quantity EXCEPT ![v] = n]
  /\ UNCHANGED <<valts, home, status, known, grave, exhumations, history, task,
                 spent, recorded>>

\* Exhumations restrict the delete of their drawer; whoever lies there is left
\* without one.
Delete(drawers) ==
  /\ \A t \in OnFile : exhumations[t].drawer \notin drawers
  /\ home' = [x \in Drawer |-> IF x \in drawers THEN NoValt ELSE home[x]]
  /\ grave' = [d \in Deceased |-> IF grave[d] \in drawers THEN NoDrawer
                                  ELSE grave[d]]

\* remove of DrawersService looks at nothing.
RemoveDrawer(x) ==
  /\ IsDrawer(x)
  /\ Delete({x})
  /\ UNCHANGED <<quantity, valts, status, known, exhumations, history, task,
                 spent, recorded>>

RemoveValtCheck(t, v) ==
  /\ task[t].pc = "idle"
  /\ v \in valts
  /\ Begin(t, "clear", v, NoDrawer, NoOne,
           IF \A x \in DrawersOf(v) : status[x] = "AVAILABLE"
             THEN "clear" ELSE "failed")
  /\ UNCHANGED <<quantity, valts, home, status, known, grave, exhumations,
                 history, spent, recorded>>

\* The transaction deletes the drawers the vault has by now, and the vault.
RemoveValt(t) ==
  LET v == task[t].valt IN
  /\ At(t, "clear", "clear")
  /\ v \in valts
  /\ valts' = valts \ {v}
  /\ Delete(DrawersOf(v))
  /\ Go(t, "done")
  /\ UNCHANGED <<quantity, status, known, exhumations, history, spent,
                 recorded>>

RemoveValtFails(t) ==
  /\ At(t, "clear", "clear")
  /\ Go(t, "failed")
  /\ UNCHANGED <<quantity, valts, home, status, known, grave, exhumations,
                 history, spent, recorded>>

(***************************************************************************)
(* Burials                                                                 *)
(***************************************************************************)
BuryCheck(t, d, x) ==
  /\ task[t].pc = "idle"
  /\ d \notin spent
  /\ IsDrawer(x)
  /\ Begin(t, "bury", NoValt, x, d, "bury")
  /\ spent' = spent \cup {d}
  /\ UNCHANGED <<quantity, valts, home, status, known, grave, exhumations,
                 history, recorded>>

MutantBuryUnmarked(t) ==
  LET x == task[t].drawer IN
  /\ At(t, "bury", "bury")
  /\ IF IsDrawer(x)
       THEN /\ UNCHANGED status
            /\ known' = known \cup {task[t].who}
            /\ grave' = [grave EXCEPT ![task[t].who] = x]
            /\ Go(t, "done")
       ELSE Go(t, "failed") /\ UNCHANGED <<status, known, grave>>
  /\ UNCHANGED <<quantity, valts, home, exhumations, history, spent, recorded>>

\* The transaction of create marks the drawer, which must still be there but
\* may be taken, and adds the deceased.
Bury(t) ==
  LET x == task[t].drawer IN
  /\ At(t, "bury", "bury")
  /\ IF IsDrawer(x)
       THEN /\ status' = [status EXCEPT ![x] = "UNAVAILABLE"]
            /\ known' = known \cup {task[t].who}
            /\ grave' = [grave EXCEPT ![task[t].who] = x]
            /\ Go(t, "done")
       ELSE Go(t, "failed") /\ UNCHANGED <<status, known, grave>>
  /\ UNCHANGED <<quantity, valts, home, exhumations, history, spent, recorded>>

MutantRemoveExhumed(d) ==
  /\ d \in known
  /\ known' = known \ {d}
  /\ grave' = [grave EXCEPT ![d] = NoDrawer]
  /\ UNCHANGED <<quantity, valts, home, status, exhumations, history, task,
                 spent, recorded>>

\* Exhumations restrict the delete of the deceased; the drawer stays marked.
RemoveDeceased(d) ==
  /\ d \in known
  /\ \A t \in OnFile : exhumations[t].who # d
  /\ known' = known \ {d}
  /\ grave' = [grave EXCEPT ![d] = NoDrawer]
  /\ UNCHANGED <<quantity, valts, home, status, exhumations, history, task,
                 spent, recorded>>

(***************************************************************************)
(* Exhumations: three writes, each of its own, and corrections of the first *)
(***************************************************************************)

\* The deceased is looked for among those whose row names the drawer.
ExhumeCheck(t, d, x) ==
  /\ task[t].pc = "idle"
  /\ grave[d] = x
  /\ Begin(t, "exhume", NoValt, x, d, "record")
  /\ UNCHANGED <<quantity, valts, home, status, known, grave, exhumations,
                 history, spent, recorded>>

Record(t) ==
  /\ At(t, "exhume", "record")
  /\ IF task[t].who \in known /\ IsDrawer(task[t].drawer)
       THEN /\ exhumations' = [exhumations EXCEPT ![t] =
                 [who |-> task[t].who, drawer |-> task[t].drawer]]
            /\ recorded' = recorded \cup {t}
            /\ Go(t, "free")
       ELSE Go(t, "failed") /\ UNCHANGED <<exhumations, recorded>>
  /\ UNCHANGED <<quantity, valts, home, status, known, grave, history, spent>>

\* The drawer is free again, whoever else lies in it.
Free(t) ==
  LET x == task[t].drawer IN
  /\ At(t, "exhume", "free")
  /\ IF IsDrawer(x)
       THEN status' = [status EXCEPT ![x] = "AVAILABLE"] /\ Go(t, "note")
       ELSE UNCHANGED status /\ Go(t, "failed")
  /\ UNCHANGED <<quantity, valts, home, known, grave, exhumations, history,
                 spent, recorded>>

MutantNoteAgain(t) ==
  LET entry == <<task[t].who, task[t].drawer>> IN
  /\ At(t, "exhume", "note")
  /\ IF task[t].who \in Dated /\ IsDrawer(task[t].drawer)
       THEN history' = history \cup {entry} /\ Go(t, "done")
       ELSE UNCHANGED history /\ Go(t, "failed")
  /\ UNCHANGED <<quantity, valts, home, status, known, grave, exhumations,
                 spent, recorded>>

\* The history needs the burial date and has one entry for a deceased in a
\* drawer; without it the request fails and the first two writes stay.
Note(t) ==
  LET entry == <<task[t].who, task[t].drawer>> IN
  /\ At(t, "exhume", "note")
  /\ IF /\ task[t].who \in Dated
        /\ entry \notin history
        /\ IsDrawer(task[t].drawer)
       THEN history' = history \cup {entry} /\ Go(t, "done")
       ELSE UNCHANGED history /\ Go(t, "failed")
  /\ UNCHANGED <<quantity, valts, home, status, known, grave, exhumations,
                 spent, recorded>>

\* update of ExhumationService writes the body: the row may name another
\* deceased or another drawer, who must be on file.  Nothing else is corrected.
UpdateExhumation(t, d, x) ==
  /\ t \in OnFile
  /\ d \in known /\ IsDrawer(x)
  /\ exhumations' = [exhumations EXCEPT ![t] = [who |-> d, drawer |-> x]]
  /\ UNCHANGED <<quantity, valts, home, status, known, grave, history, task,
                 spent, recorded>>

RemoveExhumation(t) ==
  /\ t \in OnFile
  /\ exhumations' = [exhumations EXCEPT ![t] = NoRow]
  /\ UNCHANGED <<quantity, valts, home, status, known, grave, history, task,
                 spent, recorded>>

\* The process stops: requests end where they are, transactions roll back.
Crash ==
  /\ task' = [t \in Task |->
       IF task[t].pc \in {"idle", "done", "failed"} THEN task[t]
       ELSE [task[t] EXCEPT !.pc = "failed"]]
  /\ UNCHANGED <<quantity, valts, home, status, known, grave, exhumations,
                 history, spent, recorded>>

Vaults(t) == \/ AddDrawer(t)
             \/ RemoveValt(t)
             \/ RemoveValtFails(t)
             \/ \E v \in Valt : AddCheck(t, v) \/ RemoveValtCheck(t, v)

Exhuming(t) == Record(t) \/ Free(t) \/ Note(t)

Next ==
  \/ \E t \in Task :
       \/ Vaults(t)
       \/ Bury(t)
       \/ Exhuming(t)
       \/ RemoveExhumation(t)
       \/ \E d \in Deceased, x \in Drawer : BuryCheck(t, d, x)
                                            \/ ExhumeCheck(t, d, x)
                                            \/ UpdateExhumation(t, d, x)
  \/ \E v \in Valt, n \in Quantities : UpdateQuantity(v, n)
  \/ \E x \in Drawer : RemoveDrawer(x)
  \/ \E d \in Deceased : RemoveDeceased(d)
  \/ Crash

Spec == Init /\ [][Next]_vars

(***************************************************************************)
(* Properties                                                              *)
(***************************************************************************)

\* A drawer in which somebody lies is AVAILABLE only if an exhumation from that
\* very drawer was recorded: no burial, failed exhumation, crash or removal
\* makes an occupied drawer look free by any other way.
FreedByExhumation ==
  \A d \in Deceased :
    grave[d] # NoDrawer /\ status[grave[d]] = "AVAILABLE" =>
      \E t \in recorded : task[t].drawer = grave[d]

\* An exhumation that was answered with success has its entry in the history,
\* and the row of one that is on file names a deceased and a drawer that are on
\* file, corrected or not: no removal that runs beside it takes them away.
ExhumationsOnFile ==
  /\ \A t \in Task : At(t, "exhume", "done") =>
       <<task[t].who, task[t].drawer>> \in history
  /\ \A t \in OnFile :
       exhumations[t].who \in known /\ IsDrawer(exhumations[t].drawer)

\* The same burial is noted in the history by one exhumation at most, also when
\* two of them overlap: of all that name it, one succeeds.
NotedOnce ==
  \A s, t \in Task :
    At(s, "exhume", "done") /\ At(t, "exhume", "done") /\ s # t =>
      <<task[s].who, task[s].drawer>> # <<task[t].who, task[t].drawer>>

\* What the removal of a vault answers (valts.service.ts:664-667): a vault with
\* a drawer in use cannot be removed.
VaultsInUseStay ==
  [][\A x \in Drawer :
       IsDrawer(x) /\ status[x] # "AVAILABLE" => home[x] \in valts']_vars

===============================================================================
