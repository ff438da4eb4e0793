-------------------------------- MODULE Grounds --------------------------------
(***************************************************************************)
(* The grounds of the cemeteries: squares ("quadras") in graveyards,       *)
(* vaults in squares, and the drawers a vault is made with, all by name    *)
(* ("identificator").                                                      *)
(*                                                                         *)
(* A request looks names up in one square or graveyard and writes later;   *)
(* the unique indexes of the database are over all of them.  The drawers   *)
(* of a vault are named after it and keep their names when it is renamed.  *)
(*                                                                         *)
(* Bounds: an element of Task is one request, and the id of the square or  *)
(* vault it adds.  A request that is refused at its first look is no       *)
(* request here.  Drawers are never in use: see Burial for those that are. *)
(* A body that leaves a name or number out stands for one that repeats it. *)
(*                                                                         *)
(* A definition Mutant... is the definition after it with a plausible bug, *)
(* for the mutation tests; no specification uses it.                       *)
(***************************************************************************)
EXTENDS Naturals, FiniteSets

CONSTANTS
  Graveyard, Task, Name,
  Most,        \* the most drawers a vault is made with
  NoGraveyard, NoTask, NoName

ASSUME MostAssumption == Most \in Nat
ASSUME SentinelsAssumption ==
  /\ NoGraveyard \notin Graveyard
  /\ NoTask \notin Task
  /\ NoName \notin Name

VARIABLES
  graveyards,  \* the rows of table Graveyards
  squares,     \* Task -> a row of table Squares
  valts,       \* Task -> a row of table Valts
  drawers,     \* Label -> the vault of the drawer of that name
  job,         \* Task -> a request
  crowded      \* history: vaults to which two requests added drawers side by
               \* side, or whose drawersQuantity was lowered

groundsVars == <<graveyards, squares, valts, drawers, job, crowded>>

\* The first drawer of the vault X is "X-1", and so on.
Label == Name \X (1..Most)

NoSquare == [name |-> NoName, in |-> NoGraveyard]

NoVault == [name |-> NoName, in |-> NoTask, quantity |-> 0]

IsSquare(s) == squares[s].name # NoName

IsValt(v) == valts[v].name # NoName

DrawersOf(v) == { l \in Label : drawers[l] = v }

Op == {"none", "newSquare", "square", "newValt", "valt", "drawer", "remove"}

JobRecord ==
  [pc    : {"idle", "write", "done", "refused", "failed"},
   op    : Op,
   of    : Task \cup {NoTask},            \* the square or vault
   to    : Graveyard \cup {NoGraveyard},  \* the graveyard of a square
   name  : Name \cup {NoName},
   n     : 0..Most]                       \* drawersQuantity, or the number in
                                          \* the name of a drawer

NoJob == [pc |-> "idle", op |-> "none", of |-> NoTask, to |-> NoGraveyard,
          name |-> NoName, n |-> 0]

GroundsTypeOK ==
  /\ graveyards \subseteq Graveyard
  /\ squares \in [Task -> [name : Name \cup {NoName},
                           in   : Graveyard \cup {NoGraveyard}]]
  /\ valts \in [Task -> [name     : Name \cup {NoName},
                         in       : Task \cup {NoTask},
                         quantity : 0..Most]]
  /\ drawers \in [Label -> Task \cup {NoTask}]
  /\ job \in [Task -> JobRecord]
  /\ crowded \subseteq Task

GroundsInit ==
  /\ graveyards = Graveyard
  /\ squares = [t \in Task |-> NoSquare]
  /\ valts = [t \in Task |-> NoVault]
  /\ drawers = [l \in Label |-> NoTask]
  /\ job = [t \in Task |-> NoJob]
  /\ crowded = {}

Ask(t, op, of, to, name, n) ==
  /\ job[t].pc = "idle"
  /\ job' = [job EXCEPT ![t] = [pc |-> "write", op |-> op, of |-> of,
                                to |-> to, name |-> name, n |-> n]]

Writes(t, op) == job[t].pc = "write" /\ job[t].op = op

End(t, pc) == job' = [job EXCEPT ![t].pc = pc]

\* A request of one statement.
Serve(t) ==
  /\ job[t].pc = "idle"
  /\ job' = [job EXCEPT ![t] = [NoJob EXCEPT !.pc = "done", !.op = "remove"]]

SquareNamed(name, g) ==
  { s \in Task : squares[s].name = name /\ squares[s].in = g }

ValtNamed(name, s) == { v \in Task : valts[v].name = name /\ valts[v].in = s }

(***************************************************************************)
(* Graveyards and squares                                                  *)
(***************************************************************************)

\* Squares restrict the delete of their graveyard.
RemoveGraveyard(t, g) ==
  /\ Serve(t)
  /\ g \in graveyards
  /\ \A s \in Task : squares[s].in # g
  /\ graveyards' = graveyards \ {g}
  /\ UNCHANGED <<squares, valts, drawers, crowded>>

CreateSquareCheck(t, name, g) ==
  /\ g \in graveyards
  /\ SquareNamed(name, g) = {}
  /\ Ask(t, "newSquare", NoTask, g, name, 0)
  /\ UNCHANGED <<graveyards, squares, valts, drawers, crowded>>

CreateSquare(t) ==
  LET j == job[t] IN
  /\ Writes(t, "newSquare")
  /\ IF j.to \in graveyards /\ \A s \in Task : squares[s].name # j.name
       THEN /\ squares' = [squares EXCEPT ![t] = [name |-> j.name,
                                                  in |-> j.to]]
            /\ End(t, "done")
       ELSE UNCHANGED squares /\ End(t, "refused")
  /\ UNCHANGED <<graveyards, valts, drawers, crowded>>

\* The name is looked up in the graveyard the square is in; the body may name
\* another one.
UpdateSquareCheck(t, s, name, g) ==
  /\ IsSquare(s)
  /\ SquareNamed(name, squares[s].in) \subseteq {s}
  /\ Ask(t, "square", s, g, name, 0)
  /\ UNCHANGED <<graveyards, squares, valts, drawers, crowded>>

MutantUpdateSquare(t) ==
  LET j == job[t] IN
  /\ Writes(t, "square")
  /\ IF /\ IsSquare(j.of)
        /\ \A s \in Task \ {j.of} : squares[s].name # j.name
       THEN /\ squares' = [squares EXCEPT ![j.of] = [name |-> j.name,
                                                     in |-> j.to]]
            /\ End(t, "done")
       ELSE UNCHANGED squares /\ End(t, "refused")
  /\ UNCHANGED <<graveyards, valts, drawers, crowded>>

UpdateSquare(t) ==
  LET j == job[t] IN
  /\ Writes(t, "square")
  /\ IF /\ IsSquare(j.of)
        /\ j.to \in graveyards
        /\ \A s \in Task \ {j.of} : squares[s].name # j.name
       THEN /\ squares' = [squares EXCEPT ![j.of] = [name |-> j.name,
                                                     in |-> j.to]]
            /\ End(t, "done")
       ELSE UNCHANGED squares /\ End(t, "refused")
  /\ UNCHANGED <<graveyards, valts, drawers, crowded>>

\* The vaults of a square stay, without one: their foreign key may be NULL.
RemoveSquare(t, s) ==
  /\ Serve(t)
  /\ IsSquare(s)
  /\ squares' = [squares EXCEPT ![s] = NoSquare]
  /\ valts' = [v \in Task |-> [valts[v] EXCEPT !.in = IF @ = s THEN NoTask
                                                      ELSE @]]
  /\ UNCHANGED <<graveyards, drawers, crowded>>

(***************************************************************************)
(* Vaults and their drawers                                                *)
(***************************************************************************)
CreateValtCheck(t, name, s, n) ==
  /\ n > 0
  /\ IsSquare(s)
  /\ ValtNamed(name, s) = {}
  /\ Ask(t, "newValt", s, NoGraveyard, name, n)
  /\ UNCHANGED <<graveyards, squares, valts, drawers, crowded>>

\* The labels of the drawers a vault of that name is made with.
Labels(name, n) == { <<name, i>> : i \in 1..n }

\* One transaction adds the vault and its drawers, or nothing.  (The QR code
\* may fail; the vault stays without it.)
CreateValt(t) ==
  LET j == job[t] IN
  /\ Writes(t, "newValt")
  /\ IF /\ IsSquare(j.of)
        /\ \A v \in Task : valts[v].name # j.name
        /\ \A l \in Labels(j.name, j.n) : drawers[l] = NoTask
       THEN /\ valts' = [valts EXCEPT ![t] = [name |-> j.name, in |-> j.of,
                                              quantity |-> j.n]]
            /\ drawers' = [l \in Label |-> IF l \in Labels(j.name, j.n) THEN t
                                           ELSE drawers[l]]
            /\ End(t, "done")
       ELSE UNCHANGED <<valts, drawers>> /\ End(t, "refused")
  /\ UNCHANGED <<graveyards, squares, crowded>>

\* The name is looked up in the square of the vault when it is another one.
UpdateValtCheck(t, v, name, n) ==
  /\ n > 0
  /\ IsValt(v)
  /\ ValtNamed(name, valts[v].in) \subseteq {v}
  /\ Ask(t, "valt", v, NoGraveyard, name, n)
  /\ UNCHANGED <<graveyards, squares, valts, drawers, crowded>>

\* The drawers stay as they are, in number and in name.
UpdateValt(t) ==
  LET j == job[t] IN
  /\ Writes(t, "valt")
  /\ IF IsValt(j.of) /\ \A v \in Task \ {j.of} : valts[v].name # j.name
       THEN /\ valts' = [valts EXCEPT ![j.of].name = j.name,
                                      ![j.of].quantity = j.n]
            /\ crowded' = crowded \cup
                 { v \in {j.of} : j.n < valts[v].quantity }
            /\ End(t, "done")
       ELSE UNCHANGED <<valts, crowded>> /\ End(t, "refused")
  /\ UNCHANGED <<graveyards, squares, drawers>>

\* A vault goes with its drawers.  (One in use keeps it: see Burial.)
RemoveValt(t, v) ==
  /\ Serve(t)
  /\ IsValt(v)
  /\ valts' = [valts EXCEPT ![v] = NoVault]
  /\ drawers' = [l \in Label |-> IF drawers[l] = v THEN NoTask ELSE drawers[l]]
  /\ UNCHANGED <<graveyards, squares, crowded>>

MutantAddDrawerCheck(t, v, name, n) ==
  /\ n > 0
  /\ IsValt(v)
  /\ Cardinality(DrawersOf(v)) <= valts[v].quantity
  /\ Ask(t, "drawer", v, NoGraveyard, name, n)
  /\ crowded' = crowded \cup { x \in {v} : \E s \in Task :
                                 Writes(s, "drawer") /\ job[s].of = x }
  /\ UNCHANGED <<graveyards, squares, valts, drawers>>

\* A drawer is added under any name; the drawers are counted before.
AddDrawerCheck(t, v, name, n) ==
  /\ n > 0
  /\ IsValt(v)
  /\ Cardinality(DrawersOf(v)) < valts[v].quantity
  /\ Ask(t, "drawer", v, NoGraveyard, name, n)
  /\ crowded' = crowded \cup { x \in {v} : \E s \in Task :
                                 Writes(s, "drawer") /\ job[s].of = x }
  /\ UNCHANGED <<graveyards, squares, valts, drawers>>

AddDrawer(t) ==
  LET j == job[t] IN
  /\ Writes(t, "drawer")
  /\ IF IsValt(j.of) /\ drawers[<<j.name, j.n>>] = NoTask
       THEN /\ drawers' = [drawers EXCEPT ![<<j.name, j.n>>] = j.of]
            /\ End(t, "done")
       ELSE UNCHANGED drawers /\ End(t, "refused")
  /\ UNCHANGED <<graveyards, squares, valts, crowded>>

RemoveDrawer(t, l) ==
  /\ Serve(t)
  /\ drawers[l] # NoTask
  /\ drawers' = [drawers EXCEPT ![l] = NoTask]
  /\ UNCHANGED <<graveyards, squares, valts, crowded>>

\* The database fails: the transaction rolls back.
Fails(t) ==
  /\ job[t].pc = "write"
  /\ End(t, "failed")
  /\ UNCHANGED <<graveyards, squares, valts, drawers, crowded>>

Squares(t) ==
  \/ \E g \in Graveyard : RemoveGraveyard(t, g)
  \/ \E name \in Name, g \in Graveyard :
       \/ CreateSquareCheck(t, name, g)
       \/ \E s \in Task : UpdateSquareCheck(t, s, name, g)
  \/ CreateSquare(t)
  \/ UpdateSquare(t)
  \/ \E s \in Task : RemoveSquare(t, s)

Valts(t) ==
  \/ \E name \in Name, x \in Task, n \in 1..Most :
       \/ CreateValtCheck(t, name, x, n)
       \/ UpdateValtCheck(t, x, name, n)
       \/ AddDrawerCheck(t, x, name, n)
  \/ CreateValt(t)
  \/ UpdateValt(t)
  \/ AddDrawer(t)
  \/ \E v \in Task : RemoveValt(t, v)
  \/ \E l \in Label : RemoveDrawer(t, l)

\* The process stops: every request under way fails.
JobsAfterStop ==
  [t \in Task |-> IF job[t].pc = "write" THEN [job[t] EXCEPT !.pc = "failed"]
                  ELSE job[t]]

GroundsNext == \E t \in Task : Squares(t) \/ Valts(t) \/ Fails(t)

(***************************************************************************)
(* Properties                                                              *)
(***************************************************************************)

\* What is on the grounds is in something that is on file, whatever is removed
\* or moved between the look and the write: squares in a graveyard, vaults in a
\* square or in none, drawers in a vault.
PlacedOnFile ==
  /\ \A s \in Task : IsSquare(s) => squares[s].in \in graveyards
  /\ \A v \in Task : valts[v].in # NoTask => IsValt(v) /\ IsSquare(valts[v].in)
  /\ \A l \in Label : drawers[l] # NoTask => IsValt(drawers[l])

\* No two squares of a graveyard and no two vaults of a square have one name,
\* though names are looked up before they are written, and squares are moved
\* and vaults lose their square in between.
NamesApart ==
  \A x, y \in Task : x # y =>
    /\ IsSquare(x) /\ squares[x].in = squares[y].in
         => squares[x].name # squares[y].name
    /\ IsValt(x) /\ valts[x].in = valts[y].in
         => valts[x].name # valts[y].name

\* A vault has no more drawers than drawersQuantity says, whatever drawers
\* are added and removed and names are changed, unless drawers were added to it
\* side by side or the number was lowered.
AloneWithinQuantity ==
  \A v \in Task \ crowded :
    IsValt(v) => Cardinality(DrawersOf(v)) <= valts[v].quantity

===============================================================================
