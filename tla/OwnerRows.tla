------------------------------- MODULE OwnerRows -------------------------------
(***************************************************************************)
(* The owner rows (ValtOwners) as contracts, maintenance and local         *)
(* payments find them: which assignee a row names, for which vault, what   *)
(* was last billed on it, and whether it is active.  Rows are made by the  *)
(* registration of an assignee, which also names them, and never deleted.  *)
(*                                                                         *)
(* A definition Mutant... is the definition after it with a plausible bug, *)
(* for the mutation tests; no specification uses it.                       *)
(***************************************************************************)
EXTENDS Requests

CONSTANTS
  Assignee,    \* ids of table Assignee
  Valt,        \* ids of table Valts, numbers as in the database
  Registered,  \* scene -> the ways assignees were registered: for each one
               \* on file, the vault
  Vaults,      \* scene -> the vaults on file
  NoAssignee, NoValt

ASSUME ValtAssumption == Valt \subseteq Nat
ASSUME RowSentinelAssumption == NoAssignee \notin Assignee /\ NoValt \notin Valt
ASSUME RegisteredAssumption ==
  \A c \in Scene : \A home \in Registered[c] :
    /\ Vaults[c] \subseteq Valt
    /\ DOMAIN home \subseteq Assignee
    /\ home \in [DOMAIN home -> Vaults[c] \cup {NoValt}]
    /\ \A a, b \in DOMAIN home :
         a # b /\ home[a] = home[b] => home[a] = NoValt

VARIABLES
  assignees,   \* the rows of table Assignee
  valts,       \* the rows of table Valts
  owner,       \* Assignee -> the row its registration made
  held         \* history: <<row, assignee, vault>> a row has ever named

rowVars == <<assignees, valts, owner, held>>

PaymentStatus == {"AGUARDANDO_PAGAMENTO", "ENTRADA_LOCAL", "PAGO_TOTAL"}

OwnerRow == [assignee : Assignee \cup {NoAssignee},
             valt     : Valt \cup {NoValt},
             charge   : Task \cup {NoTask},
             status   : PaymentStatus,
             isActive : BOOLEAN]

RowsTypeOK ==
  /\ assignees \subseteq Assignee
  /\ valts \subseteq Valt
  /\ owner \in [Assignee -> OwnerRow]
  /\ held \subseteq Assignee \X Assignee \X Valt

\* An imported assignee has no row; a registration leaves a row that is not
\* active and waits for a payment.
RowsInit ==
  /\ valts = Vaults[scene]
  /\ \E home \in Registered[scene] :
       LET holders == { a \in DOMAIN home : home[a] # NoValt } IN
       /\ assignees = DOMAIN home
       /\ owner = [a \in Assignee |->
                     [assignee |-> IF a \in holders THEN a ELSE NoAssignee,
                      valt     |-> IF a \in holders THEN home[a] ELSE NoValt,
                      charge   |-> NoTask,
                      status   |-> "AGUARDANDO_PAGAMENTO",
                      isActive |-> FALSE]]
       /\ held = { <<a, a, home[a]>> : a \in holders }

RowsOf(a) == { r \in Assignee : owner[r].assignee = a }

RowsAt(v) == { r \in Assignee : owner[r].valt = v }

\* The relation of rows and vaults is one to one and optional on the side of
\* the row: connecting a row to a vault disconnects the row that held it.
Handover(r, a, v, t, s) ==
  /\ owner' = [x \in Assignee |->
       IF x = r THEN [owner[r] EXCEPT !.assignee = a, !.valt = v,
                                      !.charge = t, !.status = s]
       ELSE IF owner[x].valt = v THEN [owner[x] EXCEPT !.valt = NoValt]
       ELSE owner[x]]
  /\ held' = held \cup {<<r, a, v>>}

===============================================================================
