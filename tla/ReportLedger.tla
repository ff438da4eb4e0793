---------------------------- MODULE ReportLedger ----------------------------
(***************************************************************************)
(* What the hook promises about one purchase, with no calls and no overlap *)
(* in sight: whatever is written about the purchase comes from a report    *)
(* that less than two bad ones precede, itself included, and is written    *)
(* only once the purchase is booked.  The gateway is told that reports are *)
(* processed when each of them is filed or was given up, together with     *)
(* what the last one says about the purchase as a whole.  A debt is        *)
(* recorded with the reports it was counted from.                          *)
(***************************************************************************)
EXTENDS Naturals, Sequences, FiniteSets

CONSTANTS
  Token, Parcel, Kinds, Report,
  Filing,      \* the kinds of purchase whose reports are filed
  Bad,         \* the statuses that count against the buyer
  RowReads,    \* kind, status -> how a row reads
  SaleReads    \* status -> how the purchase reads

VARIABLES
  kind,        \* the kind of the purchase at the gateway
  booked,      \* is the purchase on the books?
  history,     \* Token -> the reports at the gateway
  rows,        \* Parcel -> what its row reads
  status,      \* what the purchase reads
  filed,       \* Token -> the reports that are filed
  dropped,     \* Token -> the reports that are given up
  told,        \* Token -> how many reports the gateway knows are processed
  debts        \* the debts recorded

vars == <<kind, booked, history, rows, status, filed, dropped, told, debts>>

BadAmong(t, n) ==
  Cardinality({ i \in 1..n : history[t][i].status \in Bad })

\* A text stays if there is no word for a status.
Reading(old, text) == IF text = "undefined" THEN old ELSE text

Init ==
  /\ kind \in Kinds
  /\ booked = FALSE
  /\ history = [t \in Token |-> <<>>]
  /\ rows = [p \in Parcel |-> "AGUARDANDO_PAGAMENTO"]
  /\ status = "AGUARDANDO_PAGAMENTO"
  /\ filed = [t \in Token |-> {}]
  /\ dropped = [t \in Token |-> {}]
  /\ told = [t \in Token |-> 0]
  /\ debts = <<>>

Grow(t) ==
  /\ \E r \in Report : history' = [history EXCEPT ![t] = Append(@, r)]
  /\ UNCHANGED <<kind, booked, rows, status, filed, dropped, told, debts>>

Book ==
  /\ ~ booked /\ booked' = TRUE
  /\ UNCHANGED <<kind, history, rows, status, filed, dropped, told, debts>>

\* The first n reports count for something.
Stands(t, n) == booked /\ BadAmong(t, n) < 2

\* Report i is shown on a row, the one it is about if it is about one.
Show(t, i) ==
  /\ Stands(t, i)
  /\ \E p \in Parcel :
       /\ kind = "charge" => p = history[t][i].parcel
       /\ rows' = [rows EXCEPT ![p] =
                     Reading(@, RowReads[kind][history[t][i].status])]
  /\ dropped' = IF kind \in Filing THEN dropped
                ELSE [dropped EXCEPT ![t] = @ \ {i}]
  /\ UNCHANGED <<kind, booked, history, status, filed, told, debts>>

\* Report i is filed, once more perhaps.
File(t, i) ==
  /\ Stands(t, i)
  /\ kind \in Filing
  /\ filed' = [filed EXCEPT ![t] = @ \cup {i}]
  /\ dropped' = [dropped EXCEPT ![t] = @ \ {i}]
  /\ UNCHANGED <<kind, booked, history, rows, status, told, debts>>

\* Report i is given up.
Drop(t, i) ==
  /\ Stands(t, i)
  /\ dropped' = [dropped EXCEPT ![t] = @ \cup {i}]
  /\ UNCHANGED <<kind, booked, history, rows, status, filed, told, debts>>

\* The purchase reads what report n says, and the gateway may get to know.
Tell(t, n) ==
  /\ Stands(t, n)
  /\ kind \in Filing => 1..n \subseteq filed[t] \cup dropped[t]
  /\ status' = Reading(status, SaleReads[history[t][n].status])
  /\ \/ told' = told
     \/ n > told[t] /\ told' = [told EXCEPT ![t] = n]
  /\ UNCHANGED <<kind, booked, history, rows, filed, dropped, debts>>

Owe(t, n) ==
  /\ booked
  /\ BadAmong(t, n) >= 2
  /\ debts' = Append(debts, [token |-> t, seen |-> n, items |-> BadAmong(t, n)])
  /\ UNCHANGED <<kind, booked, history, rows, status, filed, dropped, told>>

Next ==
  \/ Book
  \/ \E t \in Token :
       \/ Grow(t)
       \/ \E n \in 1..Len(history[t]) :
            \/ Show(t, n)
            \/ File(t, n)
            \/ Drop(t, n)
            \/ Tell(t, n)
            \/ Owe(t, n)

Spec == Init /\ [][Next]_vars

=============================================================================
