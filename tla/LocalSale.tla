------------------------------- MODULE LocalSale -------------------------------
(***************************************************************************)
(* Payments taken at the office (buyValtLocalPayment): the whole price of  *)
(* a vault or an entry towards it.  What an assignee still owes            *)
(* (saleValue), the vault, its owner row and the promotions are read, the  *)
(* receipt is uploaded, and a transaction books the payment; it writes the *)
(* row that was read, whoever holds it by then.                            *)
(***************************************************************************)
EXTENDS Promotions

CONSTANTS
  OwedAtFirst,  \* Assignee -> Assignee.saleValue
  OwedTyped,    \* the debts that are typed in by hand
  Price,        \* Valt -> Valts.saleValue
  Forms         \* the forms that are sent in

\* A form is multipart: its fields are strings or absent.  entry 0 stands for
\* an entry that is not given.
Form == [prohibited : {"absent", "true", "false"},
         entry      : Nat,       \* prohibitedValue
         total      : BOOLEAN,   \* totalValue is given, and is the price
         parts      : Nat \ {0}] \* installmentQuantity

ASSUME OwedAssumption == OwedAtFirst \in [Assignee -> Nat]
ASSUME TypedAssumption == OwedTyped \subseteq Nat
ASSUME PriceAssumption == Price \in [Valt -> Nat]
ASSUME FormAssumption == Forms \subseteq Form

VARIABLES
  local,      \* Task -> a payment at the office
  saleValue,  \* Assignee -> what is still owed
  raced       \* history: assignees two of whose payments overlapped, or whose
              \* debt was lowered by hand during one

localVars == <<local, saleValue, raced>>

NoForm == [prohibited |-> "absent", entry |-> 0, total |-> FALSE, parts |-> 1]

NoLocal == [pc |-> "none", buyer |-> NoAssignee, valt |-> NoValt,
            row |-> NoAssignee, base |-> 0, price |-> 0, had |-> FALSE,
            form |-> NoForm]

LocalFailed == [NoLocal EXCEPT !.pc = "failed"]

LocalRecord ==
  [pc    : {"none", "book", "done", "failed"},
   buyer : Assignee \cup {NoAssignee},
   valt  : Valt \cup {NoValt},
   row   : Assignee \cup {NoAssignee},  \* the owner row that was read
   base  : Nat,
   price : Nat,                         \* in hundredths
   had   : BOOLEAN,                     \* the buyer owed something
   form  : Forms \cup {NoForm}]

LocalSaleTypeOK ==
  /\ local \in [Task -> LocalRecord]
  /\ saleValue \in [Assignee -> Int]
  /\ raced \subseteq Assignee

LocalSaleInit ==
  /\ local = [t \in Task |-> NoLocal]
  /\ saleValue = OwedAtFirst
  /\ raced = {}

\* Any string, "false" too, counts as true.
IsEntry(form) == form.prohibited # "absent"

MutantEntryFits(form, price) == TRUE

\* An entry is at most the price.
EntryFits(form, price) == IsEntry(form) => form.entry * 100 <= price

\* The reads, up to the upload of the receipt.  The reads of the promotions
\* come last and no payment changes them, so that one step stands for all.
LocalStart(t, b, r, form) ==
  LET v    == owner[r].valt
      had  == saleValue[b] > 0
      base == IF had THEN saleValue[b] ELSE Price[v]
  IN
  /\ Take(t, "local")
  /\ b \in assignees
  /\ v \in valts
  /\ \E d \in Discounts(v) :
       /\ EntryFits(form, base * (100 - d))
       /\ local' = [local EXCEPT ![t] =
            [pc |-> "book", buyer |-> b, valt |-> v, row |-> r, base |-> base,
             price |-> base * (100 - d), had |-> had, form |-> form]]
  /\ raced' = raced \cup { x \in {b} : \E s \in Task :
                             local[s].pc = "book" /\ local[s].buyer = b }
  /\ UNCHANGED <<saleValue, rowVars, promoVars>>

\* What the transaction needs: the rows are still there, the row of the vault
\* is the only one of the buyer, the amounts fit Int columns, and there is one
\* part, because rows of further parts carry a column the table lacks.
Bookable(l) ==
  /\ l.buyer \in assignees
  /\ l.valt \in valts
  /\ RowsOf(l.buyer) \subseteq {l.row}
  /\ l.price % 100 = 0
  /\ IsEntry(l.form) => l.form.entry > 0
  /\ l.form.parts = 1

\* An entry is taken off what is owed by now; the whole price settles it, if it
\* was stated.
OwedAfter(l) ==
  IF l.had /\ IsEntry(l.form) THEN saleValue[l.buyer] - l.form.entry
  ELSE IF l.had /\ l.form.total THEN 0
  ELSE saleValue[l.buyer]

MutantLocalBook(t) ==
  LET l == local[t] IN
  /\ l.pc = "book"
  /\ Bookable(l)
  /\ saleValue' = [saleValue EXCEPT ![l.buyer] = OwedAfter(l)]
  /\ Handover(l.row, owner[l.row].assignee, l.valt, t,
              IF IsEntry(l.form) THEN "ENTRADA_LOCAL" ELSE "PAGO_TOTAL")
  /\ local' = [local EXCEPT ![t].pc = "done"]
  /\ UNCHANGED <<raced, assignees, valts, promoVars, requestVars>>

LocalBook(t) ==
  LET l == local[t] IN
  /\ l.pc = "book"
  /\ Bookable(l)
  /\ saleValue' = [saleValue EXCEPT ![l.buyer] = OwedAfter(l)]
  /\ Handover(l.row, l.buyer, l.valt, t,
              IF IsEntry(l.form) THEN "ENTRADA_LOCAL" ELSE "PAGO_TOTAL")
  /\ local' = [local EXCEPT ![t].pc = "done"]
  /\ UNCHANGED <<raced, assignees, valts, promoVars, requestVars>>

\* The upload of the receipt or the transaction fails.
LocalFails(t) ==
  /\ local[t].pc = "book"
  /\ local' = [local EXCEPT ![t] = LocalFailed]
  /\ UNCHANGED <<saleValue, raced, rowVars, promoVars, requestVars>>

\* What an assignee owes is typed in with the rest of what is on file of him.
TypeDebt(a, owed) ==
  /\ saleValue' = [saleValue EXCEPT ![a] = owed]
  /\ raced' = raced \cup { x \in {a} :
       /\ owed < saleValue[a]
       /\ \E s \in Task : local[s].pc = "book" /\ local[s].buyer = a }
  /\ UNCHANGED local

LocalSalesAfterStop ==
  [t \in Task |-> IF local[t].pc = "book" THEN LocalFailed ELSE local[t]]

LocalSaleNext(t) ==
  \/ /\ Due(t, "local")
     /\ \E b, r \in Assignee, form \in Forms : LocalStart(t, b, r, form)
  \/ LocalBook(t)
  \/ LocalFails(t)

(***************************************************************************)
(* Properties                                                              *)
(***************************************************************************)

\* As long as no two payments of one assignee overlap, and nobody types in a
\* lower debt while one is under way, what he owes is never overdrawn: entries,
\* whole prices, discounts, debts typed in between payments and vaults changing
\* hands notwithstanding.  (Two entries that overlap are both checked against
\* the same debt, and an entry is not checked against a debt typed in later.)
DebtCovered == \A b \in Assignee \ raced : saleValue[b] >= 0

\* A price is never below what the best single promotion would make it, however
\* promotions of the graveyard and of the type come together.
PriceWithinPromotions ==
  \A t \in Task : local[t].pc \in {"book", "done"} =>
    \/ local[t].price = local[t].base * 100
    \/ \E p \in Promo : promo[p] # "new" /\
         local[t].price >= local[t].base * (100 - DiscountOf[p])

\* A row that is paid in full was paid by the assignee it names, in one payment
\* of the whole price for a vault the row has held with him.
PaidByHolder ==
  \A r \in Assignee : owner[r].status = "PAGO_TOTAL" =>
    \E t \in Task :
      /\ owner[r].charge = t
      /\ local[t].pc = "done"
      /\ ~ IsEntry(local[t].form)
      /\ local[t].buyer = owner[r].assignee
      /\ <<r, local[t].buyer, local[t].valt>> \in held

===============================================================================
