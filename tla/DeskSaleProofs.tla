---------------------------- MODULE DeskSaleProofs ----------------------------
(***************************************************************************)
(* Proofs about the sale of a vault at the office: owner rows, payments,   *)
(* promotions, contracts and maintenance, for every number of requests,    *)
(* assignees and vaults.                                                   *)
(***************************************************************************)
EXTENDS DeskProofs

(***************************************************************************)
(* Owner rows                                                              *)
(***************************************************************************)

\* Who a row names is one it has held, for the vault it is at.
HeldRows ==
  \A r \in Assignee : owner[r].assignee \in Assignee =>
    /\ \E v \in Valt : <<r, owner[r].assignee, v>> \in held
    /\ owner[r].valt \in Valt =>
         <<r, owner[r].assignee, owner[r].valt>> \in held

\* What a payment at the desk does to the rows.
LEMMA BookedRows ==
  ASSUME TypeInv, NEW t \in Task, LocalBook(t)
  PROVE  /\ local[t].buyer \in Assignee
         /\ local[t].valt \in Valt
         /\ local[t].row \in Assignee
         /\ held \subseteq held'
         /\ <<local[t].row, local[t].buyer, local[t].valt>> \in held'
         /\ \A x \in Assignee :
              /\ owner'[x].isActive = owner[x].isActive
              /\ x # local[t].row =>
                   /\ owner'[x].assignee = owner[x].assignee
                   /\ owner'[x].charge = owner[x].charge
                   /\ owner'[x].status = owner[x].status
                   /\ owner'[x].valt \in {owner[x].valt, NoValt}
         /\ owner'[local[t].row].assignee = local[t].buyer
         /\ owner'[local[t].row].valt = local[t].valt
         /\ owner'[local[t].row].charge = t
         /\ owner'[local[t].row].status =
              IF IsEntry(local[t].form) THEN "ENTRADA_LOCAL" ELSE "PAGO_TOTAL"
<1> DEFINE l == local[t]
           s == IF IsEntry(l.form) THEN "ENTRADA_LOCAL" ELSE "PAGO_TOTAL"
<1>1. l.buyer \in Assignee /\ l.valt \in Valt /\ l.row \in Assignee
  BY DEF LocalBook, TypeInv, LocalTyped
<1>2. Handover(l.row, l.buyer, l.valt, t, s)
  BY DEF LocalBook
<1>3. s \in PaymentStatus
  BY DEF PaymentStatus
<1>4. RowsTypeOK
  BY DEF TypeInv
<1> HIDE DEF l, s
<1>5. /\ held \subseteq held'
      /\ <<l.row, l.buyer, l.valt>> \in held'
      /\ \A x \in Assignee :
           /\ owner'[x].isActive = owner[x].isActive
           /\ x # l.row => /\ owner'[x].assignee = owner[x].assignee
                           /\ owner'[x].charge = owner[x].charge
                           /\ owner'[x].status = owner[x].status
                           /\ owner'[x].valt \in {owner[x].valt, NoValt}
      /\ owner'[l.row].assignee = l.buyer
      /\ owner'[l.row].valt = l.valt
      /\ owner'[l.row].charge = t
      /\ owner'[l.row].status = s
  BY <1>1, <1>2, <1>3, <1>4, HandoverType
<1> QED BY <1>1, <1>5 DEF l, s

\* Every other step leaves names and payments of the rows as they are.
LEMMA RowsKept ==
  ASSUME TypeInv, [Next]_vars
  PROVE  \/ \E t \in Task : LocalBook(t)
         \/ /\ held' = held
            /\ \A r \in Assignee :
                 /\ owner'[r].assignee = owner[r].assignee
                 /\ owner'[r].charge = owner[r].charge
                 /\ owner'[r].status = owner[r].status
                 /\ owner'[r].valt \in {owner[r].valt, NoValt}
                 /\ owner[r].isActive => owner'[r].isActive
            /\ \/ \E t \in Task : ActivateRow(t)
               \/ \A r \in Assignee : owner'[r].isActive = owner[r].isActive
<1>0. \A r \in Assignee : owner[r] \in OwnerRow
  BY DEF TypeInv, RowsTypeOK
<1> DEFINE Same(r) == /\ owner'[r].assignee = owner[r].assignee
                      /\ owner'[r].charge = owner[r].charge
                      /\ owner'[r].status = owner[r].status
                      /\ owner'[r].valt \in {owner[r].valt, NoValt}
<1>1. ASSUME NEW t \in Task, ActivateRow(t)
      PROVE  /\ held' = held
             /\ \A r \in Assignee :
                  Same(r) /\ (owner[r].isActive => owner'[r].isActive)
  <2>1. PICK x \in Assignee : owner' = [owner EXCEPT ![x].isActive = TRUE]
    BY <1>1 DEF ActivateRow, RowsOf
  <2>2. \A r \in Assignee :
          Same(r) /\ (owner[r].isActive => owner'[r].isActive)
    BY <1>0, <2>1 DEF OwnerRow, TypeInv, RowsTypeOK
  <2> QED BY <1>1, <2>2 DEF ActivateRow
<1>2. ASSUME NEW t \in Task, NEW v \in Valt, RemoveValt(t, v)
      PROVE  /\ held' = held
             /\ \A r \in Assignee :
                  Same(r) /\ owner'[r].isActive = owner[r].isActive
  <2>1. \A r \in Assignee : owner'[r] = [owner[r] EXCEPT
                              !.valt = IF @ = v THEN NoValt ELSE @]
    BY <1>2 DEF RemoveValt
  <2>2. \A r \in Assignee :
          Same(r) /\ owner'[r].isActive = owner[r].isActive
    BY <1>0, <2>1 DEF OwnerRow
  <2> QED BY <1>2, <2>2 DEF RemoveValt
<1>3. ASSUME NEW t \in Task, NEW a \in Assignee, RemoveAssignee(t, a)
      PROVE  UNCHANGED <<owner, held>>
  BY <1>3 DEF RemoveAssignee
<1>4. UNCHANGED rowVars => UNCHANGED <<owner, held>>
  BY DEF rowVars
<1>5. CASE UNCHANGED <<owner, held>>
  BY <1>5
<1> QED BY <1>1, <1>2, <1>3, <1>4, <1>5, RowsStep

\* The history of the rows grows, and a row stays active.
LEMMA RowsGrow ==
  ASSUME TypeInv, [Next]_vars
  PROVE  /\ held \subseteq held'
         /\ \A r \in Assignee : owner[r].isActive => owner'[r].isActive
BY RowsKept, BookedRows

\* Every step of the office.
LEMMA HeldRowsKept ==
  ASSUME TypeInv, HeldRows, [Next]_vars
  PROVE  HeldRows'
<1>1. ASSUME NEW t \in Task, LocalBook(t)
      PROVE  HeldRows'
  <2>1. SUFFICES ASSUME NEW r \in Assignee, owner'[r].assignee \in Assignee
                 PROVE  /\ \E v \in Valt : <<r, owner'[r].assignee, v>> \in held'
                        /\ owner'[r].valt \in Valt =>
                             <<r, owner'[r].assignee, owner'[r].valt>> \in held'
    BY DEF HeldRows
  <2>2. CASE r = local[t].row
    BY <1>1, <2>2, BookedRows
  <2>3. CASE r # local[t].row
    <3>1. /\ owner'[r].assignee = owner[r].assignee
          /\ owner'[r].valt \in {owner[r].valt, NoValt}
          /\ held \subseteq held'
      BY <1>1, <2>3, BookedRows
    <3> QED BY <2>1, <3>1, RowSentinelAssumption DEF HeldRows
  <2> QED BY <2>2, <2>3
<1>2. CASE /\ held' = held
           /\ \A r \in Assignee : /\ owner'[r].assignee = owner[r].assignee
                                  /\ owner'[r].valt \in {owner[r].valt, NoValt}
  BY <1>2, RowSentinelAssumption DEF HeldRows
<1> QED BY <1>1, <1>2, RowsKept

\* A registration leaves a row that names who was registered.
LEMMA HeldRowsInit == Init => HeldRows
<1> SUFFICES ASSUME Init
             PROVE  HeldRows
  OBVIOUS
<1>1. PICK home \in Registered[scene] :
        LET holders == { a \in DOMAIN home : home[a] # NoValt } IN
        /\ owner = [a \in Assignee |->
                     [assignee |-> IF a \in holders THEN a ELSE NoAssignee,
                      valt     |-> IF a \in holders THEN home[a] ELSE NoValt,
                      charge   |-> NoTask,
                      status   |-> "AGUARDANDO_PAGAMENTO",
                      isActive |-> FALSE]]
        /\ held = { <<a, a, home[a]>> : a \in holders }
  BY DEF Init, RowsInit
<1> DEFINE holders == { a \in DOMAIN home : home[a] # NoValt }
<1>2. \A a \in holders : home[a] \in Valt
  <2>1. scene \in Scene
    BY DEF Init, RequestsInit
  <2>2. Vaults[scene] \subseteq Valt
        /\ home \in [DOMAIN home -> Vaults[scene] \cup {NoValt}]
    BY <2>1, RegisteredAssumption
  <2> QED BY <2>2
<1>3. ASSUME NEW r \in Assignee, owner[r].assignee \in Assignee
      PROVE  /\ r \in holders
             /\ owner[r].assignee = r
             /\ owner[r].valt = home[r]
             /\ <<r, r, home[r]>> \in held
  <2>1. r \in holders
    BY <1>1, <1>3, RowSentinelAssumption
  <2> QED BY <1>1, <2>1
<1> QED BY <1>2, <1>3 DEF HeldRows

(***************************************************************************)
(* Payments at the desk                                                    *)
(***************************************************************************)

\* A payment that is booked stays so, and none that is begun was booked.
LEMMA DoneStays ==
  ASSUME TypeInv, [Next]_vars, NEW t \in Task, local[t].pc = "done"
  PROVE  local'[t] = local[t]
<1>1. local \in [Task -> LocalRecord] /\ kind[t] # "none"
  BY DEF TypeInv, LocalTyped, LocalSaleTypeOK, NoLocal
<1>2. ASSUME NEW s \in Task, NEW b \in Assignee, NEW r \in Assignee,
             NEW form \in Forms, LocalStart(s, b, r, form)
      PROVE  local'[t] = local[t]
  <2>1. s # t
    BY <1>1, <1>2 DEF LocalStart, Take, Due
  <2> QED BY <1>2, <2>1, LocalStartType, <1>1 DEF TypeInv
<1>3. ASSUME NEW s \in Task, LocalBook(s) \/ LocalFails(s)
      PROVE  local'[t] = local[t]
  BY <1>1, <1>3 DEF LocalBook, LocalFails
<1>4. CASE local' = LocalSalesAfterStop
  BY <1>4 DEF LocalSalesAfterStop
<1>5. CASE UNCHANGED localVars
  BY <1>5 DEF localVars
<1>6. ASSUME NEW a \in Assignee, NEW owed \in OwedTyped, TypeDebt(a, owed)
      PROVE  local'[t] = local[t]
  BY <1>6 DEF TypeDebt
<1> QED BY <1>2, <1>3, <1>4, <1>5, <1>6, LocalStep DEF LocalSaleNext

\* A payment in full names its payer on the row, and stays.
LEMMA PaidByHolderKept ==
  ASSUME TypeInv, PaidByHolder, [Next]_vars
  PROVE  PaidByHolder'
<1> SUFFICES ASSUME NEW r \in Assignee, owner'[r].status = "PAGO_TOTAL"
             PROVE  \E t \in Task :
                      /\ owner'[r].charge = t
                      /\ local'[t].pc = "done"
                      /\ ~ IsEntry(local'[t].form)
                      /\ local'[t].buyer = owner'[r].assignee
                      /\ <<r, local'[t].buyer, local'[t].valt>> \in held'
  BY DEF PaidByHolder, IsEntry
<1>1. CASE /\ held \subseteq held'
           /\ owner'[r].assignee = owner[r].assignee
           /\ owner'[r].charge = owner[r].charge
           /\ owner'[r].status = owner[r].status
  <2>1. PICK t \in Task : /\ owner[r].charge = t
                          /\ local[t].pc = "done"
                          /\ ~ IsEntry(local[t].form)
                          /\ local[t].buyer = owner[r].assignee
                          /\ <<r, local[t].buyer, local[t].valt>> \in held
    BY <1>1 DEF PaidByHolder
  <2>2. local'[t] = local[t]
    BY <2>1, DoneStays
  <2> QED BY <1>1, <2>1, <2>2
<1>2. ASSUME NEW t \in Task, LocalBook(t), r = local[t].row
      PROVE  /\ owner'[r].charge = t
             /\ local'[t].pc = "done"
             /\ ~ IsEntry(local'[t].form)
             /\ local'[t].buyer = owner'[r].assignee
             /\ <<r, local'[t].buyer, local'[t].valt>> \in held'
  <2>1. local[t] \in LocalRecord
    BY DEF TypeInv, LocalTyped, LocalSaleTypeOK
  <2>2. /\ local'[t].pc = "done"
        /\ local'[t].form = local[t].form
        /\ local'[t].buyer = local[t].buyer
        /\ local'[t].valt = local[t].valt
    BY <1>2, <2>1 DEF LocalBook, LocalRecord, TypeInv, LocalTyped, LocalSaleTypeOK
  <2>3. /\ owner'[r].charge = t /\ owner'[r].assignee = local[t].buyer
        /\ <<r, local[t].buyer, local[t].valt>> \in held'
        /\ owner'[r].status =
             IF IsEntry(local[t].form) THEN "ENTRADA_LOCAL" ELSE "PAGO_TOTAL"
    BY <1>2, BookedRows
  <2> QED BY <2>2, <2>3
<1>3. ASSUME NEW t \in Task, LocalBook(t), r # local[t].row
      PROVE  /\ held \subseteq held'
             /\ owner'[r].assignee = owner[r].assignee
             /\ owner'[r].charge = owner[r].charge
             /\ owner'[r].status = owner[r].status
  BY <1>3, BookedRows
<1> QED BY <1>1, <1>2, <1>3, RowsKept

\* No row is paid for at first.
LEMMA PaidByHolderInit == Init => PaidByHolder
BY DEF Init, RowsInit, PaidByHolder

\* A row that is paid in full was paid by the assignee it names, whatever else
\* is paid, handed over, removed or cut short (buy-valt-local-payment.ts).
THEOREM PaidInFullByHolder == Spec => []PaidByHolder
BY Typed, PaidByHolderInit, PaidByHolderKept, PTL DEF Spec

\* How a payment may change in a step.
LEMMA LocalChanges ==
  ASSUME TypeInv, [Next]_vars, NEW t \in Task
  PROVE  \/ local'[t].pc \in {"none", "failed"}
         \/ \E b, r \in Assignee, form \in Forms : LocalStart(t, b, r, form)
         \/ /\ local[t].pc \in {"book", "done"}
            /\ local'[t] \in {local[t], [local[t] EXCEPT !.pc = "done"]}
<1>1. local \in [Task -> LocalRecord]
  BY DEF TypeInv, LocalTyped, LocalSaleTypeOK
<1>2. local[t].pc \in {"none", "book", "done", "failed"}
  BY <1>1 DEF LocalRecord
<1>3. ASSUME NEW s \in Task, NEW b \in Assignee, NEW r \in Assignee,
             NEW form \in Forms, LocalStart(s, b, r, form)
      PROVE  s = t \/ local'[t] = local[t]
  BY <1>1, <1>3, LocalStartType DEF TypeInv
<1>4. ASSUME NEW s \in Task, LocalBook(s)
      PROVE  \/ local'[t] = local[t]
             \/ /\ local[t].pc = "book"
                /\ local'[t] = [local[t] EXCEPT !.pc = "done"]
  <2>1. local' = [local EXCEPT ![s].pc = "done"] /\ local[s].pc = "book"
    BY <1>4 DEF LocalBook
  <2> QED BY <1>1, <2>1
<1>5. ASSUME NEW s \in Task, LocalFails(s)
      PROVE  local'[t] = local[t] \/ local'[t].pc = "failed"
  BY <1>1, <1>5, LocalFailedType DEF LocalFails
<1>6. CASE local' = LocalSalesAfterStop
  BY <1>2, <1>6, LocalFailedType DEF LocalSalesAfterStop
<1>7. CASE UNCHANGED localVars
  BY <1>2, <1>7 DEF localVars
<1>8. ASSUME NEW a \in Assignee, NEW owed \in OwedTyped, TypeDebt(a, owed)
      PROVE  local'[t] = local[t]
  BY <1>8 DEF TypeDebt
<1> QED BY <1>2, <1>3, <1>4, <1>5, <1>6, <1>7, <1>8,
        LocalStep DEF LocalSaleNext

\* A promotion that was ever made stays made.
LEMMA PromoStays ==
  ASSUME TypeInv, [Next]_vars, NEW p \in Promo, promo[p] # "new"
  PROVE  promo'[p] # "new"
<1>1. promo \in [Promo -> {"new", "on", "off", "gone"}]
  BY DEF TypeInv, PromotionsTyped, PromotionsTypeOK
<1>2. CASE PromotionsRun
  BY <1>1, <1>2 DEF PromotionsRun, CreatePromotion, SwitchPromotion,
     RemovePromotion
<1>3. ASSUME NEW t \in Task, PromotionsNext(t)
      PROVE  UNCHANGED promo
  BY <1>3 DEF PromotionsNext, AssignCheck, AssignCommit, AssignFails
<1>4. UNCHANGED promoVars => UNCHANGED promo
  BY DEF promoVars
<1> QED BY <1>2, <1>3, <1>4, PromotionsStep

\* Less of a discount is a higher price.
LEMMA LessOff ==
  ASSUME NEW base \in Nat, NEW d \in 0..100, NEW e \in 0..100, d <= e
  PROVE  base * (100 - d) >= base * (100 - e)
<1>1. base * (100 - d) = base * (100 - e) + base * (e - d)
  OBVIOUS
<1>2. base * (e - d) >= 0
  <2>1. \A x, y \in Nat : x * y >= 0
    OBVIOUS
  <2> QED BY <2>1
<1>3. base * (100 - e) \in Int /\ base * (e - d) \in Int
  OBVIOUS
<1> QED BY <1>1, <1>2, <1>3

\* A discount is none, or at most one of the promotions that were found.
LEMMA DiscountOfOne ==
  ASSUME NEW v, NEW d \in Discounts(v)
  PROVE  \/ d = 0
         \/ \E p \in Promo : promo[p] # "new" /\ d <= DiscountOf[p]
<1>1. \A p \in Promo : DiscountOf[p] \in 0..100
  BY DiscountAssumption
<1>2. \A p \in GraveyardOffers \cup TypeOffers(v) :
        p \in Promo /\ promo[p] # "new"
  BY DEF GraveyardOffers, TypeOffers
<1>3. \A x, y \in 0..100 : (x + y) \div 2 <= x \/ (x + y) \div 2 <= y
  OBVIOUS
<1>4. CASE GraveyardOffers = {} \/ TypeOffers(v) = {}
  BY <1>1, <1>2, <1>4 DEF Discounts
<1>5. CASE GraveyardOffers # {} /\ TypeOffers(v) # {}
  <2>1. CASE d = 0
    BY <2>1
  <2>2. CASE d # 0
    <3>1. PICK p \in GraveyardOffers, q \in TypeOffers(v) :
            d = (DiscountOf[p] + DiscountOf[q]) \div 2
      BY <1>5, <2>2 DEF Discounts
    <3>2. d <= DiscountOf[p] \/ d <= DiscountOf[q]
      BY <1>1, <1>2, <1>3, <3>1
    <3> QED BY <1>2, <3>2
  <2> QED BY <2>1, <2>2
<1> QED BY <1>4, <1>5

\* What a payment at the desk has read.
LEMMA StartReads ==
  ASSUME TypeInv, NEW t \in Task, NEW b \in Assignee, NEW r \in Assignee,
         NEW form \in Forms, LocalStart(t, b, r, form)
  PROVE  \E d \in Discounts(owner[r].valt) :
           /\ d \in 0..100
           /\ local'[t].base \in Nat
           /\ local'[t].price = local'[t].base * (100 - d)
           /\ EntryFits(form, local'[t].base * (100 - d))
           /\ local'[t].pc = "book"
           /\ local'[t].buyer = b
           /\ local'[t].form = form
           /\ local'[t].had => local'[t].base = saleValue[b]
<1> DEFINE v    == owner[r].valt
           had  == saleValue[b] > 0
           base == IF had THEN saleValue[b] ELSE Price[v]
<1>1. PICK d \in Discounts(v) :
        /\ EntryFits(form, base * (100 - d))
        /\ local' = [local EXCEPT ![t] =
            [pc |-> "book", buyer |-> b, valt |-> v, row |-> r, base |-> base,
             price |-> base * (100 - d), had |-> had, form |-> form]]
  BY DEF LocalStart
<1>2. d \in 0..100
  BY <1>1, DiscountsType
<1>3. v \in Valt
  BY DEF LocalStart, TypeInv, RowsTypeOK
<1>4. base \in Nat
  BY <1>3, PriceAssumption DEF TypeInv, LocalTyped, LocalSaleTypeOK
<1>5. had => base = saleValue[b]
  OBVIOUS
<1> HIDE DEF base, had
<1>6. /\ local'[t].pc = "book" /\ local'[t].buyer = b
      /\ local'[t].base = base /\ local'[t].had = had
      /\ local'[t].price = base * (100 - d) /\ local'[t].form = form
  BY <1>1 DEF TypeInv, LocalTyped, LocalSaleTypeOK
<1> QED BY <1>1, <1>2, <1>4, <1>5, <1>6 DEF v

\* A price is set once, from a discount that some promotion allows.
LEMMA PriceKept ==
  ASSUME TypeInv, PriceWithinPromotions, [Next]_vars
  PROVE  PriceWithinPromotions'
<1> SUFFICES ASSUME NEW t \in Task, local'[t].pc \in {"book", "done"}
             PROVE  \/ local'[t].price = local'[t].base * 100
                    \/ \E p \in Promo : promo'[p] # "new" /\
                         local'[t].price >=
                           local'[t].base * (100 - DiscountOf[p])
  BY DEF PriceWithinPromotions
<1>1. ASSUME NEW b \in Assignee, NEW r \in Assignee, NEW form \in Forms,
             LocalStart(t, b, r, form)
      PROVE  \/ local'[t].price = local'[t].base * 100
             \/ \E p \in Promo : promo'[p] # "new" /\
                  local'[t].price >= local'[t].base * (100 - DiscountOf[p])
  <2>1. PICK d \in Discounts(owner[r].valt) :
           /\ d \in 0..100
           /\ local'[t].base \in Nat
           /\ local'[t].price = local'[t].base * (100 - d)
    BY <1>1, StartReads
  <2>2. CASE d = 0
    BY <2>1, <2>2
  <2>3. CASE d # 0
    <3>1. PICK p \in Promo : promo[p] # "new" /\ d <= DiscountOf[p]
      BY <2>1, <2>3, DiscountOfOne
    <3>2. promo'[p] # "new"
      BY <3>1, PromoStays
    <3>3. DiscountOf[p] \in 0..100
      BY DiscountAssumption
    <3>4. local'[t].price >= local'[t].base * (100 - DiscountOf[p])
      BY <2>1, <3>1, <3>3, LessOff
    <3> QED BY <3>2, <3>4
  <2> QED BY <2>2, <2>3
<1>2. CASE /\ local[t].pc \in {"book", "done"}
           /\ local'[t] \in {local[t], [local[t] EXCEPT !.pc = "done"]}
  <2>1. local[t] \in LocalRecord
    BY DEF TypeInv, LocalTyped, LocalSaleTypeOK
  <2>2. local'[t].price = local[t].price /\ local'[t].base = local[t].base
    BY <1>2, <2>1 DEF LocalRecord
  <2> QED BY <1>2, <2>2, PromoStays DEF PriceWithinPromotions
<1> QED BY <1>1, <1>2, LocalChanges

\* Nothing is paid at first.
LEMMA PriceInit == Init => PriceWithinPromotions
BY DEF Init, LocalSaleInit, NoLocal, PriceWithinPromotions

\* No price is below what the best single promotion would make it, whatever is
\* assigned, switched or removed meanwhile (verify-promotion.ts,
\* buy-valt-local-payment.ts).
THEOREM PricesWithinPromotions == Spec => []PriceWithinPromotions
BY Typed, PriceInit, PriceKept, PTL DEF Spec

\* Of an assignee no two of whose payments overlapped, nor any with a debt that
\* was lowered, at most one payment is under way, and it has read no more than
\* what is still owed.
DebtInv ==
  /\ DebtCovered
  /\ \A t \in Task : local[t].pc = "book" =>
       /\ IsEntry(local[t].form) => local[t].form.entry <= local[t].base
       /\ local[t].buyer \notin raced =>
            /\ local[t].had => local[t].base <= saleValue[local[t].buyer]
            /\ \A s \in Task :
                 local[s].pc = "book" /\ local[s].buyer = local[t].buyer => s = t

\* A payment that begins reads what is owed, or overlaps another.
LEMMA DebtStart ==
  ASSUME TypeInv, DebtInv, NEW t \in Task, NEW b \in Assignee,
         NEW r \in Assignee, NEW form \in Forms, LocalStart(t, b, r, form)
  PROVE  DebtInv'
<1>1. PICK d \in 0..100 :
        /\ local'[t].base \in Nat
        /\ EntryFits(form, local'[t].base * (100 - d))
        /\ local'[t].pc = "book"
        /\ local'[t].buyer = b
        /\ local'[t].form = form
        /\ local'[t].had => local'[t].base = saleValue[b]
  BY StartReads
<1>2. /\ \A s \in Task : s # t => local'[s] = local[s]
      /\ UNCHANGED saleValue
      /\ raced \subseteq raced'
      /\ \A s \in Task : local[s].pc = "book" /\ local[s].buyer = b => b \in raced'
  BY LocalStartType DEF LocalStart, TypeInv, LocalTyped, LocalSaleTypeOK
<1>3. IsEntry(form) => form.entry <= local'[t].base
  <2>1. local'[t].base * (100 - d) <= local'[t].base * 100
    BY <1>1, LessOff
  <2>2. form.entry \in Nat
    BY FormAssumption DEF Form
  <2>3. local'[t].base * (100 - d) \in Nat
    BY <1>1, PriceType
  <2> QED BY <1>1, <2>1, <2>2, <2>3 DEF EntryFits
<1>4. DebtCovered'
  BY <1>2 DEF DebtInv, DebtCovered
<1>5. ASSUME NEW u \in Task, local'[u].pc = "book"
      PROVE  /\ IsEntry(local'[u].form) => local'[u].form.entry <= local'[u].base
             /\ local'[u].buyer \notin raced' =>
                  /\ local'[u].had => local'[u].base <= saleValue'[local'[u].buyer]
                  /\ \A s \in Task :
                       local'[s].pc = "book" /\ local'[s].buyer = local'[u].buyer
                         => s = u
  <2>1. CASE u = t
    BY <1>1, <1>2, <1>3, <2>1
  <2>2. CASE u # t
    BY <1>1, <1>2, <1>5, <2>2 DEF DebtInv
  <2> QED BY <2>1, <2>2
<1> QED BY <1>4, <1>5 DEF DebtInv, IsEntry

\* A payment that is booked takes off no more than it has read.
LEMMA DebtBooked ==
  ASSUME TypeInv, DebtInv, NEW t \in Task, LocalBook(t)
  PROVE  DebtInv'
<1>1. /\ local[t] \in LocalRecord
      /\ local[t].buyer \in Assignee
      /\ local[t].form.entry \in Nat
      /\ local[t].base \in Nat
  BY FormAssumption
  DEF LocalBook, TypeInv, LocalTyped, LocalSaleTypeOK, LocalRecord, Form, NoForm
<1>2. /\ local[t].pc = "book"
      /\ saleValue' = [saleValue EXCEPT ![local[t].buyer] = OwedAfter(local[t])]
      /\ local' = [local EXCEPT ![t].pc = "done"]
      /\ UNCHANGED raced
  BY DEF LocalBook
<1>3. /\ \A s \in Task : s # t => local'[s] = local[s]
      /\ local'[t].pc = "done"
      /\ \A b \in Assignee : b # local[t].buyer => saleValue'[b] = saleValue[b]
      /\ saleValue'[local[t].buyer] = OwedAfter(local[t])
      /\ \A b \in Assignee : saleValue[b] \in Int
  BY <1>1, <1>2 DEF TypeInv, LocalTyped, LocalSaleTypeOK
<1>4. ASSUME local[t].buyer \notin raced
      PROVE  OwedAfter(local[t]) >= 0
  <2>1. saleValue[local[t].buyer] >= 0 /\ saleValue[local[t].buyer] \in Int
    BY <1>1, <1>3, <1>4 DEF DebtInv, DebtCovered
  <2>2. local[t].had /\ IsEntry(local[t].form) =>
          local[t].form.entry <= saleValue[local[t].buyer]
    BY <1>1, <1>2, <1>4, <2>1 DEF DebtInv
  <2> QED BY <1>1, <2>1, <2>2 DEF OwedAfter
<1>5. DebtCovered'
  BY <1>2, <1>3, <1>4 DEF DebtInv, DebtCovered
<1>6. ASSUME NEW u \in Task, local'[u].pc = "book"
      PROVE  /\ IsEntry(local'[u].form) => local'[u].form.entry <= local'[u].base
             /\ local'[u].buyer \notin raced' =>
                  /\ local'[u].had => local'[u].base <= saleValue'[local'[u].buyer]
                  /\ \A s \in Task :
                       local'[s].pc = "book" /\ local'[s].buyer = local'[u].buyer
                         => s = u
  <2>1. u # t /\ local'[u] = local[u] /\ local[u].pc = "book"
    BY <1>3, <1>6
  <2>2. local[u].buyer \in Assignee
    BY <2>1 DEF TypeInv, LocalTyped
  <2>3. local[u].buyer \notin raced => local[u].buyer # local[t].buyer
    BY <1>2, <2>1 DEF DebtInv
  <2> QED BY <1>2, <1>3, <2>1, <2>2, <2>3 DEF DebtInv
<1> QED BY <1>5, <1>6 DEF DebtInv, IsEntry

\* A debt that is typed in is no lower, or nobody who pays it counts.
LEMMA DebtTyped ==
  ASSUME TypeInv, DebtInv, NEW a \in Assignee, NEW owed \in OwedTyped,
         TypeDebt(a, owed)
  PROVE  DebtInv'
<1>1. /\ saleValue' = [saleValue EXCEPT ![a] = owed]
      /\ raced \subseteq raced'
      /\ UNCHANGED local
      /\ owed \in Nat
  BY TypedAssumption DEF TypeDebt
<1>2. /\ \A b \in Assignee : b # a => saleValue'[b] = saleValue[b]
      /\ saleValue'[a] = owed
      /\ saleValue[a] \in Int
  BY <1>1 DEF TypeInv, LocalTyped, LocalSaleTypeOK
<1>3. DebtCovered'
  BY <1>1, <1>2 DEF DebtInv, DebtCovered
<1>4. ASSUME NEW u \in Task, local[u].pc = "book", local[u].buyer \notin raced',
             local[u].had
      PROVE  local[u].base <= saleValue'[local[u].buyer]
  <2>1. local[u].base <= saleValue[local[u].buyer]
    BY <1>1, <1>4 DEF DebtInv
  <2>2. local[u].buyer \in Assignee /\ local[u].base \in Nat
    BY <1>4 DEF TypeInv, LocalTyped, LocalSaleTypeOK, LocalRecord
  <2>3. CASE local[u].buyer # a
    BY <1>2, <2>1, <2>2, <2>3
  <2>4. CASE local[u].buyer = a
    <3>1. ~ (owed < saleValue[a])
      BY <1>4, <2>4 DEF TypeDebt
    <3> QED BY <1>1, <1>2, <2>1, <2>2, <2>4, <3>1
  <2> QED BY <2>3, <2>4
<1> QED BY <1>1, <1>3, <1>4 DEF DebtInv, IsEntry

\* Every step of the office.
LEMMA DebtKept ==
  ASSUME TypeInv, DebtInv, [Next]_vars
  PROVE  DebtInv'
<1>1. ASSUME UNCHANGED <<saleValue, raced>>,
             \A s \in Task : local'[s] = local[s] \/ local'[s].pc = "failed"
      PROVE  DebtInv'
  BY <1>1 DEF DebtInv, DebtCovered
<1>2. ASSUME NEW t \in Task, LocalFails(t)
      PROVE  DebtInv'
  BY <1>1, <1>2, LocalFailedType
  DEF LocalFails, TypeInv, LocalTyped, LocalSaleTypeOK
<1>3. CASE local' = LocalSalesAfterStop /\ UNCHANGED <<saleValue, raced>>
  BY <1>1, <1>3, LocalFailedType DEF LocalSalesAfterStop
<1>4. CASE UNCHANGED localVars
  BY <1>1, <1>4 DEF localVars
<1> QED BY <1>2, <1>3, <1>4, DebtStart, DebtBooked, DebtTyped, LocalStep
        DEF LocalSaleNext

\* Nobody owes less than nothing at first.
LEMMA DebtInit == Init => DebtInv
BY OwedAssumption DEF Init, LocalSaleInit, NoLocal, DebtInv, DebtCovered

\* An assignee whose payments do not overlap, nor with a debt typed in lower,
\* never overdraws what he owes (assignee.service.ts, buyValtLocalPayment and
\* update).
THEOREM DebtsCovered == Spec => []DebtCovered
<1>1. DebtInv => DebtCovered
  BY DEF DebtInv
<1> QED BY <1>1, Typed, DebtInit, DebtKept, PTL DEF Spec

(***************************************************************************)
(* Contracts                                                               *)
(***************************************************************************)

\* What a step leaves of the contract of request t.
Becomes(t, upload, paper, hooked, filed, hook) ==
  /\ contract'[t].who = contract[t].who
  /\ contract'[t].upload = upload
  /\ contract'[t].paper = paper
  /\ contract'[t].hooked = hooked
  /\ contract'[t].filed = filed
  /\ contract'[t].hook = hook

\* The steps of a contract, but for what they write elsewhere.
ContractMove(t) ==
  LET c == contract[t] IN
  \/ /\ c.upload = "none"
     /\ /\ contract'[t].upload = "post" /\ contract'[t].paper = "none"
        /\ ~ contract'[t].hooked
        /\ contract'[t].filed = "none" /\ contract'[t].hook = "none"
  \/ /\ FlagValt(t)
     /\ Becomes(t, c.upload, c.paper, c.hooked, c.filed, c.hook)
  \/ /\ PostDocument(t)
     /\ c.upload = "post"
     /\ Becomes(t, "invite", "out", c.hooked, c.filed, c.hook)
  \/ /\ InviteSigner(t)
     /\ c.upload = "invite"
     /\ \E hooked \in BOOLEAN, paper \in {"out", "sent"} :
          Becomes(t, "status", paper, hooked, c.filed, c.hook)
  \/ /\ DisableAssignee(t)
     /\ c.upload = "status"
     /\ Becomes(t, "store", c.paper, c.hooked, c.filed, c.hook)
  \/ /\ StoreDocument(t)
     /\ c.upload = "store"
     /\ Becomes(t, "stored", c.paper, c.hooked, "PENDENTE", c.hook)
  \/ /\ Decide(t)
     /\ c.paper = "sent"
     /\ \E paper \in {"Signed", "Rejected"} :
          Becomes(t, c.upload, paper, c.hooked, c.filed, c.hook)
  \/ /\ HookCalled(t)
     /\ c.hooked
     /\ c.paper \in {"Signed", "Rejected"}
     /\ Becomes(t, c.upload, c.paper, c.hooked, c.filed,
                IF c.filed = "none" THEN "ignored" ELSE "mark")
  \/ /\ MarkDocument(t)
     /\ c.hook = "mark"
     /\ Becomes(t, c.upload, c.paper, c.hooked,
                IF c.paper = "Signed" THEN "ASSINADO" ELSE "REJEITADO",
                IF c.paper = "Signed" THEN "person" ELSE "confirmed")
  \/ /\ EnableAssignee(t)
     /\ c.hook = "person"
     /\ Becomes(t, c.upload, c.paper, c.hooked, c.filed, "row")
  \/ /\ ActivateRow(t)
     /\ c.hook = "row"
     /\ Becomes(t, c.upload, c.paper, c.hooked, c.filed, "confirmed")
  \/ /\ HookFails(t)
     /\ c.hook \in {"mark", "person", "row"}
     /\ Becomes(t, c.upload, c.paper, c.hooked, c.filed, "failed")

\* Each step of a contract is one of these and touches no other contract.
LEMMA ContractMoved ==
  ASSUME TypeInv, NEW t \in Task, ContractNext(t)
  PROVE  /\ \A s \in Task : s # t => contract'[s] = contract[s]
         /\ ContractMove(t)
<1>0. contract \in [Task -> ContractRecord]
  BY DEF TypeInv, ContractTyped, ContractTypeOK
<1>1. contract[t] \in ContractRecord
  BY <1>0
<1>2. ASSUME NEW a \in Assignee, NEW v \in Valt, GenerateContract(t, a, v)
      PROVE  /\ \A s \in Task : s # t => contract'[s] = contract[s]
             /\ ContractMove(t)
  <2>1. kind[t] = "none"
    BY <1>2 DEF GenerateContract, Take, Due
  <2>2. contract[t].upload = "none"
    BY <2>1, NoContractType DEF TypeInv, ContractTyped
  <2> DEFINE d == [NoContract EXCEPT !.who = a, !.valt = v, !.upload = "post"]
  <2>3. contract' = [contract EXCEPT ![t] = d]
    BY <1>2 DEF GenerateContract
  <2>4. /\ d.upload = "post" /\ d.paper = "none" /\ ~ d.hooked
        /\ d.filed = "none" /\ d.hook = "none"
    BY DEF NoContract
  <2> HIDE DEF d
  <2> QED BY <1>0, <2>2, <2>3, <2>4 DEF ContractMove
<1> USE DEF ContractMove, Becomes, ContractRecord
<1>3. CASE FlagValt(t)
  BY <1>0, <1>1, <1>3 DEF FlagValt
<1>4. CASE PostDocument(t)
  BY <1>0, <1>1, <1>4 DEF PostDocument
<1>5. CASE InviteSigner(t)
  <2>1. PICK hooked \in BOOLEAN, paper \in {"out", "sent"} :
          contract' = [contract EXCEPT ![t].upload = "status",
                                       ![t].hooked = hooked, ![t].paper = paper]
    BY <1>5 DEF InviteSigner
  <2>2. Becomes(t, "status", paper, hooked, contract[t].filed, contract[t].hook)
        /\ \A s \in Task : s # t => contract'[s] = contract[s]
    BY <1>0, <1>1, <2>1
  <2>3. contract[t].upload = "invite"
    BY <1>5 DEF InviteSigner
  <2> QED BY <1>5, <2>2, <2>3
<1>6. CASE DisableAssignee(t)
  BY <1>0, <1>1, <1>6 DEF DisableAssignee
<1>7. CASE StoreDocument(t)
  BY <1>0, <1>1, <1>7 DEF StoreDocument
<1>8. CASE Decide(t)
  <2>1. PICK paper \in {"Signed", "Rejected"} :
          contract' = [contract EXCEPT ![t].paper = paper]
    BY <1>8 DEF Decide
  <2>2. Becomes(t, contract[t].upload, paper, contract[t].hooked,
                contract[t].filed, contract[t].hook)
        /\ \A s \in Task : s # t => contract'[s] = contract[s]
    BY <1>0, <1>1, <2>1
  <2>3. contract[t].paper = "sent"
    BY <1>8 DEF Decide
  <2> QED BY <1>8, <2>2, <2>3
<1>9. CASE HookCalled(t)
  BY <1>0, <1>1, <1>9 DEF HookCalled
<1>10. CASE MarkDocument(t)
  BY <1>0, <1>1, <1>10 DEF MarkDocument
<1>11. CASE EnableAssignee(t)
  BY <1>0, <1>1, <1>11 DEF EnableAssignee
<1>12. CASE ActivateRow(t)
  BY <1>0, <1>1, <1>12 DEF ActivateRow
<1>13. CASE HookFails(t)
  BY <1>0, <1>1, <1>13 DEF HookFails
<1> QED BY <1>2, <1>3, <1>4, <1>5, <1>6, <1>7, <1>8, <1>9, <1>10, <1>11, <1>12,
        <1>13 DEF ContractNext

\* The order in which the upload, the signer and the webhook leave their marks.
Trail(c) ==
  /\ c.upload \in {"none", "post"} => c.paper = "none"
  /\ c.upload = "invite" => c.paper = "out"
  /\ c.upload \in {"none", "post", "invite"} => ~ c.hooked
  /\ ~ c.hooked => c.hook = "none"
  /\ c.hook # "none" => c.paper \in {"Signed", "Rejected"}
  /\ c.filed # "none" => c.upload = "stored"
  /\ c.hook \in {"mark", "person", "row", "confirmed", "failed"} =>
       c.filed # "none"
  /\ c.hook \in {"person", "row"} => c.paper = "Signed" /\ c.filed = "ASSINADO"
  /\ c.hook = "confirmed" =>
       c.filed = IF c.paper = "Signed" THEN "ASSINADO" ELSE "REJEITADO"

PaperTrail == \A t \in Task : Trail(contract[t])

\* What is left of a contract when the process stops, or a vault goes.
ContractCut(t) ==
  /\ contract'[t].who = contract[t].who
  /\ contract'[t].paper = contract[t].paper
  /\ contract'[t].hooked = contract[t].hooked
  /\ contract'[t].filed = contract[t].filed
  /\ contract'[t].upload =
       IF contract[t].upload \in {"none", "stored"} THEN contract[t].upload
       ELSE "stopped"
  /\ contract'[t].hook =
       IF contract[t].hook \in {"mark", "person", "row"} THEN "failed"
       ELSE contract[t].hook

\* How a contract may change in a step of the office.
LEMMA ContractChanges ==
  ASSUME TypeInv, [Next]_vars
  PROVE  \/ \E t \in Task : ContractNext(t)
         \/ /\ UNCHANGED <<enabled, byHand>>
            /\ \A t \in Task : ContractCut(t)
         \/ UNCHANGED <<contract, enabled, byHand>>
         \/ /\ UNCHANGED contract
            /\ \E a \in Assignee, on \in BOOLEAN : SwitchByHand(a, on)
<1>0. contract \in [Task -> ContractRecord]
  BY DEF TypeInv, ContractTyped, ContractTypeOK
<1>1. ASSUME contract' = ContractsAfterStop, NEW t \in Task
      PROVE  ContractCut(t)
  <2>1. contract[t] \in ContractRecord
    BY <1>0
  <2>2. contract'[t] = [contract[t] EXCEPT
          !.valt = NoValt,
          !.upload = IF @ \in {"none", "stored"} THEN @ ELSE "stopped",
          !.hook = IF @ \in {"mark", "person", "row"} THEN "failed" ELSE @]
    BY <1>1 DEF ContractsAfterStop
  <2> QED BY <2>1, <2>2 DEF ContractRecord, ContractCut
<1>2. ASSUME NEW t \in Task, NEW v \in Valt, RemoveValt(t, v)
      PROVE  UNCHANGED <<contract, enabled, byHand>>
  BY <1>2 DEF RemoveValt
<1>3. ASSUME NEW a \in Assignee, NEW on \in BOOLEAN, SwitchByHand(a, on)
      PROVE  UNCHANGED contract
  BY <1>3 DEF SwitchByHand
<1> QED BY <1>1, <1>2, <1>3, ContractStep DEF contractVars

\* Who a contract is for stays, and so does a signature.
LEMMA SignatureStays ==
  ASSUME TypeInv, PaperTrail, [Next]_vars, NEW t \in Task,
         contract[t].upload # "none"
  PROVE  /\ contract'[t].upload # "none"
         /\ contract'[t].who = contract[t].who
         /\ contract[t].paper = "Signed" => contract'[t].paper = "Signed"
<1>1. ASSUME NEW s \in Task, ContractNext(s)
      PROVE  /\ contract'[t].upload # "none"
             /\ contract'[t].who = contract[t].who
             /\ contract[t].paper = "Signed" => contract'[t].paper = "Signed"
  BY <1>1, ContractMoved DEF ContractMove, Becomes, PaperTrail, Trail
<1> QED BY <1>1, ContractChanges DEF ContractCut

\* Every step of the office.
LEMMA PaperTrailKept ==
  ASSUME TypeInv, PaperTrail, [Next]_vars
  PROVE  PaperTrail'
<1>1. ASSUME NEW t \in Task, ContractNext(t)
      PROVE  PaperTrail'
  <2>1. /\ \A s \in Task : s # t => contract'[s] = contract[s]
        /\ ContractMove(t)
        /\ Trail(contract[t])
    BY <1>1, ContractMoved DEF PaperTrail
  <2>2. Trail(contract'[t])
    BY <2>1 DEF ContractMove, Becomes, Trail
  <2> QED BY <2>1, <2>2 DEF PaperTrail
<1>2. ASSUME \A t \in Task : ContractCut(t)
      PROVE  PaperTrail'
  <2>1. \A t \in Task : Trail(contract'[t])
    BY <1>2 DEF ContractCut, PaperTrail, Trail
  <2> QED BY <2>1 DEF PaperTrail
<1>3. UNCHANGED contract => PaperTrail'
  BY DEF PaperTrail
<1> QED BY <1>1, <1>2, <1>3, ContractChanges

\* There is no paper at first.
LEMMA PaperTrailInit == Init => PaperTrail
BY NoContractType DEF Init, ContractInit, PaperTrail, Trail

\* The row that a signature activates has held the signer.
LEMMA ActivatedRow ==
  ASSUME TypeInv, HeldRows, PaperTrail, NEW t \in Task, ActivateRow(t)
  PROVE  /\ contract[t].paper = "Signed"
         /\ contract[t].filed = "ASSINADO"
         /\ contract[t].upload # "none"
         /\ \E r \in Assignee, v \in Valt :
              /\ <<r, contract[t].who, v>> \in held
              /\ owner'[r].isActive
              /\ \A x \in Assignee : x # r =>
                   owner'[x].isActive = owner[x].isActive
<1>1. contract[t].paper = "Signed" /\ contract[t].filed = "ASSINADO"
      /\ contract[t].upload # "none"
  BY DEF ActivateRow, PaperTrail, Trail
<1>2. contract[t].who \in Assignee
  BY <1>1 DEF TypeInv, ContractTyped, ContractTypeOK
<1>3. PICK r \in Assignee :
        /\ owner[r].assignee = contract[t].who
        /\ owner' = [owner EXCEPT ![r].isActive = TRUE]
  BY DEF ActivateRow, RowsOf
<1>4. PICK v \in Valt : <<r, contract[t].who, v>> \in held
  BY <1>2, <1>3 DEF HeldRows
<1>5. /\ owner'[r].isActive
      /\ \A x \in Assignee : x # r => owner'[x].isActive = owner[x].isActive
  BY <1>3 DEF TypeInv, RowsTypeOK, OwnerRow
<1> QED BY <1>1, <1>4, <1>5

\* A row becomes active by the signature of somebody it has held.
LEMMA ActiveKept ==
  ASSUME TypeInv, HeldRows, PaperTrail, ActiveBySignature, [Next]_vars
  PROVE  ActiveBySignature'
<1> SUFFICES ASSUME NEW r \in Assignee, owner'[r].isActive
             PROVE  \E t \in Task, v \in Valt :
                      /\ contract'[t].paper = "Signed"
                      /\ <<r, contract'[t].who, v>> \in held'
  BY DEF ActiveBySignature
<1>1. held \subseteq held'
  BY RowsGrow
<1>2. ASSUME NEW t \in Task, NEW v \in Valt, contract[t].paper = "Signed",
             <<r, contract[t].who, v>> \in held
      PROVE  /\ contract'[t].paper = "Signed"
             /\ <<r, contract'[t].who, v>> \in held'
  <2>1. contract[t].upload # "none"
    BY <1>2 DEF PaperTrail, Trail
  <2> QED BY <1>1, <1>2, <2>1, SignatureStays
<1>3. CASE owner[r].isActive
  BY <1>2, <1>3 DEF ActiveBySignature
<1>4. ASSUME NEW t \in Task, ActivateRow(t), ~ owner[r].isActive
      PROVE  \E v \in Valt : /\ contract[t].paper = "Signed"
                             /\ <<r, contract[t].who, v>> \in held
  BY <1>4, ActivatedRow
<1>5. ASSUME NEW t \in Task, LocalBook(t)
      PROVE  owner[r].isActive
  BY <1>5, BookedRows
<1> QED BY <1>2, <1>3, <1>4, <1>5, RowsKept DEF TypeInv, RowsTypeOK, OwnerRow

\* No row is active at first.
LEMMA ActiveInit == Init => ActiveBySignature
BY DEF Init, RowsInit, ActiveBySignature

\* A call of the webhook ends on the row it has made active.
LEMMA AppliedKept ==
  ASSUME TypeInv, HeldRows, PaperTrail, SignatureApplied, [Next]_vars
  PROVE  SignatureApplied'
<1>0. PaperTrail'
  BY PaperTrailKept
<1> SUFFICES ASSUME NEW t \in Task, contract'[t].hook = "confirmed",
                    contract'[t].paper = "Signed"
             PROVE  \E r \in Assignee, v \in Valt :
                      owner'[r].isActive /\ <<r, contract'[t].who, v>> \in held'
  BY <1>0 DEF SignatureApplied, PaperTrail, Trail
<1>1. CASE contract[t].hook = "confirmed" /\ contract[t].paper = "Signed"
  <2>1. PICK r \in Assignee, v \in Valt :
          owner[r].isActive /\ <<r, contract[t].who, v>> \in held
    BY <1>1 DEF SignatureApplied
  <2>2. contract[t].upload # "none"
    BY <1>1 DEF PaperTrail, Trail
  <2>3. contract'[t].who = contract[t].who
    BY <2>2, SignatureStays
  <2> QED BY <2>1, <2>3, RowsGrow
<1>2. CASE ActivateRow(t)
  <2>1. PICK r \in Assignee, v \in Valt : owner'[r].isActive
                                          /\ <<r, contract[t].who, v>> \in held
    BY <1>2, ActivatedRow
  <2>2. contract'[t].who = contract[t].who
    BY <1>2, ActivatedRow, SignatureStays
  <2> QED BY <2>1, <2>2, RowsGrow
<1>3. ASSUME NEW s \in Task, ContractNext(s)
      PROVE  \/ contract[t].hook = "confirmed" /\ contract[t].paper = "Signed"
             \/ ActivateRow(t)
  <2>1. /\ \A u \in Task : u # s => contract'[u] = contract[u]
        /\ ContractMove(s)
        /\ Trail(contract[s])
    BY <1>3, ContractMoved DEF PaperTrail
  <2>2. CASE s # t
    BY <2>1, <2>2
  <2>3. CASE s = t
    BY <2>1, <2>3 DEF ContractMove, Becomes, Trail
  <2> QED BY <2>2, <2>3
<1>4. ContractCut(t) => contract[t].hook = "confirmed"
                        /\ contract[t].paper = "Signed"
  BY DEF ContractCut
<1> QED BY <1>1, <1>2, <1>3, <1>4, ContractChanges

\* No webhook was called at first.
LEMMA AppliedInit == Init => SignatureApplied
BY NoContractType DEF Init, ContractInit, SignatureApplied

\* Somebody with a document out, or on its way to the files, all of whose
\* documents on file wait.
Waits(a) ==
  /\ \E t \in Task : contract[t].who = a
                     /\ contract[t].upload \in {"store", "stored"}
  /\ \A t \in Task : contract[t].who = a /\ contract[t].filed # "none" =>
       contract[t].filed = "PENDENTE"

WaitingDisabled == \A a \in Assignee \ byHand : Waits(a) => ~ enabled[a]

\* Only the switching off begins a wait.
LEMMA WaitBegins ==
  ASSUME TypeInv, PaperTrail, NEW t \in Task, ContractNext(t),
         NEW a \in Assignee, Waits(a)'
  PROVE  \/ Waits(a) /\ ~ (EnableAssignee(t) /\ contract[t].who = a)
         \/ DisableAssignee(t) /\ contract[t].who = a
<1>1. /\ \A s \in Task : s # t => contract'[s] = contract[s]
      /\ ContractMove(t)
      /\ Trail(contract[t])
  BY ContractMoved DEF PaperTrail
<1>2. /\ \E s \in Task : contract'[s].who = a
                         /\ contract'[s].upload \in {"store", "stored"}
      /\ \A s \in Task : contract'[s].who = a /\ contract'[s].filed # "none" =>
           contract'[s].filed = "PENDENTE"
  BY DEF Waits
<1>3. contract'[t].who = contract[t].who \/ contract[t].upload = "none"
  BY <1>1 DEF ContractMove, Becomes
<1>4. contract[t].filed # "none" =>
        contract'[t].filed # "none"
        /\ (contract'[t].filed = "PENDENTE" => contract[t].filed = "PENDENTE")
  BY <1>1 DEF ContractMove, Becomes, Trail
<1>5. \A s \in Task : contract[s].who = a /\ contract[s].filed # "none" =>
        contract[s].filed = "PENDENTE"
  BY <1>1, <1>2, <1>3, <1>4 DEF Trail
<1>6. ASSUME ~ (DisableAssignee(t) /\ contract[t].who = a)
      PROVE  \E s \in Task : contract[s].who = a
                             /\ contract[s].upload \in {"store", "stored"}
  <2>1. PICK s \in Task : contract'[s].who = a
                          /\ contract'[s].upload \in {"store", "stored"}
    BY <1>2
  <2>2. CASE s # t
    BY <1>1, <2>1, <2>2
  <2>3. CASE s = t
    BY <1>1, <1>6, <2>1, <2>3 DEF ContractMove, Becomes
  <2> QED BY <2>2, <2>3
<1>7. EnableAssignee(t) => contract[t].filed = "ASSINADO"
  BY <1>1 DEF EnableAssignee, Trail
<1> QED BY <1>5, <1>6, <1>7 DEF Waits

\* Every step of the office.
LEMMA WaitingKept ==
  ASSUME TypeInv, PaperTrail, WaitingDisabled, [Next]_vars
  PROVE  WaitingDisabled'
<1>0. enabled \in [Assignee -> BOOLEAN]
  BY DEF TypeInv, ContractTyped, ContractTypeOK
<1> SUFFICES ASSUME NEW a \in Assignee, a \notin byHand', Waits(a)'
             PROVE  ~ enabled'[a]
  BY DEF WaitingDisabled
<1>1. ASSUME NEW t \in Task, ContractNext(t)
      PROVE  ~ enabled'[a]
  <2>1. CASE DisableAssignee(t) /\ contract[t].who = a
    BY <1>0, <2>1 DEF DisableAssignee
  <2>2. CASE Waits(a) /\ ~ (EnableAssignee(t) /\ contract[t].who = a)
    <3>2. \/ UNCHANGED <<enabled, byHand>>
          \/ /\ DisableAssignee(t)
             /\ enabled' = [enabled EXCEPT ![contract[t].who] = FALSE]
             /\ byHand' = byHand \ {contract[t].who}
          \/ /\ EnableAssignee(t)
             /\ enabled' = [enabled EXCEPT ![contract[t].who] = TRUE]
             /\ byHand' = byHand \ {contract[t].who}
      BY <1>1 DEF ContractNext, GenerateContract, FlagValt, PostDocument,
         InviteSigner, DisableAssignee, StoreDocument, Decide, HookCalled,
         MarkDocument, EnableAssignee, ActivateRow, HookFails
    <3>1. (contract[t].who = a /\ DisableAssignee(t)) \/ a \notin byHand
      BY <2>2, <3>2
    <3>3. a \notin byHand => ~ enabled[a]
      BY <2>2 DEF WaitingDisabled
    <3> QED BY <1>0, <2>1, <2>2, <3>1, <3>2, <3>3
  <2> QED BY <1>1, <2>1, <2>2, WaitBegins
<1>2. ASSUME UNCHANGED <<enabled, byHand>>, \A t \in Task : ContractCut(t)
      PROVE  ~ enabled'[a]
  <2>1. Waits(a)
    BY <1>2 DEF Waits, ContractCut
  <2> QED BY <1>2, <2>1 DEF WaitingDisabled
<1>4. ASSUME UNCHANGED contract, NEW b \in Assignee, NEW on \in BOOLEAN,
             SwitchByHand(b, on)
      PROVE  ~ enabled'[a]
  <2>1. Waits(a)
    BY <1>4 DEF Waits
  <2>2. CASE b = a
    BY <1>0, <1>4, <2>2 DEF SwitchByHand
  <2>3. CASE b # a
    <3>1. a \notin byHand
      BY <1>4, <2>3 DEF SwitchByHand
    <3> QED BY <1>0, <1>4, <2>1, <2>3, <3>1 DEF SwitchByHand, WaitingDisabled
  <2> QED BY <2>2, <2>3
<1>3. ASSUME UNCHANGED <<contract, enabled, byHand>>
      PROVE  ~ enabled'[a]
  <2>1. Waits(a)
    BY <1>3 DEF Waits
  <2> QED BY <1>3, <2>1 DEF WaitingDisabled
<1> QED BY <1>1, <1>2, <1>3, <1>4, ContractChanges

\* Nobody has a document at first.
LEMMA WaitingInit == Init => WaitingDisabled
BY NoContractType DEF Init, ContractInit, WaitingDisabled, Waits

\* An owner row is active only if somebody it named signed a contract
\* (assignee.service.ts, webhookD4Sign).
THEOREM ActivatedBySignature == Spec => []ActiveBySignature
BY Typed, HeldRowsInit, HeldRowsKept, PaperTrailInit, PaperTrailKept,
   ActiveInit, ActiveKept, PTL DEF Spec

\* What a call of the webhook that was carried out says is on the document and
\* on a row of the signer (assignee.service.ts, webhookD4Sign).
THEOREM SignaturesApplied == Spec => []SignatureApplied
BY Typed, HeldRowsInit, HeldRowsKept, PaperTrailInit, PaperTrailKept,
   AppliedInit, AppliedKept, PTL DEF Spec

\* An assignee all of whose documents on file wait for a signature is switched
\* off, unless he was last switched by hand (assignee.service.ts, uploadToD4Sign
\* and update; assignee-hooks.service.ts, updateDocumentStatus).
THEOREM PendingAreDisabled == Spec => []PendingIsDisabled
<1>1. TypeInv /\ PaperTrail /\ WaitingDisabled => PendingIsDisabled
  <2> SUFFICES ASSUME TypeInv, PaperTrail, WaitingDisabled, NEW a \in assignees,
                      a \notin byHand, NEW t \in Task, contract[t].who = a,
                      contract[t].filed # "none",
                      \A s \in Task : contract[s].who = a
                                      /\ contract[s].filed # "none" =>
                        contract[s].filed = "PENDENTE"
               PROVE  ~ enabled[a]
    BY DEF PendingIsDisabled
  <2>1. a \in Assignee
    BY DEF TypeInv, RowsTypeOK
  <2>2. contract[t].upload = "stored"
    BY DEF PaperTrail, Trail
  <2> QED BY <2>1, <2>2 DEF WaitingDisabled, Waits
<1> QED BY <1>1, Typed, PaperTrailInit, PaperTrailKept, WaitingInit,
           WaitingKept, PTL DEF Spec

(***************************************************************************)
(* Maintenance                                                             *)
(***************************************************************************)

\* A request, and the row it made, stay for whom and for what they are.
MaintenanceStays(t) ==
  /\ maintenance'[t].pc = "none" <=> maintenance[t].pc = "none"
  /\ maintenance'[t].who = maintenance[t].who
  /\ maintenance'[t].valt = maintenance[t].valt
  /\ maintenance'[t].made = maintenance[t].made
  /\ maintenance'[t].rowFor \in {maintenance[t].rowFor, NoValt}

\* A request begins; a row is made, and takes the vault from older ones.
MaintenanceBegun(t, a, v) ==
  /\ \E method \in Method, type \in MaintenanceChoice :
       StartMaintenance(t, a, v, method, type)
  /\ maintenance'[t].who = a /\ maintenance'[t].valt = v
  /\ maintenance'[t].made = FALSE
  /\ maintenance'[t].rowFor = NoValt
  /\ \A s \in Task : s # t => MaintenanceStays(s)

MaintenanceMade(t) ==
  /\ RecordMaintenance(t)
  /\ maintenance[t].pc # "none"
  /\ maintenance'[t].who = maintenance[t].who
  /\ maintenance'[t].valt = maintenance[t].valt
  /\ maintenance'[t].rowFor = maintenance[t].valt
  /\ \A s \in Task : s # t =>
       /\ MaintenanceStays(s)
       /\ maintenance'[s].rowFor # maintenance[t].valt

\* How maintenance may change in a step.
LEMMA MaintenanceChanges ==
  ASSUME TypeInv, [Next]_vars
  PROVE  \/ \E t \in Task, a \in Assignee, v \in Valt : MaintenanceBegun(t, a, v)
         \/ \E t \in Task : MaintenanceMade(t)
         \/ \A s \in Task : MaintenanceStays(s)
<1>0. /\ maintenance \in [Task -> MaintenanceRecord]
      /\ \A s \in Task : CallsAddUp(s)
  BY DEF TypeInv, MaintenanceTyped, MaintenanceTypeOK
<1>1. \A s \in Task : maintenance[s] \in MaintenanceRecord
  BY <1>0
<1>2. ASSUME NEW t \in Task, NEW a \in Assignee, NEW v \in Valt,
             NEW method \in Method, NEW type \in MaintenanceChoice,
             StartMaintenance(t, a, v, method, type)
      PROVE  MaintenanceBegun(t, a, v)
  <2> DEFINE calls == CallsFor(method, type, Fee[a])
             each == PartsOf[type] \div calls
             m == [NoMaintenance EXCEPT !.pc = "call", !.who = a, !.valt = v,
                     !.parts = PartsOf[type], !.each = each, !.open = calls]
  <2>1. maintenance' = [maintenance EXCEPT ![t] = m]
    BY <1>2 DEF StartMaintenance
  <2> HIDE DEF calls, each
  <2>2. /\ m.who = a /\ m.valt = v /\ m.made = FALSE /\ m.rowFor = NoValt
    BY DEF NoMaintenance
  <2> HIDE DEF m
  <2>3. \A s \in Task : s # t => MaintenanceStays(s)
    BY <1>0, <2>1 DEF MaintenanceStays
  <2> QED BY <1>0, <1>2, <2>1, <2>2, <2>3 DEF MaintenanceBegun
<1>4. ASSUME NEW t \in Task, CallAnswered(t)
      PROVE  \A s \in Task : MaintenanceStays(s)
  BY <1>0, <1>1, <1>4 DEF CallAnswered, MaintenanceStays, MaintenanceRecord
<1>5. ASSUME NEW t \in Task, CallFails(t)
      PROVE  \A s \in Task : MaintenanceStays(s)
  BY <1>0, <1>1, <1>5 DEF CallFails, MaintenanceStays, MaintenanceRecord
<1>6. ASSUME NEW t \in Task, CallGoesOn(t)
      PROVE  \A s \in Task : MaintenanceStays(s)
  BY <1>0, <1>1, <1>6 DEF CallGoesOn, MaintenanceStays, MaintenanceRecord
<1>7. ASSUME NEW t \in Task, BillPart(t)
      PROVE  \A s \in Task : MaintenanceStays(s)
  BY <1>0, <1>1, <1>7 DEF BillPart, MaintenanceStays, MaintenanceRecord
<1>8. ASSUME NEW t \in Task, MaintenanceFails(t)
      PROVE  \A s \in Task : MaintenanceStays(s)
  BY <1>0, <1>1, <1>8 DEF MaintenanceFails, MaintenanceStays, MaintenanceRecord
<1>9. ASSUME NEW t \in Task, NEW v, v # NoValt,
             maintenance'[t] = [maintenance[t] EXCEPT !.rowFor =
               IF maintenance[t].rowFor = v THEN NoValt
               ELSE maintenance[t].rowFor]
      PROVE  MaintenanceStays(t) /\ maintenance'[t].rowFor # v
  <2>1. maintenance[t] \in MaintenanceRecord
    BY <1>1
  <2> QED BY <1>9, <2>1, RowForTaken DEF MaintenanceStays
<1>10. ASSUME NEW t \in Task, RecordMaintenance(t)
       PROVE  MaintenanceMade(t)
  <2>1. PICK v : v = maintenance[t].valt
    OBVIOUS
  <2>2. v \in Valt /\ maintenance[t].pc = "record"
    BY <1>0, <1>10, <2>1 DEF RecordMaintenance, CallsAddUp
  <2>3. \A s \in Task : s # t =>
          maintenance'[s] = [maintenance[s] EXCEPT !.rowFor =
            IF maintenance[s].rowFor = v THEN NoValt
            ELSE maintenance[s].rowFor]
    BY <1>10, <2>1 DEF RecordMaintenance
  <2>4. \A s \in Task : s # t =>
          MaintenanceStays(s) /\ maintenance'[s].rowFor # v
    BY <1>9, <2>2, <2>3, RowSentinelAssumption
  <2>5. maintenance'[t] = [maintenance[t] EXCEPT !.pc = "bill", !.made = TRUE,
                                                 !.rowFor = v]
    BY <1>10, <2>1 DEF RecordMaintenance
  <2>6. /\ maintenance'[t].who = maintenance[t].who
        /\ maintenance'[t].valt = maintenance[t].valt
        /\ maintenance'[t].rowFor = v
    BY <1>1, <2>5 DEF MaintenanceRecord
  <2> QED BY <1>10, <2>1, <2>2, <2>4, <2>6 DEF MaintenanceMade
<1>11. CASE maintenance' = MaintenanceAfterStop
  <2> SUFFICES ASSUME NEW s \in Task
               PROVE  MaintenanceStays(s)
    OBVIOUS
  <2>1. PICK pc : /\ pc = IF maintenance[s].pc \in {"none", "done"}
                          THEN maintenance[s].pc ELSE "failed"
                  /\ maintenance'[s] = [maintenance[s] EXCEPT !.pc = pc]
    BY <1>11 DEF MaintenanceAfterStop
  <2>2. pc = "none" <=> maintenance[s].pc = "none"
    BY <2>1
  <2> QED BY <1>1, <2>1, <2>2 DEF MaintenanceStays, MaintenanceRecord
<1>12. ASSUME NEW t \in Task, NEW v \in Valt, RemoveValt(t, v)
       PROVE  \A s \in Task : MaintenanceStays(s)
  BY <1>9, <1>12, RowSentinelAssumption DEF RemoveValt, MaintenanceWithout
<1>13. UNCHANGED maintenanceVars => \A s \in Task : MaintenanceStays(s)
  BY DEF maintenanceVars, MaintenanceStays
<1>14. ASSUME NEW t \in Task, MaintenanceNext(t)
       PROVE  \/ \E a \in Assignee, v \in Valt : MaintenanceBegun(t, a, v)
              \/ MaintenanceMade(t)
              \/ \A s \in Task : MaintenanceStays(s)
  BY <1>2, <1>4, <1>5, <1>6, <1>7, <1>8, <1>10, <1>14 DEF MaintenanceNext
<1> QED BY <1>11, <1>12, <1>13, <1>14, MaintenanceStep

\* The vault of a request is one its assignee has held.
RequestedByHolder ==
  \A t \in Task : maintenance[t].pc # "none" =>
    \E r \in Assignee : <<r, maintenance[t].who, maintenance[t].valt>> \in held

\* A request begins with a vault that is held, and keeps it.
LEMMA RequestedKept ==
  ASSUME TypeInv, HeldRows, RequestedByHolder, [Next]_vars
  PROVE  RequestedByHolder'
<1>0. held \subseteq held'
  BY RowsGrow
<1>1. ASSUME NEW t \in Task, MaintenanceStays(t), maintenance'[t].pc # "none"
      PROVE  \E r \in Assignee :
               <<r, maintenance'[t].who, maintenance'[t].valt>> \in held'
  BY <1>0, <1>1 DEF MaintenanceStays, RequestedByHolder
<1>2. ASSUME NEW t \in Task, NEW a \in Assignee, NEW v \in Valt,
             MaintenanceBegun(t, a, v)
      PROVE  RequestedByHolder'
  <2>1. PICK r \in Assignee : owner[r].assignee = a /\ owner[r].valt = v
    BY <1>2 DEF MaintenanceBegun, StartMaintenance, RowsOf
  <2>2. <<r, a, v>> \in held'
    BY <1>0, <2>1 DEF HeldRows
  <2> QED BY <1>1, <1>2, <2>2 DEF MaintenanceBegun, RequestedByHolder
<1>3. ASSUME NEW t \in Task, MaintenanceMade(t)
      PROVE  RequestedByHolder'
  BY <1>0, <1>1, <1>3 DEF MaintenanceMade, RequestedByHolder
<1>4. CASE \A t \in Task : MaintenanceStays(t)
  BY <1>1, <1>4 DEF RequestedByHolder
<1> QED BY <1>2, <1>3, <1>4, MaintenanceChanges

\* Nothing is requested at first.
LEMMA RequestedInit == Init => RequestedByHolder
BY NoMaintenanceType DEF Init, MaintenanceInit, RequestedByHolder

\* Every step of the office, the removals included.
LEMMA OnFileKept ==
  ASSUME TypeInv, MaintenanceOnFile, [Next]_vars
  PROVE  MaintenanceOnFile'
<1>0. \A t \in Task : maintenance[t].rowFor # NoValt => maintenance[t].made
  BY DEF TypeInv, MaintenanceTyped, CallsAddUp
<1>1. ASSUME NEW t \in Task, NEW a \in Assignee, RemoveAssignee(t, a)
      PROVE  MaintenanceOnFile'
  BY <1>1 DEF RemoveAssignee, maintenanceVars, MaintenanceOnFile
<1>2. ASSUME NEW t \in Task, NEW v \in Valt, RemoveValt(t, v)
      PROVE  MaintenanceOnFile'
  <2>1. \A s \in Task :
          /\ maintenance'[s].who = maintenance[s].who
          /\ maintenance'[s].made = maintenance[s].made
          /\ maintenance'[s].rowFor =
               IF maintenance[s].rowFor = v THEN NoValt
               ELSE maintenance[s].rowFor
    <3> TAKE s \in Task
    <3>1. maintenance[s] \in MaintenanceRecord
      BY DEF TypeInv, MaintenanceTyped, MaintenanceTypeOK
    <3>2. maintenance'[s] = [maintenance[s] EXCEPT !.rowFor =
            IF maintenance[s].rowFor = v THEN NoValt
            ELSE maintenance[s].rowFor]
      BY <1>2 DEF RemoveValt, MaintenanceWithout
    <3> QED BY <3>1, <3>2, RowForTaken
  <2>2. valts' = valts \ {v} /\ assignees' = assignees
    BY <1>2 DEF RemoveValt
  <2> QED BY <2>1, <2>2 DEF MaintenanceOnFile
<1>3. ASSUME UNCHANGED <<assignees, valts>>,
             \A t \in Task : MaintenanceStays(t)
      PROVE  MaintenanceOnFile'
  BY <1>3 DEF MaintenanceStays, MaintenanceOnFile
<1>4. ASSUME UNCHANGED <<assignees, valts>>,
             NEW t \in Task, NEW a \in Assignee, NEW v \in Valt,
             MaintenanceBegun(t, a, v)
      PROVE  MaintenanceOnFile'
  BY <1>4 DEF MaintenanceBegun, MaintenanceStays, MaintenanceOnFile
<1>5. ASSUME UNCHANGED <<assignees, valts>>,
             NEW t \in Task, MaintenanceMade(t)
      PROVE  MaintenanceOnFile'
  <2>1. maintenance[t].who \in assignees /\ maintenance[t].valt \in valts
    BY <1>5 DEF MaintenanceMade, RecordMaintenance
  <2> QED BY <1>5, <2>1 DEF MaintenanceMade, MaintenanceStays, MaintenanceOnFile
<1>6. UNCHANGED <<assignees, valts>>
      \/ (\E t \in Task, a \in Assignee : RemoveAssignee(t, a))
      \/ (\E t \in Task, v \in Valt : RemoveValt(t, v))
  BY RowsStep DEF rowVars, ActivateRow, LocalBook
<1> QED BY <1>1, <1>2, <1>3, <1>4, <1>5, <1>6, MaintenanceChanges

\* No maintenance row is there at first.
LEMMA OnFileInit == Init => MaintenanceOnFile
BY NoMaintenanceType DEF Init, MaintenanceInit, MaintenanceOnFile

\* A maintenance row is for a vault that its assignee has held
\* (maintenance-valt-pix.ts and the others).
THEOREM MaintainedByHolder == Spec => []MaintenanceByHolder
<1>1. TypeInv /\ RequestedByHolder => MaintenanceByHolder
  BY DEF TypeInv, MaintenanceTyped, CallsAddUp, RequestedByHolder,
         MaintenanceByHolder
<1> QED BY <1>1, Typed, HeldRowsInit, HeldRowsKept, RequestedInit,
           RequestedKept, PTL DEF Spec

\* Removals and later requests leave no maintenance row of what is gone, and
\* never two of one vault (valts.service.ts, assignee.service.ts).
THEOREM MaintenanceStaysOnFile == Spec => []MaintenanceOnFile
BY Typed, OnFileInit, OnFileKept, PTL DEF Spec

\* No payment row of a maintenance is written unless all of it is at the
\* gateway, and a request that succeeds has written them all
\* (maintenance-valt-billet.ts and the others).
THEOREM MaintenanceBookedInFull == Spec => []MaintenanceBooked
<1>1. TypeInv => MaintenanceBooked
  BY DEF TypeInv, MaintenanceTyped, CallsAddUp, MaintenanceBooked
<1> QED BY <1>1, Typed, PTL DEF Spec

===============================================================================
