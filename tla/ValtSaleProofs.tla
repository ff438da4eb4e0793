---------------------------- MODULE ValtSaleProofs ----------------------------
(***************************************************************************)
(* Proofs about ValtSale, for every set of assignees, vaults, requests and *)
(* parcels and every choice of methods.                                    *)
(***************************************************************************)
EXTENDS ValtSale, TLAPS

USE DEF IsRow

(***************************************************************************)
(* The calls of a purchase ask for its parcels, and are made of parcels.   *)
(***************************************************************************)
\* ParcelsOf returns parcels, at least one of them.
LEMMA ParcelsOfType ==
  ASSUME NEW m \in Method
  PROVE  ParcelsOf(m) \subseteq Parcel /\ ParcelsOf(m) # {}
BY ParcelAssumption DEF ParcelsOf

\* The calls of a method (billet.service.ts, flesh.service.ts) are sets of
\* parcels.
LEMMA CallsOfType ==
  ASSUME NEW m \in Method
  PROVE  CallsOf(m) \in SUBSET (SUBSET Parcel)
BY ParcelAssumption DEF CallsOf, Method

\* Every parcel of a method is asked for by one of its calls.
LEMMA CallsCoverParcels ==
  ASSUME NEW m \in Method, NEW i \in ParcelsOf(m)
  PROVE  \E c \in CallsOf(m) : i \in c
<1>1. CASE m = "BOLETO"
  <2>1. {i} \in CallsOf(m)
    BY <1>1 DEF CallsOf, ParcelsOf
  <2> QED BY <2>1
<1>2. CASE m = "CARNE"
  BY <1>2 DEF CallsOf, ParcelsOf
<1>3. CASE m \notin {"BOLETO", "CARNE"}
  BY <1>3 DEF CallsOf, ParcelsOf
<1> QED BY <1>1, <1>2, <1>3

(***************************************************************************)
(* Type correctness                                                        *)
(***************************************************************************)
\* Handing a row to a holder and a vault leaves a table of owner rows.
LEMMA SetOwnerType ==
  ASSUME owner \in [Assignee -> OwnerRow],
         NEW r \in Assignee, NEW row \in OwnerRow
  PROVE  SetOwner(r, row) \in [Assignee -> OwnerRow]
BY DEF SetOwner, OwnerRow

\* A request keeps its type when its state or its open calls change.
LEMMA OutcomeType ==
  ASSUME NEW p \in Purchase, NEW pc \in RequestState
  PROVE  [p EXCEPT !.pc = pc] \in Purchase
BY DEF Purchase

\* It also keeps its type when one of its open calls ends.
LEMMA FewerCallsType ==
  ASSUME NEW p \in Purchase, NEW c
  PROVE  [p EXCEPT !.calls = @ \ {c}] \in Purchase
<1>1. p.calls \ {c} \in SUBSET (SUBSET Parcel)
  BY DEF Purchase
<1> QED BY <1>1 DEF Purchase

\* Every handler leaves tables and requests of the right type.
LEMMA TypeStep == TypeOK /\ [Next]_vars => TypeOK'
<1> SUFFICES ASSUME TypeOK, [Next]_vars PROVE TypeOK'
  OBVIOUS
<1> USE DEF TypeOK
<1>1. ASSUME NEW a \in Assignee, NEW v \in Valt, RegisterCheck(a, v)
      PROVE  TypeOK'
  BY <1>1 DEF RegisterCheck, PersonState, Placed
<1>2. ASSUME NEW a \in Assignee, RegisterCommit(a)
      PROVE  TypeOK'
  <2> DEFINE row == [assignee |-> a, valt |-> wants[a], charge |-> NoRequest]
  <2>1. row \in OwnerRow
    BY <1>2 DEF RegisterCommit, OwnerRow
  <2>2. owner' \in [Assignee -> OwnerRow]
    BY <1>2, <2>1, SetOwnerType DEF RegisterCommit
  <2> QED BY <1>2, <2>2 DEF RegisterCommit, PersonState, Placed
<1>3. ASSUME NEW a \in Assignee, RegisterFail(a)
      PROVE  TypeOK'
  BY <1>3 DEF RegisterFail, PersonState, Placed
<1>4. ASSUME NEW a \in Assignee, NEW v \in Valt, UpdateAssignee(a, v)
      PROVE  TypeOK'
  BY <1>4 DEF UpdateAssignee, Placed
<1>5. ASSUME NEW a \in Assignee, RemoveAssignee(a)
      PROVE  TypeOK'
  BY <1>5 DEF RemoveAssignee, PersonState, Placed
<1>6. ASSUME NEW v \in Valt, RemoveValt(v)
      PROVE  TypeOK'
  BY <1>6 DEF RemoveValt, OwnerRow, Placed, WithoutVault
<1>7. ASSUME NEW q \in Request, NEW m \in Offered, NEW b \in Assignee,
             NEW v \in Valt, StartBuy(q, m, b, v)
      PROVE  TypeOK'
  <2>1. PICK r \in Assignee :
          req' = [req EXCEPT ![q] = [pc |-> "charging", method |-> m,
                                     buyer |-> b, valt |-> v, row |-> r,
                                     calls |-> CallsOf(m)]]
    BY <1>7 DEF StartBuy
  <2>2. m \in Method
    BY OfferedAssumption
  <2>3. [pc |-> "charging", method |-> m, buyer |-> b, valt |-> v,
         row |-> r, calls |-> CallsOf(m)] \in Purchase
    BY <2>2, CallsOfType DEF Purchase, RequestState
  <2>4. req' \in [Request -> Purchase]
    BY <2>1, <2>3
  <2>5. Placed'
    BY <2>1 DEF Placed
  <2> QED BY <1>7, <2>4, <2>5 DEF StartBuy
<1>8. ASSUME NEW q \in Request, NEW b \in Assignee, NEW v \in Valt,
             RefuseBuy(q, b, v)
      PROVE  TypeOK'
  <2>1. [NoPurchase EXCEPT !.pc = "failed"] \in Purchase
    BY DEF NoPurchase, Purchase, RequestState, Method
  <2>2. Placed'
    BY <1>8 DEF RefuseBuy, Placed, NoPurchase
  <2> QED BY <1>8, <2>1, <2>2 DEF RefuseBuy
<1>9. ASSUME NEW q \in Request, NEW c \in req[q].calls, CallSucceeds(q, c)
      PROVE  TypeOK'
  <2>1. c \subseteq Parcel
    BY DEF Purchase
  <2>2. req' \in [Request -> Purchase]
    BY <1>9 DEF CallSucceeds, Purchase
  <2>3. issued' \subseteq Request \X Parcel
    BY <1>9, <2>1 DEF CallSucceeds
  <2>4. Placed'
    BY <1>9 DEF CallSucceeds, Placed
  <2> QED BY <1>9, <2>2, <2>3, <2>4 DEF CallSucceeds
<1>10. ASSUME NEW q \in Request, NEW c \in req[q].calls, CallFails(q, c)
       PROVE  TypeOK'
  <2>1. c \subseteq Parcel
    BY DEF Purchase
  <2> DEFINE p == [req[q] EXCEPT !.calls = @ \ {c}]
  <2>2. [p EXCEPT !.pc = "failed"] \in Purchase
    BY FewerCallsType, OutcomeType DEF RequestState
  <2>3. req' \in [Request -> Purchase]
    <3>1. req' = [req EXCEPT ![q] = [p EXCEPT !.pc = "failed"]]
      BY <1>10 DEF CallFails
    <3> QED BY <2>2, <3>1
  <2>4. issued' \subseteq Request \X Parcel
    BY <1>10, <2>1 DEF CallFails
  <2>5. Placed'
    BY <1>10 DEF CallFails, Placed
  <2> QED BY <1>10, <2>3, <2>4, <2>5 DEF CallFails
<1>11. ASSUME NEW q \in Request, CommitBuy(q)
       PROVE  TypeOK'
  <2> DEFINE p == req[q]
             row == [assignee |-> p.buyer, valt |-> p.valt, charge |-> q]
  <2>1. p.buyer \in Assignee /\ p.valt \in Valt /\ p.row \in Assignee
    BY <1>11 DEF CommitBuy, Placed
  <2>2. p.method \in Method
    BY DEF Purchase
  <2>3. row \in OwnerRow
    BY <2>1 DEF OwnerRow
  <2>4. owner' \in [Assignee -> OwnerRow]
    BY <1>11, <2>1, <2>3, SetOwnerType DEF CommitBuy
  <2>5. req' \in [Request -> Purchase] /\ Placed'
    BY <1>11 DEF CommitBuy, Purchase, RequestState, Placed
  <2>6. history' \subseteq Request \X Assignee
    BY <1>11, <2>1 DEF CommitBuy
  <2>7. generated' \subseteq Request \X Parcel \X Assignee
    BY <1>11, <2>1, <2>2, ParcelsOfType DEF CommitBuy
  <2>8. usedIn' \in [Request -> Valt \cup {NoValt}]
    BY <1>11, <2>1 DEF CommitBuy, Subscribe, WithoutVault
  <2> QED BY <1>11, <2>4, <2>5, <2>6, <2>7, <2>8 DEF CommitBuy
<1>12. ASSUME NEW q \in Request, AbortBuy(q)
       PROVE  TypeOK'
  <2>1. req' \in [Request -> Purchase]
    BY <1>12, OutcomeType DEF AbortBuy, RequestState
  <2>2. Placed'
    BY <1>12 DEF AbortBuy, Placed
  <2> QED BY <1>12, <2>1, <2>2 DEF AbortBuy
<1>13. ASSUME NEW q \in Request, NotifyBuyer(q)
       PROVE  TypeOK'
  <2>1. PICK answer \in {"done", "failed"} :
          req' = [req EXCEPT ![q].pc = answer]
    BY <1>13 DEF NotifyBuyer
  <2>2. req' \in [Request -> Purchase]
    BY <2>1, OutcomeType DEF RequestState
  <2>3. Placed'
    BY <1>13, <2>1 DEF NotifyBuyer, Placed
  <2> QED BY <1>13, <2>2, <2>3 DEF NotifyBuyer
<1>14. CASE Crash
  <2>1. req' \in [Request -> Purchase] /\ Placed'
    BY <1>14 DEF Crash, Purchase, RequestState, Placed
  <2>2. person' \in [Assignee -> PersonState]
    BY <1>14 DEF Crash, PersonState
  <2> QED BY <1>14, <2>1, <2>2 DEF Crash
<1>15. CASE UNCHANGED vars
  BY <1>15 DEF vars, Placed
<1> QED
  BY <1>1, <1>2, <1>3, <1>4, <1>5, <1>6, <1>7, <1>8, <1>9, <1>10, <1>11,
     <1>12, <1>13, <1>14, <1>15
  DEF Next, Registration, Administration, Buying, GatewayAnswer

\* Tables and requests always have their types.
THEOREM TypeCorrect == Spec => []TypeOK
<1>1. Init => TypeOK
  BY LegacyAssumption
  DEF Init, TypeOK, PersonState, OwnerRow, NoRow, NoPurchase, Purchase,
      RequestState, Method, Placed
<1> QED BY <1>1, TypeStep, PTL DEF Spec

(***************************************************************************)
(* Owner rows and vaults                                                   *)
(***************************************************************************)
\* What connecting a row to a vault does to the rows: the others lose that
\* vault and nothing else.
LEMMA SetOwnerEffect ==
  ASSUME owner \in [Assignee -> OwnerRow],
         NEW r \in Assignee, NEW row \in OwnerRow, row.valt \in Valt
  PROVE  /\ SetOwner(r, row)[r] = row
         /\ \A x \in Assignee \ {r} :
              /\ SetOwner(r, row)[x].assignee = owner[x].assignee
              /\ SetOwner(r, row)[x].charge = owner[x].charge
              /\ SetOwner(r, row)[x].valt \in {owner[x].valt, NoValt}
              /\ SetOwner(r, row)[x].valt # row.valt
              /\ owner[x] = NoRow => SetOwner(r, row)[x] = NoRow
BY SentinelAssumption DEF SetOwner, OwnerRow, NoRow

\* No row of the table is left without its columns: RowsInOrder in the form
\* the steps use.
LEMMA RowsInOrderFacts ==
  ASSUME TypeOK, RowsInOrder, NEW r \in Assignee
  PROVE  /\ IsRow(r) => /\ person[r] \in {"registered", "removed"}
                        /\ owner[r].assignee \in Assignee
                        /\ person[owner[r].assignee] = "registered"
         /\ ~ IsRow(r) => owner[r] = NoRow
BY DEF RowsInOrder, TypeOK, OwnerRow

\* A step that neither moves a row nor starts a purchase leaves the rows in
\* order, if it neither unregisters a named assignee nor rejects a row's own.
LEMMA QuietStep ==
  ASSUME HolderInv, TypeOK', UNCHANGED owner,
         \A r \in Assignee : /\ person[r] \in {"registered", "removed"}
                                  => person'[r] \in {"registered", "removed"}
                             /\ (\E s \in Assignee : owner[s].assignee = r)
                                  => person'[r] = person[r],
         \A q \in Request : req'[q].pc = "charging" =>
           /\ req[q].pc = "charging"
           /\ req'[q].row = req[q].row
           /\ req'[q].valt = req[q].valt
  PROVE  HolderInv'
<1>1. RowsInOrder'
  <2> SUFFICES ASSUME NEW r \in Assignee
               PROVE  IF IsRow(r)' THEN /\ person'[r] \in {"registered", "removed"}
                                        /\ person'[owner'[r].assignee] = "registered"
                                   ELSE owner'[r] = NoRow
    BY DEF RowsInOrder
  <2> QED BY RowsInOrderFacts DEF HolderInv
<1>2. RowStillThere'
  BY DEF HolderInv, RowStillThere
<1>3. SameRowSameVault'
  BY DEF HolderInv, SameRowSameVault
<1>4. OneHolderPerVault'
  BY DEF HolderInv, OneHolderPerVault
<1> QED BY <1>1, <1>2, <1>3, <1>4 DEF HolderInv

\* A registration opens a row of its own, named after nobody else, and takes
\* its vault from the row that held it.
LEMMA RegisterCommitHolds ==
  ASSUME HolderInv, TypeOK', NEW a \in Assignee, RegisterCommit(a)
  PROVE  HolderInv'
<1> USE DEF HolderInv
<1> DEFINE row == [assignee |-> a, valt |-> wants[a], charge |-> NoRequest]
<1>1. row \in OwnerRow /\ row.valt \in Valt /\ owner' = SetOwner(a, row)
  BY DEF RegisterCommit, OwnerRow, TypeOK
<1>2. /\ owner'[a] = row
      /\ \A x \in Assignee \ {a} :
           /\ owner'[x].assignee = owner[x].assignee
           /\ owner'[x].valt \in {owner[x].valt, NoValt}
           /\ owner'[x].valt # row.valt
           /\ owner[x] = NoRow => owner'[x] = NoRow
  BY <1>1, SetOwnerEffect DEF TypeOK
<1>3. person' = [person EXCEPT ![a] = "registered"] /\ person[a] = "checked"
  BY DEF RegisterCommit
<1>4. \A x \in Assignee : owner[x].assignee # a /\ ~ (x = a /\ IsRow(x))
  BY <1>3, SentinelAssumption, RowsInOrderFacts
<1>5. RowsInOrder'
  <2> SUFFICES ASSUME NEW r \in Assignee
               PROVE  IF IsRow(r)' THEN /\ person'[r] \in {"registered", "removed"}
                                        /\ person'[owner'[r].assignee] = "registered"
                                   ELSE owner'[r] = NoRow
    BY DEF RowsInOrder
  <2>1. CASE r = a
    BY <2>1, <1>2, <1>3, SentinelAssumption DEF TypeOK
  <2>2. CASE r # a
    BY <2>2, <1>2, <1>3, RowsInOrderFacts DEF TypeOK
  <2> QED BY <2>1, <2>2
<1>6. RowStillThere'
  BY <1>2, <1>4 DEF RegisterCommit, RowStillThere, TypeOK, Placed
<1>7. SameRowSameVault'
  BY DEF RegisterCommit, SameRowSameVault
<1>8. OneHolderPerVault'
  BY <1>1, <1>2, <1>4, SentinelAssumption DEF OneHolderPerVault
<1> QED BY <1>5, <1>6, <1>7, <1>8

\* A removed vault only takes the vault from its row.
LEMMA RemoveValtHolds ==
  ASSUME HolderInv, TypeOK', NEW v \in Valt, RemoveValt(v)
  PROVE  HolderInv'
<1> USE DEF HolderInv
<1>1. \A x \in Assignee :
        /\ owner'[x].assignee = owner[x].assignee
        /\ owner'[x].valt \in {owner[x].valt, NoValt}
        /\ owner[x] = NoRow => owner'[x] = NoRow
  BY SentinelAssumption DEF RemoveValt, TypeOK, OwnerRow, NoRow
<1>2. RowsInOrder'
  <2> SUFFICES ASSUME NEW r \in Assignee
               PROVE  IF IsRow(r)' THEN /\ person'[r] \in {"registered", "removed"}
                                        /\ person'[owner'[r].assignee] = "registered"
                                   ELSE owner'[r] = NoRow
    BY DEF RowsInOrder
  <2> QED BY <1>1, RowsInOrderFacts DEF RemoveValt
<1>3. RowStillThere'
  BY <1>1 DEF RemoveValt, RowStillThere, TypeOK, Placed
<1>4. SameRowSameVault'
  BY DEF RemoveValt, SameRowSameVault
<1>5. OneHolderPerVault'
  BY <1>1 DEF OneHolderPerVault
<1> QED BY <1>2, <1>3, <1>4, <1>5

\* A purchase starts from the row that holds its vault at that moment, so all
\* purchases of one row are for one vault.
LEMMA StartBuyHolds ==
  ASSUME HolderInv, TypeOK', NEW q \in Request, NEW m \in Offered,
         NEW b \in Assignee, NEW v \in Valt, StartBuy(q, m, b, v)
  PROVE  HolderInv'
<1> USE DEF HolderInv
<1>1. PICK r \in Assignee :
        /\ owner[r].valt = v
        /\ req' = [req EXCEPT ![q] = [pc |-> "charging", method |-> m,
                                      buyer |-> b, valt |-> v, row |-> r,
                                      calls |-> CallsOf(m)]]
  BY DEF StartBuy
<1>2. IsRow(r)
  BY <1>1, RowsInOrderFacts, SentinelAssumption DEF NoRow
<1>3. UNCHANGED <<owner, person>>
  BY DEF StartBuy
<1>4. /\ req'[q].pc = "charging" /\ req'[q].row = r /\ req'[q].valt = v
      /\ \A p \in Request \ {q} : req'[p] = req[p]
  BY <1>1 DEF TypeOK
<1>5. RowsInOrder'
  BY <1>3 DEF RowsInOrder
<1>6. RowStillThere'
  BY <1>1, <1>2, <1>3, <1>4 DEF RowStillThere
<1>7. SameRowSameVault'
  <2>1. \A p \in Request :
          req[p].pc = "charging" /\ req[p].row = r => req[p].valt = v
    BY <1>1, SentinelAssumption DEF RowStillThere
  <2> QED BY <2>1, <1>4 DEF SameRowSameVault
<1>8. OneHolderPerVault'
  BY <1>3 DEF OneHolderPerVault
<1> QED BY <1>5, <1>6, <1>7, <1>8

\* A booked purchase hands over the row it read: still there, and without a
\* vault if not with the vault of the purchase.
LEMMA CommitBuyHolds ==
  ASSUME HolderInv, TypeOK', NEW q \in Request, CommitBuy(q)
  PROVE  HolderInv'
<1> USE DEF HolderInv
<1> DEFINE r == req[q].row
           row == [assignee |-> req[q].buyer, valt |-> req[q].valt, charge |-> q]
<1>1. r \in Assignee /\ req[q].buyer \in Assignee /\ req[q].valt \in Valt
  BY DEF CommitBuy, TypeOK, Placed
<1>2. row \in OwnerRow /\ owner' = SetOwner(r, row)
  BY <1>1 DEF CommitBuy, OwnerRow
<1>3. /\ owner'[r] = row
      /\ \A x \in Assignee \ {r} :
           /\ owner'[x].assignee = owner[x].assignee
           /\ owner'[x].valt \in {owner[x].valt, NoValt}
           /\ owner'[x].valt # row.valt
           /\ owner[x] = NoRow => owner'[x] = NoRow
  BY <1>1, <1>2, SetOwnerEffect DEF TypeOK
<1>4. person' = person /\ person[req[q].buyer] = "registered" /\ IsRow(r)
  BY DEF CommitBuy, Bookable, RowStillThere
<1>5. \A p \in Request : req'[p].pc = "charging" =>
        /\ req[p].pc = "charging" /\ req'[p] = req[p]
  BY DEF CommitBuy, TypeOK
<1>6. RowsInOrder'
  <2> SUFFICES ASSUME NEW x \in Assignee
               PROVE  IF IsRow(x)' THEN /\ person'[x] \in {"registered", "removed"}
                                        /\ person'[owner'[x].assignee] = "registered"
                                   ELSE owner'[x] = NoRow
    BY DEF RowsInOrder
  <2>1. CASE x = r
    BY <2>1, <1>1, <1>3, <1>4, SentinelAssumption, RowsInOrderFacts
  <2>2. CASE x # r
    BY <2>2, <1>3, <1>4, RowsInOrderFacts
  <2> QED BY <2>1, <2>2
<1>7. RowStillThere'
  <2> SUFFICES ASSUME NEW p \in Request, req'[p].pc = "charging"
               PROVE  /\ owner'[req[p].row].assignee # NoAssignee
                      /\ owner'[req[p].row].valt \in {req[p].valt, NoValt}
    BY <1>5 DEF RowStillThere
  <2>1. CASE req[p].row = r
    <3>1. req[p].valt = req[q].valt
      BY <2>1, <1>5 DEF SameRowSameVault, CommitBuy
    <3> QED BY <2>1, <3>1, <1>1, <1>3, SentinelAssumption
  <2>2. CASE req[p].row # r
    <3>1. req[p].row \in Assignee
      BY <1>5 DEF TypeOK, Placed
    <3> QED BY <2>2, <3>1, <1>3, <1>5 DEF RowStillThere
  <2> QED BY <2>1, <2>2
<1>8. SameRowSameVault'
  BY <1>5 DEF SameRowSameVault
<1>9. OneHolderPerVault'
  <2>1. \A x \in Assignee \ {r} : owner[x].assignee # req[q].buyer
    BY DEF CommitBuy, Bookable
  <2> QED BY <2>1, <1>1, <1>3, SentinelAssumption DEF OneHolderPerVault
<1> QED BY <1>6, <1>7, <1>8, <1>9

\* Every handler keeps the rows in order and what open purchases know of them.
LEMMA HolderStep == HolderInv /\ [Next]_vars => HolderInv'
<1> SUFFICES ASSUME HolderInv, [Next]_vars PROVE HolderInv'
  OBVIOUS
<1>0. TypeOK' /\ TypeOK
  BY TypeStep DEF HolderInv
<1> USE DEF TypeOK
<1>1. ASSUME NEW a \in Assignee, NEW v \in Valt, RegisterCheck(a, v)
      PROVE  HolderInv'
  <2>1. \A s \in Assignee : owner[s].assignee # a
    BY <1>0, <1>1, RowsInOrderFacts, SentinelAssumption
    DEF RegisterCheck, HolderInv
  <2> QED BY <1>0, <1>1, <2>1, QuietStep DEF RegisterCheck
<1>2. ASSUME NEW a \in Assignee, RegisterCommit(a)
      PROVE  HolderInv'
  BY <1>0, <1>2, RegisterCommitHolds
<1>3. ASSUME NEW a \in Assignee, RegisterFail(a)
      PROVE  HolderInv'
  <2>1. \A s \in Assignee : owner[s].assignee # a
    BY <1>0, <1>3, RowsInOrderFacts, SentinelAssumption
    DEF RegisterFail, HolderInv
  <2> QED BY <1>0, <1>3, <2>1, QuietStep DEF RegisterFail
<1>4. ASSUME NEW a \in Assignee, NEW v \in Valt, UpdateAssignee(a, v)
      PROVE  HolderInv'
  BY <1>0, <1>4, QuietStep DEF UpdateAssignee
<1>5. ASSUME NEW a \in Assignee, RemoveAssignee(a)
      PROVE  HolderInv'
  BY <1>0, <1>5, QuietStep DEF RemoveAssignee
<1>6. ASSUME NEW v \in Valt, RemoveValt(v)
      PROVE  HolderInv'
  BY <1>0, <1>6, RemoveValtHolds
<1>7. ASSUME NEW q \in Request, NEW m \in Offered, NEW b \in Assignee,
             NEW v \in Valt, StartBuy(q, m, b, v)
      PROVE  HolderInv'
  BY <1>0, <1>7, StartBuyHolds
<1>8. ASSUME NEW q \in Request, NEW b \in Assignee, NEW v \in Valt,
             RefuseBuy(q, b, v)
      PROVE  HolderInv'
  BY <1>0, <1>8, QuietStep DEF RefuseBuy, NoPurchase
<1>9. ASSUME NEW q \in Request, NEW c \in req[q].calls, CallSucceeds(q, c)
      PROVE  HolderInv'
  BY <1>0, <1>9, QuietStep DEF CallSucceeds
<1>10. ASSUME NEW q \in Request, NEW c \in req[q].calls, CallFails(q, c)
       PROVE  HolderInv'
  BY <1>0, <1>10, QuietStep DEF CallFails
<1>11. ASSUME NEW q \in Request, CommitBuy(q)
       PROVE  HolderInv'
  BY <1>0, <1>11, CommitBuyHolds
<1>12. ASSUME NEW q \in Request, AbortBuy(q)
       PROVE  HolderInv'
  BY <1>0, <1>12, QuietStep DEF AbortBuy
<1>13. ASSUME NEW q \in Request, NotifyBuyer(q)
       PROVE  HolderInv'
  BY <1>0, <1>13, QuietStep DEF NotifyBuyer
<1>14. CASE Crash
  <2>1. \A a \in Assignee : person[a] = "checked" =>
          \A s \in Assignee : owner[s].assignee # a
    BY <1>0, RowsInOrderFacts, SentinelAssumption DEF HolderInv
  <2>2. \A a \in Assignee : person[a] # "checked" => person'[a] = person[a]
    BY <1>14 DEF Crash
  <2>3. \A q \in Request : req'[q].pc # "charging"
    BY <1>0, <1>14 DEF Crash
  <2> QED BY <1>0, <1>14, <2>1, <2>2, <2>3, QuietStep DEF Crash
<1>15. CASE UNCHANGED vars
  BY <1>0, <1>15, QuietStep DEF vars
<1> QED
  BY <1>1, <1>2, <1>3, <1>4, <1>5, <1>6, <1>7, <1>8, <1>9, <1>10, <1>11,
     <1>12, <1>13, <1>14, <1>15
  DEF Next, Registration, Administration, Buying, GatewayAnswer

\* At the start there is no row and no purchase.
LEMMA HolderInit == Init => HolderInv
<1> SUFFICES ASSUME Init PROVE HolderInv
  OBVIOUS
<1>1. TypeOK
  BY LegacyAssumption
  DEF Init, TypeOK, PersonState, OwnerRow, NoRow, NoPurchase, Purchase,
      RequestState, Method, Placed
<1>2. RowsInOrder /\ OneHolderPerVault
  BY DEF Init, RowsInOrder, OneHolderPerVault, NoRow
<1>3. RowStillThere /\ SameRowSameVault
  BY DEF Init, RowStillThere, SameRowSameVault, NoPurchase
<1> QED BY <1>1, <1>2, <1>3 DEF HolderInv

\* The rows are in order and open purchases know their row in every state.
LEMMA HolderInvariant == Spec => []HolderInv
BY HolderInit, HolderStep, PTL DEF Spec

\* No vault is held through two rows and nobody is named by two, whatever
\* registrations, purchases, deletions and crashes interleave.
THEOREM HoldersUnique == Spec => []OneHolderPerVault
BY HolderInvariant, PTL DEF HolderInv

\* A step leaves a row at its vault or takes the vault away: it never puts the
\* row on another vault.
LEMMA KeepsVaultStep ==
  ASSUME HolderInv, [Next]_vars, NEW x \in Assignee,
         owner[x].valt # NoValt, owner'[x].valt # NoValt
  PROVE  owner'[x].valt = owner[x].valt
<1>0. TypeOK /\ owner[x] # NoRow
  BY DEF HolderInv, NoRow
<1>1. ASSUME NEW a \in Assignee, RegisterCommit(a)
      PROVE  owner'[x].valt = owner[x].valt
  <2>1. x # a
    BY <1>0, <1>1, RowsInOrderFacts DEF RegisterCommit, HolderInv
  <2> QED BY <1>0, <1>1, <2>1 DEF RegisterCommit, SetOwner, TypeOK, OwnerRow
<1>2. ASSUME NEW v \in Valt, RemoveValt(v)
      PROVE  owner'[x].valt = owner[x].valt
  BY <1>0, <1>2 DEF RemoveValt, TypeOK, OwnerRow
<1>3. ASSUME NEW q \in Request, CommitBuy(q)
      PROVE  owner'[x].valt = owner[x].valt
  <2>1. CASE x = req[q].row
    BY <1>0, <1>3, <2>1
    DEF CommitBuy, SetOwner, HolderInv, RowStillThere
  <2>2. CASE x # req[q].row
    BY <1>0, <1>3, <2>2 DEF CommitBuy, SetOwner, TypeOK, OwnerRow
  <2> QED BY <2>1, <2>2
<1>4. CASE UNCHANGED owner
  BY <1>4
<1> QED
  BY <1>1, <1>2, <1>3, <1>4
  DEF Next, Registration, Administration, Buying, GatewayAnswer, vars,
      RegisterCheck, RegisterFail, UpdateAssignee, RemoveAssignee, StartBuy,
      RefuseBuy, CallSucceeds, CallFails, AbortBuy, NotifyBuyer, Crash

\* A purchase, however stale the row it read, never moves a row to a vault
\* other than the one the row was opened for.
THEOREM RowsKeepTheirVault == Spec => RowKeepsItsVault
<1>1. HolderInv /\ [Next]_vars =>
        [\A r \in Assignee :
           owner[r].valt # NoValt /\ owner'[r].valt # NoValt
             => owner'[r].valt = owner[r].valt]_vars
  BY KeepsVaultStep
<1> QED BY <1>1, HolderInvariant, PTL DEF Spec, RowKeepsItsVault

(***************************************************************************)
(* The books and the gateway                                               *)
(***************************************************************************)
\* A step that books nothing keeps the books, if booked purchases keep what is
\* booked of them and only a PIX is answered late.
LEMMA UnbookedStep ==
  ASSUME BooksInv, HolderInv', PurchaseStates',
         UNCHANGED <<history, generated>>, issued \subseteq issued',
         \A r \in Assignee : owner'[r].charge # NoRequest =>
           /\ owner'[r].charge = owner[r].charge
           /\ owner'[r].assignee = owner[r].assignee,
         \A q \in Request : Booked(q) =>
           /\ req'[q].buyer = req[q].buyer
           /\ req'[q].method = req[q].method
           /\ req'[q].row = req[q].row
           /\ req'[q].pc = req[q].pc \/ req[q].pc = "booked",
         \A q \in Request : ~ Booked(q) => req'[q].pc \notin {"booked", "done"}
  PROVE  BooksInv'
<1>1. SaleOnTheBooks'
  <2> SUFFICES ASSUME NEW q \in Request
               PROVE  /\ \A a \in Assignee : BookedFor(q, a) => a = req'[q].buyer
                      /\ Booked(q) =>
                           /\ {q} \X ParcelsOf(req'[q].method) \subseteq issued'
                           /\ \A i \in Parcel, r \in Assignee :
                                <<q, i, r>> \in generated <=>
                                  /\ i \in ParcelsOf(req'[q].method)
                                  /\ r = req'[q].row
                      /\ ~ Booked(q) => BilledOn(q) = {}
                      /\ req'[q].pc \in {"booked", "done"} => Booked(q)
                      /\ Booked(q) /\ req'[q].pc = "failed"
                           => req'[q].method = "PIX"
    BY DEF SaleOnTheBooks, Booked, BookedFor, BilledOn
  <2>1. CASE Booked(q)
    BY <2>1 DEF BooksInv, SaleOnTheBooks, PurchaseStates
  <2>2. CASE ~ Booked(q)
    BY <2>2 DEF BooksInv, SaleOnTheBooks, Booked
  <2> QED BY <2>1, <2>2
<1>2. ChargeOnItsRow'
  <2> SUFFICES ASSUME NEW r \in Assignee, owner'[r].charge # NoRequest
               PROVE  /\ BookedFor(owner'[r].charge, owner'[r].assignee)
                      /\ req'[owner'[r].charge].row = r
    BY DEF ChargeOnItsRow, BookedFor
  <2>1. /\ BookedFor(owner[r].charge, owner[r].assignee)
        /\ req[owner[r].charge].row = r
    BY DEF BooksInv, ChargeOnItsRow
  <2>2. owner[r].charge \in Request /\ owner[r].assignee \in Assignee
    <3>1. owner[r].charge \in Request
      BY DEF BooksInv, HolderInv, TypeOK, OwnerRow
    <3>2. owner[r].assignee \in Assignee
      BY <2>1 DEF BookedFor, BooksInv, HolderInv, TypeOK
    <3> QED BY <3>1, <3>2
  <2> QED BY <2>1, <2>2 DEF Booked
<1> QED BY <1>1, <1>2 DEF BooksInv

\* A committed purchase is booked for its buyer on the row it read, with every
\* parcel issued, and takes no other row's charge.
LEMMA CommitBuyBooks ==
  ASSUME BooksInv, HolderInv', NEW q \in Request, CommitBuy(q)
  PROVE  BooksInv'
<1> DEFINE r == req[q].row
           b == req[q].buyer
           m == req[q].method
           row == [assignee |-> b, valt |-> req[q].valt, charge |-> q]
<1> USE DEF BooksInv
<1>1. /\ r \in Assignee /\ b \in Assignee /\ req[q].valt \in Valt
      /\ m \in Method /\ row \in OwnerRow
      /\ owner \in [Assignee -> OwnerRow]
  BY DEF CommitBuy, HolderInv, TypeOK, Placed, Purchase, OwnerRow
<1>2. /\ owner'[r] = row
      /\ \A x \in Assignee \ {r} : /\ owner'[x].assignee = owner[x].assignee
                                   /\ owner'[x].charge = owner[x].charge
  BY <1>1, SetOwnerEffect DEF CommitBuy
<1>3. ~ Booked(q) /\ BilledOn(q) = {}
  BY DEF CommitBuy, PurchaseStates, SaleOnTheBooks
<1>4. {q} \X ParcelsOf(m) \subseteq issued
  BY DEF CommitBuy, PurchaseStates
<1>5. /\ req'[q].pc \in {"booked", "done"} /\ (req'[q].pc = "booked" => m = "PIX")
      /\ req'[q].buyer = b /\ req'[q].method = m /\ req'[q].row = r
      /\ req'[q].calls = {}
      /\ \A p \in Request \ {q} : req'[p] = req[p]
  BY DEF CommitBuy, HolderInv, TypeOK, Purchase
<1>6. /\ \A p \in Request, a \in Assignee :
           <<p, a>> \in history' <=> <<p, a>> \in history \/ (p = q /\ a = b)
      /\ \A p \in Request, i \in Parcel, x \in Assignee :
           <<p, i, x>> \in generated' <=>
             \/ <<p, i, x>> \in generated
             \/ p = q /\ i \in ParcelsOf(m) /\ x = r
  BY DEF CommitBuy
<1>7. \A p \in Request : Booked(p)' <=> Booked(p) \/ p = q
  BY <1>1, <1>6 DEF Booked, BookedFor
<1>8. issued' = issued
  BY DEF CommitBuy
<1>9. PurchaseStates'
  BY <1>5, <1>7, <1>8 DEF PurchaseStates
<1>10. SaleOnTheBooks'
  <2> SUFFICES ASSUME NEW p \in Request
               PROVE  /\ \A a \in Assignee :
                           <<p, a>> \in history' => a = req'[p].buyer
                      /\ Booked(p)' =>
                           /\ {p} \X ParcelsOf(req'[p].method) \subseteq issued'
                           /\ \A i \in Parcel, x \in Assignee :
                                <<p, i, x>> \in generated' <=>
                                  /\ i \in ParcelsOf(req'[p].method)
                                  /\ x = req'[p].row
                      /\ ~ Booked(p)' => BilledOn(p)' = {}
                      /\ req'[p].pc \in {"booked", "done"} => Booked(p)'
                      /\ Booked(p)' /\ req'[p].pc = "failed"
                           => req'[p].method = "PIX"
    BY DEF SaleOnTheBooks, BookedFor
  <2>1. CASE p = q
    BY <2>1, <1>3, <1>4, <1>5, <1>6, <1>7, <1>8
    DEF Booked, BookedFor, BilledOn
  <2>2. CASE p # q
    <3>1. BilledOn(p)' = BilledOn(p)
      BY <2>2, <1>6 DEF BilledOn
    <3> QED BY <2>2, <3>1, <1>5, <1>6, <1>7, <1>8
      DEF SaleOnTheBooks, BookedFor
  <2> QED BY <2>1, <2>2
<1>11. ChargeOnItsRow'
  <2> SUFFICES ASSUME NEW x \in Assignee, owner'[x].charge # NoRequest
               PROVE  /\ <<owner'[x].charge, owner'[x].assignee>> \in history'
                      /\ req'[owner'[x].charge].row = x
    BY DEF ChargeOnItsRow, BookedFor
  <2>1. CASE x = r
    BY <2>1, <1>1, <1>2, <1>5, <1>6
  <2>2. CASE x # r
    <3>1. /\ BookedFor(owner[x].charge, owner[x].assignee)
          /\ req[owner[x].charge].row = x
      BY <2>2, <1>2 DEF ChargeOnItsRow
    <3>2. owner[x].charge \in Request /\ owner[x].assignee \in Assignee
      BY <3>1 DEF BookedFor, HolderInv, TypeOK
    <3>3. owner[x].charge # q
      BY <3>1, <3>2, <1>3 DEF Booked, BookedFor
    <3> QED BY <2>2, <3>1, <3>2, <3>3, <1>2, <1>5, <1>6
        DEF BookedFor
  <2> QED BY <2>1, <2>2
<1> QED BY <1>9, <1>10, <1>11

\* Every handler keeps the books in agreement with the gateway.
LEMMA BooksStep == BooksInv /\ [Next]_vars => BooksInv'
<1> SUFFICES ASSUME BooksInv, [Next]_vars PROVE BooksInv'
  OBVIOUS
<1>0. HolderInv' /\ TypeOK
  BY HolderStep DEF BooksInv, HolderInv
<1>a. \A q \in Request : req[q].pc \in {"booked", "done"} => Booked(q)
  BY DEF BooksInv, SaleOnTheBooks
<1>b. \A q \in Request : req[q].pc \in {"idle", "charging"} => ~ Booked(q)
  BY DEF BooksInv, PurchaseStates
<1>1. ASSUME UNCHANGED <<history, generated, issued, req>>,
             \A r \in Assignee : owner'[r].charge # NoRequest =>
               /\ owner'[r].charge = owner[r].charge
               /\ owner'[r].assignee = owner[r].assignee
      PROVE  BooksInv'
  <2>1. PurchaseStates'
    BY <1>1 DEF BooksInv, PurchaseStates, Booked, BookedFor
  <2> QED BY <1>0, <1>1, <1>a, <2>1, UnbookedStep
<1>2. ASSUME NEW a \in Assignee, RegisterCommit(a)
      PROVE  BooksInv'
  BY <1>0, <1>1, <1>2 DEF RegisterCommit, SetOwner, TypeOK, OwnerRow
<1>3. ASSUME NEW v \in Valt, RemoveValt(v)
      PROVE  BooksInv'
  BY <1>0, <1>1, <1>3 DEF RemoveValt, TypeOK, OwnerRow
<1>4. ASSUME NEW q \in Request, NEW m \in Offered, NEW b \in Assignee,
             NEW v \in Valt, StartBuy(q, m, b, v)
      PROVE  BooksInv'
  <2>1. PICK r \in Assignee :
          req' = [req EXCEPT ![q] = [pc |-> "charging", method |-> m,
                                     buyer |-> b, valt |-> v, row |-> r,
                                     calls |-> CallsOf(m)]]
    BY <1>4 DEF StartBuy
  <2>2. /\ req'[q].pc = "charging" /\ req'[q].method = m
        /\ req'[q].calls = CallsOf(m)
        /\ \A p \in Request \ {q} : req'[p] = req[p]
    BY <1>0, <2>1 DEF TypeOK
  <2>3. ~ Booked(q) /\ UNCHANGED <<history, generated, issued, owner>>
    BY <1>4, <1>b DEF StartBuy
  <2>4. m \in Method
    BY OfferedAssumption
  <2>5. PurchaseStates'
    BY <2>2, <2>3, <2>4, CallsCoverParcels
    DEF BooksInv, PurchaseStates, Booked, BookedFor
  <2> QED BY <1>0, <1>a, <2>2, <2>3, <2>5, UnbookedStep
<1>5. ASSUME NEW q \in Request, NEW b \in Assignee, NEW v \in Valt,
             RefuseBuy(q, b, v)
      PROVE  BooksInv'
  <2>1. /\ req'[q].pc = "failed"
        /\ \A p \in Request \ {q} : req'[p] = req[p]
    BY <1>0, <1>5 DEF RefuseBuy, TypeOK, NoPurchase
  <2>2. ~ Booked(q) /\ UNCHANGED <<history, generated, issued, owner>>
    BY <1>5, <1>b DEF RefuseBuy
  <2>3. PurchaseStates'
    BY <2>1, <2>2 DEF BooksInv, PurchaseStates, Booked, BookedFor
  <2> QED BY <1>0, <1>a, <2>1, <2>2, <2>3, UnbookedStep
<1>6. ASSUME NEW q \in Request, NEW c \in req[q].calls, CallSucceeds(q, c)
      PROVE  BooksInv'
  <2>1. /\ req'[q] = [req[q] EXCEPT !.calls = @ \ {c}]
        /\ \A p \in Request \ {q} : req'[p] = req[p]
        /\ issued' = issued \cup ({q} \X c)
    BY <1>0, <1>6 DEF CallSucceeds, TypeOK
  <2>2. /\ req'[q].pc = req[q].pc /\ req'[q].method = req[q].method
        /\ req'[q].buyer = req[q].buyer /\ req'[q].row = req[q].row
        /\ req'[q].calls = req[q].calls \ {c}
    BY <1>0, <2>1 DEF TypeOK, Purchase
  <2>3. UNCHANGED <<history, generated, owner>>
    BY <1>6 DEF CallSucceeds
  <2>4. PurchaseStates'
    BY <2>1, <2>2, <2>3 DEF BooksInv, PurchaseStates, Booked, BookedFor
  <2> QED BY <1>0, <1>a, <2>1, <2>2, <2>3, <2>4, UnbookedStep
<1>7. ASSUME NEW q \in Request, NEW c \in req[q].calls, CallFails(q, c)
      PROVE  BooksInv'
  <2>1. /\ req'[q].pc = "failed" /\ req'[q].method = req[q].method
        /\ req'[q].buyer = req[q].buyer /\ req'[q].row = req[q].row
        /\ \A p \in Request \ {q} : req'[p] = req[p]
        /\ issued \subseteq issued'
    BY <1>0, <1>7 DEF CallFails, TypeOK, Purchase
  <2>2. UNCHANGED <<history, generated, owner>>
    BY <1>7 DEF CallFails
  <2>3. Booked(q) => req[q].pc = "failed"
    <3>1. req[q].pc \notin {"idle", "booked", "done"}
      BY DEF BooksInv, PurchaseStates
    <3> QED BY <1>0, <1>b, <3>1 DEF TypeOK, Purchase, RequestState
  <2>4. PurchaseStates'
    BY <2>1, <2>2 DEF BooksInv, PurchaseStates, Booked, BookedFor
  <2> QED BY <1>0, <1>a, <2>1, <2>2, <2>3, <2>4, UnbookedStep
<1>8. ASSUME NEW q \in Request, CommitBuy(q)
      PROVE  BooksInv'
  BY <1>0, <1>8, CommitBuyBooks
<1>9. ASSUME NEW q \in Request, AbortBuy(q)
      PROVE  BooksInv'
  <2>1. /\ req'[q].pc = "failed" /\ ~ Booked(q)
        /\ \A p \in Request \ {q} : req'[p] = req[p]
        /\ UNCHANGED <<history, generated, issued, owner>>
    BY <1>0, <1>b, <1>9 DEF AbortBuy, TypeOK, Purchase
  <2>2. PurchaseStates'
    BY <2>1 DEF BooksInv, PurchaseStates, Booked, BookedFor
  <2> QED BY <1>0, <1>a, <2>1, <2>2, UnbookedStep
<1>10. ASSUME NEW q \in Request, NotifyBuyer(q)
       PROVE  BooksInv'
  <2>1. /\ req[q].pc = "booked" /\ req'[q].pc \in {"done", "failed"}
        /\ req'[q].method = req[q].method /\ req'[q].calls = req[q].calls
        /\ req'[q].buyer = req[q].buyer /\ req'[q].row = req[q].row
        /\ \A p \in Request \ {q} : req'[p] = req[p]
        /\ UNCHANGED <<history, generated, issued, owner>>
    BY <1>0, <1>10 DEF NotifyBuyer, TypeOK, Purchase
  <2>2. Booked(q)
    BY <1>a, <2>1
  <2>3. PurchaseStates'
    BY <2>1, <2>2 DEF BooksInv, PurchaseStates, Booked, BookedFor
  <2> QED BY <1>0, <1>a, <2>1, <2>2, <2>3, UnbookedStep
<1>11. CASE Crash
  <2>1. /\ \A q \in Request :
             IF req[q].pc \in {"charging", "booked"}
               THEN /\ req'[q].pc = "failed" /\ req'[q].method = req[q].method
                    /\ req'[q].buyer = req[q].buyer /\ req'[q].row = req[q].row
               ELSE req'[q] = req[q]
        /\ UNCHANGED <<history, generated, issued, owner>>
    BY <1>0, <1>11 DEF Crash, TypeOK, Purchase
  <2>2. PurchaseStates'
    BY <2>1 DEF BooksInv, PurchaseStates, Booked, BookedFor
  <2>3. \A q \in Request : Booked(q) => req[q].pc # "charging"
    BY <1>b
  <2> QED BY <1>0, <1>a, <2>1, <2>2, <2>3, UnbookedStep
<1> QED
  BY <1>1, <1>2, <1>3, <1>4, <1>5, <1>6, <1>7, <1>8, <1>9, <1>10, <1>11
  DEF Next, Registration, Administration, Buying, GatewayAnswer, vars,
      RegisterCheck, RegisterFail, UpdateAssignee, RemoveAssignee

\* The books agree with the gateway in every state, with all it rests on.
LEMMA BooksInvariant == Spec => []BooksInv
<1>1. Init => BooksInv
  <2> SUFFICES ASSUME Init PROVE BooksInv
    OBVIOUS
  <2>1. HolderInv
    BY HolderInit
  <2>2. \A q \in Request : ~ Booked(q) /\ BilledOn(q) = {} /\ req[q] = NoPurchase
    BY DEF Init, Booked, BookedFor, BilledOn
  <2>3. PurchaseStates /\ SaleOnTheBooks
    BY <2>2 DEF PurchaseStates, SaleOnTheBooks, NoPurchase, Booked
  <2>4. ChargeOnItsRow
    BY DEF Init, ChargeOnItsRow, NoRow
  <2> QED BY <2>1, <2>3, <2>4 DEF BooksInv
<1> QED BY <1>1, BooksStep, PTL DEF Spec

\* For every method and every failure, what the tables say of a purchase is
\* all of it or nothing, and nothing the gateway does not have.
THEOREM BooksAgree == Spec => []SaleOnTheBooks
BY BooksInvariant, PTL DEF BooksInv

\* The charge of an owner row is always owed by the assignee the row names and
\* billed on that row only.
THEOREM ChargesNameTheirPayer == Spec => []ChargeNamesItsPayer
<1>1. BooksInv => ChargeNamesItsPayer
  <2> SUFFICES ASSUME BooksInv, NEW r \in Assignee,
                      owner[r].charge # NoRequest
               PROVE  /\ BookedFor(owner[r].charge, owner[r].assignee)
                      /\ BilledOn(owner[r].charge) = {r}
    BY DEF ChargeNamesItsPayer
  <2> DEFINE q == owner[r].charge
  <2>1. BookedFor(q, owner[r].assignee) /\ req[q].row = r
    BY DEF BooksInv, ChargeOnItsRow
  <2>2. q \in Request /\ owner[r].assignee \in Assignee /\ req[q].method \in Method
    BY <2>1 DEF BookedFor, BooksInv, HolderInv, TypeOK, Purchase
  <2>3. \A i \in Parcel, x \in Assignee :
          <<q, i, x>> \in generated <=> i \in ParcelsOf(req[q].method) /\ x = r
    BY <2>1, <2>2 DEF Booked, BooksInv, SaleOnTheBooks
  <2>4. BilledOn(q) = {r}
    BY <2>2, <2>3, ParcelsOfType DEF BilledOn
  <2> QED BY <2>1, <2>4
<1> QED BY <1>1, BooksInvariant, PTL

\* A row changes hands only by a purchase all of whose charges exist, under
\* which the row is then found.
THEOREM TransfersArePaidFor == Spec => TransferIsPaidFor
<1> DEFINE Paid(r) ==
      IsRow(r) /\ owner'[r].assignee # owner[r].assignee =>
        \E q \in Request :
          /\ owner'[r].charge = q /\ owner[r].charge # q
          /\ {q} \X ParcelsOf(req[q].method) \subseteq issued
<1>1. ASSUME BooksInv, [Next]_vars, NEW r \in Assignee
      PROVE  Paid(r)
  <2>0. TypeOK /\ HolderInv
    BY <1>1 DEF BooksInv, HolderInv
  <2>1. ASSUME NEW a \in Assignee, RegisterCommit(a)
        PROVE  Paid(r)
    <3>1. r = a => ~ IsRow(r)
      BY <2>0, <2>1, RowsInOrderFacts DEF RegisterCommit, HolderInv
    <3> QED BY <2>0, <2>1, <3>1 DEF RegisterCommit, SetOwner, TypeOK, OwnerRow
  <2>2. ASSUME NEW v \in Valt, RemoveValt(v)
        PROVE  Paid(r)
    BY <2>0, <2>2 DEF RemoveValt, TypeOK, OwnerRow
  <2>3. ASSUME NEW q \in Request, CommitBuy(q)
        PROVE  Paid(r)
    <3>1. CASE r = req[q].row
      <4>1. ~ Booked(q) /\ {q} \X ParcelsOf(req[q].method) \subseteq issued
        BY <1>1, <2>3 DEF BooksInv, PurchaseStates, CommitBuy
      <4>2. owner[r].charge # q
        <5> SUFFICES ASSUME owner[r].charge = q PROVE FALSE
          OBVIOUS
        <5>1. BookedFor(q, owner[r].assignee)
          BY <1>1, SentinelAssumption DEF BooksInv, ChargeOnItsRow
        <5>2. owner[r].assignee \in Assignee
          BY <2>0, <5>1 DEF BookedFor, TypeOK
        <5> QED BY <4>1, <5>1, <5>2 DEF Booked
      <4>3. owner'[r].charge = q
        BY <2>3, <3>1 DEF CommitBuy, SetOwner
      <4> QED BY <4>1, <4>2, <4>3
    <3>2. CASE r # req[q].row
      BY <2>0, <2>3, <3>2 DEF CommitBuy, SetOwner, TypeOK, OwnerRow
    <3> QED BY <3>1, <3>2
  <2>4. CASE UNCHANGED owner
    BY <2>4
  <2> QED
    BY <1>1, <2>1, <2>2, <2>3, <2>4
    DEF Next, Registration, Administration, Buying, GatewayAnswer, vars,
        RegisterCheck, RegisterFail, UpdateAssignee, RemoveAssignee, StartBuy,
        RefuseBuy, CallSucceeds, CallFails, AbortBuy, NotifyBuyer, Crash
<1>2. BooksInv /\ [Next]_vars => [\A r \in Assignee : Paid(r)]_vars
  BY <1>1
<1> QED BY <1>2, BooksInvariant, PTL DEF Spec, TransferIsPaidFor

(***************************************************************************)
(* Payers and rentals                                                      *)
(***************************************************************************)
\* An assignee who is on file leaves it only by being deleted.
LEMMA OnFileUntilRemoved ==
  ASSUME TypeOK, [Next]_vars, NEW a \in Assignee, person[a] = "registered"
  PROVE  person'[a] = "registered" \/ RemoveAssignee(a)
<1>1. ASSUME NEW b \in Assignee, NEW v \in Valt, RegisterCheck(b, v)
      PROVE  person'[a] = "registered"
  BY <1>1 DEF RegisterCheck, TypeOK
<1>2. ASSUME NEW b \in Assignee, RegisterCommit(b) \/ RegisterFail(b)
      PROVE  person'[a] = "registered"
  BY <1>2 DEF RegisterCommit, RegisterFail, TypeOK
<1>3. ASSUME NEW b \in Assignee, RemoveAssignee(b), b # a
      PROVE  person'[a] = "registered"
  BY <1>3 DEF RemoveAssignee, TypeOK
<1>4. CASE Crash
  BY <1>4 DEF Crash, TypeOK
<1>5. CASE UNCHANGED person
  BY <1>5
<1> QED
  BY <1>1, <1>2, <1>3, <1>4, <1>5
  DEF Next, Registration, Administration, Buying, GatewayAnswer, vars,
      UpdateAssignee, RemoveValt, StartBuy, RefuseBuy, CallSucceeds,
      CallFails, CommitBuy, AbortBuy, NotifyBuyer

\* The payment history grows only by a purchase that commits.
LEMMA HistoryGrows ==
  ASSUME [Next]_vars
  PROVE  \/ history' = history
         \/ \E q \in Request : CommitBuy(q)
BY DEF Next, Registration, Administration, Buying, GatewayAnswer, vars,
       RegisterCheck, RegisterCommit, RegisterFail, UpdateAssignee,
       RemoveAssignee, RemoveValt, StartBuy, RefuseBuy, CallSucceeds,
       CallFails, AbortBuy, NotifyBuyer, Crash

\* Nobody who is named by a row or owes a payment is taken off the file, and
\* nobody who is off the file is booked.
LEMMA PayersStep == HolderInv /\ PayersOnFile /\ [Next]_vars => PayersOnFile'
<1> SUFFICES ASSUME HolderInv, PayersOnFile, [Next]_vars PROVE PayersOnFile'
  OBVIOUS
<1>0. TypeOK /\ HolderInv'
  BY HolderStep DEF HolderInv
<1>1. \A r \in Assignee : IsRow(r)' => person'[owner'[r].assignee] = "registered"
  BY <1>0 DEF HolderInv, RowsInOrder
<1>2. ASSUME NEW q \in Request, NEW a \in Assignee, <<q, a>> \in history'
      PROVE  person'[a] = "registered"
  <2>1. CASE <<q, a>> \in history
    <3>1. person[a] = "registered"
      BY <2>1 DEF PayersOnFile, BookedFor
    <3>2. ~ RemoveAssignee(a)
      BY <2>1 DEF RemoveAssignee
    <3> QED BY <1>0, <3>1, <3>2, OnFileUntilRemoved
  <2>2. CASE <<q, a>> \notin history
    <3>1. PICK p \in Request : CommitBuy(p)
      BY <1>2, <2>2, HistoryGrows
    <3>2. a = req[p].buyer
      BY <1>2, <2>2, <3>1 DEF CommitBuy
    <3>3. person[a] = "registered"
      BY <3>1, <3>2 DEF CommitBuy, Bookable
    <3> QED BY <3>1, <3>3 DEF CommitBuy
  <2> QED BY <2>1, <2>2
<1> QED BY <1>1, <1>2 DEF PayersOnFile, BookedFor

\* Whoever a row names or owes a payment is on file, whatever deletions and
\* purchases interleave: what is checked when the purchase starts is checked
\* again by the constraints of the transaction.
THEOREM PayersStayOnFile == Spec => []PayersOnFile
<1>1. Init => PayersOnFile
  <2> SUFFICES ASSUME Init PROVE PayersOnFile
    OBVIOUS
  <2>1. \A r \in Assignee : ~ IsRow(r)
    BY DEF Init, NoRow
  <2>2. history = {}
    BY DEF Init
  <2> QED BY <2>1, <2>2 DEF PayersOnFile, BookedFor
<1> QED BY <1>1, PayersStep, HolderInvariant, PTL DEF Spec

\* A booked request is never used again: its method and its vault are those it
\* was booked with.
LEMMA BookedStaysPut ==
  ASSUME BooksInv, [Next]_vars, NEW q \in Request, Booked(q)
  PROVE  req'[q].method = req[q].method /\ req'[q].valt = req[q].valt
<1>0. TypeOK
  BY DEF BooksInv, HolderInv
<1>1. req[q].pc # "idle" /\ req[q] \in Purchase
  BY <1>0 DEF BooksInv, PurchaseStates, TypeOK
<1>2. ASSUME NEW p \in Request, NEW m \in Offered, NEW b \in Assignee,
             NEW v \in Valt, StartBuy(p, m, b, v) \/ RefuseBuy(p, b, v)
      PROVE  req'[q] = req[q]
  BY <1>0, <1>1, <1>2 DEF StartBuy, RefuseBuy, TypeOK
<1>3. ASSUME NEW p \in Request, NEW c \in req[p].calls,
             CallSucceeds(p, c) \/ CallFails(p, c)
      PROVE  req'[q].method = req[q].method /\ req'[q].valt = req[q].valt
  <2>1. CASE CallSucceeds(p, c)
    BY <1>0, <1>1, <2>1 DEF CallSucceeds, TypeOK, Purchase
  <2>2. CASE CallFails(p, c)
    <3>1. req' = [req EXCEPT ![p] = [req[p] EXCEPT !.calls = @ \ {c},
                                                   !.pc = "failed"]]
      BY <2>2 DEF CallFails
    <3>2. req'[q] = req[q] \/ req'[q] = [req[q] EXCEPT !.calls = @ \ {c},
                                                      !.pc = "failed"]
      BY <1>0, <3>1 DEF TypeOK
    <3> QED BY <1>1, <3>2 DEF Purchase
  <2> QED BY <1>3, <2>1, <2>2
<1>4. ASSUME NEW p \in Request,
             CommitBuy(p) \/ AbortBuy(p) \/ NotifyBuyer(p)
      PROVE  req'[q].method = req[q].method /\ req'[q].valt = req[q].valt
  BY <1>0, <1>1, <1>4 DEF CommitBuy, AbortBuy, NotifyBuyer, TypeOK, Purchase
<1>5. CASE Crash
  BY <1>0, <1>1, <1>5 DEF Crash, TypeOK, Purchase
<1>6. CASE UNCHANGED req
  BY <1>6
<1> QED
  BY <1>2, <1>3, <1>4, <1>5, <1>6
  DEF Next, Registration, Administration, Buying, GatewayAnswer, vars,
      RegisterCheck, RegisterCommit, RegisterFail, UpdateAssignee,
      RemoveAssignee, RemoveValt

\* Only a committed purchase adds a rental; the rentals there are stay, for
\* their vaults.
LEMMA RentalsGrow ==
  ASSUME BooksInv, [Next]_vars, NEW q \in Request
  PROVE  /\ Rented(q) => Rented(q)' /\ req'[q].valt = req[q].valt
         /\ Rented(q)' => Rented(q) \/ CommitBuy(q)
<1>0. TypeOK
  BY DEF BooksInv, HolderInv
<1>1. ASSUME Rented(q)
      PROVE  Rented(q)' /\ req'[q].valt = req[q].valt
  <2>1. history \subseteq history'
    BY HistoryGrows DEF CommitBuy
  <2>2. Booked(q)'
    BY <1>1, <2>1 DEF Rented, Booked, BookedFor
  <2> QED BY <1>1, <2>2, BookedStaysPut DEF Rented
<1>2. ASSUME Rented(q)', ~ CommitBuy(q)
      PROVE  Rented(q)
  <2>1. Booked(q)
    <3>1. CASE history' = history
      BY <1>2, <3>1 DEF Rented, Booked, BookedFor
    <3>2. ASSUME NEW p \in Request, CommitBuy(p)
          PROVE  Booked(q)
      BY <1>2, <3>2 DEF Rented, Booked, BookedFor, CommitBuy
    <3> QED BY <3>1, <3>2, HistoryGrows
  <2> QED BY <1>2, <2>1, BookedStaysPut DEF Rented
<1> QED BY <1>1, <1>2

\* A step that books no rental and takes no vault off the file leaves the
\* rentals on the books, if a row that keeps its charge keeps its vault.
LEMMA NothingRented ==
  ASSUME BooksInv, RentalOnTheBooks, [Next]_vars,
         UNCHANGED <<usedIn, valts>>,
         \A q \in Request : Rented(q)' => Rented(q),
         \A r \in Assignee, q \in Request :
           owner'[r].charge = q /\ Rented(q)' /\ owner'[r].valt # NoValt =>
             owner[r].charge = q /\ owner[r].valt = owner'[r].valt
  PROVE  RentalOnTheBooks'
<1>1. \A q \in Request : Rented(q) => Rented(q)' /\ req'[q].valt = req[q].valt
  BY RentalsGrow
<1>2. \A q \in Request : usedIn'[q] # NoValt =>
        Rented(q)' /\ usedIn'[q] = req'[q].valt
  BY <1>1 DEF RentalOnTheBooks
<1>3. \A p, q \in Request :
        p # q /\ usedIn'[p] # NoValt => usedIn'[p] # usedIn'[q]
  BY DEF RentalOnTheBooks
<1>4. \A q \in Request : Rented(q)' /\ req'[q].valt \in valts' =>
        \E p \in Request : usedIn'[p] = req'[q].valt
  BY <1>1 DEF RentalOnTheBooks
<1>5. \A r \in Assignee, q \in Request :
        owner'[r].charge = q /\ Rented(q)' /\ owner'[r].valt # NoValt
          => usedIn'[q] = owner'[r].valt
  <2> SUFFICES ASSUME NEW r \in Assignee, NEW q \in Request,
                      owner'[r].charge = q, Rented(q)', owner'[r].valt # NoValt
               PROVE  usedIn'[q] = owner'[r].valt
    OBVIOUS
  <2>1. owner[r].charge = q /\ owner[r].valt = owner'[r].valt /\ Rented(q)
    OBVIOUS
  <2> QED BY <2>1 DEF RentalOnTheBooks
<1> QED BY <1>2, <1>3, <1>4, <1>5 DEF RentalOnTheBooks

\* A vault that is deleted leaves its owner row and its subscription together.
LEMMA RemoveValtRentals ==
  ASSUME BooksInv, RentalOnTheBooks, [Next]_vars, NEW v \in Valt, RemoveValt(v)
  PROVE  RentalOnTheBooks'
<1>0. TypeOK
  BY DEF BooksInv, HolderInv
<1>1. /\ \A q \in Request : Rented(q)' <=> Rented(q)
      /\ req' = req /\ valts' = valts \ {v}
  BY DEF RemoveValt, Rented, Booked, BookedFor
<1>2. \A q \in Request : usedIn'[q] = IF usedIn[q] = v THEN NoValt ELSE usedIn[q]
  BY DEF RemoveValt, WithoutVault
<1>3. \A r \in Assignee :
        /\ owner'[r].charge = owner[r].charge
        /\ owner'[r].valt = IF owner[r].valt = v THEN NoValt ELSE owner[r].valt
  BY <1>0 DEF RemoveValt, TypeOK, OwnerRow
<1>4. \A q \in Request : usedIn'[q] # NoValt =>
        Rented(q)' /\ usedIn'[q] = req'[q].valt
  BY <1>1, <1>2 DEF RentalOnTheBooks
<1>5. \A p, q \in Request :
        p # q /\ usedIn'[p] # NoValt => usedIn'[p] # usedIn'[q]
  BY <1>2 DEF RentalOnTheBooks
<1>6. \A q \in Request : Rented(q)' /\ req'[q].valt \in valts' =>
        \E p \in Request : usedIn'[p] = req'[q].valt
  <2> SUFFICES ASSUME NEW q \in Request, Rented(q)', req'[q].valt \in valts'
               PROVE  \E p \in Request : usedIn'[p] = req'[q].valt
    OBVIOUS
  <2>1. PICK p \in Request : usedIn[p] = req[q].valt
    BY <1>1 DEF RentalOnTheBooks
  <2> QED BY <2>1, <1>1, <1>2
<1>7. \A r \in Assignee, q \in Request :
        owner'[r].charge = q /\ Rented(q)' /\ owner'[r].valt # NoValt
          => usedIn'[q] = owner'[r].valt
  BY <1>1, <1>2, <1>3 DEF RentalOnTheBooks
<1> QED BY <1>4, <1>5, <1>6, <1>7 DEF RentalOnTheBooks

\* A rental takes the vault from the subscription and, when it is on another
\* row, from the owner row of an earlier one: both in the transaction that
\* books it.
LEMMA RentRentals ==
  ASSUME BooksInv, RentalOnTheBooks, [Next]_vars, NEW q \in Request,
         CommitBuy(q), req[q].method = "RECORRENCIA"
  PROVE  RentalOnTheBooks'
<1> DEFINE v == req[q].valt
           row == [assignee |-> req[q].buyer, valt |-> v, charge |-> q]
<1>0. TypeOK
  BY DEF BooksInv, HolderInv
<1>1. /\ req[q].row \in Assignee /\ req[q].buyer \in Assignee /\ v \in Valt
      /\ row \in OwnerRow
  BY <1>0 DEF CommitBuy, TypeOK, Placed, OwnerRow
<1>2. /\ usedIn'[q] = v
      /\ \A p \in Request \ {q} :
           usedIn'[p] = IF usedIn[p] = v THEN NoValt ELSE usedIn[p]
  BY <1>0 DEF CommitBuy, Subscribe, WithoutVault
<1>3. /\ owner'[req[q].row] = row
      /\ \A r \in Assignee \ {req[q].row} :
           /\ owner'[r].charge = owner[r].charge
           /\ owner'[r].valt \in {owner[r].valt, NoValt}
           /\ owner'[r].valt # v
  BY <1>0, <1>1, SetOwnerEffect DEF CommitBuy, TypeOK
<1>4. /\ Rented(q)' /\ req'[q].valt = v /\ ~ Rented(q)
      /\ \A p \in Request \ {q} :
           (Rented(p)' <=> Rented(p)) /\ req'[p] = req[p]
  <2>1. /\ req'[q].method = "RECORRENCIA" /\ req'[q].valt = v
        /\ \A p \in Request \ {q} : req'[p] = req[p]
    BY <1>0 DEF CommitBuy, TypeOK, Purchase
  <2>2. \A p \in Request, a \in Assignee :
          <<p, a>> \in history' <=>
            <<p, a>> \in history \/ (p = q /\ a = req[q].buyer)
    BY DEF CommitBuy
  <2>3. ~ Booked(q)
    BY DEF BooksInv, PurchaseStates, CommitBuy
  <2> QED BY <1>1, <2>1, <2>2, <2>3 DEF Rented, Booked, BookedFor
<1>5. \A p \in Request : usedIn'[p] # NoValt =>
        Rented(p)' /\ usedIn'[p] = req'[p].valt
  BY <1>2, <1>4 DEF RentalOnTheBooks
<1>6. \A p, s \in Request :
        p # s /\ usedIn'[p] # NoValt => usedIn'[p] # usedIn'[s]
  BY <1>1, <1>2, SentinelAssumption DEF RentalOnTheBooks
<1>7. \A p \in Request : Rented(p)' /\ req'[p].valt \in valts' =>
        \E s \in Request : usedIn'[s] = req'[p].valt
  <2> SUFFICES ASSUME NEW p \in Request, Rented(p)', req'[p].valt \in valts'
               PROVE  \E s \in Request : usedIn'[s] = req'[p].valt
    OBVIOUS
  <2>1. CASE req'[p].valt = v
    BY <2>1, <1>2
  <2>2. CASE req'[p].valt # v
    <3>1. p # q /\ Rented(p) /\ req[p].valt \in valts /\ req[p].valt # v
      BY <2>2, <1>4 DEF CommitBuy
    <3>2. PICK s \in Request : usedIn[s] = req[p].valt
      BY <3>1 DEF RentalOnTheBooks
    <3>3. s # q
      BY <3>1, <3>2, <1>0, <1>4, SentinelAssumption DEF RentalOnTheBooks, TypeOK
    <3> QED BY <3>1, <3>2, <3>3, <1>2, <1>4
  <2> QED BY <2>1, <2>2
<1>8. \A r \in Assignee, p \in Request :
        owner'[r].charge = p /\ Rented(p)' /\ owner'[r].valt # NoValt
          => usedIn'[p] = owner'[r].valt
  <2> SUFFICES ASSUME NEW r \in Assignee, NEW p \in Request,
                      owner'[r].charge = p, Rented(p)', owner'[r].valt # NoValt
               PROVE  usedIn'[p] = owner'[r].valt
    OBVIOUS
  <2>1. CASE r = req[q].row
    BY <2>1, <1>2, <1>3
  <2>2. CASE r # req[q].row
    <3>1. owner[r].charge = p /\ owner'[r].valt = owner[r].valt
          /\ owner[r].valt # v
      BY <2>2, <1>3
    <3>2. p # q
      <4>1. BookedFor(p, owner[r].assignee)
        BY <3>1, SentinelAssumption DEF BooksInv, ChargeOnItsRow
      <4>2. owner[r].assignee \in Assignee
        BY <1>0, <4>1 DEF BookedFor, TypeOK
      <4> QED BY <4>1, <4>2 DEF Booked, BooksInv, PurchaseStates, CommitBuy
    <3> QED BY <3>1, <3>2, <1>2, <1>4 DEF RentalOnTheBooks
  <2> QED BY <2>1, <2>2
<1> QED BY <1>5, <1>6, <1>7, <1>8 DEF RentalOnTheBooks

\* Every handler leaves the rentals on the books.
LEMMA RentalsStep == BooksInv /\ RentalOnTheBooks /\ [Next]_vars => RentalOnTheBooks'
<1> SUFFICES ASSUME BooksInv, RentalOnTheBooks, [Next]_vars
             PROVE  RentalOnTheBooks'
  OBVIOUS
<1>0. TypeOK
  BY DEF BooksInv, HolderInv
<1>1. ASSUME NEW a \in Assignee, RegisterCommit(a)
      PROVE  RentalOnTheBooks'
  <2>1. \A q \in Request : Rented(q)' => Rented(q)
    BY <1>1 DEF RegisterCommit, Rented, Booked, BookedFor
  <2>2. \A r \in Assignee, q \in Request :
          owner'[r].charge = q /\ owner'[r].valt # NoValt =>
            owner[r].charge = q /\ owner[r].valt = owner'[r].valt
    BY <1>0, <1>1, SentinelAssumption
    DEF RegisterCommit, SetOwner, TypeOK, OwnerRow
  <2>3. UNCHANGED <<usedIn, valts>>
    BY <1>1 DEF RegisterCommit
  <2> QED BY <2>1, <2>2, <2>3, NothingRented
<1>2. ASSUME NEW v \in Valt, RemoveValt(v)
      PROVE  RentalOnTheBooks'
  BY <1>2, RemoveValtRentals
<1>3. ASSUME NEW q \in Request, CommitBuy(q)
      PROVE  RentalOnTheBooks'
  <2>1. CASE req[q].method = "RECORRENCIA"
    BY <1>3, <2>1, RentRentals
  <2>2. CASE req[q].method # "RECORRENCIA"
    <3>1. ~ Rented(q)'
      BY <1>0, <1>3, <2>2 DEF CommitBuy, Rented, TypeOK, Purchase
    <3>2. \A p \in Request : Rented(p)' => Rented(p)
      <4>1. \A p \in Request \ {q} : Rented(p)' => Rented(p)
        BY <1>0, <1>3 DEF CommitBuy, Rented, Booked, BookedFor, TypeOK
      <4> QED BY <3>1, <4>1
    <3>3. \A r \in Assignee \ {req[q].row} : owner'[r].valt # NoValt =>
            owner'[r].charge = owner[r].charge /\ owner'[r].valt = owner[r].valt
      BY <1>0, <1>3 DEF CommitBuy, SetOwner, TypeOK, OwnerRow
    <3>4. owner'[req[q].row].charge = q
      BY <1>0, <1>3 DEF CommitBuy, SetOwner, TypeOK, Placed
    <3>5. UNCHANGED <<usedIn, valts>>
      BY <1>3, <2>2 DEF CommitBuy, Subscribe
    <3>6. \A r \in Assignee, p \in Request :
            owner'[r].charge = p /\ Rented(p)' /\ owner'[r].valt # NoValt =>
              owner[r].charge = p /\ owner[r].valt = owner'[r].valt
      BY <3>1, <3>3, <3>4
    <3> QED BY <3>2, <3>5, <3>6, NothingRented
  <2> QED BY <2>1, <2>2
<1>4. CASE UNCHANGED <<owner, history, usedIn, valts>>
  <2>1. \A q \in Request : Rented(q)' => Rented(q)
    BY <1>4, BookedStaysPut DEF Rented, Booked, BookedFor
  <2> QED BY <1>4, <2>1, NothingRented
<1> QED
  BY <1>1, <1>2, <1>3, <1>4
  DEF Next, Registration, Administration, Buying, GatewayAnswer, vars,
      RegisterCheck, RegisterFail, UpdateAssignee, RemoveAssignee, StartBuy,
      RefuseBuy, CallSucceeds, CallFails, AbortBuy, NotifyBuyer, Crash

\* A second rental of a vault takes it over in owner rows and subscriptions
\* alike: the payer an owner row names is the one whose subscription is for its
\* vault, and no vault that is rented is without a subscription.
THEOREM RentalsOnTheBooks == Spec => []RentalOnTheBooks
<1>1. Init => RentalOnTheBooks
  BY DEF Init, RentalOnTheBooks, Rented, Booked, BookedFor
<1> QED BY <1>1, RentalsStep, BooksInvariant, PTL DEF Spec

(***************************************************************************)
(* ValtSale implements SaleLedger                                          *)
(***************************************************************************)
\* The title of the ledger that a row stands for.
titleOf == [r \in Assignee |-> [holder |-> owner[r].assignee,
                                sale   |-> owner[r].charge]]

\* A registration opens the title of the assignee it registers.
LEMMA RegisterOpens ==
  ASSUME BooksInv, NEW a \in Assignee, RegisterCommit(a)
  PROVE  Ledger!Open(a)
<1>0. TypeOK /\ RowsInOrder
  BY DEF BooksInv, HolderInv
<1>1. person[a] = "checked" /\ wants[a] \in Valt
  BY <1>0 DEF RegisterCommit, TypeOK
<1>2. owner[a].assignee = NoAssignee
  BY <1>0, <1>1, RowsInOrderFacts
<1>3. \A u \in Assignee : owner[u].assignee # a
  BY <1>0, <1>1, RowsInOrderFacts, SentinelAssumption
<1>4. titleOf' = [titleOf EXCEPT ![a] = [holder |-> a, sale |-> NoRequest]]
  BY <1>0, <1>1 DEF RegisterCommit, SetOwner, TypeOK, OwnerRow, titleOf
<1>5. UNCHANGED <<history, generated>>
  BY DEF RegisterCommit
<1> QED BY <1>2, <1>3, <1>4, <1>5 DEF Ledger!Open, titleOf

\* A committed purchase is one booking of the ledger.
LEMMA CommitBooks ==
  ASSUME BooksInv, NEW q \in Request, CommitBuy(q)
  PROVE  \E h, t \in Assignee, parcels \in {{1}, Parcel} :
           Ledger!Book(q, h, t, parcels)
<1> DEFINE h == req[q].buyer
           t == req[q].row
           parcels == ParcelsOf(req[q].method)
<1>0. TypeOK /\ HolderInv
  BY DEF BooksInv, HolderInv
<1>1. h \in Assignee /\ t \in Assignee /\ req[q].valt \in Valt
  BY <1>0 DEF CommitBuy, TypeOK, Placed
<1>2. parcels \in {{1}, Parcel} /\ parcels # {}
  BY ParcelAssumption DEF ParcelsOf
<1>3. ~ Ledger!Booked(q)
  BY DEF BooksInv, PurchaseStates, CommitBuy, Booked, BookedFor, Ledger!Booked
<1>4. owner[t].assignee # NoAssignee
  BY <1>0 DEF HolderInv, RowStillThere, CommitBuy
<1>5. \A u \in Assignee \ {t} : owner[u].assignee # h
  BY DEF CommitBuy, Bookable
<1>6. titleOf' = [titleOf EXCEPT ![t] = [holder |-> h, sale |-> q]]
  BY <1>0, <1>1 DEF CommitBuy, SetOwner, TypeOK, OwnerRow, titleOf
<1>7. /\ history' = history \cup {<<q, h>>}
      /\ generated' = generated \cup ({q} \X parcels \X {t})
  BY DEF CommitBuy
<1>8. Ledger!Book(q, h, t, parcels)
  BY <1>1, <1>2, <1>3, <1>4, <1>5, <1>6, <1>7 DEF Ledger!Book, titleOf
<1> HIDE DEF h, t, parcels
<1> QED BY <1>1, <1>2, <1>8 DEF Ledger!Book

\* Every step of the system is a step of the ledger or none of its business.
LEMMA LedgerStep == BooksInv /\ [Next]_vars => [Ledger!Next]_(Ledger!vars)
<1> SUFFICES ASSUME BooksInv, [Next]_vars
             PROVE  Ledger!Next \/ UNCHANGED Ledger!vars
  OBVIOUS
<1>0. TypeOK
  BY DEF BooksInv, HolderInv
<1>1. ASSUME NEW a \in Assignee, RegisterCommit(a)
      PROVE  Ledger!Next
  BY <1>1, RegisterOpens DEF Ledger!Next
<1>2. ASSUME NEW q \in Request, CommitBuy(q)
      PROVE  Ledger!Next
  BY <1>2, CommitBooks DEF Ledger!Next
<1>3. ASSUME NEW v \in Valt, RemoveValt(v)
      PROVE  UNCHANGED Ledger!vars
  BY <1>0, <1>3 DEF RemoveValt, TypeOK, OwnerRow, Ledger!vars
<1>4. CASE UNCHANGED <<owner, history, generated>>
  BY <1>4 DEF Ledger!vars
<1> QED
  BY <1>1, <1>2, <1>3, <1>4
  DEF Next, Registration, Administration, Buying, GatewayAnswer, vars,
      RegisterCheck, RegisterFail, UpdateAssignee, RemoveAssignee, StartBuy,
      RefuseBuy, CallSucceeds, CallFails, AbortBuy, NotifyBuyer, Crash

\* Selling vaults with gateway calls, transactions, failures and crashes keeps
\* the promise of the ledger.
THEOREM SaleImplementsLedger == Spec => ImplementsLedger
<1>1. Init => Ledger!Init
  BY DEF Init, Ledger!Init, NoRow
<1> QED BY <1>1, LedgerStep, BooksInvariant, PTL
        DEF Spec, ImplementsLedger, Ledger!Spec

===============================================================================
