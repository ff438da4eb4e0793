------------------------------- MODULE ValtSale -------------------------------
(***************************************************************************)
(* Who holds a vault ("jazigo", table Valts) and what was billed for it.   *)
(*                                                                         *)
(* An assignee is registered on a vault and gets an owner row (ValtOwners) *)
(* for it; a purchase then bills a buyer at the payment gateway and hands  *)
(* the row of the vault to that buyer.  Registration and purchase are long *)
(* asynchronous handlers: what they checked or read can be stale when they *)
(* write, and the gateway is not part of the database transaction.         *)
(*                                                                         *)
(* Bounds: an element of Request is used by one purchase, an element of    *)
(* Assignee by one registration; a purchase in parts has one part for each *)
(* element of Parcel.                                                      *)
(*                                                                         *)
(* A definition Mutant... is the definition after it with a plausible bug, *)
(* for the mutation tests; no specification uses it.                       *)
(***************************************************************************)
EXTENDS Naturals

CONSTANTS
  Assignee,    \* ids of table Assignee; also names the row a registration adds
  Legacy,      \* imported assignees (tag OLD): on file, without an owner row
  CpfOf,       \* the tax number each assignee is registered with
  Valt,        \* ids of table Valts
  Request,     \* purchase requests; also the custom id sent to the gateway
  Parcel,      \* the instalments of a purchase paid in parts
  Offered,     \* the payment methods in use
  NoAssignee, NoValt, NoRequest

Method == {"PIX", "BOLETO", "CARNE", "CREDITO", "RECORRENCIA"}

ASSUME OfferedAssumption == Offered \subseteq Method
ASSUME LegacyAssumption == Legacy \subseteq Assignee
ASSUME SentinelAssumption ==
  /\ NoAssignee \notin Assignee
  /\ NoValt \notin Valt
  /\ NoRequest \notin Request
ASSUME ParcelAssumption == 1 \in Parcel

VARIABLES
  person,      \* Assignee -> how far the registration of this id got
  wants,       \* Assignee -> the vault the registration is for
  valts,       \* the rows of table Valts
  allocated,   \* Valt -> Valts.assigneeId
  owner,       \* Assignee -> the ValtOwners row its registration created
  req,         \* Request -> the state of a purchase request
  issued,      \* <<request, parcel>>: charges that exist at the gateway
  generated,   \* <<request, parcel, row>>: table PaymentsGenerated
  history,     \* <<request, assignee>>: table PaymentHistory
  usedIn       \* Request -> the vault its row of SubscriptionUsedIn names

vars == <<person, wants, valts, allocated, owner, req,
          issued, generated, history, usedIn>>

(***************************************************************************)
(* Data                                                                    *)
(***************************************************************************)

PersonState == {"unborn", "checked", "registered", "rejected", "removed"}

\* No row is the row whose columns are all empty.
OwnerRow == [assignee : Assignee \cup {NoAssignee},
             valt     : Valt \cup {NoValt},
             charge   : Request \cup {NoRequest}]

NoRow == [assignee |-> NoAssignee, valt |-> NoValt, charge |-> NoRequest]

IsRow(r) == owner[r].assignee # NoAssignee

\* The charges a method asks for, and the gateway calls that ask for them:
\* one call for each bank slip, one call for a whole carnet.  (The carnet in two
\* calls is for 25 parts or more, and create_flesh refuses more than 12.)
ParcelsOf(m) == IF m \in {"BOLETO", "CARNE"} THEN Parcel ELSE {1}

MutantCallsFromZero(m) ==
  CASE m = "BOLETO" -> { {i - 1} : i \in Parcel }
    [] m = "CARNE"  -> { Parcel }
    [] OTHER        -> { {1} }

CallsOf(m) == CASE m = "BOLETO" -> { {i} : i \in Parcel }
                [] m = "CARNE"  -> { Parcel }
                [] OTHER        -> { {1} }

RequestState == {"idle", "charging", "booked", "done", "failed"}

Purchase == [pc     : RequestState,
             method : Method,
             buyer  : Assignee \cup {NoAssignee},
             valt   : Valt \cup {NoValt},
             row    : Assignee \cup {NoAssignee},
             calls  : SUBSET (SUBSET Parcel)]

NoPurchase == [pc |-> "idle", method |-> "PIX", buyer |-> NoAssignee,
               valt |-> NoValt, row |-> NoAssignee, calls |-> {}]

\* A purchase under way knows its buyer, its vault and its row.
Placed ==
  \A q \in Request : req[q].pc \in {"charging", "booked", "done"} =>
    /\ req[q].buyer \in Assignee
    /\ req[q].valt \in Valt
    /\ req[q].row \in Assignee

TypeOK ==
  /\ person \in [Assignee -> PersonState]
  /\ wants \in [Assignee -> Valt \cup {NoValt}]
  /\ valts \subseteq Valt
  /\ allocated \in [Valt -> Assignee \cup {NoAssignee}]
  /\ owner \in [Assignee -> OwnerRow]
  /\ req \in [Request -> Purchase]
  /\ issued \subseteq Request \X Parcel
  /\ generated \subseteq Request \X Parcel \X Assignee
  /\ history \subseteq Request \X Assignee
  /\ usedIn \in [Request -> Valt \cup {NoValt}]
  /\ Placed

Init ==
  /\ person = [a \in Assignee |->
                 IF a \in Legacy THEN "registered" ELSE "unborn"]
  /\ wants = [a \in Assignee |-> NoValt]
  /\ valts = Valt
  /\ allocated = [v \in Valt |-> NoAssignee]
  /\ owner = [a \in Assignee |-> NoRow]
  /\ req = [q \in Request |-> NoPurchase]
  /\ issued = {}
  /\ generated = {}
  /\ history = {}
  /\ usedIn = [q \in Request |-> NoValt]

(***************************************************************************)
(* Registration                                                            *)
(***************************************************************************)
CpfTaken(a) == \E b \in Assignee \ {a} :
                  person[b] = "registered" /\ CpfOf[b] = CpfOf[a]

\* The checks of create, all before its transaction opens.
RegisterCheck(a, v) ==
  /\ person[a] = "unborn"
  /\ ~ CpfTaken(a)
  /\ v \in valts
  /\ allocated[v] = NoAssignee
  /\ person' = [person EXCEPT ![a] = "checked"]
  /\ wants' = [wants EXCEPT ![a] = v]
  /\ UNCHANGED <<valts, allocated, owner, req, issued, generated, history,
                 usedIn>>

MutantSetOwnerOnly(r, row) == [owner EXCEPT ![r] = row]

\* Connecting a row to a vault disconnects the row that held it: the relation
\* is one to one and the vault of a row is optional.
SetOwner(r, row) ==
  [x \in Assignee |->
     IF x = r THEN row
     ELSE IF owner[x].valt = row.valt THEN [owner[x] EXCEPT !.valt = NoValt]
     ELSE owner[x]]

\* The transaction of create: the assignee, Valts.assigneeId and the owner
\* row.  Nothing is checked again, and an earlier value is overwritten.
RegisterCommit(a) ==
  /\ person[a] = "checked"
  /\ wants[a] \in valts
  /\ person' = [person EXCEPT ![a] = "registered"]
  /\ allocated' = [allocated EXCEPT ![wants[a]] = a]
  /\ owner' = SetOwner(a, [assignee |-> a, valt |-> wants[a],
                           charge |-> NoRequest])
  /\ UNCHANGED <<wants, valts, req, issued, generated, history, usedIn>>

\* The transaction rolls back.
RegisterFail(a) ==
  /\ person[a] = "checked"
  /\ person' = [person EXCEPT ![a] = "rejected"]
  /\ UNCHANGED <<wants, valts, allocated, owner, req, issued, generated,
                 history, usedIn>>

\* update connects a vault to an assignee and leaves the owner rows alone;
\* Valts.assigneeId is unique, so the assignee must be on no other vault.
UpdateAssignee(a, v) ==
  /\ person[a] = "registered"
  /\ ~ CpfTaken(a)
  /\ v \in valts
  /\ \A w \in Valt \ {v} : allocated[w] # a
  /\ allocated' = [allocated EXCEPT ![v] = a]
  /\ UNCHANGED <<person, wants, valts, owner, req, issued, generated,
                 history, usedIn>>

MutantRemovePayer(a) ==
  /\ person[a] = "registered"
  /\ \A r \in Assignee : owner[r].assignee # a
  /\ person' = [person EXCEPT ![a] = "removed"]
  /\ allocated' = [v \in Valt |-> IF allocated[v] = a THEN NoAssignee
                                  ELSE allocated[v]]
  /\ UNCHANGED <<wants, valts, owner, req, issued, generated, history,
                 usedIn>>

\* Owner rows and payment history restrict the delete; Valts.assigneeId is
\* set to null by it.
RemoveAssignee(a) ==
  /\ person[a] = "registered"
  /\ \A r \in Assignee : owner[r].assignee # a
  /\ \A q \in Request : <<q, a>> \notin history
  /\ person' = [person EXCEPT ![a] = "removed"]
  /\ allocated' = [v \in Valt |-> IF allocated[v] = a THEN NoAssignee
                                  ELSE allocated[v]]
  /\ UNCHANGED <<wants, valts, owner, req, issued, generated, history,
                 usedIn>>

\* The subscriptions, with none that names the vault.
WithoutVault(v) == [q \in Request |-> IF usedIn[q] = v THEN NoValt
                                     ELSE usedIn[q]]

\* Only the drawers of a vault are looked at before it is deleted; the
\* foreign keys of its owner row and its subscription are set to null.
RemoveValt(v) ==
  /\ v \in valts
  /\ valts' = valts \ {v}
  /\ allocated' = [allocated EXCEPT ![v] = NoAssignee]
  /\ owner' = [r \in Assignee |->
                 IF owner[r].valt = v THEN [owner[r] EXCEPT !.valt = NoValt]
                 ELSE owner[r]]
  /\ usedIn' = WithoutVault(v)
  /\ UNCHANGED <<person, wants, req, issued, generated, history>>

(***************************************************************************)
(* Purchase                                                                *)
(***************************************************************************)
MutantStartBuyOwnRow(q, m, b, v) ==
  /\ req[q].pc = "idle"
  /\ person[b] = "registered"
  /\ v \in valts
  /\ \E r \in Assignee :
       /\ owner[r].assignee = b
       /\ req' = [req EXCEPT ![q] = [pc |-> "charging", method |-> m,
                                     buyer |-> b, valt |-> v, row |-> r,
                                     calls |-> CallsOf(m)]]
  /\ UNCHANGED <<person, wants, valts, allocated, owner, issued, generated,
                 history, usedIn>>

\* The reads of a purchase: buyer, vault, and the owner row of the vault.
StartBuy(q, m, b, v) ==
  /\ req[q].pc = "idle"
  /\ person[b] = "registered"
  /\ v \in valts
  /\ \E r \in Assignee :
       /\ owner[r].valt = v
       /\ req' = [req EXCEPT ![q] = [pc |-> "charging", method |-> m,
                                     buyer |-> b, valt |-> v, row |-> r,
                                     calls |-> CallsOf(m)]]
  /\ UNCHANGED <<person, wants, valts, allocated, owner, issued, generated,
                 history, usedIn>>

\* A vault without an owner row cannot be bought; nothing of the request is
\* kept.
RefuseBuy(q, b, v) ==
  /\ req[q].pc = "idle"
  /\ person[b] = "registered"
  /\ v \in valts
  /\ \A r \in Assignee : owner[r].valt # v
  /\ req' = [req EXCEPT ![q] = [NoPurchase EXCEPT !.pc = "failed"]]
  /\ UNCHANGED <<person, wants, valts, allocated, owner, issued, generated,
                 history, usedIn>>

\* A gateway call succeeds.  The calls for the slips of one purchase run
\* concurrently and go on when the purchase has failed on another of them.
CallSucceeds(q, c) ==
  /\ c \in req[q].calls
  /\ issued' = issued \cup ({q} \X c)
  /\ req' = [req EXCEPT ![q].calls = @ \ {c}]
  /\ UNCHANGED <<person, wants, valts, allocated, owner, generated, history,
                 usedIn>>

\* A gateway call fails, perhaps after the charge was made (a lost answer),
\* and the purchase fails with it.
CallFails(q, c) ==
  /\ c \in req[q].calls
  /\ issued' \in {issued, issued \cup ({q} \X c)}
  /\ req' = [req EXCEPT ![q].calls = @ \ {c}, ![q].pc = "failed"]
  /\ UNCHANGED <<person, wants, valts, allocated, owner, generated, history,
                 usedIn>>

MutantBookableTwice(q) ==
  /\ person[req[q].buyer] = "registered"
  /\ req[q].valt \in valts

\* What the database accepts: the rows the update connects to exist, and no
\* other row names the buyer (ValtOwners.assigneeId is unique).
Bookable(q) ==
  /\ person[req[q].buyer] = "registered"
  /\ req[q].valt \in valts
  /\ \A r \in Assignee \ {req[q].row} : owner[r].assignee # req[q].buyer

MutantSubscribeOnly(q) ==
  IF req[q].method = "RECORRENCIA"
    THEN [usedIn EXCEPT ![q] = req[q].valt]
    ELSE usedIn

\* A rental adds the row of its subscription and connects it to the vault,
\* which disconnects the row of an earlier rental: that relation is one to one,
\* and optional, too.
Subscribe(q) ==
  IF req[q].method = "RECORRENCIA"
    THEN [WithoutVault(req[q].valt) EXCEPT ![q] = req[q].valt]
    ELSE usedIn

MutantCommitUnawaited(q) ==
  /\ req[q].pc = "charging"
  /\ Bookable(q)
  /\ owner' = SetOwner(req[q].row, [assignee |-> req[q].buyer,
                                    valt |-> req[q].valt, charge |-> q])
  /\ history' = history \cup {<<q, req[q].buyer>>}
  /\ generated' = generated \cup
                    ({q} \X ParcelsOf(req[q].method) \X {req[q].row})
  /\ usedIn' = Subscribe(q)
  /\ req' = [req EXCEPT ![q].pc = IF req[q].method = "PIX"
                                    THEN "booked" ELSE "done"]
  /\ UNCHANGED <<person, wants, valts, allocated, issued>>

MutantCommitKeepsPayer(q) ==
  /\ req[q].pc = "charging"
  /\ req[q].calls = {}
  /\ Bookable(q)
  /\ owner' = SetOwner(req[q].row, [assignee |-> owner[req[q].row].assignee,
                                    valt |-> req[q].valt, charge |-> q])
  /\ history' = history \cup {<<q, req[q].buyer>>}
  /\ generated' = generated \cup
                    ({q} \X ParcelsOf(req[q].method) \X {req[q].row})
  /\ usedIn' = Subscribe(q)
  /\ req' = [req EXCEPT ![q].pc = IF req[q].method = "PIX"
                                    THEN "booked" ELSE "done"]
  /\ UNCHANGED <<person, wants, valts, allocated, issued>>

\* The transaction of a purchase: the row read at the start goes to the buyer
\* and the vault, with the payment history and one row for each charge.
CommitBuy(q) ==
  /\ req[q].pc = "charging"
  /\ req[q].calls = {}
  /\ Bookable(q)
  /\ owner' = SetOwner(req[q].row, [assignee |-> req[q].buyer,
                                    valt |-> req[q].valt, charge |-> q])
  /\ history' = history \cup {<<q, req[q].buyer>>}
  /\ generated' = generated \cup
                    ({q} \X ParcelsOf(req[q].method) \X {req[q].row})
  /\ usedIn' = Subscribe(q)
  /\ req' = [req EXCEPT ![q].pc = IF req[q].method = "PIX"
                                    THEN "booked" ELSE "done"]
  /\ UNCHANGED <<person, wants, valts, allocated, issued>>

MutantAbortSold(q) ==
  /\ req[q].pc = "charging"
  /\ req[q].calls = {}
  /\ req[q].buyer # req[q].row
  /\ req' = [req EXCEPT ![q].pc = "failed"]
  /\ UNCHANGED <<person, wants, valts, allocated, owner, issued, generated,
                 history, usedIn>>

\* The transaction rolls back: a constraint, a value the column refuses, the
\* five seconds the PIX transaction has.
AbortBuy(q) ==
  /\ req[q].pc = "charging"
  /\ req[q].calls = {}
  /\ req' = [req EXCEPT ![q].pc = "failed"]
  /\ UNCHANGED <<person, wants, valts, allocated, owner, issued, generated,
                 history, usedIn>>

\* PIX only: the QR code is uploaded and mailed after the commit.  When that
\* fails the purchase is reported as a payment failure and stays booked.
NotifyBuyer(q) ==
  /\ req[q].pc = "booked"
  /\ \E answer \in {"done", "failed"} :
       req' = [req EXCEPT ![q].pc = answer]
  /\ UNCHANGED <<person, wants, valts, allocated, owner, issued, generated,
                 history, usedIn>>

\* The process stops: open handlers end without an answer, open transactions
\* roll back, and calls already sent may still reach the gateway.
Crash ==
  /\ person' = [a \in Assignee |-> IF person[a] = "checked" THEN "rejected"
                                   ELSE person[a]]
  /\ req' = [q \in Request |->
               IF req[q].pc \in {"charging", "booked"}
                 THEN [req[q] EXCEPT !.pc = "failed"] ELSE req[q]]
  /\ UNCHANGED <<wants, valts, allocated, owner, issued, generated, history,
                 usedIn>>

Registration(a) == \/ \E v \in Valt : RegisterCheck(a, v)
                   \/ RegisterCommit(a)
                   \/ RegisterFail(a)

Administration ==
  \/ \E a \in Assignee : \/ RemoveAssignee(a)
                         \/ \E v \in Valt : UpdateAssignee(a, v)
  \/ \E v \in Valt : RemoveValt(v)

MutantAnswerCharging(q) ==
  /\ req[q].pc = "charging"
  /\ \E c \in req[q].calls : CallSucceeds(q, c) \/ CallFails(q, c)

GatewayAnswer(q) == \E c \in req[q].calls : CallSucceeds(q, c)
                                            \/ CallFails(q, c)

Buying(q) ==
  \/ \E m \in Offered, b \in Assignee, v \in Valt :
       StartBuy(q, m, b, v) \/ RefuseBuy(q, b, v)
  \/ GatewayAnswer(q)
  \/ CommitBuy(q)
  \/ AbortBuy(q)
  \/ NotifyBuyer(q)

Next ==
  \/ \E a \in Assignee : Registration(a)
  \/ Administration
  \/ \E q \in Request : Buying(q)
  \/ Crash

Spec == Init /\ [][Next]_vars

(***************************************************************************)
(* Fairness: an HTTP call to the gateway is answered or times out, a       *)
(* transaction commits or rolls back, an upload ends.  Users and crashes   *)
(* are never owed.                                                         *)
(***************************************************************************)
Ends(q) == CommitBuy(q) \/ AbortBuy(q)

FairSpec ==
  /\ Spec
  /\ \A q \in Request : /\ WF_vars(GatewayAnswer(q))
                        /\ WF_vars(Ends(q))
                        /\ WF_vars(NotifyBuyer(q))

(***************************************************************************)
(* Properties                                                              *)
(***************************************************************************)
BookedFor(q, a) == <<q, a>> \in history

Booked(q) == \E a \in Assignee : BookedFor(q, a)

BilledOn(q) == { r \in Assignee : \E i \in Parcel : <<q, i, r>> \in generated }

\* A vault is held through at most one owner row, and an assignee is named by
\* at most one: however registrations, purchases and deletes interleave, no
\* vault is sold to two holders at the same time.
OneHolderPerVault ==
  \A r, s \in Assignee : r # s /\ IsRow(r) /\ IsRow(s) =>
    /\ owner[r].assignee # owner[s].assignee
    /\ owner[r].valt # NoValt => owner[r].valt # owner[s].valt

\* The books agree with the gateway: a purchase is in the payment history for
\* its buyer only, exactly when all its charges are rows of PaymentsGenerated
\* on the row it was made for, and every one of them exists at the gateway; a
\* purchase that was answered is on the books, and one that failed is not,
\* unless it is a PIX whose notification failed.
SaleOnTheBooks ==
  \A q \in Request :
    /\ \A a \in Assignee : BookedFor(q, a) => a = req[q].buyer
    /\ Booked(q) =>
         /\ {q} \X ParcelsOf(req[q].method) \subseteq issued
         /\ \A i \in Parcel, r \in Assignee :
              <<q, i, r>> \in generated <=>
                i \in ParcelsOf(req[q].method) /\ r = req[q].row
    /\ ~ Booked(q) => BilledOn(q) = {}
    /\ req[q].pc \in {"booked", "done"} => Booked(q)
    /\ Booked(q) /\ req[q].pc = "failed" => req[q].method = "PIX"

\* The charge an owner row carries is a booked purchase of the assignee the row
\* names, billed on that very row: a notification of the gateway, which finds
\* the row by the charge, reaches the one who owes it.
ChargeNamesItsPayer ==
  \A r \in Assignee : owner[r].charge # NoRequest =>
    /\ BookedFor(owner[r].charge, owner[r].assignee)
    /\ BilledOn(owner[r].charge) = {r}

\* Whoever is named by an owner row or owes a payment is still on file: an
\* assignee deleted while a purchase is under way is never booked.
PayersOnFile ==
  /\ \A r \in Assignee : IsRow(r) => person[owner[r].assignee] = "registered"
  /\ \A q \in Request, a \in Assignee :
       BookedFor(q, a) => person[a] = "registered"

Rented(q) == Booked(q) /\ req[q].method = "RECORRENCIA"

\* Who rents a vault agrees in three tables, though a second rental of a vault
\* is not refused and takes it from the first: only a booked rental of a vault
\* is its subscription, a vault has one at most, one while it is on file if it
\* was ever rented, and an owner row that carries a rental and a vault is of
\* the assignee whose subscription names that vault.
RentalOnTheBooks ==
  /\ \A q \in Request : usedIn[q] # NoValt =>
       Rented(q) /\ usedIn[q] = req[q].valt
  /\ \A p, q \in Request : p # q /\ usedIn[p] # NoValt => usedIn[p] # usedIn[q]
  /\ \A q \in Request : Rented(q) /\ req[q].valt \in valts =>
       \E p \in Request : usedIn[p] = req[q].valt
  /\ \A r \in Assignee, q \in Request :
       owner[r].charge = q /\ Rented(q) /\ owner[r].valt # NoValt
         => usedIn[q] = owner[r].valt

\* A row never moves to another vault: a purchase works with the row it read
\* when it started, and by then the row may have lost its vault; committing
\* can only give it back the same one.
RowKeepsItsVault ==
  [][\A r \in Assignee :
       owner[r].valt # NoValt /\ owner'[r].valt # NoValt
         => owner'[r].valt = owner[r].valt]_vars

\* A row changes hands only by a purchase whose charges all exist, and the row
\* carries that purchase from then on.
TransferIsPaidFor ==
  [][\A r \in Assignee :
       IsRow(r) /\ owner'[r].assignee # owner[r].assignee =>
         \E q \in Request :
           /\ owner'[r].charge = q /\ owner[r].charge # q
           /\ {q} \X ParcelsOf(req[q].method) \subseteq issued]_vars

\* A purchase is a single booking of the abstract ledger, or nothing, under
\* every interleaving, lost answer, partial failure and crash.
Ledger == INSTANCE SaleLedger WITH
  Holder <- Assignee, NoHolder <- NoAssignee,
  title  <- [r \in Assignee |-> [holder |-> owner[r].assignee,
                                 sale   |-> owner[r].charge]],
  ledger <- history,
  bills  <- generated

ImplementsLedger == Ledger!Spec

\* Every purchase that started is answered, and no call to the gateway stays
\* open for ever, also those that outlive a failed purchase.
EveryPurchaseAnswered ==
  \A q \in Request :
    req[q].pc \in {"charging", "booked"} ~> req[q].pc \in {"done", "failed"}

EveryCallSettles == \A q \in Request : <>[](req[q].calls = {})

\* What the check of create says of its vault (assignee.service.ts:174-178): a
\* vault that is allocated to an owner is not given to a new one.
NoReallocation ==
  [][\A a \in Assignee :
       person[a] = "checked" /\ person'[a] = "registered"
         => allocated[wants[a]] = NoAssignee]_vars

\* A vault that create refuses because it is allocated to an owner is not one a
\* purchase refuses because it has no owner (buy-valt-billet.ts:40-44).
AllocatedHasOwner ==
  \A v \in Valt : allocated[v] # NoAssignee =>
    \E r \in Assignee : owner[r].valt = v

(***************************************************************************)
(* What keeps the properties true: the state of the rows, and what is      *)
(* still true of the row a purchase read when it started.                  *)
(***************************************************************************)
RowsInOrder ==
  \A r \in Assignee :
    IF IsRow(r) THEN /\ person[r] \in {"registered", "removed"}
                     /\ person[owner[r].assignee] = "registered"
                ELSE owner[r] = NoRow

RowStillThere ==
  \A q \in Request : req[q].pc = "charging" =>
    /\ IsRow(req[q].row)
    /\ owner[req[q].row].valt \in {req[q].valt, NoValt}

SameRowSameVault ==
  \A p, q \in Request :
    req[p].pc = "charging" /\ req[q].pc = "charging" /\ req[p].row = req[q].row
      => req[p].valt = req[q].valt

HolderInv ==
  /\ TypeOK
  /\ RowsInOrder
  /\ RowStillThere
  /\ SameRowSameVault
  /\ OneHolderPerVault

\* Nothing is booked of a purchase that did not commit, a call is open only
\* before the commit or after a failure, only a PIX is answered in a step of its
\* own, and a parcel of a charging purchase is issued or in an open call.
PurchaseStates ==
  \A q \in Request :
    /\ req[q].pc \in {"idle", "charging"} => ~ Booked(q)
    /\ req[q].pc \in {"idle", "booked", "done"} => req[q].calls = {}
    /\ req[q].pc = "booked" => req[q].method = "PIX"
    /\ req[q].pc = "charging" =>
         \A i \in ParcelsOf(req[q].method) :
           <<q, i>> \in issued \/ \E c \in req[q].calls : i \in c

\* The row a charge is on is the one its purchase was made for.
ChargeOnItsRow ==
  \A r \in Assignee : owner[r].charge # NoRequest =>
    /\ BookedFor(owner[r].charge, owner[r].assignee)
    /\ req[owner[r].charge].row = r

BooksInv ==
  HolderInv /\ PurchaseStates /\ SaleOnTheBooks /\ ChargeOnItsRow

SaleInv == BooksInv /\ PayersOnFile /\ RentalOnTheBooks

===============================================================================
