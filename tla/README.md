# Specifications of the Cemfy API

Cemfy is the back end of a cemetery manager: NestJS handlers over a PostgreSQL
database (Prisma), a payment gateway (EFI) that is called and that calls back,
file storage, mail and a contract signing service. This directory holds TLA+
modules of the parts of it that keep state over several steps, the TLC
configurations that check them, and TLAPS proofs.

All paths are those of the repository; `…/` stands for
`src/src/domain/graveyard/` unless another directory is named.

## 1. Inventory

The API is one process of many concurrent asynchronous handlers. Every `await`
is a point where another handler runs; the only things that are atomic are one
database statement and one Prisma `$transaction` (read committed: it serialises
nothing, it only commits or rolls back together). The gateway is outside of
every transaction. When the process stops, open transactions roll back and calls
that were sent may still arrive.

| Part | State | Operations | What is hard | What makes it correct |
|---|---|---|---|---|
| Assignees (`…/assignee/assignee.service.ts`) | `Assignee`, `Valts.assigneeId`, `ValtOwners` | create, update, remove | checks before the transaction; an allocation overwritten; deletes restricted by rows that appear meanwhile | one holder per vault; whoever owes is on file |
| Vault sales (`…/valts/valts.service.ts`, `…/valts/functions/buy-*`, `rent-*`) | `ValtOwners`, `PaymentHistory`, `PaymentsGenerated`, `SubscriptionUsedIn`, charges at the gateway | buyValt with PIX, slips, carnet, card, subscription | the owner row is read minutes before it is written; charge made and then rolled back; lost answers; parallel slips | a sale is booked completely or not at all, on one row, for one buyer; subscription and owner row agree on who rents |
| Notifications (`src/src/domain/payments/hooks`) | statuses of `PaymentsGenerated` and `ValtOwners`, `SubscriptionCharges`, `DelinquencyRecords` | POST /hooks/charge | redelivery, overlap, reports before the sale commits, a throw at every stage, writes that fail unnoticed | rows say what the gateway reported; what is confirmed was applied, or given up and logged |
| Delinquency (`src/src/core/utils/verify-defaulter.ts`) | none | verifyDefaulters | counts reports | nobody is judged on fewer than two bad reports |
| Financial management (`src/src/domain/management`) | table and a static copy of its active record | create, update, remove, load at start | three steps without a transaction; copy and table drift apart | one active record, and the copy is it |
| Drawers, burials, exhumations (`…/drawers`, `…/deceaseds`, `…/exhumation`, `…/valts`) | `Drawers.status`, `Deceased.drawersId`, `Exhumation`, `DrawersHistory` | add and remove a drawer, remove a vault, bury, exhume | three writes without a transaction; a look before a delete | an occupied drawer is not offered; exhumations are on file |
| Delinquency records (`…/defaulters/defaulters.service.ts`) | `DelinquencyRecords` | create, update, remove | the plan comes from the static copy, the assignee is looked up in another table; both may go before the insert | nothing names what is gone; one record for a plan |
| Squares, graveyards, vaults, drawers by name (`…/squares`, `…/valts`, `…/drawers`, `src/src/domain/admin/graveyards`) | `Graveyards`, `Squares`, `Valts`, `Drawers` | create, update, remove | names and numbers looked up before they are written, in one square while the index is over all | everything is in something on file; names apart; no more drawers than the vault has |
| Maintenance (`…/valts/functions/maintenance-*`) | `ValtMaintenance`, `PaymentsGenerated` | valtMaintenance | charge, row and payment rows one by one, without a transaction; slips side by side | rows are written only for what is at the gateway, and for a vault its payer had |
| Local payment (`…/assignee/assignee.service.ts:1033-1268`) | `LocalPayment`, `Assignee.saleValue`, owner row | buyValtLocalPayment | debt, row and promotions read before the receipt is uploaded | debt not overdrawn; paid in full by the one who is named |
| Return file (`…/assignee/assignee.controller.ts:170-215`) | `PaymentOld` | one line after the other | a line throws midway | payments are marked from the top |
| Contracts (`…/assignee/assignee.service.ts:291-554`, `…/assignee/hooks`) | document at D4Sign, `Documents`, flag of the vault, status of assignee and row | generate, upload, webhook | three services, no transaction; an upload nobody waits for, whose failure stops the process; a signature before the document is stored | a row is active by a signature; a signature that was applied shows; who has only open documents is off |
| Promotions (`…/promotions`, `…/valts/functions/verify-promotions.ts`) | `Promotions`, `promotionId` of graveyard and types | create, switch, assign, remove, look up | averaged over names that need not differ; reassigned during a payment | no price below that of the best single promotion |
| Memorials and tributes (`…/memorial`, `…/deceaseds`) | `Memorial`, token and quota | create, link, tribute | quota checked, written and counted in three steps; a refusal clears the token it finds | a token is good for its quota, and until it is used up |
| Funerals (`…/funeral`) | reservations, status of room and deceased | reserve, finish | check and write read committed; finishing writes the clock | a room is given to one at a time |
| Sectors, services, users | one row each | create, read, update, delete | nothing over several steps | not modelled |
| Storage, mail, queue, authentication | none of the API's own | I/O | – | not modelled, except where a request waits for it or its failure stops the process |

The parts meet in the database: a purchase reads the copy of the financial
record and the owner row; a hook finds the sale by the custom id the purchase
put on the owner row; a vault is shared by its owner row, its subscription, its
maintenance row and its drawers; a contract, a maintenance and a payment at the
office find their owner row by the assignee or by the vault, each at its own
time; a deceased is shared by drawer, memorial and funeral; a delinquency record
points at a financial record and an assignee that others delete.

## 2. Modules

| Module | Models |
|---|---|
| `ValtSale` | registration, purchase, deletes, gateway, crash |
| `SaleLedger` | what `ValtSale` promises, as an abstract specification |
| `ValtSaleProofs` | theorems about `ValtSale` |
| `PaymentHooks` | one purchase after it is billed: gateway history, hook calls, statuses, delinquency |
| `ReportLedger` | what `PaymentHooks` promises, as an abstract specification |
| `PaymentHooksProofs` | theorems about `PaymentHooks` |
| `FinancialManagement` | records and the static copy |
| `FinancialManagementProofs` | theorems about `FinancialManagement` |
| `Burial` | drawers, burials, exhumations, removal of vaults |
| `BurialProofs` | theorems about `Burial` |
| `Requests` | the bound of the models of the office: requests by kind, and scenes |
| `OwnerRows` | owner rows as the office finds them |
| `Contract`, `Promotions`, `LocalSale`, `Maintenance` | what is done to a vault and its owner row at the office |
| `BankReturn` | the return file |
| `Departed`, `Memorial`, `Funeral` | what is done about a deceased |
| `Desk` | these parts composed: one process, its stop, and the removals |
| `DeskProofs` | types of `Desk` and lemmas about its parts |
| `DeskSaleProofs` | theorems about contracts, promotions, payments, maintenance |
| `DeskServiceProofs` | theorems about return files, memorials, funerals |
| `Defaulters` | delinquency records, beside the financial records they extend |
| `Grounds` | graveyards, squares, vaults and drawers by name |
| `Administration` | `FinancialManagement`, `Defaulters` and `Grounds` in one process |
| `AdministrationProofs` | theorems about `Administration` |
| `MC…` | instances for TLC: values of the constants, symmetry |

A definition called `Mutant…` is a plausible bug of the definition after it (a
dropped guard, a missing reset, an off-by-one). No specification uses it; it
replaces that definition when the properties are tested for what they detect.

### ValtSale

One action per stretch of code between two awaits that matter.
`RegisterCheck` is everything `create` does before its transaction,
`RegisterCommit` the transaction. `StartBuy` is the three reads of a purchase
(buyer, vault, owner row: nothing between them depends on the others being
fresh, so one step stands for them), `CallSucceeds` and `CallFails` the answers
of the gateway, `CommitBuy` and `AbortBuy` the transaction, `NotifyBuyer` what a
PIX does after it. The six payment functions differ in which calls they make
(`CallsOf`), in how many charges (`ParcelsOf`) and in the subscription row, and
share the rest. In the code the call is made inside the transaction callback for
some methods and before it for others; in both, nothing is written to the
database before the call is answered, so one action is right for both.

`owner` is the table `ValtOwners`, indexed by the assignee whose registration
created the row, since rows are created nowhere else and never deleted. The
unique indexes and foreign keys (`src/prisma/schema`) are guards: `Bookable`
for the index on `ValtOwners.assigneeId`, `SetOwner` and `Subscribe` for the
disconnect Prisma does on an optional one-to-one relation, `RemoveAssignee`,
`RemoveValt` and `WithoutVault` for RESTRICT and SET NULL. So a second rental of
a vault is not refused: it takes the vault from the subscription of the first
(`usedIn`), as a second registration takes it from the first owner row. `AbortBuy` is
always possible before a commit: a value an Int column refuses, a timeout, a
foreign key. A refusal before the first call (no active financial record, a
method that is not allowed) is a `CallFails` that issues nothing.

Abstractions: amounts, promotions and dates are left out. The tax number of an
assignee is fixed. Vaults are not created during a run; an imported assignee
(`Legacy`) is one that is on file without an owner row. The request id is the
custom id: the code draws a random one per purchase. Parts are numbered; a
purchase in parts has all of `Parcel`.

### PaymentHooks

The history of a notification token at the gateway (`log`) grows; a call of the
hook carries the length of the history it read (`seen`) and works through it one
database write at a time. Exceptions end the call without an answer (`Throw`:
the controller logs and never responds), so the gateway calls again. A call that
is answered moves `acked`. The writes for one report stand in a `try` of their
own: one that fails (`WriteFails`) is logged, the rest of that report is
skipped, and the call goes on to the next one and to its answer, so that the
gateway never learns of it. `logged` is a history variable: the reports whose
last write was given up. A subscription has two writes for a report, its row
(`ApplyReport`) and a charge on file (`FileReport`), and a failure or a stop may
come between the two. Any other query that fails ends the call (`QueryFails`).
`Resell` is a later purchase that puts its own charge on the owner row, after
which the hook no longer finds this one.

`ReportLedger` is this without calls: one report is applied, the gateway is
told, or a debt is recorded, each in one step that names the report it rests on;
what is told must be filed or given up (`dropped`) for the kinds that are filed
(`Filing`). From the second bad report on nothing is applied or told. It is read
off the tables; calls, judgements, throws and crashes are invisible.

Each purchase is one `kind` at the gateway. The rows of a carnet carry charge
ids and its notifications the carnet id, so no row is updated for it
(`NeverWritten`). Two columns are Int: `wholeParts` says whether the price of a
part is whole, and decides whether the records that carry it can be written.

### FinancialManagement

`Deactivate`, `Write` and `Copy` are the three steps of create and update;
`CheckActive` and `Delete` those of remove. `version` tells an old row from a
new one. `overlapped` is a history variable: have two requests ever run side by
side? The properties that need requests one at a time say so with it.

### Burial

`BuryCheck`/`Bury`, `AddCheck`/`AddDrawer`, `RemoveValtCheck`/`RemoveValt` are
check and act of one request; an exhumation is its check and three writes
(`Record`, `Free`, `Note`). `exhumations` maps a request to the row it made.
`UpdateExhumation` corrects such a row, which may then name another deceased and
another drawer; nothing else changes with it, neither drawers nor the history.
`spent` and `recorded` are history variables:
`spent` gives drawers and deceased an id once, `recorded` remembers exhumations
that were deleted since. A burial is not moved: the update of a deceased with a
drawerId hands Prisma a field it refuses (`…/deceaseds/deceaseds.service.ts:279-432`).
A drawer edited directly (`DrawersService.update`) is not modelled.

### Desk and its parts

Each part is a module of its own with its variables, its type invariant, one
action per stretch of code between two awaits that matter, and an operator
`…AfterStop` that says what is left of its requests when the process stops.
`Desk` EXTENDS them all: its `Next` takes a step of one part while the others
stay, edits the file of an assignee, removes an assignee, a vault or a deceased
(with what the foreign keys restrict or clear in every part), or stops the process.

`UpdateAssignee` is one statement of `AssigneeService.update` that writes the
status (`SwitchByHand`) and what is owed (`TypeDebt`) from the form, whatever they
have become since the form was filled in. A debt is not negative (`OwedTyped`).
What else it writes is no column here; the vault it may give is in `ValtSale`.

One behaviour plays one scene: what is on file at first, and the most requests
of each kind. A request takes its number when it starts (`Take`), and the number
is also the id of the row, the token and the custom id it draws, all of which the
code draws fresh. A request that is refused before it changes or waits for
anything is no request here.

- `OwnerRows`. `Handover` is the update of an owner row by a payment: buyer,
  vault, custom id; `isActive` is left as it was. `held` is a history variable:
  which vaults a row has held for whom.
- `Contract`. The upload is called without `await`
  (`…/assignee/assignee.service.ts:395`): it goes on beside its request in four
  steps (post, invite and register the webhook, status of the assignee,
  document). `Decide` is the signer; `HookCalled` the webhook, which looks the
  document up. One that comes before `StoreDocument` finds none, and is answered
  200 and dropped; the others go through `MarkDocument`, `EnableAssignee` and
  `ActivateRow`, each one statement. `UploadThrows` is a rejection nobody
  handles: Node ends the process, so `Desk` joins it with `Stop`. Contracts of
  the other types have no template and yield no PDF.
- `Promotions`. A discount is looked up in the step that does the other reads of
  a payment; that two of its reads see different assignments is left out. Types
  are matched by name, and the types of an assignment are checked against the
  ids of vaults, as the code does. Assignments to services are left out: no
  payment reads them.
- `LocalSale`. `LocalStart` is everything before the receipt is uploaded,
  `LocalBook` the transaction, which writes the row that was read. A form is
  multipart, so that the string 'false' counts as an entry; a payment of several
  parts writes a column its table lacks and always rolls back (`Bookable`).
- `BankReturn`. One step per line; the controller works through the file itself.
- `Maintenance`. `CallsFor` says which calls each method and choice really
  makes: some throw on an undefined `this` before any call. Slips are requested
  side by side, so the first refusal fails the request while the others go on
  (`CallGoesOn`). Limits of the financial record only refuse slips, before any
  is issued, and are left out.
- `Memorial`. A memorial is made by the entry of a deceased with dates (`Born`)
  or on request. `LinkWrite` writes token and quota; a tribute is checked,
  posted and counted. A check that fails clears the token (`TributeClear`), by
  then perhaps another. Removal is unreachable: its route hands the id on as a
  string.
- `Funeral`. The clock `now` counts slots. Rooms are given, with any status, as
  `create_room` enters them; no code sets one free again. The status of the
  deceased, which a reservation sets, is left out: the forms of a deceased write
  it too (`…/deceaseds/deceaseds.service.ts:56`, `:314`), and nothing reads it.

History variables (`held`, `raced`, `byHand`, `crowded`, `sideBySide`, `late`)
remember overlaps. `raced` is about two payments of one assignee, and about a
payment during which his debt is typed in lower; `byHand` has the assignees
whose status was last written by hand, and switched on. A property that says
"alone" holds for what no two requests crowded: with an overlap the code does
break it, and the property marks how far it goes.

### Administration

`Defaulters` EXTENDS `FinancialManagement`: `RequestStep` is a step of a request
about plans, with what the foreign key does to the record of a plan that is
deleted (SET NULL). A record is made in three steps: `CreateLookUp` looks the id
of the assignee up in the table of users, `ReadActive` takes the static copy,
`CreateRecord` connects both or is rolled back. The column of the plan is unique,
so connecting takes the plan from the record that had it (`WithoutPlan`).
`Judged` is the record the hook makes. Users never go; dates, amounts and the
status are left out, since nothing reads them.

`Grounds` has a look and a write of one request each for squares, vaults and
drawers; what one statement does (`Serve`) is one step. `drawers` maps a name to
its vault: the column is unique, and the names of the drawers a vault is made with
derive from the name of the vault (`Label`). The unique indexes are over all
squares and all vaults, the look-ups in one graveyard or square. `crowded`
remembers vaults to which two requests added drawers side by side, or whose
number was lowered. Drawers are never in use here (see `Burial`); the making of
graveyards, sectors and services is left out, as is the update of a square with a
sector, which Prisma refuses.

`Administration` composes the three in one process: a restart ends the requests
of all. A scene says how many requests of each kind come in.

## 3. Runs

| Run | Instance | Shows |
|---|---|---|
| `sale` | 1 vault, 2 assignees to register and 1 imported, 2 purchases, 2 parts, all five methods | types; `SaleOnTheBooks`, `ChargeNamesItsPayer`, `PayersOnFile`, `RentalOnTheBooks`, `TransferIsPaidFor`; `ImplementsLedger` |
| `sale_vaults` | 2 vaults, 1 purchase, fairness | `OneHolderPerVault`, `RowKeepsItsVault`, `EveryPurchaseAnswered`, `EveryCallSettles` |
| `hooks` | one token for two parts, 2 overlapping calls, 3 reports, 1 record, 1 fault, all kinds | `ImplementsReports`, which implies that a status was reported (`StatusesReported`); `DefaultersJudged`, `FrozenOnceDefaulter`, `ConfirmedIsOnFile` |
| `hooks_shown` | a token for each of two slips, one call at a time, fairness | `ReportsShown` |
| `plans` | two records, two ids, two graveyards, two names, up to two drawers; scenes with four requests about plans; one about plans and two about delinquency records; three about plans and two about delinquency records, without a restart and with one id; four about the grounds; 1 restart in the others | `CopyWasActive`, `AloneOneActive`, `AloneKeepsActive`; `RecordsOnFile`; `PlacedOnFile`, `AloneWithinQuantity` |
| `burial` | 1 vault, 2 drawers, 2 deceased (one without a burial date), 4 requests, corrections of exhumations | `FreedByExhumation`, `ExhumationsOnFile`, `NotedOnce` |
| `desk` | 13 scenes of up to 6 requests; two assignees, vaults, promotions and deceased, one room, files of three lines | `ActiveBySignature`, `SignatureApplied`, `PendingIsDisabled`; `DebtCovered`, `PriceWithinPromotions`, `PaidByHolder`; `PaidFromTheTop`; `MaintenanceBooked`; `AloneWithinQuota`, `AloneTokenStands`; `RoomsNotShared` |
| `sale_race` | finding | a vault is given to a second registration |
| `sale_stuck` | finding | a vault is allocated and ownerless at once |
| `hooks_count` | finding | one parcel makes a defaulter |
| `plans_stale` | finding | the copy outlives its record's activation |
| `burial_vault` | finding | a vault is removed with an occupied drawer |

Why the bounds are enough. Every race in this code is between two handlers, and
each model has two of each kind that race; the hazards of the sale need at most
one row lost by a third (hence three assignees) and two parts, one issued and
one not. Two purchases on one vault contend for every row, and two rentals for
the subscription; two vaults are needed only for a row to move, which one
purchase can try. A history of three reports is the shortest that has two bad
reports and a payment after them; two reports are the shortest that meets the
read of `data[1]`. In `hooks_shown` two tokens of two reports suffice for a late
answer on each. One fault, a stop, a lost answer or a failure of the database,
can fall between any two steps of a call. In `plans`, four requests on two
records include an update of a record just activated together with a removal and
a creation, and one restart. In `burial`, four requests are two burials and two
exhumations, or an exhumation between a look at the drawers and the removal. In
the scenes of the grounds, four requests make a square and a vault and let two
more contend for them. A delinquency record is connected to the plan of the
static copy, and a plan that was ever the copy is deleted only after three
requests have made it active, turned it off and removed it: hence the scene
`deleted`, in which two more make, change or remove a record or are judged
meanwhile. The restart, which empties the copy, and the ids that no user has are
in the scene `records`, which needs but one plan. Requests of different kinds,
and plans, graveyards and names, share model values there, since nothing
compares them: one symmetry group serves all.

A scene of `desk` puts together the requests that read what the others write:
two contracts of one assignee; a contract and a removal, or a sale of its vault;
a contract, or two payments, beside two edits of the assignee's file, which may
switch him on and off again, or lower and raise his debt; a payment beside two
assignments of promotions; three payments on one debt, in forms that pay it off,
take an entry from it, or are refused; two files with a line that fails; two
maintenances of every method and choice (MENSAL has its twelve parts); a
maintenance whose vault is sold or removed; memorials, links and removals; four
tributes, one more than the quota of three; two reservations of one room over a
clock of three slots, and a removal. The requests are numbered, so that this run
has no symmetry. The theorems below hold for every instance.

Fairness (`FairSpec`). In `ValtSale`: a gateway call is answered or times out, a
transaction commits or rolls back (all have a timeout), an upload ends. In
`PaymentHooks`: a call of the hook runs on (every await settles), and the gateway
calls again about each token until it is answered, which is the documented
contract of its notifications; that is strong fairness, since a call to one token
may keep the only handler busy when another is due. Users, reports and crashes
are never owed; crashes, lost answers and failures of the database are bounded by
`MaxFaults` there, as no delivery can be promised under faults without end.
`ReportsShown` excepts a report whose last write failed: the call is answered all
the same, and it is not sent again. `ReportsShown` is checked
with one call at a time: with two, an older call can write its older status after
a newer one was confirmed, and nothing repairs it. `CHECK_DEADLOCK FALSE` stands
where every request may be used up or every bound reached.

`sale` has no fairness: its properties are safety. Symmetry is used only in runs
without liveness.

## 4. Findings

1. `sale_race` – `create` of an assignee checks the vault outside of its
   transaction (`…/assignee/assignee.service.ts:174`) and overwrites the
   allocation in it. Two overlapping registrations both succeed; the first one
   keeps an owner row without a vault.
2. `sale_stuck` – `update` of an assignee (`:874`) allocates a vault without an
   owner row. It can then be neither registered nor bought.
3. `hooks_count` – `verify-defaulter.ts:103` counts reports, its comment (`:102`)
   says parcels.
4. `plans_stale` – turning the active record off leaves it in the static copy
   (`management.service.ts:119`); GET /management/active and every purchase go on
   with it until the next restart or activation. No overlap is needed.
5. `burial_vault` – the removal of a vault looks at its drawers before the
   transaction that deletes them (`…/valts/valts.service.ts:657-671`).

Behaviour the models state without a document that contradicts it:

- Two overlapping activations leave two active records.
- A defaulter's call is never confirmed, so records pile up and a later payment
  is not shown.
- An exhumation frees a drawer in which somebody else lies and keeps its first
  two writes when the third fails.
- A write of a notification that fails is logged, and the call is answered 200: the
  report is never sent again, and neither its row nor its charge shows it
  (`WriteFails`).
- A second rental of a vault is booked and takes the vault from the subscription of
  the first, which goes on being charged and names no vault (`Subscribe`).
- Charges of failed purchases stay at the gateway.
- A signature that comes before the document is stored is answered 200 and
  dropped; the contract waits for ever (`HookCalled`).
- A rejected upload stops the process, and with it every other request
  (`UploadThrows`).
- `isActive` of an owner row survives its handover to another assignee
  (`Handover`).
- A maintenance by PIX in parts, or by card, throws before any call
  (`PixCalls`, `CreditCalls`); a payment at the office in several parts always
  rolls back (`Bookable`); the string 'false' makes a payment an entry
  (`IsEntry`).
- Two entries of one assignee side by side overdraw what he owes, and so does one
  during which his debt is typed in lower (`raced`); an assignee can be switched on
  by hand while all his documents wait (`byHand`); two
  reservations of one room side by side are both booked (`sideBySide`); a funeral
  finished late runs into the next one (`late`).
- A refused tribute clears the token of a link that was sent meanwhile
  (`TributeClear`).
- A second maintenance takes the vault from the row of the first
  (`RecordMaintenance`).
- Types of vault are checked against the ids of vaults (`TypesAccepted`).
- A return file stops at the line that throws, and nothing says where.
- A square is removed with vaults in it: the code expects the database to refuse
  (`…/squares/squares.service.ts:272`), but the foreign key is SET NULL
  (migration 20250407174628), so they are in no square (`RemoveSquare`).
- A vault is refused for a name that is free in its square, if another square has
  it, or drawers that kept it when their vault was renamed (`CreateValt`).
- A delinquency record is refused for an assignee whose id no user has, and goes
  on to the insert for one that does not exist (`CreateLookUp`).

## 5. Proofs

`ValtSaleProofs`, for any sets of assignees, vaults, requests and parts (with the
assumptions of `ValtSale`: the sentinels are outside of their sets, imported
assignees are assignees, part 1 exists):

- `TypeCorrect`: `Spec => []TypeOK`.
- `HoldersUnique`, `RowsKeepTheirVault`. `OneHolderPerVault` is not inductive: a
  purchase writes the row it read long ago, which may have lost its vault or
  belong to somebody else. `HolderInv` adds what is still true of that row
  (`RowStillThere`: it exists, and is on the vault of the purchase or on none)
  and that two purchases of one row are for one vault (`SameRowSameVault`); with
  `SetOwner`, which takes the vault from whoever holds it, the commit can neither
  duplicate nor move a vault.
- `BooksAgree`, `ChargesNameTheirPayer`, `TransfersArePaidFor`, from `BooksInv`:
  before the commit nothing is booked and each part is issued or in an open call
  (`PurchaseStates`), and the charge on a row was booked on that row
  (`ChargeOnItsRow`).
- `PayersStayOnFile`, relative to `HolderInv`. Who is named by an owner row is on
  file by `RowsInOrder`. Who is booked stays on file since a delete is restricted
  by the payment history, and a commit looks at the buyer again: that the purchase
  found him when it started is worth nothing by then (`OnFileUntilRemoved`,
  `PayersStep`).
- `RentalsOnTheBooks`, relative to `BooksInv`. Owner rows and subscriptions are
  taken over in one transaction (`RentRentals`), a purchase of another method puts
  its own charge on the row and leaves the subscription (`NothingRented`), a removal
  of the vault clears both (`RemoveValtRentals`), and a booking is never taken back
  (`BookedStaysPut`).
- `SaleImplementsLedger`: every step is a step of `SaleLedger` or a stutter, with
  the titles read off the owner rows.

`PaymentHooksProofs`, for any tokens (there is one at least), parcels, reported
statuses, handlers and bounds, and any kinds among charge, carnet and
subscription:

- `TypeCorrect`. The types say which texts a row may carry and that the owner row
  carries a value of the enum of its column; an update with a status the program
  does not know leaves both alone (`WrittenType`). A call is inside the history it
  read, and applies only reports of it.
- `StatusesAreReported`, `DefaultersAreJudged`, `ConfirmedMeansOnFile` from
  `HooksInv`. None of the three is inductive: a call writes what an earlier step
  of it decided on, while others write the same rows. `CallsInOrder` says what a
  call has behind it at each point: it found the owner row, judged what it read to
  be no default (or to be one, before it records it), and has filed the reports before
  `i` or given them up (`Dealt`): a write that fails puts its report in `logged`
  before the call goes on, and one that is made takes it out only when the report is
  on file. That stays true of a call while others go on
  (`OthersDoNotDisturb`), because histories only grow, so the judgement of what
  was read cannot change (`JudgementStands`, `HistoriesKept`), counts never go
  down, and a sale that is on the books stays there (`FactsStand`).
- `HooksImplementReports`: every step is a step of `ReportLedger` or a stutter
  (`ReportsStep`). A call goes through its history step by step while others do;
  each step of it is justified alone, by what `CallInOrder` says of the call and
  because what precedes a report in a history that is no default is no default
  (`NoDefaultBefore`). There is one lemma for each kind of write (`ApplyIsShow`,
  `FileIsFile`, `FailIsDrop`).
- `DefaultersAreFrozen`: only a call that judged its history no default writes
  (`WritersOnly`).
- `CallsEnd`: a call takes at most twice the reports it read and three steps more
  (`StepsLeft`, `CallsRunOut`), since the handler never reads a history again. It
  is the part of the liveness of the hook that needs no fairness.
- `StatusesReported`, a consequence of `ImplementsReports`, and `CallsRunOut` are
  in no run.

`FinancialManagementProofs`, for any sets of records and requests:

- `TypeCorrect`.
- `CopyIsReal` from `CopyInv`: a request that has written knows a row that was
  there and has not gone back since.
- `OneActiveAlone`, `ActiveKeptAlone` from `AloneInv`: while requests do not
  overlap, one that has turned all off finds them off, one that goes on to delete
  saw its record off, and the copy lacks behind only the row the open request has
  just written.

`BurialProofs`, for any sets of vaults, drawers, deceased and requests:

- `TypeCorrect`, with what a request names (`RequestsNamed`) and that an
  exhumation is recorded before it goes on (`RecordedFirst`).
- `OccupiedUntilExhumed`: inductive given the types, since drawers and deceased
  get their id once (`spent`).
- `ExhumationsStayOnFile` and `ExhumedOnce` from `FileInv` and `NotedInv`: what an
  exhumation names, since its last correction, cannot be removed while its row restricts
  it (`Standing`), and
  the unique entry of the history decides between two that overlap.

`DeskProofs`, `DeskSaleProofs` and `DeskServiceProofs`, for any sets of requests,
assignees, vaults, promotions, deceased, rooms and files, any discounts, prices
and clock, and any scenes (assumed: the sentinels are outside of their sets; ids
that the code compares as numbers are naturals; discounts are even percentages;
two assignees are registered on two vaults or on none):

- `TypeCorrect`. `TypeInv` adds to the types that the parts of a maintenance add
  up (`CallsAddUp`), which bounds its counters.
- `PaidInFullByHolder`, `MaintainedByHolder`: what a row or a request says is
  traced to the history of the row (`HeldRows`, `RequestedByHolder`).
- `PricesWithinPromotions`: the average of at most two discounts is at most the
  larger. `DebtsCovered` from `DebtInv`: a payment that is alone has read no more than
  is still owed when it books, since what is typed in meanwhile is not lower.
- `ActivatedBySignature`, `SignaturesApplied` from `PaperTrail`, which says of
  every contract how upload, document at the signing service, stored document and
  webhook can stand to each other. `PendingAreDisabled` from `WaitingDisabled`:
  between the switch and the document, too, unless he was switched on by hand.
- `MaintenanceBookedInFull`, `MaintenanceStaysOnFile`.
- `FilesPaidFromTheTop` from `LinesCarriedOut`. `RoomsKeptApart` from
  `ReservedApart`, which counts reservations under way. `BookedFuneralsStand`: a
  funeral keeps its deceased on file, and its room in preparation.
- `TokensWithinQuota`, `TokensNotClearedEarly` from `MemorialInv`: on a memorial
  that is not crowded one request at a time is under way (`OneAtATime`), what it
  read still stands (`ReadStands`), and tributes posted, counted and left add up to
  the quota of the link (`QuotaAddsUp`, by cardinalities of sets of requests).
- Proved and not among the properties of a run: `MaintainedByHolder`,
  `MaintenanceStaysOnFile`, `BookedFuneralsStand`.

`AdministrationProofs`, for any sets of records, requests, ids, graveyards and
names, any number of drawers and any scenes:

- `PlansUndisturbed`: every step is a step of `FinancialManagement` or leaves it
  alone, so its theorems hold of `Administration`.
- `RecordsStayOnFile`, `PlanHasOneRecord` from `RecordsInv`: the two, with what a
  request names by the time it writes (`CallsNamed`).
- `PlacesStayOnFile`, `NamesStayApart`, `AloneStaysWithinQuantity` from
  `GroundsInv`: names are unique over everything (`NamesUnique`), although they
  are looked up in one square; a vault is on file, or asked for a drawer, only
  after it was made (`MadeBefore`), so a new vault has the drawers of its labels
  and no request for another; and there is room for the one drawer that was
  counted (`RoomFor`). `NamesApart` and `OneRecordPerPlan` are proved and in no run.

Each invariant was checked by TLC before it was proved. Each proof has one step
per action; a step that does not touch what an invariant reads is dismissed by a
frame lemma (`QuietStep`, `UnbookedStep`, `AloneMove`, and one for each part of
`Desk`; `OnlyJobs`, `VaultsStay`, `CountKept` for the grounds).

Only model-checked: liveness (`EveryPurchaseAnswered`, `EveryCallSettles`,
`ReportsShown`): the prover has no fairness or ENABLED. Every other property of a
passing run is a theorem.

## 6. What is left

Not modelled yet:

- The parts of slips, carnets and sales as amounts: floors, remainders, limits
  (`create_flesh` reads its limits off a promise it does not await,
  `src/src/domain/payments/flesh/flesh.service.ts:34`).
- Registrations that share a tax number, and the registration of assignees in
  `Desk`, where they are given.
- The composition of `ValtSale` with `FinancialManagement`: which record a
  purchase names (a rental always record 1).
- A local payment beside a purchase at the gateway: both write the owner row they
  read; `ValtSale` and `Desk` each have one of the two.

Not modelled, and why:

- Sectors, services, users, slugs and the history of assignees: single rows that
  nothing reads over several steps.
- Authentication, the tenant header, storage, mail and the queue: I/O behind short
  handlers, which the models show only where a request waits for it.
- Templates of contracts and the PDF: layout.
- Routes and the shapes of bodies: what they refuse never reaches a handler; what
  they let through is in the inputs of the actions.
