----------------------------- MODULE PaymentHooks -----------------------------
(***************************************************************************)
(* What becomes of one purchase after it is billed: the gateway reports    *)
(* every change of its charges, and POST /hooks/charge writes the reports  *)
(* to the rows of PaymentsGenerated and to the owner row.                  *)
(*                                                                         *)
(* The gateway keeps a history for each notification token.  It calls the  *)
(* hook when a history grows and calls again until it is answered; the     *)
(* handler reads the whole history and applies all of it, one database     *)
(* write at a time; one that fails is logged, and the handler goes on and  *)
(* answers.  Handlers of one purchase run side by side, each with the      *)
(* history as it was when it was read.                                     *)
(*                                                                         *)
(* Bounds: MaxHistory reports for a token, MaxRecords delinquency records, *)
(* MaxFaults crashes, lost answers and failures of the database.           *)
(*                                                                         *)
(* A definition Mutant... is the definition after it with a plausible bug, *)
(* for the mutation tests; no specification uses it.                       *)
(***************************************************************************)
EXTENDS Naturals, Sequences, FiniteSets

CONSTANTS
  Token,       \* notification tokens of the purchase
  Parcel,      \* its rows of PaymentsGenerated
  About,       \* Token -> the parcels its history reports on
  Kinds,       \* what the purchase may be at the gateway
  Reported,    \* the statuses the gateway reports
  Handler, MaxHistory, MaxRecords, MaxFaults

ASSUME TokenAssumption == Token # {}
ASSUME KindsAssumption == Kinds \subseteq {"charge", "carnet", "subscription"}
ASSUME AboutAssumption == About \in [Token -> SUBSET Parcel] /\ 1 \in Parcel
ASSUME BoundsAssumption ==
  MaxHistory \in Nat /\ MaxRecords \in Nat /\ MaxFaults \in Nat

VARIABLES
  kind,        \* the type of every report: charge, carnet, subscription
  wholeParts,  \* the price of a part is a whole number: its columns are Int
  sale,        \* pending, current (an owner row carries it), then replaced
  log,         \* Token -> the history at the gateway
  acked,       \* Token -> how many of its reports were answered with a 200
  rows,        \* Parcel -> PaymentsGenerated.status
  ownerStatus, \* ValtOwners.status
  charged,     \* Token -> how often each report is in SubscriptionCharges
  logged,      \* history: Token -> the reports whose last write was given up
  records,     \* the DelinquencyRecords made for the purchase
  h,           \* Handler -> a call of the hook
  faults       \* crashes, lost answers, failures of the database so far

vars == <<kind, wholeParts, sale, log, acked, rows, ownerStatus, charged,
          logged, records, h, faults>>

purchase == <<kind, wholeParts>>

(***************************************************************************)
(* Data                                                                    *)
(***************************************************************************)

\* The values of ValtOwners.status: the enum of the database.
PaymentStatus ==
  {"ENTRADA_LOCAL", "ENTRADA_GATEWAY", "AGUARDANDO_PAGAMENTO", "PAGO_TOTAL",
   "CANCELADO", "PAGAMENTO_ATRASADO", "PAGAMENTOS_EM_DIA",
   "ALTERANDO_PAGAMENTO", "NEGOCIANDO_PAGAMENTO"}

\* What the program writes to PaymentsGenerated.status, a text.
ChargeStatus ==
  {"AGUARDANDO_PAGAMENTO", "EM_DIA", "ATRASADO", "PAGO_TOTAL", "CANCELADO",
   "NOVO_CARNE", "PAGO", "AGUARDANDO", "CONTESTADO", "APROVADO_OPERADORA"}

\* What a status is written as; one that is not listed is undefined, and an
\* update with an undefined value leaves the column alone.
resolve_status_carnet(s) ==
  CASE s = "up_to_date" -> "EM_DIA"
    [] s = "unpaid"     -> "ATRASADO"
    [] s = "finished"   -> "PAGO_TOTAL"
    [] s = "canceled"   -> "CANCELADO"
    [] s = "new"        -> "NOVO_CARNE"
    [] OTHER            -> "undefined"

resolve_status_charge(s) ==
  CASE s = "paid"      -> "PAGO"
    [] s = "waiting"   -> "AGUARDANDO"
    [] s = "contested" -> "CONTESTADO"
    [] s = "unpaid"    -> "ATRASADO"
    [] s = "approved"  -> "APROVADO_OPERADORA"
    [] s = "canceled"  -> "CANCELADO"
    [] OTHER           -> "undefined"

valt_status(s) ==
  CASE s \in {"paid", "up_to_date"} -> "PAGAMENTOS_EM_DIA"
    [] s = "waiting"  -> "AGUARDANDO_PAGAMENTO"
    [] s = "unpaid"   -> "PAGAMENTO_ATRASADO"
    [] s = "finished" -> "PAGO_TOTAL"
    [] s = "canceled" -> "CANCELADO"
    [] OTHER          -> "undefined"

Written(old, new) == IF new = "undefined" THEN old ELSE new

defaulterStatus == {"unpaid", "canceled", "refunded", "contested"}

Twice == 2   \* counts of SubscriptionCharges stop here: two or more

Report == [parcel : Parcel, status : Reported]

\* The reports of a snapshot that count against the buyer.
defaulterItems(t, n) ==
  { i \in 1..n : log[t][i].status \in defaulterStatus }

ParcelsIn(t, items) == { log[t][i].parcel : i \in items }

MutantDefaulterAtOne(t, n) == Cardinality(defaulterItems(t, n)) >= 1

isDefaulter(t, n) == Cardinality(defaulterItems(t, n)) >= 2

Step == {"idle", "read", "record", "apply", "file", "owner", "write"}

Idle == [pc |-> "idle", token |-> CHOOSE t \in Token : TRUE, seen |-> 0,
         i |-> 1]

Last(x) == log[h[x].token][h[x].seen]

TypeOK ==
  /\ kind \in Kinds
  /\ wholeParts \in BOOLEAN
  /\ sale \in {"pending", "current", "replaced"}
  /\ log \in [Token -> Seq(Report)]
  /\ acked \in [Token -> Nat]
  /\ \A t \in Token : acked[t] <= Len(log[t])
  /\ rows \in [Parcel -> ChargeStatus]
  /\ ownerStatus \in PaymentStatus
  /\ charged \in [Token -> [1..MaxHistory -> 0..Twice]]
  /\ logged \in [Token -> SUBSET (1..MaxHistory)]
  /\ records \in Seq([token : Token, seen : Nat, items : Nat])
  /\ h \in [Handler -> [pc : Step, token : Token, seen : Nat, i : Nat]]
  /\ \A x \in Handler : /\ h[x].seen <= Len(log[h[x].token])
                        /\ h[x].pc # "idle" => h[x].seen > 0
                        /\ h[x].pc \in {"read", "apply", "file"} =>
                             h[x].i \in 1..h[x].seen
  /\ faults \in 0..MaxFaults

Init ==
  /\ kind \in Kinds
  /\ wholeParts \in BOOLEAN
  /\ sale = "pending"
  /\ log = [t \in Token |-> <<>>]
  /\ acked = [t \in Token |-> 0]
  /\ rows = [p \in Parcel |-> "AGUARDANDO_PAGAMENTO"]
  /\ ownerStatus = "AGUARDANDO_PAGAMENTO"
  /\ charged = [t \in Token |-> [i \in 1..MaxHistory |-> 0]]
  /\ logged = [t \in Token |-> {}]
  /\ records = <<>>
  /\ h = [x \in Handler |-> Idle]
  /\ faults = 0

(***************************************************************************)
(* The gateway and the purchase                                            *)
(***************************************************************************)

\* A charge of the purchase changes at the gateway.
Change(t, p, s) ==
  /\ Len(log[t]) < MaxHistory
  /\ \A i \in 1..Len(log[t]) : log[t][i].parcel = p =>
       \/ log[t][i].status # s
       \/ \E j \in (i + 1)..Len(log[t]) : log[t][j].parcel = p
  /\ log' = [log EXCEPT ![t] = Append(@, [parcel |-> p, status |-> s])]
  /\ UNCHANGED <<purchase, sale, acked, rows, ownerStatus, charged, logged,
                 records, h, faults>>

\* The transaction of the purchase commits: reports may come before it.
SaleCommits ==
  /\ sale = "pending"
  /\ sale' = "current"
  /\ UNCHANGED <<purchase, log, acked, rows, ownerStatus, charged, logged,
                 records, h, faults>>

\* A later purchase of the vault puts its own charge on the owner row.
Resell ==
  /\ sale = "current"
  /\ sale' = "replaced"
  /\ UNCHANGED <<purchase, log, acked, rows, ownerStatus, charged, logged,
                 records, h, faults>>

(***************************************************************************)
(* The handler.  An exception ends it without an answer.                   *)
(***************************************************************************)
Throw(x) == h' = [h EXCEPT ![x] = Idle]

\* The gateway calls the hook, which reads the history as it is now.
Receive(x, t) ==
  /\ h[x].pc = "idle"
  /\ acked[t] < Len(log[t])
  /\ h' = [h EXCEPT ![x] = [pc |-> "read", token |-> t, seen |-> Len(log[t]),
                            i |-> 1]]
  /\ UNCHANGED <<purchase, sale, log, acked, rows, ownerStatus, charged,
                 logged, records, faults>>

MutantFindOwnerAnswers(x) ==
  /\ h[x].pc = "read"
  /\ IF sale = "current"
       THEN /\ h' = [h EXCEPT ![x].pc =
                       IF isDefaulter(h[x].token, h[x].seen)
                         THEN "record" ELSE "apply"]
            /\ UNCHANGED acked
       ELSE Throw(x) /\ acked' = [acked EXCEPT ![h[x].token] = h[x].seen]
  /\ UNCHANGED <<purchase, sale, log, rows, ownerStatus, charged, logged,
                 records, faults>>

\* The owner row is looked up by the custom id and the reports are judged.
FindOwner(x) ==
  /\ h[x].pc = "read"
  /\ IF sale = "current"
       THEN h' = [h EXCEPT ![x].pc = IF isDefaulter(h[x].token, h[x].seen)
                                       THEN "record" ELSE "apply"]
       ELSE Throw(x)
  /\ UNCHANGED <<purchase, sale, log, acked, rows, ownerStatus, charged,
                 logged, records, faults>>

MutantRecordGoesOn(x) ==
  /\ h[x].pc = "record"
  /\ Len(records) < MaxRecords
  /\ records' = Append(records,
       [token |-> h[x].token, seen |-> h[x].seen,
        items |-> Cardinality(defaulterItems(h[x].token, h[x].seen))])
  /\ h' = [h EXCEPT ![x].pc = "apply"]
  /\ UNCHANGED <<purchase, sale, log, acked, rows, ownerStatus, charged,
                 logged, faults>>

\* One price of a part is owed for each report counted; the database refuses
\* an amount that is not whole.  Recorded or refused, the handler throws.
RecordDefaulter(x) ==
  /\ h[x].pc = "record"
  /\ wholeParts => Len(records) < MaxRecords
  /\ records' = IF wholeParts
       THEN Append(records,
         [token |-> h[x].token, seen |-> h[x].seen,
          items |-> Cardinality(defaulterItems(h[x].token, h[x].seen))])
       ELSE records
  /\ Throw(x)
  /\ UNCHANGED <<purchase, sale, log, acked, rows, ownerStatus, charged,
                 logged, faults>>

MutantRowsAll(t, i) ==
  LET s == log[t][i].status IN
  IF kind = "charge"
    THEN [p \in Parcel |-> Written(rows[p], resolve_status_charge(s))]
    ELSE [rows EXCEPT ![1] = Written(@, resolve_status_carnet(s))]

\* What one report does to PaymentsGenerated: a charge has the row of its charge
\* id, a subscription its only row.
RowsAfter(t, i) ==
  LET p == log[t][i].parcel
      s == log[t][i].status IN
  IF kind = "charge"
    THEN [rows EXCEPT ![p] = Written(@, resolve_status_charge(s))]
    ELSE [rows EXCEPT ![1] = Written(@, resolve_status_carnet(s))]

MutantNextReport(x) ==
  IF h[x].i <= h[x].seen
    THEN h' = [h EXCEPT ![x].pc = "apply", ![x].i = @ + 1]
    ELSE h' = [h EXCEPT ![x].pc = "owner"]

\* After the last report, the test for charges reads data[1] unless the first
\* report is a charge, and throws if there is none.
NextReport(x) ==
  IF h[x].i < h[x].seen
    THEN h' = [h EXCEPT ![x].pc = "apply", ![x].i = @ + 1]
    ELSE IF kind # "charge" /\ h[x].seen = 1 THEN Throw(x)
    ELSE h' = [h EXCEPT ![x].pc = "owner"]

\* The report is given up, or no longer.
GivenUp(x)    == [logged EXCEPT ![h[x].token] = @ \cup {h[x].i}]
NotGivenUp(x) == [logged EXCEPT ![h[x].token] = @ \ {h[x].i}]

\* The row of a report is written.  That of a carnet's has never the carnet id
\* it is looked for by.
ApplyReport(x) ==
  /\ h[x].pc = "apply"
  /\ kind # "carnet"
  /\ rows' = RowsAfter(h[x].token, h[x].i)
  /\ IF kind = "subscription"
       THEN h' = [h EXCEPT ![x].pc = "file"] /\ UNCHANGED logged
       ELSE NextReport(x) /\ logged' = NotGivenUp(x)
  /\ UNCHANGED <<purchase, sale, log, acked, ownerStatus, charged, records,
                 faults>>

\* A subscription also gets a row of SubscriptionCharges for each report, every
\* time the history is applied; its value is the price of a part.
FileReport(x) ==
  /\ h[x].pc = "file"
  /\ wholeParts
  /\ charged' = [charged EXCEPT ![h[x].token][h[x].i] =
                   IF @ < Twice THEN @ + 1 ELSE @]
  /\ logged' = NotGivenUp(x)
  /\ NextReport(x)
  /\ UNCHANGED <<purchase, sale, log, acked, rows, ownerStatus, records,
                 faults>>

\* The writes no database accepts.
NeverWritten(x) ==
  kind = "carnet" \/ (h[x].pc = "file" /\ ~ wholeParts)

\* A write for one report fails: it is logged, what is left to write for that
\* report is skipped, and the handler goes on as if nothing had happened.
WriteFails(x) ==
  /\ h[x].pc \in {"apply", "file"}
  /\ \/ NeverWritten(x) /\ UNCHANGED faults
     \/ /\ ~ NeverWritten(x)
        /\ faults < MaxFaults
        /\ faults' = faults + 1
  /\ logged' = GivenUp(x)
  /\ NextReport(x)
  /\ UNCHANGED <<purchase, sale, log, acked, rows, ownerStatus, charged,
                 records>>

\* Any other query fails: the call throws, and is not answered.
QueryFails(x) ==
  /\ h[x].pc \in {"read", "record", "owner", "write"}
  /\ faults < MaxFaults
  /\ faults' = faults + 1
  /\ Throw(x)
  /\ UNCHANGED <<purchase, sale, log, acked, rows, ownerStatus, charged,
                 logged, records>>

\* change_valt_status looks the owner row up again.
FindOwnerAgain(x) ==
  /\ h[x].pc = "owner"
  /\ IF sale = "current" THEN h' = [h EXCEPT ![x].pc = "write"] ELSE Throw(x)
  /\ UNCHANGED <<purchase, sale, log, acked, rows, ownerStatus, charged,
                 logged, records, faults>>

MutantAnswerAll(x) ==
  /\ Throw(x)
  /\ acked' = [acked EXCEPT ![h[x].token] = Len(log[h[x].token])]
  /\ UNCHANGED faults

\* The answer reaches the gateway, or is lost and the gateway calls again.
Answer(x) ==
  /\ Throw(x)
  /\ \/ /\ acked' = [acked EXCEPT ![h[x].token] =
                       IF @ > h[x].seen THEN @ ELSE h[x].seen]
        /\ UNCHANGED faults
     \/ /\ faults < MaxFaults
        /\ faults' = faults + 1
        /\ UNCHANGED acked

\* The owner row gets the last status of the history; by now it may carry
\* another charge, and the update finds no row.
WriteOwner(x) ==
  /\ h[x].pc = "write"
  /\ IF sale = "current" \/ valt_status(Last(x).status) = "undefined"
       THEN /\ ownerStatus' = Written(ownerStatus, valt_status(Last(x).status))
            /\ Answer(x)
       ELSE Throw(x) /\ UNCHANGED <<acked, ownerStatus, faults>>
  /\ UNCHANGED <<purchase, sale, log, rows, charged, logged, records>>

\* The process stops and every open call with it.
Crash ==
  /\ faults < MaxFaults
  /\ \E x \in Handler : h[x].pc # "idle"
  /\ faults' = faults + 1
  /\ h' = [x \in Handler |-> Idle]
  /\ UNCHANGED <<purchase, sale, log, acked, rows, ownerStatus, charged,
                 logged, records>>

Gateway == \E t \in Token : \E p \in About[t], s \in Reported : Change(t, p, s)

Handling(x) == \/ FindOwner(x)
               \/ RecordDefaulter(x)
               \/ ApplyReport(x)
               \/ FileReport(x)
               \/ WriteFails(x)
               \/ QueryFails(x)
               \/ FindOwnerAgain(x)
               \/ WriteOwner(x)

Next ==
  \/ Gateway
  \/ SaleCommits
  \/ Resell
  \/ \E x \in Handler : Handling(x) \/ \E t \in Token : Receive(x, t)
  \/ Crash

Spec == Init /\ [][Next]_vars

(***************************************************************************)
(* Fairness: a call of the hook runs to its end, and the gateway calls     *)
(* again, about each token, until it is answered.                          *)
(***************************************************************************)
FairSpec ==
  /\ Spec
  /\ \A x \in Handler :
       /\ WF_vars(Handling(x))
       /\ \A t \in Token : SF_vars(Receive(x, t))

(***************************************************************************)
(* Properties                                                              *)
(***************************************************************************)
RowText(s) == IF kind = "charge" THEN resolve_status_charge(s)
              ELSE resolve_status_carnet(s)

\* A row says what the gateway reported about that very charge, and the owner
\* row what it reported last at some time: no history leaks to another parcel,
\* and a purchase not yet on the books shows nothing.
StatusesReported ==
  /\ \A p \in Parcel : rows[p] # "AGUARDANDO_PAGAMENTO" =>
       /\ sale # "pending"
       /\ \E t \in Token : \E i \in 1..Len(log[t]) :
            /\ rows[p] = RowText(log[t][i].status)
            /\ kind = "charge" => log[t][i].parcel = p
  /\ ownerStatus # "AGUARDANDO_PAGAMENTO" =>
       /\ sale # "pending"
       /\ \E t \in Token : \E i \in 1..Len(log[t]) :
            ownerStatus = valt_status(log[t][i].status)

\* Nobody is recorded as a defaulter for fewer than two bad reports, and the
\* report that made the second is never confirmed to the gateway: it keeps
\* calling, and records of the same debt pile up.
DefaultersJudged ==
  /\ \A k \in 1..Len(records) :
       /\ records[k].items >= 2
       /\ isDefaulter(records[k].token, records[k].seen)
  /\ \A t \in Token : ~ isDefaulter(t, acked[t])

\* A subscription's report is on file, or its write was given up and logged.
Dealt(t, i) == charged[t][i] > 0 \/ i \in logged[t]

\* What was confirmed to the gateway was dealt with, whatever handlers
\* overlapped, threw or crashed: each report of a subscription is a charge on
\* file at least once, unless the write of it failed and was only logged, which
\* the gateway never learns; and only a purchase that was on the books was
\* confirmed.
ConfirmedIsOnFile ==
  \A t \in Token : acked[t] > 0 =>
    /\ sale # "pending"
    /\ kind # "charge" => acked[t] > 1
    /\ kind = "subscription" => \A i \in 1..acked[t] : Dealt(t, i)

\* From the second bad report on the rows are frozen: while every call under way
\* read a history that makes the buyer a defaulter, no row and no owner status
\* changes, whatever is reported later, a payment included.
FrozenOnceDefaulter ==
  [][(\A x \in Handler :
        h[x].pc # "idle" => isDefaulter(h[x].token, h[x].seen))
       => rows' = rows /\ ownerStatus' = ownerStatus]_vars

\* Calls that repeat, overlap and crash are, as far as anybody can see, single
\* steps of the abstract ledger of reports.
Reports == INSTANCE ReportLedger WITH
  Bad      <- defaulterStatus,
  RowReads <- [k \in Kinds |-> [s \in Reported |->
                 IF k = "charge" THEN resolve_status_charge(s)
                 ELSE resolve_status_carnet(s)]],
  SaleReads <- [s \in Reported |-> valt_status(s)],
  Filing   <- {"subscription"},
  booked   <- sale # "pending",
  history  <- log,
  status   <- ownerStatus,
  filed    <- [t \in Token |-> { i \in 1..MaxHistory : charged[t][i] > 0 }],
  dropped  <- logged,
  told     <- acked,
  debts    <- records

ImplementsReports == Reports!Spec

\* How many steps of its own a call of the hook has left, at most.
StepsLeft(c) ==
  CASE c.pc = "read"   -> 2 * c.seen + 3
    [] c.pc = "apply"  -> 2 * (c.seen - c.i) + 4
    [] c.pc = "file"   -> 2 * (c.seen - c.i) + 3
    [] c.pc = "owner"  -> 2
    [] c.pc \in {"record", "write"} -> 1
    [] OTHER -> 0

\* A call only gets nearer to its end, although the history it works on grows
\* and others write what it writes: whatever happens, it ends after as many
\* steps as the history it read allows.  (The handler never reads it again.)
CallsRunOut ==
  [][\A x \in Handler : h[x].pc # "idle" /\ h'[x] # h[x]
        => StepsLeft(h'[x]) < StepsLeft(h[x])]_vars

\* The last report on parcel p that has a text, as an index of the history.
LastFor(t, p) ==
  LET Texts == { i \in 1..Len(log[t]) :
                   /\ log[t][i].parcel = p
                   /\ RowText(log[t][i].status) # "undefined" }
  IN { i \in Texts : \A j \in Texts : j <= i }

Clear == sale = "current" /\ \A t \in Token : ~ isDefaulter(t, Len(log[t]))

OwnerText(t) == IF log[t] = <<>> THEN "undefined"
                ELSE valt_status(log[t][Len(log[t])].status)

\* What the gateway reported about the charges of a purchase is shown in the
\* end, though calls come before it commits, meet new reports, crash or are
\* answered in vain.  Unless the buyer is a defaulter or the vault is sold
\* again, a row ends with the last text for its charge, if the last write of it
\* did not fail, and the owner row with that of some charge.
ReportsShown ==
  <>[](Clear /\ kind = "charge" =>
         /\ \A t \in Token : \A p \in About[t] :
              \A i \in LastFor(t, p) \ logged[t] :
                rows[p] = RowText(log[t][i].status)
         /\ (\A t \in Token : OwnerText(t) # "undefined") =>
              \E t \in Token : ownerStatus = OwnerText(t))

\* What the judge says of its count (verify-defaulter.ts:102): that two or more
\* parcels are in default.
DefaultCountsParcels ==
  \A k \in 1..Len(records) :
    LET t == records[k].token
    IN Cardinality(ParcelsIn(t, defaulterItems(t, records[k].seen))) >= 2

(***************************************************************************)
(* What keeps the properties true: how far a call got says what was found  *)
(* and written before, and no longer depends on what happens meanwhile.    *)
(***************************************************************************)
\* Past the first look-up the purchase was on the books; a call applies only a
\* history that is no default, and records only one that is; and the reports a
\* call is past were dealt with.
CallInOrder(c) ==
  /\ c.pc = "read" => c.i = 1
  /\ c.pc \in {"record", "apply", "file", "owner", "write"} => sale # "pending"
  /\ c.pc = "record" => isDefaulter(c.token, c.seen)
  /\ c.pc \in {"apply", "file", "owner", "write"} =>
       ~ isDefaulter(c.token, c.seen)
  /\ c.pc \in {"owner", "write"} /\ kind # "charge" => c.seen > 1
  /\ c.pc = "file" => kind = "subscription"
  /\ kind = "subscription" =>
       /\ c.pc \in {"apply", "file"} =>
            \A j \in 1..(c.i - 1) : Dealt(c.token, j)
       /\ c.pc \in {"owner", "write"} => \A j \in 1..c.seen : Dealt(c.token, j)

CallsInOrder == \A c \in { h[x] : x \in Handler } : CallInOrder(c)

\* A record was made from reports that are still in the history.
HistoriesKept ==
  /\ \A t \in Token : Len(log[t]) <= MaxHistory
  /\ \A k \in 1..Len(records) :
       records[k].seen <= Len(log[records[k].token])

HooksInv ==
  /\ TypeOK
  /\ HistoriesKept
  /\ CallsInOrder
  /\ StatusesReported
  /\ DefaultersJudged
  /\ ConfirmedIsOnFile

===============================================================================
