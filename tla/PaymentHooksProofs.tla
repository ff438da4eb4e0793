-------------------------- MODULE PaymentHooksProofs --------------------------
(***************************************************************************)
(* Proofs about PaymentHooks, for every set of tokens, parcels, statuses   *)
(* and handlers and every bound.                                           *)
(***************************************************************************)
EXTENDS PaymentHooks, FiniteSetTheorems, TLAPS

Call == [pc : Step, token : Token, seen : Nat, i : Nat]

Debt == [token : Token, seen : Nat, items : Nat]

\* The part of the type that is about one call.
CallTyped(c) ==
  /\ c \in Call
  /\ c.seen <= Len(log[c.token])
  /\ c.pc # "idle" => c.seen > 0
  /\ c.pc \in {"read", "apply", "file"} => c.i \in 1..c.seen

\* The part that is about the tables and the gateway.
TablesTyped ==
  /\ kind \in Kinds
  /\ wholeParts \in BOOLEAN
  /\ sale \in {"pending", "current", "replaced"}
  /\ log \in [Token -> Seq(Report)]
  /\ acked \in [Token -> Nat]
  /\ \A t \in Token : acked[t] <= Len(log[t])
  /\ rows \in [Parcel -> ChargeStatus]
  /\ ownerStatus \in PaymentStatus
  /\ charged \in [Token -> [1..MaxHistory -> 0..Twice]]
  /\ logged \in [Token -> SUBSET (1..MaxHistory)]
  /\ records \in Seq(Debt)
  /\ h \in [Handler -> Call]
  /\ faults \in 0..MaxFaults

(***************************************************************************)
(* The data                                                                *)
(***************************************************************************)
\* An ended call is a call, of some token and of no report.
LEMMA IdleIsCall ==
  /\ Idle \in Call /\ Idle.pc = "idle" /\ Idle.seen = 0
  /\ Idle.token \in Token
BY TokenAssumption DEF Idle, Call, Step

\* A column keeps to its values, whatever the gateway reports: the enum of
\* ValtOwners.status accepts every value that is written.
LEMMA WrittenType ==
  ASSUME NEW s
  PROVE  /\ \A old \in ChargeStatus :
              /\ Written(old, resolve_status_charge(s)) \in ChargeStatus
              /\ Written(old, resolve_status_carnet(s)) \in ChargeStatus
         /\ \A old \in PaymentStatus :
              Written(old, valt_status(s)) \in PaymentStatus
<1>1. resolve_status_charge(s) \in ChargeStatus \cup {"undefined"}
  BY DEF resolve_status_charge, ChargeStatus
<1>2. resolve_status_carnet(s) \in ChargeStatus \cup {"undefined"}
  BY DEF resolve_status_carnet, ChargeStatus
<1>3. valt_status(s) \in PaymentStatus \cup {"undefined"}
  BY DEF valt_status, PaymentStatus
<1> QED BY <1>1, <1>2, <1>3 DEF Written

\* The bad reports of a snapshot can be counted.
LEMMA CountType ==
  ASSUME NEW t \in Token, NEW n \in Nat
  PROVE  /\ defaulterItems(t, n) \in SUBSET (1..n)
         /\ Cardinality(defaulterItems(t, n)) \in Nat
<1>1. IsFiniteSet(1..n)
  BY FS_Interval
<1>2. defaulterItems(t, n) \in SUBSET (1..n)
  BY DEF defaulterItems
<1>3. IsFiniteSet(defaulterItems(t, n))
  BY <1>1, <1>2, FS_Subset
<1> QED BY <1>2, <1>3, FS_CardinalityType

\* Nobody is a defaulter by an empty history.
LEMMA EmptyIsNoDefault ==
  ASSUME NEW t \in Token
  PROVE  ~ isDefaulter(t, 0)
<1>1. defaulterItems(t, 0) = {}
  BY DEF defaulterItems
<1> QED BY <1>1, FS_EmptySet DEF isDefaulter

(***************************************************************************)
(* What no step takes back                                                 *)
(***************************************************************************)
\* The types of the tables and of the calls, apart.
LEMMA TypeParts ==
  TypeOK <=> TablesTyped /\ \A x \in Handler : CallTyped(h[x])
BY DEF TypeOK, TablesTyped, CallTyped, Call, Debt

\* The gateway only adds to a history: what a call has read of it stays.
LEMMA LogGrows ==
  ASSUME TablesTyped, [Next]_vars
  PROVE  /\ log' \in [Token -> Seq(Report)]
         /\ \A t \in Token :
              /\ Len(log[t]) <= Len(log'[t])
              /\ \A i \in 1..Len(log[t]) : log'[t][i] = log[t][i]
<1>1. ASSUME NEW t \in Token, NEW p \in About[t], NEW s \in Reported,
             Change(t, p, s)
      PROVE  /\ log' \in [Token -> Seq(Report)]
             /\ \A u \in Token :
                  /\ Len(log[u]) <= Len(log'[u])
                  /\ \A i \in 1..Len(log[u]) : log'[u][i] = log[u][i]
  <2>1. p \in Parcel
    BY AboutAssumption
  <2>2. [parcel |-> p, status |-> s] \in Report
    BY <2>1 DEF Report
  <2>3. log[t] \in Seq(Report)
    BY DEF TablesTyped
  <2>4. Append(log[t], [parcel |-> p, status |-> s]) \in Seq(Report)
    BY <2>2, <2>3
  <2>5. log' = [log EXCEPT ![t] = Append(log[t], [parcel |-> p, status |-> s])]
    BY <1>1 DEF Change
  <2>6. log' \in [Token -> Seq(Report)]
    BY <2>4, <2>5 DEF TablesTyped
  <2>7. ASSUME NEW u \in Token
        PROVE  /\ Len(log[u]) <= Len(log'[u])
               /\ \A i \in 1..Len(log[u]) : log'[u][i] = log[u][i]
    <3>1. log[u] \in Seq(Report)
      BY DEF TablesTyped
    <3>2. CASE u = t
      BY <2>2, <2>3, <2>5, <3>2 DEF TablesTyped
    <3>3. CASE u # t
      BY <2>5, <3>1, <3>3 DEF TablesTyped
    <3> QED BY <3>2, <3>3
  <2> QED BY <2>6, <2>7
<1>2. CASE log' = log
  <2>1. \A u \in Token : Len(log[u]) \in Nat
    BY DEF TablesTyped
  <2> QED BY <1>2, <2>1 DEF TablesTyped
<1> QED
  BY <1>1, <1>2
  DEF Next, Gateway, Handling, vars, SaleCommits, Resell, Receive, FindOwner,
      RecordDefaulter, ApplyReport, FileReport, WriteFails, QueryFails,
      FindOwnerAgain, WriteOwner, Crash

\* After a report a call takes the next one, ends or goes to the owner row, and
\* no other call moves.
LEMMA NextReportMoves ==
  ASSUME h \in [Handler -> Call], NEW x \in Handler, NextReport(x)
  PROVE  /\ h' \in [Handler -> Call]
         /\ \A y \in Handler : y # x => h'[y] = h[y]
         /\ \/ h'[x] = Idle
            \/ /\ h[x].i < h[x].seen
               /\ h'[x] = [h[x] EXCEPT !.pc = "apply", !.i = @ + 1]
            \/ /\ ~ (h[x].i < h[x].seen)
               /\ kind # "charge" => h[x].seen # 1
               /\ h'[x] = [h[x] EXCEPT !.pc = "owner"]
<1>1. h[x] \in Call /\ h[x].i + 1 \in Nat
  BY DEF Call
<1>2. /\ [h[x] EXCEPT !.pc = "apply", !.i = @ + 1] \in Call
      /\ [h[x] EXCEPT !.pc = "owner"] \in Call
  <2>1. "apply" \in Step /\ "owner" \in Step
    BY DEF Step
  <2> QED BY <1>1, <2>1 DEF Call
<1>3. CASE h[x].i < h[x].seen
  BY <1>2, <1>3 DEF NextReport
<1>4. CASE ~ (h[x].i < h[x].seen) /\ kind # "charge" /\ h[x].seen = 1
  BY <1>4, IdleIsCall DEF NextReport, Throw
<1>5. CASE ~ (h[x].i < h[x].seen) /\ ~ (kind # "charge" /\ h[x].seen = 1)
  BY <1>2, <1>5 DEF NextReport
<1> QED BY <1>3, <1>4, <1>5

\* What a call becomes in a step: it stays, ends, begins or goes on.
LEMMA CallMoves ==
  ASSUME TablesTyped, [Next]_vars, NEW x \in Handler
  PROVE  \/ h'[x] = h[x]
         \/ h'[x] = Idle
         \/ \E t \in Token : Receive(x, t)
         \/ FindOwner(x) \/ FindOwnerAgain(x)
         \/ ApplyReport(x) \/ FileReport(x) \/ WriteFails(x)
<1>0. h \in [Handler -> Call]
  BY DEF TablesTyped
<1>1. ASSUME NEW y \in Handler, y # x,
             Handling(y) \/ \E t \in Token : Receive(y, t)
      PROVE  h'[x] = h[x]
  <2>1. CASE NextReport(y)
    BY <1>0, <1>1, <2>1, NextReportMoves
  <2>2. CASE \/ FindOwner(y) \/ RecordDefaulter(y) \/ FindOwnerAgain(y)
             \/ QueryFails(y) \/ WriteOwner(y)
             \/ \E t \in Token : Receive(y, t)
    BY <1>0, <1>1, <2>2
    DEF Receive, FindOwner, RecordDefaulter, QueryFails, FindOwnerAgain,
        WriteOwner, Answer, Throw
  <2>3. CASE ApplyReport(y) /\ kind = "subscription"
    BY <1>0, <1>1, <2>3 DEF ApplyReport
  <2> QED BY <1>1, <2>1, <2>2, <2>3
          DEF Handling, ApplyReport, FileReport, WriteFails
<1>2. ASSUME RecordDefaulter(x) \/ WriteOwner(x) \/ QueryFails(x)
      PROVE  h'[x] = Idle
  BY <1>0, <1>2 DEF RecordDefaulter, WriteOwner, QueryFails, Answer, Throw
<1>3. CASE Crash
  BY <1>3 DEF Crash
<1>4. CASE UNCHANGED h
  BY <1>4
<1> QED
  BY <1>1, <1>2, <1>3, <1>4
  DEF Next, Gateway, Handling, vars, SaleCommits, Resell, Change

(***************************************************************************)
(* Type correctness                                                        *)
(***************************************************************************)
\* A call under way names a token and reads a part of its history.
LEMMA CallFacts ==
  ASSUME TablesTyped, NEW x \in Handler, CallTyped(h[x])
  PROVE  /\ h[x] \in Call
         /\ h[x].token \in Token /\ h[x].seen \in Nat /\ h[x].i \in Nat
         /\ h[x].seen <= Len(log[h[x].token])
         /\ h[x].pc # "idle" => h[x].seen \in 1..Len(log[h[x].token])
         /\ h[x].pc \in {"read", "apply", "file"} => h[x].i \in 1..h[x].seen
         /\ Len(log[h[x].token]) \in Nat
<1>1. h[x].token \in Token /\ h[x].seen \in Nat /\ h[x].i \in Nat
  BY DEF CallTyped, Call
<1>2. log[h[x].token] \in Seq(Report)
  BY <1>1 DEF TablesTyped
<1>3. Len(log[h[x].token]) \in Nat
  BY <1>2
<1> QED BY <1>1, <1>3 DEF CallTyped

\* Whatever report is applied, the rows keep to their values.
LEMMA RowsAfterType ==
  ASSUME TablesTyped, NEW t, NEW i
  PROVE  RowsAfter(t, i) \in [Parcel -> ChargeStatus]
BY WrittenType DEF RowsAfter, TablesTyped

\* A call that writes is at a report of its token's history.
LEMMA AtReport ==
  ASSUME TablesTyped, HistoriesKept, BoundsAssumption, NEW x \in Handler,
         CallTyped(h[x]), h[x].pc \in {"apply", "file"}
  PROVE  h[x].token \in Token /\ h[x].i \in 1..MaxHistory
<1>1. /\ h[x].token \in Token /\ h[x].i \in 1..h[x].seen
      /\ h[x].seen \in 1..Len(log[h[x].token])
      /\ Len(log[h[x].token]) \in Nat
  BY CallFacts
<1>2. Len(log[h[x].token]) <= MaxHistory
  BY <1>1 DEF HistoriesKept
<1> QED BY <1>1, <1>2, BoundsAssumption

\* A report that is filed is filed at least once, and no other report is.
LEMMA FiledIsCharged ==
  ASSUME TablesTyped, HistoriesKept, BoundsAssumption, NEW x \in Handler,
         CallTyped(h[x]), FileReport(x)
  PROVE  /\ charged' \in [Token -> [1..MaxHistory -> 0..Twice]]
         /\ charged'[h[x].token][h[x].i] > 0
         /\ \A j \in 1..MaxHistory : j # h[x].i =>
              charged'[h[x].token][j] = charged[h[x].token][j]
         /\ \A u \in Token : u # h[x].token => charged'[u] = charged[u]
<1> DEFINE t == h[x].token
           i == h[x].i
<1>1. t \in Token /\ i \in 1..MaxHistory
  BY AtReport DEF FileReport
<1>2. /\ charged \in [Token -> [1..MaxHistory -> 0..Twice]]
      /\ charged[t] \in [1..MaxHistory -> 0..Twice] /\ charged[t][i] \in 0..Twice
  BY <1>1 DEF TablesTyped
<1>3. charged' = [charged EXCEPT ![t][i] = IF @ < Twice THEN @ + 1 ELSE @]
  BY DEF FileReport
<1> HIDE DEF t, i
<1>4. PICK m \in 1..Twice : m = IF charged[t][i] < Twice THEN charged[t][i] + 1
                                ELSE charged[t][i]
  BY <1>2 DEF Twice
<1>5. charged' = [charged EXCEPT ![t] = [charged[t] EXCEPT ![i] = m]]
  BY <1>1, <1>2, <1>3, <1>4
<1>6. /\ [charged[t] EXCEPT ![i] = m] \in [1..MaxHistory -> 0..Twice]
      /\ charged'[t] = [charged[t] EXCEPT ![i] = m]
  BY <1>1, <1>2, <1>5 DEF Twice
<1>7. charged' \in [Token -> [1..MaxHistory -> 0..Twice]]
  BY <1>2, <1>5, <1>6
<1>8. charged'[t][i] > 0 /\ \A j \in 1..MaxHistory : j # i =>
                             charged'[t][j] = charged[t][j]
  BY <1>1, <1>2, <1>6
<1>9. \A u \in Token : u # t => charged'[u] = charged[u]
  BY <1>2, <1>5
<1> QED BY <1>7, <1>8, <1>9 DEF t, i

\* An answer confirms no more than what the call has read of the history.
LEMMA AnswerType ==
  ASSUME TablesTyped, BoundsAssumption, NEW x \in Handler, CallTyped(h[x]),
         Answer(x)
  PROVE  /\ acked' \in [Token -> Nat] /\ faults' \in 0..MaxFaults
         /\ \A t \in Token : acked'[t] <= Len(log[t])
         /\ h' \in [Handler -> Call]
<1>1. h[x].token \in Token /\ h[x].seen \in Nat
      /\ h[x].seen <= Len(log[h[x].token])
  BY CallFacts
<1>2. h' \in [Handler -> Call]
  BY IdleIsCall DEF Answer, Throw, TablesTyped
<1>3. CASE faults' = faults /\ acked' = [acked EXCEPT ![h[x].token] =
                                         IF @ > h[x].seen THEN @ ELSE h[x].seen]
  BY <1>1, <1>2, <1>3 DEF TablesTyped
<1>4. CASE faults < MaxFaults /\ faults' = faults + 1 /\ acked' = acked
  BY <1>2, <1>4 DEF TablesTyped
<1> QED BY <1>3, <1>4 DEF Answer

\* Every step keeps the tables, the histories and the calls in their types.
LEMMA TablesStep ==
  ASSUME TablesTyped, \A x \in Handler : CallTyped(h[x]),
         HistoriesKept, [Next]_vars
  PROVE  TablesTyped'
<1>0. /\ log' \in [Token -> Seq(Report)]
      /\ \A t \in Token : Len(log[t]) <= Len(log'[t])
  BY LogGrows
<1>1. ASSUME NEW t \in Token, NEW p \in About[t], NEW s \in Reported,
             Change(t, p, s)
      PROVE  TablesTyped'
  <2>1. \A u \in Token : acked'[u] <= Len(log'[u])
    <3>1. \A u \in Token : /\ log[u] \in Seq(Report)
                           /\ log'[u] \in Seq(Report)
                           /\ acked[u] \in Nat
      BY <1>0 DEF TablesTyped
    <3>2. \A u \in Token : Len(log[u]) \in Nat /\ Len(log'[u]) \in Nat
      BY <3>1
    <3> QED BY <1>0, <1>1, <3>1, <3>2 DEF Change, TablesTyped
  <2> QED BY <1>0, <1>1, <2>1 DEF Change, purchase, TablesTyped
<1>2. CASE SaleCommits \/ Resell
  BY <1>2 DEF SaleCommits, Resell, purchase, TablesTyped
<1>3. ASSUME NEW x \in Handler, NEW t \in Token, Receive(x, t)
      PROVE  TablesTyped'
  <2>1. log[t] \in Seq(Report)
    BY DEF TablesTyped
  <2>2. [pc |-> "read", token |-> t, seen |-> Len(log[t]), i |-> 1] \in Call
    BY <2>1 DEF Call, Step
  <2>3. h' \in [Handler -> Call]
    BY <1>3, <2>2 DEF Receive, TablesTyped
  <2> QED BY <1>3, <2>3 DEF Receive, purchase, TablesTyped
<1>4. ASSUME NEW x \in Handler, FindOwner(x)
      PROVE  TablesTyped'
  <2>1. \A pc \in Step : [h[x] EXCEPT !.pc = pc] \in Call
    BY DEF TablesTyped, Call
  <2>2. h' \in [Handler -> Call]
    BY <1>4, <2>1, IdleIsCall DEF FindOwner, Throw, TablesTyped, Step
  <2> QED BY <1>4, <2>2 DEF FindOwner, purchase, TablesTyped
<1>5. ASSUME NEW x \in Handler, RecordDefaulter(x)
      PROVE  TablesTyped'
  <2>1. h' \in [Handler -> Call]
    BY <1>5, IdleIsCall DEF RecordDefaulter, Throw, TablesTyped
  <2>2. [token |-> h[x].token, seen |-> h[x].seen,
         items |-> Cardinality(defaulterItems(h[x].token, h[x].seen))] \in Debt
    BY CallFacts, CountType DEF Debt
  <2>3. records' \in Seq(Debt)
    BY <1>5, <2>2 DEF RecordDefaulter, TablesTyped
  <2> QED BY <1>5, <2>1, <2>3 DEF RecordDefaulter, purchase, TablesTyped
<1>6. ASSUME NEW x \in Handler, ApplyReport(x)
      PROVE  TablesTyped'
  <2>1. h[x].token \in Token /\ h[x].i \in 1..MaxHistory
    BY <1>6, AtReport, BoundsAssumption DEF ApplyReport
  <2>2. rows' \in [Parcel -> ChargeStatus]
    BY <1>6, RowsAfterType DEF ApplyReport
  <2>3. logged' \in [Token -> SUBSET (1..MaxHistory)]
    BY <1>6, <2>1 DEF ApplyReport, NotGivenUp, TablesTyped
  <2>4. h' \in [Handler -> Call]
    <3>1. h \in [Handler -> Call] /\ h[x] \in Call
      BY DEF TablesTyped
    <3>2. [h[x] EXCEPT !.pc = "file"] \in Call
      BY <3>1 DEF Call, Step
    <3> QED BY <1>6, <3>1, <3>2, NextReportMoves DEF ApplyReport
  <2> QED BY <1>6, <2>2, <2>3, <2>4 DEF ApplyReport, purchase, TablesTyped
<1>11. ASSUME NEW x \in Handler, FileReport(x)
       PROVE  TablesTyped'
  <2>1. h[x].token \in Token /\ h[x].i \in 1..MaxHistory
    BY <1>11, AtReport, BoundsAssumption DEF FileReport
  <2>2. charged' \in [Token -> [1..MaxHistory -> 0..Twice]]
    BY <1>11, FiledIsCharged, BoundsAssumption
  <2>3. logged' \in [Token -> SUBSET (1..MaxHistory)]
    BY <1>11, <2>1 DEF FileReport, NotGivenUp, TablesTyped
  <2>4. h' \in [Handler -> Call]
    BY <1>11, NextReportMoves DEF FileReport, TablesTyped
  <2> QED BY <1>11, <2>2, <2>3, <2>4 DEF FileReport, purchase, TablesTyped
<1>12. ASSUME NEW x \in Handler, WriteFails(x)
       PROVE  TablesTyped'
  <2>1. h[x].token \in Token /\ h[x].i \in 1..MaxHistory
    BY <1>12, AtReport, BoundsAssumption DEF WriteFails
  <2>2. faults' \in 0..MaxFaults
    BY <1>12, BoundsAssumption DEF WriteFails, TablesTyped
  <2>3. logged' \in [Token -> SUBSET (1..MaxHistory)]
    BY <1>12, <2>1 DEF WriteFails, GivenUp, TablesTyped
  <2>4. h' \in [Handler -> Call]
    BY <1>12, NextReportMoves DEF WriteFails, TablesTyped
  <2> QED BY <1>12, <2>2, <2>3, <2>4 DEF WriteFails, purchase, TablesTyped
<1>13. ASSUME NEW x \in Handler, QueryFails(x)
       PROVE  TablesTyped'
  <2>1. h' \in [Handler -> Call]
    BY <1>13, IdleIsCall DEF QueryFails, Throw, TablesTyped
  <2>2. faults' \in 0..MaxFaults
    BY <1>13, BoundsAssumption DEF QueryFails, TablesTyped
  <2> QED BY <1>13, <2>1, <2>2 DEF QueryFails, purchase, TablesTyped
<1>7. ASSUME NEW x \in Handler, FindOwnerAgain(x)
      PROVE  TablesTyped'
  <2>1. \A pc \in Step : [h[x] EXCEPT !.pc = pc] \in Call
    BY DEF TablesTyped, Call
  <2>2. h' \in [Handler -> Call]
    BY <1>7, <2>1, IdleIsCall DEF FindOwnerAgain, Throw, TablesTyped, Step
  <2> QED BY <1>7, <2>2 DEF FindOwnerAgain, purchase, TablesTyped
<1>8. ASSUME NEW x \in Handler, WriteOwner(x)
      PROVE  TablesTyped'
  <2>1. UNCHANGED <<purchase, sale, log, rows, charged, logged, records>>
    BY <1>8 DEF WriteOwner
  <2>2. CASE Answer(x) /\ ownerStatus' =
                            Written(ownerStatus, valt_status(Last(x).status))
    <3>1. ownerStatus' \in PaymentStatus
      BY <2>2, WrittenType DEF TablesTyped
    <3> QED BY <2>1, <2>2, <3>1, AnswerType, BoundsAssumption
        DEF purchase, TablesTyped
  <2>3. CASE Throw(x) /\ UNCHANGED <<acked, ownerStatus, faults>>
    <3>1. h' \in [Handler -> Call]
      BY <2>3, IdleIsCall DEF Throw, TablesTyped
    <3> QED BY <2>1, <2>3, <3>1 DEF purchase, TablesTyped
  <2> QED BY <1>8, <2>2, <2>3 DEF WriteOwner
<1>9. CASE Crash
  <2>1. h' \in [Handler -> Call]
    BY <1>9, IdleIsCall DEF Crash
  <2>2. faults' \in 0..MaxFaults
    BY <1>9, BoundsAssumption DEF Crash, TablesTyped
  <2> QED BY <1>9, <2>1, <2>2 DEF Crash, purchase, TablesTyped
<1>10. CASE UNCHANGED vars
  BY <1>10 DEF vars, TablesTyped
<1> QED
  BY <1>1, <1>2, <1>3, <1>4, <1>5, <1>6, <1>7, <1>8, <1>9, <1>10, <1>11,
     <1>12, <1>13
  DEF Next, Gateway, Handling

\* A call keeps to the part of the history it read, and to a report of it.
LEMMA CallsTypedStep ==
  ASSUME TablesTyped, \A x \in Handler : CallTyped(h[x]), [Next]_vars,
         NEW x \in Handler
  PROVE  CallTyped(h[x])'
<1>1. /\ h[x] \in Call /\ h[x].token \in Token
      /\ h[x].seen \in Nat /\ h[x].i \in Nat
      /\ h[x].seen <= Len(log[h[x].token])
      /\ h[x].pc # "idle" => h[x].seen \in 1..Len(log[h[x].token])
      /\ h[x].pc \in {"read", "apply", "file"} => h[x].i \in 1..h[x].seen
  BY CallFacts
<1>2. /\ \A t \in Token : log[t] \in Seq(Report) /\ log'[t] \in Seq(Report)
      /\ \A t \in Token : Len(log[t]) <= Len(log'[t])
  BY LogGrows DEF TablesTyped
<1>3. \A t \in Token : Len(log[t]) \in Nat /\ Len(log'[t]) \in Nat
  BY <1>2
<1>4. CASE h'[x] = h[x]
  BY <1>1, <1>2, <1>3, <1>4 DEF CallTyped
<1>5. CASE h'[x] = Idle
  <2>1. Len(log'[Idle.token]) >= 0
    BY <1>3, IdleIsCall
  <2> QED BY <1>5, <2>1, IdleIsCall DEF CallTyped
<1>6. ASSUME NEW t \in Token, Receive(x, t)
      PROVE  CallTyped(h[x])'
  <2>1. /\ h'[x] = [pc |-> "read", token |-> t, seen |-> Len(log[t]), i |-> 1]
        /\ log' = log /\ acked[t] < Len(log[t]) /\ acked[t] \in Nat
    BY <1>6 DEF Receive, TablesTyped
  <2> QED BY <1>3, <2>1 DEF CallTyped, Call, Step
<1>7. CASE FindOwner(x) /\ h'[x] # Idle
  <2>1. /\ h[x].pc = "read" /\ log' = log
        /\ \E pc \in {"record", "apply"} : h'[x] = [h[x] EXCEPT !.pc = pc]
    BY <1>7 DEF FindOwner, Throw, TablesTyped
  <2> QED BY <1>1, <2>1 DEF CallTyped, Call, Step
<1>8. CASE ApplyReport(x) /\ kind = "subscription"
  <2>1. /\ h[x].pc = "apply" /\ log' = log
        /\ h'[x] = [h[x] EXCEPT !.pc = "file"]
    BY <1>8 DEF ApplyReport, TablesTyped
  <2> QED BY <1>1, <2>1 DEF CallTyped, Call, Step
<1>10. CASE NextReport(x) /\ h[x].pc \in {"apply", "file"} /\ log' = log
            /\ h'[x] # Idle
  <2>1. \/ /\ h[x].i < h[x].seen
           /\ h'[x] = [h[x] EXCEPT !.pc = "apply", !.i = @ + 1]
        \/ h'[x] = [h[x] EXCEPT !.pc = "owner"]
    BY <1>10, NextReportMoves DEF TablesTyped
  <2>2. h'[x] \in Call
    BY <1>10, NextReportMoves DEF TablesTyped
  <2>3. /\ h'[x].token = h[x].token /\ h'[x].seen = h[x].seen
        /\ h'[x].pc # "owner" => h'[x].i = h[x].i + 1 /\ h[x].i < h[x].seen
    BY <1>1, <2>1 DEF Call
  <2> QED BY <1>1, <1>10, <2>2, <2>3 DEF CallTyped
<1>9. CASE FindOwnerAgain(x) /\ h'[x] # Idle
  <2>1. /\ h[x].pc = "owner" /\ log' = log
        /\ h'[x] = [h[x] EXCEPT !.pc = "write"]
    BY <1>9 DEF FindOwnerAgain, Throw, TablesTyped
  <2> QED BY <1>1, <2>1 DEF CallTyped, Call, Step
<1> QED BY <1>4, <1>5, <1>6, <1>7, <1>8, <1>9, <1>10, CallMoves
        DEF ApplyReport, FileReport, WriteFails

\* A list of records that gets one more: the others stay where they are.
LEMMA RecordsGrow ==
  ASSUME TablesTyped, \A x \in Handler : CallTyped(h[x]), [Next]_vars
  PROVE  \/ records' = records
         \/ \E x \in Handler :
              /\ RecordDefaulter(x)
              /\ Len(records') = Len(records) + 1
              /\ \A k \in 1..Len(records) : records'[k] = records[k]
              /\ records'[Len(records) + 1] =
                   [token |-> h[x].token, seen |-> h[x].seen,
                    items |-> Cardinality(defaulterItems(h[x].token, h[x].seen))]
<1>1. ASSUME NEW x \in Handler, RecordDefaulter(x), records' # records
      PROVE  /\ Len(records') = Len(records) + 1
             /\ \A k \in 1..Len(records) : records'[k] = records[k]
             /\ records'[Len(records) + 1] =
                  [token |-> h[x].token, seen |-> h[x].seen,
                   items |-> Cardinality(defaulterItems(h[x].token, h[x].seen))]
  <2> DEFINE debt == [token |-> h[x].token, seen |-> h[x].seen,
                      items |-> Cardinality(defaulterItems(h[x].token,
                                                           h[x].seen))]
  <2>1. debt \in Debt
    BY CallFacts, CountType DEF Debt
  <2>2. records \in Seq(Debt) /\ records' = Append(records, debt)
    BY <1>1 DEF RecordDefaulter, TablesTyped
  <2> HIDE DEF debt
  <2>3. /\ Len(records') = Len(records) + 1
        /\ \A k \in 1..Len(records) : records'[k] = records[k]
        /\ records'[Len(records) + 1] = debt
    BY <2>1, <2>2
  <2> QED BY <2>3 DEF debt
<1> QED
  BY <1>1
  DEF Next, Gateway, Handling, vars, SaleCommits, Resell, Change, Receive,
      FindOwner, ApplyReport, FileReport, WriteFails, QueryFails,
      FindOwnerAgain, WriteOwner, Crash

\* A history keeps to its bound and covers what was recorded from it.
LEMMA HistoriesStep ==
  ASSUME TablesTyped, \A x \in Handler : CallTyped(h[x]), HistoriesKept,
         [Next]_vars
  PROVE  HistoriesKept'
<1>1. /\ \A t \in Token : Len(log[t]) <= Len(log'[t])
      /\ \A t \in Token : log[t] \in Seq(Report) /\ log'[t] \in Seq(Report)
  BY LogGrows DEF TablesTyped
<1>2. \A t \in Token : Len(log[t]) \in Nat /\ Len(log'[t]) \in Nat
  BY <1>1
<1>3. \A t \in Token : Len(log'[t]) <= MaxHistory
  <2>1. ASSUME NEW t \in Token, NEW p \in About[t], NEW s \in Reported,
               Change(t, p, s)
        PROVE  \A u \in Token : Len(log'[u]) <= MaxHistory
    <3> DEFINE r == [parcel |-> p, status |-> s]
    <3>1. Len(log[t]) < MaxHistory /\ log' = [log EXCEPT ![t] = Append(log[t], r)]
      BY <2>1 DEF Change
    <3>2. r \in Report
      BY AboutAssumption DEF Report
    <3> HIDE DEF r
    <3>3. Len(Append(log[t], r)) = Len(log[t]) + 1
      BY <1>1, <3>2
    <3> QED BY <1>2, <3>1, <3>3, BoundsAssumption DEF HistoriesKept, TablesTyped
  <2>2. CASE log' = log
    BY <2>2 DEF HistoriesKept
  <2> QED
    BY <2>1, <2>2
    DEF Next, Gateway, Handling, vars, SaleCommits, Resell, Receive, FindOwner,
        RecordDefaulter, ApplyReport, FileReport, WriteFails, QueryFails,
        FindOwnerAgain, WriteOwner, Crash
<1>4. \A k \in 1..Len(records) :
        /\ records[k].token \in Token /\ records[k].seen \in Nat
        /\ records[k].seen <= Len(log[records[k].token])
        /\ records[k].seen <= Len(log'[records[k].token])
  <2>1. \A k \in 1..Len(records) : records[k] \in Debt
    BY DEF TablesTyped
  <2>2. \A k \in 1..Len(records) :
          records[k].token \in Token /\ records[k].seen \in Nat
    BY <2>1 DEF Debt
  <2> QED BY <1>1, <1>2, <2>2 DEF HistoriesKept
<1>5. \A k \in 1..Len(records') :
        records'[k].seen <= Len(log'[records'[k].token])
  <2>1. CASE records' = records
    BY <1>4, <2>1
  <2>2. CASE records' # records
    <3>0. PICK x \in Handler :
            /\ Len(records') = Len(records) + 1
            /\ \A k \in 1..Len(records) : records'[k] = records[k]
            /\ records'[Len(records) + 1] =
                 [token |-> h[x].token, seen |-> h[x].seen,
                  items |-> Cardinality(defaulterItems(h[x].token, h[x].seen))]
      BY <2>2, RecordsGrow
    <3>1. /\ records'[Len(records) + 1].token = h[x].token
          /\ records'[Len(records) + 1].seen = h[x].seen
      BY <3>0
    <3>2. /\ h[x].token \in Token /\ h[x].seen \in Nat
          /\ h[x].seen <= Len(log[h[x].token])
      BY CallFacts
    <3>3. h[x].seen <= Len(log'[h[x].token])
      BY <1>1, <1>2, <3>2
    <3>4. Len(records) \in Nat
      BY DEF TablesTyped
    <3> QED BY <1>4, <3>0, <3>1, <3>3, <3>4
  <2> QED BY <2>1, <2>2
<1> QED BY <1>3, <1>5 DEF HistoriesKept

\* Types and histories are kept by every step.
LEMMA TypeStep == TypeOK /\ HistoriesKept /\ [Next]_vars
                    => TypeOK' /\ HistoriesKept'
<1> SUFFICES ASSUME TypeOK, HistoriesKept, [Next]_vars
             PROVE  TypeOK' /\ HistoriesKept'
  OBVIOUS
<1>1. TablesTyped /\ \A x \in Handler : CallTyped(h[x])
  BY TypeParts
<1>2. TablesTyped' /\ HistoriesKept'
  BY <1>1, TablesStep, HistoriesStep
<1>3. \A x \in Handler : CallTyped(h[x])'
  BY <1>1, CallsTypedStep
<1>4. TypeOK'
  BY <1>2, <1>3 DEF TypeOK, TablesTyped, CallTyped, Call, Debt
<1> QED BY <1>2, <1>4

\* At the start nothing is reported, recorded or under way.
LEMMA TypeInit == Init => TypeOK /\ HistoriesKept
<1> SUFFICES ASSUME Init PROVE TypeOK /\ HistoriesKept
  OBVIOUS
<1>1. /\ \A t \in Token : log[t] = <<>> /\ acked[t] = 0
      /\ log \in [Token -> Seq(Report)] /\ acked \in [Token -> Nat]
      /\ rows \in [Parcel -> ChargeStatus] /\ ownerStatus \in PaymentStatus
      /\ records = <<>> /\ records \in Seq(Debt)
      /\ faults \in 0..MaxFaults
  BY BoundsAssumption DEF Init, ChargeStatus, PaymentStatus
<1>2. charged \in [Token -> [1..MaxHistory -> 0..Twice]]
  BY DEF Init, Twice
<1>3. h \in [Handler -> Call] /\ \A x \in Handler : h[x] = Idle
  BY IdleIsCall DEF Init
<1>4. TablesTyped
  BY <1>1, <1>2, <1>3 DEF Init, TablesTyped
<1>5. \A x \in Handler : CallTyped(h[x])
  BY <1>1, <1>3, IdleIsCall DEF CallTyped
<1>6. HistoriesKept
  BY <1>1, BoundsAssumption DEF HistoriesKept
<1> QED BY <1>4, <1>5, <1>6, TypeParts

\* Histories, tables and calls always have their types: no handler applies a
\* report past the end of the history it read, and every status that is
\* written is one its column takes.
THEOREM TypeCorrect == Spec => []TypeOK
BY TypeInit, TypeStep, PTL DEF Spec

(***************************************************************************)
(* The judgement of a history, and what a call is past                     *)
(***************************************************************************)
\* The judgement of a snapshot stands: reports that come later, a payment
\* included, change nothing about it.
LEMMA JudgementStands ==
  ASSUME TablesTyped, [Next]_vars, NEW t \in Token, NEW n \in Nat,
         n <= Len(log[t])
  PROVE  /\ { i \in 1..n : log'[t][i].status \in defaulterStatus }
              = defaulterItems(t, n)
         /\ isDefaulter(t, n)' <=> isDefaulter(t, n)
<1>1. log[t] \in Seq(Report)
  BY DEF TablesTyped
<1>2. \A i \in 1..n : i \in 1..Len(log[t])
  BY <1>1
<1>3. \A i \in 1..n : log'[t][i] = log[t][i]
  BY <1>2, LogGrows
<1>4. { i \in 1..n : log'[t][i].status \in defaulterStatus }
        = { i \in 1..n : log[t][i].status \in defaulterStatus }
  BY <1>3
<1> QED BY <1>4 DEF isDefaulter, defaulterItems, defaulterStatus

\* What the purchase is never changes, a purchase on the books stays there, and
\* a subscription's report that was dealt with stays so.
LEMMA FactsStand ==
  ASSUME TablesTyped, \A x \in Handler : CallTyped(h[x]), HistoriesKept,
         [Next]_vars
  PROVE  /\ kind' = kind
         /\ sale # "pending" => sale' # "pending"
         /\ kind = "subscription" =>
              \A t \in Token, j \in 1..MaxHistory : Dealt(t, j) => Dealt(t, j)'
<1>1. kind' = kind
  BY DEF Next, Gateway, Handling, vars, purchase, SaleCommits, Resell, Change,
         Receive, FindOwner, RecordDefaulter, ApplyReport, FileReport,
         WriteFails, QueryFails, FindOwnerAgain, WriteOwner, Crash
<1>2. sale # "pending" => sale' # "pending"
  BY DEF Next, Gateway, Handling, vars, SaleCommits, Resell, Change, Receive,
         FindOwner, RecordDefaulter, ApplyReport, FileReport, WriteFails,
         QueryFails, FindOwnerAgain, WriteOwner, Crash
<1>3. ASSUME kind = "subscription",
             NEW t \in Token, NEW j \in 1..MaxHistory, Dealt(t, j)
      PROVE  Dealt(t, j)'
  <2>1. ASSUME NEW x \in Handler, FileReport(x)
        PROVE  Dealt(t, j)'
    <3>1. h[x].token \in Token /\ h[x].i \in 1..MaxHistory
      BY <2>1, AtReport, BoundsAssumption DEF FileReport
    <3>2. CASE t = h[x].token /\ j = h[x].i
      BY <2>1, <3>2, FiledIsCharged, BoundsAssumption DEF Dealt
    <3>3. CASE ~ (t = h[x].token /\ j = h[x].i)
      <4>1. charged'[t][j] = charged[t][j]
        BY <2>1, <3>3, FiledIsCharged, BoundsAssumption
      <4>2. j \in logged[t] => j \in logged'[t]
        BY <2>1, <3>1, <3>3 DEF FileReport, NotGivenUp, TablesTyped
      <4> QED BY <1>3, <4>1, <4>2 DEF Dealt
    <3> QED BY <3>2, <3>3
  <2>2. ASSUME NEW x \in Handler, WriteFails(x)
        PROVE  Dealt(t, j)'
    BY <1>3, <2>2 DEF WriteFails, GivenUp, Dealt, TablesTyped
  <2>3. CASE UNCHANGED <<charged, logged>>
    BY <1>3, <2>3 DEF Dealt
  <2> QED
    BY <1>3, <2>1, <2>2, <2>3
    DEF Next, Gateway, Handling, vars, SaleCommits, Resell, Change, Receive,
        FindOwner, RecordDefaulter, ApplyReport, QueryFails, FindOwnerAgain,
        WriteOwner, Crash
<1> QED BY <1>1, <1>2, <1>3

\* What is known of a call stays true while other handlers, the gateway and the
\* sale go on.
LEMMA OthersDoNotDisturb ==
  ASSUME TablesTyped, \A x \in Handler : CallTyped(h[x]), HistoriesKept,
         [Next]_vars, NEW c \in Call, CallTyped(c), CallInOrder(c)
  PROVE  CallInOrder(c)'
<1>1. /\ c.token \in Token /\ c.seen \in Nat /\ c.i \in Nat
      /\ c.seen <= Len(log[c.token])
      /\ c.pc \in {"apply", "file"} => c.i \in 1..c.seen
  BY DEF CallTyped, Call
<1>2. Len(log[c.token]) \in Nat /\ Len(log[c.token]) <= MaxHistory
  BY <1>1 DEF TablesTyped, HistoriesKept
<1>3. isDefaulter(c.token, c.seen)' <=> isDefaulter(c.token, c.seen)
  BY <1>1, JudgementStands
<1>4. /\ \A j \in 1..c.seen : j \in 1..MaxHistory
      /\ c.pc \in {"apply", "file"} =>
           \A j \in 1..(c.i - 1) : j \in 1..MaxHistory
  BY <1>1, <1>2, BoundsAssumption
<1>5. /\ kind' = kind
      /\ sale # "pending" => sale' # "pending"
      /\ kind = "subscription" =>
           \A j \in 1..MaxHistory : Dealt(c.token, j) => Dealt(c.token, j)'
  BY <1>1, FactsStand
<1>6. /\ c.pc = "read" => c.i = 1
      /\ c.pc \in {"record", "apply", "file", "owner", "write"} =>
           sale' # "pending"
      /\ c.pc \in {"owner", "write"} /\ kind' # "charge" => c.seen > 1
      /\ c.pc = "file" => kind' = "subscription"
  BY <1>5 DEF CallInOrder
<1>7. /\ c.pc = "record" => isDefaulter(c.token, c.seen)'
      /\ c.pc \in {"apply", "file", "owner", "write"}
           => ~ isDefaulter(c.token, c.seen)'
  BY <1>3 DEF CallInOrder
<1>8. kind' = "subscription" =>
        /\ c.pc \in {"apply", "file"} =>
             \A j \in 1..(c.i - 1) : Dealt(c.token, j)'
        /\ c.pc \in {"owner", "write"} =>
             \A j \in 1..c.seen : Dealt(c.token, j)'
  BY <1>4, <1>5 DEF CallInOrder
<1> QED BY <1>6, <1>7, <1>8 DEF CallInOrder

\* A call that goes on knows more: that the purchase is on the books, how the
\* history was judged, which reports are on file.
LEMMA CallGoesOn ==
  ASSUME TablesTyped, \A x \in Handler : CallTyped(h[x]), HistoriesKept,
         [Next]_vars, NEW x \in Handler, CallInOrder(h[x]),
         NEW c \in Call, c = h'[x], c # Idle,
         \/ FindOwner(x) \/ FindOwnerAgain(x)
         \/ ApplyReport(x) \/ FileReport(x) \/ WriteFails(x)
  PROVE  CallInOrder(c)'
<1>1. /\ h[x] \in Call
      /\ h[x].token \in Token /\ h[x].seen \in Nat /\ h[x].i \in Nat
      /\ h[x].seen <= Len(log[h[x].token])
      /\ h[x].pc \in {"read", "apply", "file"} => h[x].i \in 1..h[x].seen
      /\ Len(log[h[x].token]) \in Nat
  BY CallFacts
<1>0. h \in [Handler -> Call]
  BY DEF TablesTyped
<1>2. c.token = h[x].token /\ c.seen = h[x].seen
  <2>1. \/ \E pc \in Step : c = [h[x] EXCEPT !.pc = pc]
        \/ c = [h[x] EXCEPT !.pc = "apply", !.i = @ + 1]
    <3>1. CASE \/ FindOwner(x) \/ FindOwnerAgain(x)
               \/ ApplyReport(x) /\ kind = "subscription"
      BY <1>0, <3>1 DEF FindOwner, FindOwnerAgain, ApplyReport, Throw, Step
    <3>2. CASE NextReport(x)
      BY <1>0, <3>2, NextReportMoves DEF Step
    <3> QED BY <3>1, <3>2 DEF ApplyReport, FileReport, WriteFails
  <2> QED BY <1>1, <2>1 DEF Call
<1>3. isDefaulter(c.token, c.seen)' <=> isDefaulter(h[x].token, h[x].seen)
  BY <1>1, <1>2, JudgementStands
<1>4. /\ kind' = kind
      /\ kind = "subscription" =>
           \A t \in Token, j \in 1..MaxHistory : Dealt(t, j) => Dealt(t, j)'
  BY FactsStand
<1>5. CASE FindOwner(x)
  <2>1. /\ h[x].pc = "read" /\ sale = "current" /\ sale' = sale
        /\ c = [h[x] EXCEPT !.pc = IF isDefaulter(h[x].token, h[x].seen)
                                     THEN "record" ELSE "apply"]
    BY <1>5 DEF FindOwner, Throw, TablesTyped
  <2>2. c.i = 1
    BY <1>1, <2>1 DEF CallInOrder, Call
  <2>3. \/ c.pc = "record" /\ isDefaulter(h[x].token, h[x].seen)
        \/ c.pc = "apply" /\ ~ isDefaulter(h[x].token, h[x].seen)
    BY <1>1, <2>1 DEF Call
  <2> QED BY <1>3, <2>1, <2>2, <2>3 DEF CallInOrder
<1>6. CASE ApplyReport(x) /\ kind = "subscription"
  <2>1. /\ h[x].pc = "apply" /\ sale' = sale /\ c = [h[x] EXCEPT !.pc = "file"]
        /\ sale # "pending" /\ ~ isDefaulter(h[x].token, h[x].seen)
        /\ \A j \in 1..(h[x].i - 1) : Dealt(h[x].token, j)
    BY <1>0, <1>6 DEF ApplyReport, CallInOrder
  <2>2. c.pc = "file" /\ c.i = h[x].i
    BY <1>1, <2>1 DEF Call
  <2>3. \A j \in 1..(c.i - 1) : j \in 1..MaxHistory
    <3>1. h[x].i \in 1..MaxHistory
      BY <2>1, AtReport, BoundsAssumption
    <3> QED BY <2>2, <3>1, BoundsAssumption
  <2>4. \A j \in 1..(c.i - 1) : Dealt(c.token, j)'
    BY <1>1, <1>2, <1>4, <1>6, <2>1, <2>2, <2>3
  <2> QED BY <1>3, <1>4, <1>6, <2>1, <2>2, <2>4 DEF CallInOrder
<1>8. CASE /\ NextReport(x)
           /\ \/ ApplyReport(x) /\ kind # "subscription"
              \/ FileReport(x) \/ WriteFails(x)
  <2>1. /\ h[x].pc \in {"apply", "file"} /\ sale # "pending" /\ sale' = sale
        /\ ~ isDefaulter(h[x].token, h[x].seen)
    BY <1>8 DEF ApplyReport, FileReport, WriteFails, CallInOrder
  <2>2. h[x].token \in Token /\ h[x].i \in 1..MaxHistory
    BY <2>1, AtReport, BoundsAssumption
  <2>3. ASSUME kind = "subscription", NEW j, j = h[x].i
        PROVE  Dealt(c.token, j)'
    <3>1. CASE FileReport(x)
      BY <1>2, <2>3, <3>1, FiledIsCharged, BoundsAssumption DEF Dealt
    <3>2. CASE WriteFails(x)
      <4>1. logged' = [logged EXCEPT ![c.token] = @ \cup {j}]
        BY <1>2, <2>3, <3>2 DEF WriteFails, GivenUp
      <4> QED BY <1>2, <2>2, <4>1 DEF Dealt, TablesTyped
    <3> QED BY <1>8, <2>3, <3>1, <3>2
  <2>4. kind = "subscription" => \A j \in 1..h[x].i : Dealt(c.token, j)'
    <3> SUFFICES ASSUME kind = "subscription", NEW j \in 1..h[x].i
                 PROVE  Dealt(c.token, j)'
      OBVIOUS
    <3>1. j \in 1..MaxHistory /\ (j = h[x].i \/ j \in 1..(h[x].i - 1))
      BY <2>2, BoundsAssumption
    <3>2. CASE j = h[x].i
      BY <2>3, <3>2
    <3>3. CASE j \in 1..(h[x].i - 1)
      <4>1. Dealt(h[x].token, j)
        BY <2>1, <3>3 DEF CallInOrder
      <4> QED BY <1>2, <1>4, <2>2, <3>1, <4>1
    <3> QED BY <3>1, <3>2, <3>3
  <2>5. CASE c = [h[x] EXCEPT !.pc = "apply", !.i = @ + 1]
    <3>1. c.pc = "apply" /\ c.i - 1 = h[x].i
      BY <1>1, <2>5 DEF Call
    <3> QED BY <1>3, <1>4, <2>1, <2>4, <3>1 DEF CallInOrder
  <2>6. CASE c # [h[x] EXCEPT !.pc = "apply", !.i = @ + 1]
    <3>1. /\ ~ (h[x].i < h[x].seen) /\ (kind # "charge" => h[x].seen # 1)
          /\ c = [h[x] EXCEPT !.pc = "owner"]
      BY <1>0, <1>8, <2>6, NextReportMoves
    <3>2. c.pc = "owner"
      BY <1>1, <3>1 DEF Call
    <3>3. h[x].i = h[x].seen /\ (kind # "charge" => h[x].seen > 1)
      BY <1>1, <2>1, <3>1
    <3> QED BY <1>2, <1>3, <1>4, <2>1, <2>4, <3>2, <3>3 DEF CallInOrder
  <2> QED BY <2>5, <2>6
<1>7. CASE FindOwnerAgain(x)
  <2>1. /\ h[x].pc = "owner" /\ sale = "current" /\ sale' = sale
        /\ UNCHANGED <<charged, logged>>
        /\ c = [h[x] EXCEPT !.pc = "write"]
    BY <1>7 DEF FindOwnerAgain, Throw, TablesTyped
  <2>2. c.pc = "write"
    BY <1>1, <2>1 DEF Call
  <2> QED BY <1>2, <1>3, <1>4, <2>1, <2>2 DEF CallInOrder, Dealt
<1> QED BY <1>5, <1>6, <1>7, <1>8 DEF ApplyReport, FileReport, WriteFails

\* Every call is in order after every step.
LEMMA CallsStep ==
  ASSUME TablesTyped, \A x \in Handler : CallTyped(h[x]), HistoriesKept,
         CallsInOrder, [Next]_vars
  PROVE  CallsInOrder'
<1> SUFFICES ASSUME NEW x \in Handler, NEW c, c = h'[x]
             PROVE  CallInOrder(c)'
  BY DEF CallsInOrder
<1>1. CallInOrder(h[x])
  BY DEF CallsInOrder
<1>2. c \in Call
  BY TablesStep DEF TablesTyped
<1>3. CASE c = h[x]
  <2>1. CallTyped(c) /\ CallInOrder(c)
    BY <1>1, <1>3
  <2> QED BY <1>2, <2>1, OthersDoNotDisturb
<1>4. CASE c = Idle
  BY <1>4, IdleIsCall DEF CallInOrder
<1>5. ASSUME NEW t \in Token, Receive(x, t)
      PROVE  CallInOrder(c)'
  <2>1. c = [pc |-> "read", token |-> t, seen |-> Len(log[t]), i |-> 1]
    BY <1>5 DEF Receive, TablesTyped
  <2>2. c.pc = "read" /\ c.i = 1
    BY <2>1
  <2> QED BY <2>2 DEF CallInOrder
<1>6. CASE \/ FindOwner(x) \/ FindOwnerAgain(x)
           \/ ApplyReport(x) \/ FileReport(x) \/ WriteFails(x)
  BY <1>1, <1>2, <1>4, <1>6, CallGoesOn
<1> QED BY <1>3, <1>4, <1>5, <1>6, CallMoves

(***************************************************************************)
(* What is shown, judged and confirmed                                     *)
(***************************************************************************)
\* Rows change only by a report that is applied, the owner row only by the last
\* report of a history, and what is confirmed is the history of such a call.
LEMMA WritersOnly ==
  ASSUME [Next]_vars
  PROVE  /\ rows' # rows => \E x \in Handler : ApplyReport(x)
         /\ ownerStatus' # ownerStatus => \E x \in Handler : WriteOwner(x)
         /\ acked' # acked => \E x \in Handler : WriteOwner(x)
BY DEF Next, Gateway, Handling, vars, SaleCommits, Resell, Change, Receive,
       FindOwner, RecordDefaulter, ApplyReport, FileReport, WriteFails,
       QueryFails, FindOwnerAgain, WriteOwner, Crash

\* What a row or the owner row says goes on being what was once reported.
LEMMA StatusesStep ==
  ASSUME TablesTyped, \A x \in Handler : CallTyped(h[x]), HistoriesKept,
         CallsInOrder, StatusesReported, [Next]_vars
  PROVE  StatusesReported'
<1>1. /\ kind' = kind
      /\ sale # "pending" => sale' # "pending"
  BY FactsStand
<1>2. \A t \in Token : /\ Len(log[t]) \in Nat /\ Len(log'[t]) \in Nat
                       /\ Len(log[t]) <= Len(log'[t])
                       /\ \A i \in 1..Len(log[t]) : log'[t][i] = log[t][i]
  <2>1. \A t \in Token : log[t] \in Seq(Report) /\ log'[t] \in Seq(Report)
    BY LogGrows DEF TablesTyped
  <2> QED BY <2>1, LogGrows
<1>3. \A t \in Token : \A i \in 1..Len(log[t]) :
        i \in 1..Len(log'[t]) /\ log'[t][i] = log[t][i]
  BY <1>2
<1>4. ASSUME NEW p \in Parcel, rows'[p] # "AGUARDANDO_PAGAMENTO"
      PROVE  /\ sale' # "pending"
             /\ \E t \in Token : \E i \in 1..Len(log'[t]) :
                  /\ rows'[p] = IF kind = "charge"
                                  THEN resolve_status_charge(log'[t][i].status)
                                  ELSE resolve_status_carnet(log'[t][i].status)
                  /\ kind = "charge" => log'[t][i].parcel = p
  <2>1. CASE rows'[p] = rows[p]
    <3>1. sale # "pending"
      BY <1>4, <2>1 DEF StatusesReported
    <3>2. \E t \in Token : \E i \in 1..Len(log[t]) :
            /\ rows[p] = RowText(log[t][i].status)
            /\ kind = "charge" => log[t][i].parcel = p
      BY <1>4, <2>1 DEF StatusesReported
    <3> QED BY <1>1, <1>3, <2>1, <3>1, <3>2 DEF RowText
  <2>2. CASE rows'[p] # rows[p]
    <3>1. PICK x \in Handler : ApplyReport(x)
      BY <2>2, WritersOnly
    <3>2. /\ h[x].token \in Token /\ h[x].i \in 1..Len(log[h[x].token])
      BY <3>1, CallFacts DEF ApplyReport
    <3>3. sale # "pending"
      BY <3>1 DEF ApplyReport, CallsInOrder, CallInOrder
    <3>4. rows' = RowsAfter(h[x].token, h[x].i)
      BY <3>1 DEF ApplyReport
    <3>5. CASE kind = "charge"
      <4>1. log[h[x].token][h[x].i].parcel = p
        BY <2>2, <3>4, <3>5 DEF RowsAfter, TablesTyped
      <4>2. rows'[p] = resolve_status_charge(log[h[x].token][h[x].i].status)
        BY <2>2, <3>4, <3>5, <4>1 DEF RowsAfter, Written, TablesTyped
      <4> QED BY <1>1, <1>3, <3>2, <3>3, <3>5, <4>1, <4>2
    <3>6. CASE kind # "charge"
      <4>1. rows'[p] = resolve_status_carnet(log[h[x].token][h[x].i].status)
        BY <2>2, <3>4, <3>6 DEF RowsAfter, Written, TablesTyped
      <4> QED BY <1>1, <1>3, <3>2, <3>3, <3>6, <4>1
    <3> QED BY <3>5, <3>6
  <2> QED BY <2>1, <2>2
<1>5. ASSUME ownerStatus' # "AGUARDANDO_PAGAMENTO"
      PROVE  /\ sale' # "pending"
             /\ \E t \in Token : \E i \in 1..Len(log'[t]) :
                  ownerStatus' = valt_status(log'[t][i].status)
  <2>1. CASE ownerStatus' = ownerStatus
    <3>1. sale # "pending"
      BY <1>5, <2>1 DEF StatusesReported
    <3>2. \E t \in Token : \E i \in 1..Len(log[t]) :
            ownerStatus = valt_status(log[t][i].status)
      BY <1>5, <2>1 DEF StatusesReported
    <3> QED BY <1>1, <1>3, <2>1, <3>1, <3>2
  <2>2. CASE ownerStatus' # ownerStatus
    <3>1. PICK x \in Handler : WriteOwner(x)
      BY <2>2, WritersOnly
    <3>2. h[x].token \in Token /\ h[x].seen \in 1..Len(log[h[x].token])
      BY <3>1, CallFacts DEF WriteOwner
    <3>3. sale # "pending"
      BY <3>1 DEF WriteOwner, CallsInOrder, CallInOrder
    <3>4. ownerStatus' = valt_status(log[h[x].token][h[x].seen].status)
      BY <2>2, <3>1 DEF WriteOwner, Written, Last
    <3> QED BY <1>1, <1>3, <3>2, <3>3, <3>4
  <2> QED BY <2>1, <2>2
<1> QED BY <1>1, <1>4, <1>5 DEF StatusesReported, RowText

\* Only a call that applied its whole history is confirmed, and only up to the
\* end of that history.
LEMMA ConfirmedBy ==
  ASSUME TablesTyped, \A x \in Handler : CallTyped(h[x]), CallsInOrder,
         [Next]_vars, NEW t \in Token, acked'[t] # acked[t]
  PROVE  \E x \in Handler :
           /\ h[x].pc = "write" /\ CallInOrder(h[x])
           /\ h[x].token = t /\ acked'[t] = h[x].seen
           /\ UNCHANGED <<kind, sale, log, charged, logged>>
<1>1. PICK x \in Handler : WriteOwner(x)
  BY WritersOnly
<1>2. acked' = [acked EXCEPT ![h[x].token] =
                  IF @ > h[x].seen THEN @ ELSE h[x].seen]
  BY <1>1 DEF WriteOwner, Answer
<1>3. h[x].token = t /\ acked'[t] = h[x].seen
  BY <1>2 DEF TablesTyped
<1> QED BY <1>1, <1>3 DEF WriteOwner, purchase, CallsInOrder

\* Records are made of two bad reports or more, and a history that has as many
\* is never confirmed.
LEMMA DefaultersStep ==
  ASSUME TablesTyped, \A x \in Handler : CallTyped(h[x]), HistoriesKept,
         CallsInOrder, DefaultersJudged, [Next]_vars
  PROVE  DefaultersJudged'
<1>1. ASSUME NEW k \in 1..Len(records'), NEW t \in Token, NEW n \in Nat,
             t = records'[k].token, n = records'[k].seen
      PROVE  records'[k].items >= 2 /\ isDefaulter(t, n)'
  <2>1. Len(records) \in Nat /\ \A j \in 1..Len(records) : records[j] \in Debt
    BY DEF TablesTyped
  <2>2. CASE k \in 1..Len(records) /\ records'[k] = records[k]
    <3>1. t \in Token /\ n \in Nat /\ n <= Len(log[t])
      BY <1>1, <2>1, <2>2 DEF Debt, HistoriesKept
    <3>2. records[k].items >= 2 /\ isDefaulter(t, n)
      BY <1>1, <2>2 DEF DefaultersJudged
    <3> QED BY <2>2, <3>1, <3>2, JudgementStands
  <2>3. CASE ~ (k \in 1..Len(records) /\ records'[k] = records[k])
    <3>1. PICK x \in Handler :
            /\ RecordDefaulter(x)
            /\ Len(records') = Len(records) + 1
            /\ \A j \in 1..Len(records) : records'[j] = records[j]
            /\ records'[Len(records) + 1] =
                 [token |-> h[x].token, seen |-> h[x].seen,
                  items |-> Cardinality(defaulterItems(h[x].token, h[x].seen))]
      BY <1>1, <2>3, RecordsGrow
    <3>2. k = Len(records) + 1
      BY <2>1, <2>3, <3>1
    <3>3. /\ t = h[x].token /\ n = h[x].seen
          /\ records'[k].items = Cardinality(defaulterItems(t, n))
      BY <1>1, <3>1, <3>2
    <3>4. t \in Token /\ n \in Nat /\ n <= Len(log[t])
      BY <3>3, CallFacts
    <3>5. isDefaulter(t, n)
      BY <3>1, <3>3 DEF RecordDefaulter, CallsInOrder, CallInOrder
    <3>6. records'[k].items >= 2
      BY <3>3, <3>5 DEF isDefaulter
    <3> QED BY <3>4, <3>5, <3>6, JudgementStands
  <2> QED BY <2>2, <2>3
<1>2. ASSUME NEW t \in Token, NEW n \in Nat, n = acked'[t]
      PROVE  ~ isDefaulter(t, n)'
  <2>1. CASE n = acked[t]
    <3>1. n \in Nat /\ n <= Len(log[t]) /\ ~ isDefaulter(t, n)
      BY <2>1 DEF TablesTyped, DefaultersJudged
    <3> QED BY <3>1, JudgementStands
  <2>2. CASE n # acked[t]
    <3>1. PICK x \in Handler : /\ h[x].pc = "write" /\ CallInOrder(h[x])
                               /\ h[x].token = t /\ n = h[x].seen
      BY <1>2, <2>2, ConfirmedBy
    <3>2. n \in Nat /\ n <= Len(log[t])
      BY <3>1, CallFacts
    <3>3. ~ isDefaulter(t, n)
      BY <3>1 DEF CallInOrder
    <3> QED BY <3>2, <3>3, JudgementStands
  <2> QED BY <2>1, <2>2
<1>3. ASSUME NEW k \in 1..Len(records')
      PROVE  /\ records'[k].items >= 2
             /\ isDefaulter(records[k].token, records[k].seen)'
  <2>1. records'[k] \in Debt
    BY TablesStep DEF TablesTyped
  <2>2. PICK t \in Token, n \in Nat :
          t = records'[k].token /\ n = records'[k].seen
    BY <2>1 DEF Debt
  <2>3. records'[k].items >= 2 /\ isDefaulter(t, n)'
    BY <1>1, <2>2
  <2>4. { i \in 1..n : log'[t][i].status \in defaulterStatus }
          = { i \in 1..records'[k].seen :
                log'[records'[k].token][i].status \in defaulterStatus }
    BY <2>2
  <2> QED BY <2>3, <2>4 DEF isDefaulter, defaulterItems
<1>4. ASSUME NEW t \in Token
      PROVE  ~ isDefaulter(t, acked[t])'
  <2>1. PICK n \in Nat : n = acked'[t]
    BY TablesStep DEF TablesTyped
  <2>2. ~ isDefaulter(t, n)'
    BY <1>2, <2>1
  <2>3. { i \in 1..n : log'[t][i].status \in defaulterStatus }
          = { i \in 1..acked'[t] : log'[t][i].status \in defaulterStatus }
    BY <2>1
  <2> QED BY <2>2, <2>3 DEF isDefaulter, defaulterItems
<1> QED BY <1>3, <1>4 DEF DefaultersJudged

\* A confirmation says that every report before it is on file or was given up.
LEMMA ConfirmedStep ==
  ASSUME TablesTyped, \A x \in Handler : CallTyped(h[x]), HistoriesKept,
         CallsInOrder, ConfirmedIsOnFile, [Next]_vars
  PROVE  ConfirmedIsOnFile'
<1> SUFFICES ASSUME NEW t \in Token, acked'[t] > 0
             PROVE  /\ sale' # "pending"
                    /\ kind' # "charge" => acked'[t] > 1
                    /\ kind' = "subscription" =>
                         \A i \in 1..acked'[t] : Dealt(t, i)'
  BY DEF ConfirmedIsOnFile
<1>1. /\ kind' = kind
      /\ sale # "pending" => sale' # "pending"
      /\ kind = "subscription" =>
           \A j \in 1..MaxHistory : Dealt(t, j) => Dealt(t, j)'
  BY FactsStand
<1>2. CASE acked'[t] = acked[t]
  <2>1. acked[t] \in Nat /\ acked[t] <= Len(log[t])
    BY DEF TablesTyped
  <2>2. Len(log[t]) \in Nat /\ Len(log[t]) <= MaxHistory
    BY DEF TablesTyped, HistoriesKept
  <2>3. \A i \in 1..acked[t] : i \in 1..MaxHistory
    BY <2>1, <2>2, BoundsAssumption
  <2> QED BY <1>1, <1>2, <2>3 DEF ConfirmedIsOnFile
<1>3. CASE acked'[t] # acked[t]
  <2>1. PICK x \in Handler :
          /\ h[x].pc = "write" /\ CallInOrder(h[x])
          /\ h[x].token = t /\ acked'[t] = h[x].seen
          /\ UNCHANGED <<kind, sale, log, charged, logged>>
    BY <1>3, ConfirmedBy
  <2> QED BY <2>1 DEF CallInOrder, Dealt
<1> QED BY <1>2, <1>3

\* Every step of the gateway, the sale and the handlers keeps all of it.
LEMMA HooksStep == HooksInv /\ [Next]_vars => HooksInv'
<1> SUFFICES ASSUME HooksInv, [Next]_vars PROVE HooksInv'
  OBVIOUS
<1>1. /\ TypeOK /\ HistoriesKept /\ CallsInOrder /\ StatusesReported
      /\ DefaultersJudged /\ ConfirmedIsOnFile
  BY DEF HooksInv
<1>2. TablesTyped /\ \A x \in Handler : CallTyped(h[x])
  BY <1>1, TypeParts
<1>3. TypeOK' /\ HistoriesKept'
  BY <1>1, TypeStep
<1>4. CallsInOrder'
  BY <1>1, <1>2, CallsStep
<1>5. StatusesReported'
  BY <1>1, <1>2, StatusesStep
<1>6. DefaultersJudged'
  BY <1>1, <1>2, DefaultersStep
<1>7. ConfirmedIsOnFile'
  BY <1>1, <1>2, ConfirmedStep
<1> QED BY <1>3, <1>4, <1>5, <1>6, <1>7 DEF HooksInv

\* At the start nothing is shown, judged or confirmed.
LEMMA HooksInit == Init => HooksInv
<1> SUFFICES ASSUME Init PROVE HooksInv
  OBVIOUS
<1>1. TypeOK /\ HistoriesKept
  BY TypeInit
<1>2. CallsInOrder
  <2>1. \A x \in Handler : h[x] = Idle
    BY DEF Init
  <2> QED BY <2>1, IdleIsCall DEF CallsInOrder, CallInOrder
<1>3. StatusesReported
  BY DEF Init, StatusesReported
<1>4. DefaultersJudged
  <2>1. \A t \in Token : acked[t] = 0
    BY DEF Init
  <2>2. Len(records) = 0
    BY DEF Init
  <2> QED BY <2>1, <2>2, EmptyIsNoDefault DEF DefaultersJudged
<1>5. ConfirmedIsOnFile
  BY DEF Init, ConfirmedIsOnFile
<1> QED BY <1>1, <1>2, <1>3, <1>4, <1>5 DEF HooksInv

\* In every state the calls are in order and the properties they keep hold.
LEMMA HooksInvariant == Spec => []HooksInv
BY HooksInit, HooksStep, PTL DEF Spec

\* However calls overlap, repeat and crash, a row shows only what the gateway
\* reported about its own charge, and the owner row only what it reported.
THEOREM StatusesAreReported == Spec => []StatusesReported
BY HooksInvariant, PTL DEF HooksInv

\* A delinquency record stands on two bad reports at least, and a history with
\* two is never confirmed: the handler throws after each judgement, and the
\* judgement of what was read cannot change before the answer.
THEOREM DefaultersAreJudged == Spec => []DefaultersJudged
BY HooksInvariant, PTL DEF HooksInv

\* Whatever was confirmed to the gateway had been gone through in full by one
\* call, for a purchase that was on the books: each report of a subscription is
\* on file, or the write of it failed and was logged.
THEOREM ConfirmedMeansOnFile == Spec => []ConfirmedIsOnFile
BY HooksInvariant, PTL DEF HooksInv

\* Calls that read the history of a defaulter write neither rows nor the owner
\* status: from the second bad report on only an older call can change them.
THEOREM DefaultersAreFrozen == Spec => FrozenOnceDefaulter
<1> DEFINE Frozen == (\A x \in Handler :
                        h[x].pc # "idle" => isDefaulter(h[x].token, h[x].seen))
                     => rows' = rows /\ ownerStatus' = ownerStatus
<1>1. ASSUME HooksInv, [Next]_vars
      PROVE  Frozen
  <2>1. ASSUME NEW x \in Handler, ApplyReport(x) \/ WriteOwner(x)
        PROVE  h[x].pc # "idle" /\ ~ isDefaulter(h[x].token, h[x].seen)
    BY <1>1, <2>1 DEF ApplyReport, WriteOwner, HooksInv, CallsInOrder,
                      CallInOrder
  <2> QED BY <1>1, <2>1, WritersOnly
<1>2. HooksInv /\ [Next]_vars => [Frozen]_vars
  BY <1>1
<1> QED BY <1>2, HooksInvariant, PTL DEF Spec, FrozenOnceDefaulter

(***************************************************************************)
(* PaymentHooks implements ReportLedger                                    *)
(***************************************************************************)
\* The ledger counts bad reports as the judge does.
LEMMA CountedAlike ==
  ASSUME NEW t \in Token, NEW n
  PROVE  Reports!BadAmong(t, n) = Cardinality(defaulterItems(t, n))
BY DEF Reports!BadAmong, defaulterItems, defaulterStatus, Cardinality,
       Reports!Cardinality

\* What comes before a report in a history that is no default is no default.
LEMMA NoDefaultBefore ==
  ASSUME NEW t \in Token, NEW n \in Nat, NEW i \in 1..n, ~ isDefaulter(t, n)
  PROVE  Reports!BadAmong(t, i) < 2
<1>1. defaulterItems(t, i) \subseteq defaulterItems(t, n)
  BY DEF defaulterItems
<1>2. IsFiniteSet(defaulterItems(t, n))
  <2>1. IsFiniteSet(1..n)
    BY FS_Interval
  <2> QED BY <2>1, CountType, FS_Subset
<1>3. Cardinality(defaulterItems(t, i)) <= Cardinality(defaulterItems(t, n))
  BY <1>1, <1>2, FS_Subset
<1>4. /\ Cardinality(defaulterItems(t, i)) \in Nat
      /\ Cardinality(defaulterItems(t, n)) \in Nat
  BY CountType
<1>5. ~ (Cardinality(defaulterItems(t, n)) >= 2)
  BY DEF isDefaulter
<1>6. Cardinality(defaulterItems(t, i)) < 2
  BY <1>3, <1>4, <1>5
<1> QED BY <1>6, CountedAlike

\* What the ledger reads for a report is what the hook writes for it.
LEMMA ReadAlike ==
  ASSUME TablesTyped, NEW t \in Token, NEW i \in 1..Len(log[t])
  PROVE  /\ log[t][i].parcel \in Parcel
         /\ log[t][i].status \in Reported
<1>1. log[t] \in Seq(Report)
  BY DEF TablesTyped
<1>2. log[t][i] \in Report
  BY <1>1
<1> QED BY <1>2 DEF Report

\* A write for a report, or the giving up of one, is for a report that stands.
LEMMA WritesStand ==
  ASSUME TablesTyped, HistoriesKept, NEW x \in Handler, CallTyped(h[x]),
         CallInOrder(h[x]), h[x].pc \in {"apply", "file"},
         NEW t, t = h[x].token, NEW i, i = h[x].i
  PROVE  /\ t \in Token /\ i \in 1..Len(log[t]) /\ i \in 1..MaxHistory
         /\ Reports!Stands(t, i)
<1>1. /\ t \in Token /\ h[x].seen \in Nat /\ h[x].seen <= Len(log[t])
      /\ i \in 1..h[x].seen
  BY DEF CallTyped, Call
<1>2. Len(log[t]) \in Nat /\ i \in 1..Len(log[t])
  BY <1>1 DEF TablesTyped
<1>3. i \in 1..MaxHistory
  BY AtReport, BoundsAssumption
<1>4. sale # "pending" /\ ~ isDefaulter(t, h[x].seen)
  BY DEF CallInOrder
<1>5. Reports!BadAmong(t, i) < 2
  BY <1>1, <1>4, NoDefaultBefore
<1> QED BY <1>1, <1>2, <1>3, <1>4, <1>5 DEF Reports!Stands

\* One report written to the rows is shown in the ledger.
LEMMA ApplyIsShow ==
  ASSUME TablesTyped, HistoriesKept, NEW x \in Handler, CallTyped(h[x]),
         CallInOrder(h[x]), ApplyReport(x),
         NEW t, t = h[x].token, NEW i, i = h[x].i
  PROVE  t \in Token /\ i \in 1..Len(log[t]) /\ Reports!Show(t, i)
<1> DEFINE s == log[t][i].status
<1>1. t \in Token /\ i \in 1..Len(log[t]) /\ Reports!Stands(t, i)
  BY WritesStand DEF ApplyReport
<1>2. s \in Reported /\ log[t][i].parcel \in Parcel
  BY <1>1, ReadAlike
<1>3. /\ rows' = RowsAfter(t, i)
      /\ UNCHANGED <<kind, sale, log, acked, ownerStatus, charged, records>>
  BY DEF ApplyReport, purchase
<1>4. kind \in Kinds
  BY DEF TablesTyped
<1>5. \E p \in Parcel :
        /\ kind = "charge" => p = log[t][i].parcel
        /\ rows' = [rows EXCEPT ![p] = Written(@,
             IF kind = "charge" THEN resolve_status_charge(s)
             ELSE resolve_status_carnet(s))]
  BY <1>2, <1>3, AboutAssumption DEF RowsAfter
<1>6. logged' = IF kind \in {"subscription"} THEN logged
                ELSE [logged EXCEPT ![t] = @ \ {i}]
  BY DEF ApplyReport, NotGivenUp
<1> QED BY <1>1, <1>2, <1>3, <1>4, <1>5, <1>6
        DEF Reports!Show, Reports!Reading, Written

\* One row of SubscriptionCharges files the report in the ledger.
LEMMA FileIsFile ==
  ASSUME TablesTyped, HistoriesKept, NEW x \in Handler, CallTyped(h[x]),
         CallInOrder(h[x]), FileReport(x),
         NEW t, t = h[x].token, NEW i, i = h[x].i
  PROVE  t \in Token /\ i \in 1..Len(log[t]) /\ Reports!File(t, i)
<1>1. /\ t \in Token /\ i \in 1..Len(log[t]) /\ i \in 1..MaxHistory
      /\ Reports!Stands(t, i)
  BY WritesStand DEF FileReport
<1>2. /\ UNCHANGED <<kind, sale, log, acked, rows, ownerStatus, records>>
      /\ logged' = [logged EXCEPT ![t] = @ \ {i}]
      /\ kind = "subscription"
  BY DEF FileReport, NotGivenUp, purchase, CallInOrder
<1>3. /\ charged'[t][i] > 0
      /\ \A j \in 1..MaxHistory : j # i => charged'[t][j] = charged[t][j]
      /\ \A u \in Token : u # t => charged'[u] = charged[u]
  BY FiledIsCharged, BoundsAssumption
<1>4. { j \in 1..MaxHistory : charged'[t][j] > 0 }
        = { j \in 1..MaxHistory : charged[t][j] > 0 } \cup {i}
  BY <1>1, <1>3
<1>5. [u \in Token |-> { j \in 1..MaxHistory : charged'[u][j] > 0 }]
        = [[u \in Token |-> { j \in 1..MaxHistory : charged[u][j] > 0 }]
             EXCEPT ![t] = @ \cup {i}]
  BY <1>1, <1>3, <1>4
<1> QED BY <1>1, <1>2, <1>5 DEF Reports!File

\* A write that fails drops the report in the ledger.
LEMMA FailIsDrop ==
  ASSUME TablesTyped, HistoriesKept, NEW x \in Handler, CallTyped(h[x]),
         CallInOrder(h[x]), WriteFails(x),
         NEW t, t = h[x].token, NEW i, i = h[x].i
  PROVE  t \in Token /\ i \in 1..Len(log[t]) /\ Reports!Drop(t, i)
<1>1. t \in Token /\ i \in 1..Len(log[t]) /\ Reports!Stands(t, i)
  BY WritesStand DEF WriteFails
<1>2. /\ UNCHANGED <<kind, sale, log, acked, rows, ownerStatus, charged, records>>
      /\ logged' = [logged EXCEPT ![t] = @ \cup {i}]
  BY DEF WriteFails, GivenUp, purchase
<1> QED BY <1>1, <1>2 DEF Reports!Drop

\* A call that reaches its end tells the gateway what the ledger may tell.
LEMMA AnswerTells ==
  ASSUME TablesTyped, NEW x \in Handler, CallTyped(h[x]), CallInOrder(h[x]),
         HistoriesKept, WriteOwner(x),
         NEW t, t = h[x].token, NEW n, n = h[x].seen
  PROVE  \/ UNCHANGED Reports!vars
         \/ t \in Token /\ n \in 1..Len(log[t]) /\ Reports!Tell(t, n)
<1> DEFINE s == log[t][n].status
<1>1. /\ h[x].pc = "write" /\ t \in Token
      /\ n \in Nat /\ n > 0 /\ n <= Len(log[t])
      /\ UNCHANGED <<kind, sale, log, rows, charged, logged, records>>
  BY DEF WriteOwner, CallTyped, Call, purchase
<1>2. /\ Len(log[t]) \in Nat /\ Len(log[t]) <= MaxHistory
      /\ n \in 1..Len(log[t]) /\ n \in 1..n
  BY <1>1 DEF TablesTyped, HistoriesKept
<1>3. s \in Reported
  BY <1>1, <1>2, ReadAlike
<1>4. CASE UNCHANGED <<acked, ownerStatus>>
  BY <1>1, <1>4 DEF Reports!vars
<1>5. CASE /\ ownerStatus' = Written(ownerStatus, valt_status(s))
           /\ Answer(x)
  <2>1. Reports!Stands(t, n)
    <3>1. sale # "pending" /\ ~ isDefaulter(t, n)
      BY <1>1 DEF CallInOrder
    <3>2. Reports!BadAmong(t, n) < 2
      BY <1>1, <1>2, <3>1, NoDefaultBefore
    <3> QED BY <3>1, <3>2 DEF Reports!Stands
  <2>2. kind = "subscription" =>
          1..n \subseteq { i \in 1..MaxHistory : charged[t][i] > 0 }
                          \cup logged[t]
    <3>1. \A i \in 1..n : i \in 1..MaxHistory
      BY <1>1, <1>2, BoundsAssumption
    <3> QED BY <1>1, <3>1 DEF CallInOrder, Dealt
  <2>3. \/ acked' = acked
        \/ n > acked[t] /\ acked' = [acked EXCEPT ![t] = n]
    <3>1. acked \in [Token -> Nat] /\ acked[t] \in Nat
      BY <1>1 DEF TablesTyped
    <3>2. \/ acked' = acked
          \/ \E m \in Nat : /\ m = IF acked[t] > n THEN acked[t] ELSE n
                         /\ acked' = [acked EXCEPT ![t] = m]
      BY <1>1, <1>5, <3>1 DEF Answer
    <3>3. [acked EXCEPT ![t] = acked[t]] = acked
      BY <3>1
    <3>4. ASSUME NEW m \in Nat, m = IF acked[t] > n THEN acked[t] ELSE n
          PROVE  m = acked[t] \/ (m = n /\ n > acked[t])
      BY <1>1, <3>1, <3>4
    <3> QED BY <3>2, <3>3, <3>4
  <2> QED BY <1>1, <1>2, <1>3, <1>5, <2>1, <2>2, <2>3
          DEF Reports!Tell, Reports!Reading, Written
<1> QED BY <1>4, <1>5 DEF WriteOwner, Last

\* Every step is one entry of the ledger, or none.
LEMMA ReportsStep == HooksInv /\ [Next]_vars => [Reports!Next]_(Reports!vars)
<1> SUFFICES ASSUME HooksInv, [Next]_vars
             PROVE  Reports!Next \/ UNCHANGED Reports!vars
  OBVIOUS
<1>0. /\ TablesTyped /\ HistoriesKept
      /\ \A x \in Handler : CallTyped(h[x]) /\ CallInOrder(h[x])
  BY TypeParts DEF HooksInv, CallsInOrder
<1>1. ASSUME NEW t \in Token, NEW p \in About[t], NEW s \in Reported,
             Change(t, p, s)
      PROVE  Reports!Next
  <2>1. [parcel |-> p, status |-> s] \in Report
    BY AboutAssumption DEF Report
  <2>2. Reports!Grow(t)
    BY <1>1, <2>1 DEF Change, Reports!Grow, purchase
  <2> QED BY <2>2 DEF Reports!Next
<1>2. ASSUME SaleCommits
      PROVE  Reports!Next
  BY <1>2 DEF SaleCommits, Reports!Next, Reports!Book, purchase
<1>3. ASSUME \/ Resell \/ Crash
             \/ \E x \in Handler : \/ FindOwner(x) \/ FindOwnerAgain(x)
                                   \/ QueryFails(x)
                                   \/ \E t \in Token : Receive(x, t)
      PROVE  UNCHANGED Reports!vars
  BY <1>3 DEF Resell, Crash, FindOwner, FindOwnerAgain, QueryFails, Receive,
              Reports!vars, purchase
<1>4. ASSUME NEW x \in Handler, RecordDefaulter(x)
      PROVE  Reports!Next \/ UNCHANGED Reports!vars
  <2>0. PICK t, n : t = h[x].token /\ n = h[x].seen
    OBVIOUS
  <2>1. /\ h[x].pc = "record" /\ t \in Token /\ n \in 1..Len(log[t])
        /\ sale # "pending" /\ isDefaulter(t, n)
    <3>1. h[x].pc = "record" /\ CallTyped(h[x]) /\ CallInOrder(h[x])
      BY <1>0, <1>4 DEF RecordDefaulter
    <3>2. t \in Token /\ n \in Nat /\ n <= Len(log[t]) /\ n > 0
      BY <2>0, <3>1 DEF CallTyped, Call
    <3>3. Len(log[t]) \in Nat
      BY <1>0, <3>2 DEF TablesTyped
    <3> QED BY <2>0, <3>1, <3>2, <3>3 DEF CallInOrder
  <2>2. /\ Reports!BadAmong(t, n) = Cardinality(defaulterItems(t, n))
        /\ Reports!BadAmong(t, n) >= 2
    BY <2>1, CountedAlike DEF isDefaulter
  <2>3. CASE wholeParts
    <3>1. Reports!Owe(t, n)
      BY <1>4, <2>0, <2>1, <2>2, <2>3 DEF RecordDefaulter, Reports!Owe, purchase
    <3> QED BY <2>1, <3>1 DEF Reports!Next
  <2>4. CASE ~ wholeParts
    BY <1>4, <2>4 DEF RecordDefaulter, Reports!vars, purchase
  <2> QED BY <2>3, <2>4
<1>5. ASSUME NEW x \in Handler, ApplyReport(x) \/ FileReport(x) \/ WriteFails(x)
      PROVE  Reports!Next
  <2>1. PICK t, i : t = h[x].token /\ i = h[x].i
    OBVIOUS
  <2>2. /\ t \in Token /\ i \in 1..Len(log[t])
        /\ Reports!Show(t, i) \/ Reports!File(t, i) \/ Reports!Drop(t, i)
    BY <1>0, <1>5, <2>1, ApplyIsShow, FileIsFile, FailIsDrop
  <2> QED BY <2>2 DEF Reports!Next
<1>6. ASSUME NEW x \in Handler, WriteOwner(x)
      PROVE  Reports!Next \/ UNCHANGED Reports!vars
  <2>1. PICK t, n : t = h[x].token /\ n = h[x].seen
    OBVIOUS
  <2>2. \/ UNCHANGED Reports!vars
        \/ t \in Token /\ n \in 1..Len(log[t]) /\ Reports!Tell(t, n)
    BY <1>0, <1>6, <2>1, AnswerTells
  <2> QED BY <2>2 DEF Reports!Next
<1>7. ASSUME UNCHANGED vars
      PROVE  UNCHANGED Reports!vars
  BY <1>7 DEF vars, Reports!vars
<1> QED BY <1>1, <1>2, <1>3, <1>4, <1>5, <1>6, <1>7
        DEF Next, Gateway, Handling

\* However often and in whatever overlap the gateway calls, and whatever is
\* lost, what the hook writes and answers is a behaviour of the ledger: reports
\* taken one at a time, none from a second bad one on, and when it is told each
\* is filed or was given up.
THEOREM HooksImplementReports == Spec => ImplementsReports
<1>1. Init => Reports!Init
  BY DEF Init, Reports!Init
<1> QED BY <1>1, ReportsStep, HooksInvariant, PTL
        DEF Spec, ImplementsReports, Reports!Spec

(***************************************************************************)
(* How long a call lasts                                                   *)
(***************************************************************************)
\* A call under way has a step left, and never more than its history allows.
LEMMA StepsLeftType ==
  ASSUME TablesTyped, HistoriesKept, NEW x \in Handler, CallTyped(h[x])
  PROVE  /\ StepsLeft(h[x]) \in 0..(2 * MaxHistory + 3)
         /\ h[x].pc # "idle" => StepsLeft(h[x]) > 0
<1>1. /\ h[x] \in Call
      /\ h[x].token \in Token /\ h[x].seen \in Nat /\ h[x].i \in Nat
      /\ h[x].seen <= Len(log[h[x].token])
      /\ h[x].pc \in {"read", "apply", "file"} => h[x].i \in 1..h[x].seen
      /\ Len(log[h[x].token]) \in Nat
  BY CallFacts
<1>2. h[x].pc \in Step
  BY <1>1 DEF Call
<1>3. h[x].seen <= MaxHistory
  BY <1>1, BoundsAssumption DEF HistoriesKept
<1>4. CASE h[x].pc \in {"idle", "record", "owner", "write"}
  BY <1>4, BoundsAssumption DEF StepsLeft
<1>5. CASE h[x].pc = "read"
  <2>1. StepsLeft(h[x]) = 2 * h[x].seen + 3
    BY <1>5 DEF StepsLeft
  <2> QED BY <1>1, <1>3, <2>1, BoundsAssumption
<1>6. CASE h[x].pc \in {"apply", "file"}
  <2>1. \/ StepsLeft(h[x]) = 2 * (h[x].seen - h[x].i) + 4
        \/ StepsLeft(h[x]) = 2 * (h[x].seen - h[x].i) + 3
    BY <1>6 DEF StepsLeft
  <2> QED BY <1>1, <1>3, <1>6, <2>1, BoundsAssumption
<1> QED BY <1>2, <1>4, <1>5, <1>6 DEF Step

\* A step of the handler brings its call nearer to the end; no other step but
\* the stop of the process touches it.
LEMMA StepsLeftFall ==
  ASSUME TablesTyped, HistoriesKept, [Next]_vars, NEW x \in Handler,
         CallTyped(h[x]), CallInOrder(h[x]), h[x].pc # "idle", h'[x] # h[x]
  PROVE  StepsLeft(h'[x]) < StepsLeft(h[x])
<1>1. /\ h[x] \in Call
      /\ h[x].token \in Token /\ h[x].seen \in Nat /\ h[x].i \in Nat
      /\ h[x].pc \in {"read", "apply", "file"} => h[x].i \in 1..h[x].seen
      /\ h \in [Handler -> Call]
  BY CallFacts DEF TablesTyped
<1>2. StepsLeft(h[x]) \in Nat /\ StepsLeft(h[x]) > 0
  BY StepsLeftType, BoundsAssumption
<1>3. PICK c : c = h'[x]
  OBVIOUS
<1>4. CASE c = Idle
  BY <1>2, <1>3, <1>4, IdleIsCall DEF StepsLeft
<1>5. CASE c # Idle /\ FindOwner(x)
  <2>1. /\ h[x].pc = "read"
        /\ \/ c = [h[x] EXCEPT !.pc = "record"]
           \/ c = [h[x] EXCEPT !.pc = "apply"]
    BY <1>3, <1>5 DEF FindOwner, Throw, TablesTyped
  <2>2. h[x].i = 1 /\ h[x].seen >= 1
    BY <1>1, <2>1 DEF CallInOrder
  <2>3. c.pc \in {"record", "apply"} /\ c.seen = h[x].seen /\ c.i = h[x].i
    BY <1>1, <2>1 DEF Call
  <2>4. StepsLeft(h[x]) = 2 * h[x].seen + 3
    BY <2>1 DEF StepsLeft
  <2>5. StepsLeft(c) \in {1, 2 * (c.seen - c.i) + 4}
    BY <2>3 DEF StepsLeft
  <2> QED BY <1>1, <1>3, <2>2, <2>3, <2>4, <2>5
<1>6. CASE ApplyReport(x) /\ kind = "subscription"
  <2>1. h[x].pc = "apply" /\ c = [h[x] EXCEPT !.pc = "file"]
    BY <1>1, <1>3, <1>6 DEF ApplyReport
  <2>2. c.pc = "file" /\ c.seen = h[x].seen /\ c.i = h[x].i
    BY <1>1, <2>1 DEF Call
  <2> QED BY <1>1, <1>3, <2>1, <2>2 DEF StepsLeft
<1>9. CASE c # Idle /\ NextReport(x) /\ h[x].pc \in {"apply", "file"}
  <2>1. \/ /\ h[x].i < h[x].seen
           /\ c = [h[x] EXCEPT !.pc = "apply", !.i = @ + 1]
        \/ c = [h[x] EXCEPT !.pc = "owner"]
    BY <1>1, <1>3, <1>9, NextReportMoves
  <2>2. \/ StepsLeft(h[x]) = 2 * (h[x].seen - h[x].i) + 4
        \/ StepsLeft(h[x]) = 2 * (h[x].seen - h[x].i) + 3
    BY <1>9 DEF StepsLeft
  <2>3. \/ /\ c.pc = "apply" /\ c.seen = h[x].seen /\ c.i = h[x].i + 1
           /\ h[x].i < h[x].seen
        \/ c.pc = "owner"
    BY <1>1, <2>1 DEF Call
  <2>4. CASE c.pc = "owner"
    <3>1. StepsLeft(c) = 2
      BY <2>4 DEF StepsLeft
    <3> QED BY <1>1, <1>3, <1>9, <2>2, <3>1
  <2>5. CASE /\ c.pc = "apply" /\ c.seen = h[x].seen /\ c.i = h[x].i + 1
             /\ h[x].i < h[x].seen
    <3>1. StepsLeft(c) = 2 * (h[x].seen - (h[x].i + 1)) + 4
      BY <2>5 DEF StepsLeft
    <3> QED BY <1>1, <1>3, <1>9, <2>2, <3>1
  <2> QED BY <2>3, <2>4, <2>5
<1>7. CASE c # Idle /\ FindOwnerAgain(x)
  <2>1. h[x].pc = "owner" /\ c = [h[x] EXCEPT !.pc = "write"]
    BY <1>3, <1>7 DEF FindOwnerAgain, Throw, TablesTyped
  <2>2. c.pc = "write"
    BY <1>1, <2>1 DEF Call
  <2> QED BY <1>3, <2>1, <2>2 DEF StepsLeft
<1>8. ~ \E t \in Token : Receive(x, t)
  BY DEF Receive
<1> QED BY <1>3, <1>4, <1>5, <1>6, <1>7, <1>8, <1>9, CallMoves
        DEF ApplyReport, FileReport, WriteFails

\* A call of the hook ends after at most three steps more than twice the reports
\* it read, whatever the gateway, the sale and other calls do meanwhile.  What is
\* left to fairness is only that a call under way takes its steps.
THEOREM CallsEnd ==
  Spec => /\ [](\A x \in Handler : StepsLeft(h[x]) \in 0..(2 * MaxHistory + 3))
          /\ CallsRunOut
<1> DEFINE Bounded == \A x \in Handler : StepsLeft(h[x]) \in 0..(2 * MaxHistory + 3)
           Nearer == \A x \in Handler : h[x].pc # "idle" /\ h'[x] # h[x]
                        => StepsLeft(h'[x]) < StepsLeft(h[x])
<1>1. ASSUME HooksInv
      PROVE  /\ TablesTyped /\ HistoriesKept
             /\ \A x \in Handler : CallTyped(h[x]) /\ CallInOrder(h[x])
  BY <1>1, TypeParts DEF HooksInv, CallsInOrder
<1>2. HooksInv => Bounded
  BY <1>1, StepsLeftType
<1>3. HooksInv /\ [Next]_vars => [Nearer]_vars
  BY <1>1, StepsLeftFall
<1> QED BY <1>2, <1>3, HooksInvariant, PTL DEF Spec, CallsRunOut

===============================================================================
