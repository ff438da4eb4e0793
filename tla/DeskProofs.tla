------------------------------ MODULE DeskProofs ------------------------------
(***************************************************************************)
(* Proofs about Desk, for every set of requests, assignees, vaults,        *)
(* deceased and rooms, every file and every clock.                         *)
(***************************************************************************)
EXTENDS Desk, TLAPS

(***************************************************************************)
(* Frames: a request is taken once and keeps its kind, and a step of one   *)
(* component leaves the others alone.                                      *)
(***************************************************************************)
LEMMA ContractMoves ==
  ASSUME NEW t \in Task, ContractNext(t)
  PROVE  Take(t, "contract") \/ UNCHANGED requestVars
BY DEF ContractNext, GenerateContract, FlagValt, PostDocument, InviteSigner,
       DisableAssignee, StoreDocument, Decide, HookCalled, MarkDocument,
       EnableAssignee, ActivateRow, HookFails

\* Assignments of promotions take theirs only and leave the rows.
LEMMA PromotionMoves ==
  ASSUME NEW t \in Task, PromotionsNext(t)
  PROVE  /\ Take(t, "promotion") \/ UNCHANGED requestVars
         /\ UNCHANGED rowVars
BY DEF PromotionsNext, AssignCheck, AssignCommit, AssignFails

\* Promotions themselves are nobody's request.
LEMMA PromotionRunMoves ==
  ASSUME PromotionsRun
  PROVE  UNCHANGED <<requestVars, rowVars>>
BY DEF PromotionsRun, CreatePromotion, SwitchPromotion, RemovePromotion

\* Payments at the desk take theirs only.
LEMMA LocalMoves ==
  ASSUME NEW t \in Task, LocalSaleNext(t)
  PROVE  Take(t, "local") \/ UNCHANGED requestVars
BY DEF LocalSaleNext, LocalStart, LocalBook, LocalFails

\* Return files take theirs only.
LEMMA ReturnMoves ==
  ASSUME NEW t \in Task, ReturnNext(t)
  PROVE  Take(t, "return") \/ UNCHANGED requestVars
BY DEF ReturnNext, ReturnStart, ReturnLine, ReturnDone, ReturnFails

\* Maintenance takes its own only and leaves the rows.
LEMMA MaintenanceMoves ==
  ASSUME NEW t \in Task, MaintenanceNext(t)
  PROVE  /\ Take(t, "maintenance") \/ UNCHANGED requestVars
         /\ UNCHANGED rowVars
BY DEF MaintenanceNext, StartMaintenance, CallAnswered, CallFails, CallGoesOn,
       RecordMaintenance, BillPart, MaintenanceFails

\* Memorials, links and tributes leave the deceased.
LEMMA MemorialMoves ==
  ASSUME NEW t \in Task, MemorialNext(t)
  PROVE  /\ (\E k \in Kind : Take(t, k)) \/ UNCHANGED requestVars
         /\ UNCHANGED known
BY DEF MemorialNext, MemorialCheck, MemorialCreate, LinkCheck, LinkWrite,
       MemorialFails, TributeCheck, TributeClear, TributePost, TributeCount,
       TributeFails, Kind

\* So do funerals.
LEMMA FuneralMoves ==
  ASSUME NEW t \in Task, FuneralNext(t)
  PROVE  /\ Take(t, "funeral") \/ UNCHANGED requestVars
         /\ UNCHANGED known
BY DEF FuneralNext, ReserveCheck, ReserveCommit, ReserveFails, Finish

\* What is asked of a request is asked once.
KindsKept == \A t \in Task : kind[t] # "none" => kind'[t] = kind[t]

\* A request that is taken keeps what the others asked.
LEMMA TakeKeepsKinds ==
  ASSUME RequestsTypeOK, NEW t \in Task, NEW k \in Kind, Take(t, k)
  PROVE  /\ RequestsTypeOK'
         /\ KindsKept
         /\ kind[t] = "none"
         /\ kind'[t] # "none"
BY DEF RequestsTypeOK, Take, Due, KindsKept, Kind

\* Every step of the office takes one request or none.
LEMMA DeskTakes ==
  ASSUME [Next]_vars
  PROVE  (\E t \in Task, k \in Kind : Take(t, k)) \/ UNCHANGED requestVars
<1>1. ASSUME NEW t \in Task, ContractNext(t)
      PROVE  Take(t, "contract") \/ UNCHANGED requestVars
  BY <1>1, ContractMoves
<1>2. ASSUME NEW t \in Task, PromotionsNext(t)
      PROVE  Take(t, "promotion") \/ UNCHANGED requestVars
  BY <1>2, PromotionMoves
<1>3. ASSUME NEW t \in Task, LocalSaleNext(t)
      PROVE  Take(t, "local") \/ UNCHANGED requestVars
  BY <1>3, LocalMoves
<1>4. ASSUME NEW t \in Task, ReturnNext(t)
      PROVE  Take(t, "return") \/ UNCHANGED requestVars
  BY <1>4, ReturnMoves
<1>5. ASSUME NEW t \in Task, MaintenanceNext(t)
      PROVE  Take(t, "maintenance") \/ UNCHANGED requestVars
  BY <1>5, MaintenanceMoves
<1>6. ASSUME NEW t \in Task, MemorialNext(t)
      PROVE  (\E k \in Kind : Take(t, k)) \/ UNCHANGED requestVars
  BY <1>6, MemorialMoves
<1>7. ASSUME NEW t \in Task, FuneralNext(t)
      PROVE  Take(t, "funeral") \/ UNCHANGED requestVars
  BY <1>7, FuneralMoves
<1>8. ASSUME NEW t \in Task,
             \/ \E a \in Assignee : RemoveAssignee(t, a)
             \/ \E v \in Valt : RemoveValt(t, v)
             \/ \E d \in Deceased : RemoveDeceased(t, d)
      PROVE  Take(t, "remove")
  BY <1>8 DEF RemoveAssignee, RemoveValt, RemoveDeceased
<1>9. Stop => UNCHANGED requestVars
  BY DEF Stop
<1>10. PromotionsRun => UNCHANGED requestVars
  BY PromotionRunMoves
<1>11. Tick => UNCHANGED requestVars
  BY DEF Tick
<1>12. "contract" \in Kind /\ "promotion" \in Kind /\ "local" \in Kind
       /\ "return" \in Kind /\ "maintenance" \in Kind /\ "funeral" \in Kind
       /\ "remove" \in Kind /\ "update" \in Kind
  BY DEF Kind
<1>15. ASSUME NEW t \in Task, NEW a \in Assignee, NEW on \in BOOLEAN,
             NEW owed \in OwedTyped, UpdateAssignee(t, a, on, owed)
      PROVE  Take(t, "update")
  BY <1>15 DEF UpdateAssignee
<1>13. CASE Next
  BY <1>13, <1>1, <1>2, <1>3, <1>4, <1>5, <1>6, <1>7, <1>8, <1>9, <1>10,
     <1>11, <1>12, <1>15, Zenon DEF Next, UploadFails, Crash
<1>14. CASE UNCHANGED vars
  BY <1>14 DEF vars
<1> QED BY <1>13, <1>14

\* The requests stay numbered requests of some kind.
LEMMA KindsStep ==
  ASSUME RequestsTypeOK, [Next]_vars
  PROVE  RequestsTypeOK' /\ KindsKept
<1>1. CASE \E t \in Task, k \in Kind : Take(t, k)
  BY <1>1, TakeKeepsKinds
<1>2. CASE UNCHANGED requestVars
  BY <1>2 DEF requestVars, RequestsTypeOK, KindsKept
<1> QED BY <1>1, <1>2, DeskTakes

\* Requests are of one kind, in one scene.
LEMMA RequestsTyped == Spec => []RequestsTypeOK
<1>1. Init => RequestsTypeOK
  BY DEF Init, RequestsInit, RequestsTypeOK
<1> QED BY <1>1, KindsStep, PTL DEF Spec

(***************************************************************************)
(* Steps, as each component sees them                                      *)
(***************************************************************************)

\* Who and what the owner rows name changes by a signature, a payment at the
\* desk and removals.
LEMMA RowsStep ==
  ASSUME [Next]_vars
  PROVE  \/ \E t \in Task : ActivateRow(t)
         \/ \E t \in Task : LocalBook(t)
         \/ \E t \in Task, a \in Assignee : RemoveAssignee(t, a)
         \/ \E t \in Task, v \in Valt : RemoveValt(t, v)
         \/ UNCHANGED rowVars
<1>1. ASSUME NEW t \in Task, ContractNext(t)
      PROVE  ActivateRow(t) \/ UNCHANGED rowVars
  BY <1>1 DEF ContractNext, GenerateContract, FlagValt, PostDocument,
     InviteSigner, DisableAssignee, StoreDocument, Decide, HookCalled,
     MarkDocument, EnableAssignee, HookFails
<1>2. ASSUME NEW t \in Task, LocalSaleNext(t)
      PROVE  LocalBook(t) \/ UNCHANGED rowVars
  BY <1>2 DEF LocalSaleNext, LocalStart, LocalFails
<1>3. ASSUME NEW t \in Task, PromotionsNext(t)
      PROVE  UNCHANGED rowVars
  BY <1>3, PromotionMoves
<1>4. ASSUME NEW t \in Task, MaintenanceNext(t)
      PROVE  UNCHANGED rowVars
  BY <1>4, MaintenanceMoves
<1>5. ASSUME NEW t \in Task, NEW d \in Deceased, RemoveDeceased(t, d)
      PROVE  UNCHANGED rowVars
  BY <1>5 DEF RemoveDeceased
<1>6. PromotionsRun => UNCHANGED rowVars
  BY PromotionRunMoves
<1>7. Stop => UNCHANGED rowVars
  BY DEF Stop
<1>8. UNCHANGED vars => UNCHANGED rowVars
  BY DEF vars
<1>20. ASSUME NEW t \in Task, NEW a \in Assignee, NEW on \in BOOLEAN,
             NEW owed \in OwedTyped, UpdateAssignee(t, a, on, owed)
      PROVE  UNCHANGED rowVars
  BY <1>20 DEF UpdateAssignee
<1>9. CASE Next
  BY <1>20, <1>9, <1>1, <1>2, <1>3, <1>4, <1>5, <1>6, <1>7
  DEF Next, UploadFails, Crash
<1> QED BY <1>8, <1>9

\* Contracts change by their own steps, when the process stops, when a vault is
\* removed, and when an assignee is switched by hand.
LEMMA ContractStep ==
  ASSUME [Next]_vars
  PROVE  \/ \E t \in Task : ContractNext(t)
         \/ contract' = ContractsAfterStop
            /\ UNCHANGED <<flagged, enabled, byHand, rowVars>>
         \/ \E t \in Task, v \in Valt : RemoveValt(t, v)
         \/ \E a \in Assignee, on \in BOOLEAN :
              SwitchByHand(a, on) /\ UNCHANGED rowVars
         \/ UNCHANGED contractVars
<1>1. ASSUME NEW t \in Task, NEW d \in Deceased, RemoveDeceased(t, d)
      PROVE  UNCHANGED contractVars
  BY <1>1 DEF RemoveDeceased
<1>2. ASSUME NEW t \in Task, NEW a \in Assignee, RemoveAssignee(t, a)
      PROVE  UNCHANGED contractVars
  BY <1>2 DEF RemoveAssignee
<1>3. Stop => contract' = ContractsAfterStop
            /\ UNCHANGED <<flagged, enabled, byHand, rowVars>>
  BY DEF Stop
<1>4. UNCHANGED vars => UNCHANGED contractVars
  BY DEF vars
<1>20. ASSUME NEW t \in Task, NEW a \in Assignee, NEW on \in BOOLEAN,
             NEW owed \in OwedTyped, UpdateAssignee(t, a, on, owed)
      PROVE  SwitchByHand(a, on) /\ UNCHANGED rowVars
  BY <1>20 DEF UpdateAssignee
<1>5. CASE Next
  BY <1>20, <1>1, <1>2, <1>3, <1>5 DEF Next, UploadFails, Crash
<1> QED BY <1>4, <1>5

\* Promotions change by their own steps, those of nobody's request included.
LEMMA PromotionsStep ==
  ASSUME [Next]_vars
  PROVE  \/ \E t \in Task : PromotionsNext(t)
         \/ PromotionsRun
         \/ promoting' = PromotionsAfterStop
            /\ UNCHANGED <<promo, ofGraveyard, ofType>>
         \/ UNCHANGED promoVars
<1>1. ASSUME NEW t \in Task, NEW d \in Deceased, RemoveDeceased(t, d)
      PROVE  UNCHANGED promoVars
  BY <1>1 DEF RemoveDeceased
<1>2. ASSUME NEW t \in Task, NEW a \in Assignee, RemoveAssignee(t, a)
      PROVE  UNCHANGED promoVars
  BY <1>2 DEF RemoveAssignee
<1>3. ASSUME NEW t \in Task, NEW v \in Valt, RemoveValt(t, v)
      PROVE  UNCHANGED promoVars
  BY <1>3 DEF RemoveValt
<1>4. ASSUME NEW t \in Task, LocalSaleNext(t)
      PROVE  UNCHANGED promoVars
  BY <1>4 DEF LocalSaleNext, LocalStart, LocalBook, LocalFails
<1>5. Stop => promoting' = PromotionsAfterStop
              /\ UNCHANGED <<promo, ofGraveyard, ofType>>
  BY DEF Stop
<1>6. UNCHANGED vars => UNCHANGED promoVars
  BY DEF vars
<1>20. ASSUME NEW t \in Task, NEW a \in Assignee, NEW on \in BOOLEAN,
             NEW owed \in OwedTyped, UpdateAssignee(t, a, on, owed)
      PROVE  UNCHANGED promoVars
  BY <1>20 DEF UpdateAssignee
<1>7. CASE Next
  BY <1>20, <1>1, <1>2, <1>3, <1>4, <1>5, <1>7 DEF Next, UploadFails, Crash
<1> QED BY <1>6, <1>7

\* Payments at the desk change by their own steps, when the process stops, and
\* when a debt is typed in.
LEMMA LocalStep ==
  ASSUME [Next]_vars
  PROVE  \/ \E t \in Task : LocalSaleNext(t)
         \/ local' = LocalSalesAfterStop /\ UNCHANGED <<saleValue, raced>>
         \/ \E a \in Assignee, owed \in OwedTyped : TypeDebt(a, owed)
         \/ UNCHANGED localVars
<1>1. ASSUME NEW t \in Task, NEW d \in Deceased, RemoveDeceased(t, d)
      PROVE  UNCHANGED localVars
  BY <1>1 DEF RemoveDeceased
<1>2. ASSUME NEW t \in Task, NEW a \in Assignee, RemoveAssignee(t, a)
      PROVE  UNCHANGED localVars
  BY <1>2 DEF RemoveAssignee
<1>3. ASSUME NEW t \in Task, NEW v \in Valt, RemoveValt(t, v)
      PROVE  UNCHANGED localVars
  BY <1>3 DEF RemoveValt
<1>4. Stop => local' = LocalSalesAfterStop /\ UNCHANGED <<saleValue, raced>>
  BY DEF Stop
<1>5. UNCHANGED vars => UNCHANGED localVars
  BY DEF vars
<1>20. ASSUME NEW t \in Task, NEW a \in Assignee, NEW on \in BOOLEAN,
             NEW owed \in OwedTyped, UpdateAssignee(t, a, on, owed)
      PROVE  TypeDebt(a, owed)
  BY <1>20 DEF UpdateAssignee
<1>6. CASE Next
  BY <1>20, <1>1, <1>2, <1>3, <1>4, <1>6 DEF Next, UploadFails, Crash
<1> QED BY <1>5, <1>6

\* So do return files.
LEMMA ReturnStep ==
  ASSUME [Next]_vars
  PROVE  \/ \E t \in Task : ReturnNext(t)
         \/ return' = ReturnsAfterStop /\ UNCHANGED paidOld
         \/ UNCHANGED returnVars
<1>1. ASSUME NEW t \in Task, NEW d \in Deceased, RemoveDeceased(t, d)
      PROVE  UNCHANGED returnVars
  BY <1>1 DEF RemoveDeceased
<1>2. ASSUME NEW t \in Task, NEW a \in Assignee, RemoveAssignee(t, a)
      PROVE  UNCHANGED returnVars
  BY <1>2 DEF RemoveAssignee
<1>3. ASSUME NEW t \in Task, NEW v \in Valt, RemoveValt(t, v)
      PROVE  UNCHANGED returnVars
  BY <1>3 DEF RemoveValt
<1>4. Stop => return' = ReturnsAfterStop /\ UNCHANGED paidOld
  BY DEF Stop
<1>5. UNCHANGED vars => UNCHANGED returnVars
  BY DEF vars
<1>20. ASSUME NEW t \in Task, NEW a \in Assignee, NEW on \in BOOLEAN,
             NEW owed \in OwedTyped, UpdateAssignee(t, a, on, owed)
      PROVE  UNCHANGED returnVars
  BY <1>20 DEF UpdateAssignee
<1>6. CASE Next
  BY <1>20, <1>1, <1>2, <1>3, <1>4, <1>6 DEF Next, UploadFails, Crash
<1> QED BY <1>5, <1>6

\* Maintenance changes with the removal of a vault, too.
LEMMA MaintenanceStep ==
  ASSUME [Next]_vars
  PROVE  \/ \E t \in Task : MaintenanceNext(t)
         \/ maintenance' = MaintenanceAfterStop /\ UNCHANGED <<issued, billed>>
         \/ \E t \in Task, v \in Valt : RemoveValt(t, v)
         \/ UNCHANGED maintenanceVars
<1>1. ASSUME NEW t \in Task, NEW d \in Deceased, RemoveDeceased(t, d)
      PROVE  UNCHANGED maintenanceVars
  BY <1>1 DEF RemoveDeceased
<1>2. ASSUME NEW t \in Task, NEW a \in Assignee, RemoveAssignee(t, a)
      PROVE  UNCHANGED maintenanceVars
  BY <1>2 DEF RemoveAssignee
<1>3. Stop => maintenance' = MaintenanceAfterStop /\ UNCHANGED <<issued, billed>>
  BY DEF Stop
<1>4. UNCHANGED vars => UNCHANGED maintenanceVars
  BY DEF vars
<1>20. ASSUME NEW t \in Task, NEW a \in Assignee, NEW on \in BOOLEAN,
             NEW owed \in OwedTyped, UpdateAssignee(t, a, on, owed)
      PROVE  UNCHANGED maintenanceVars
  BY <1>20 DEF UpdateAssignee
<1>5. CASE Next
  BY <1>20, <1>1, <1>2, <1>3, <1>5 DEF Next, UploadFails, Crash
<1> QED BY <1>4, <1>5

\* Memorials change by their own steps, when the process stops, and with the
\* removal of a deceased.
LEMMA MemorialStep ==
  ASSUME [Next]_vars
  PROVE  \/ \E t \in Task : MemorialNext(t)
         \/ MemorialStops /\ UNCHANGED known
         \/ \E t \in Task, d \in Deceased : RemoveDeceased(t, d)
         \/ UNCHANGED memorialVars /\ UNCHANGED known
<1> DEFINE G == UNCHANGED memorialVars /\ UNCHANGED known
<1>1. ASSUME NEW t \in Task, NEW v \in Valt, RemoveValt(t, v)
      PROVE  G
  BY <1>1 DEF RemoveValt
<1>2. ASSUME NEW t \in Task, NEW a \in Assignee, RemoveAssignee(t, a)
      PROVE  G
  BY <1>2 DEF RemoveAssignee
<1>3. Stop => MemorialStops /\ UNCHANGED known
  BY DEF Stop
<1>4. UNCHANGED vars => G
  BY DEF vars
<1>5. ASSUME NEW t \in Task, FuneralNext(t)
      PROVE  UNCHANGED known
  BY <1>5, FuneralMoves
<1>6. Tick => UNCHANGED known
  BY DEF Tick
<1>20. ASSUME NEW t \in Task, NEW a \in Assignee, NEW on \in BOOLEAN,
             NEW owed \in OwedTyped, UpdateAssignee(t, a, on, owed)
      PROVE  G
  BY <1>20 DEF UpdateAssignee
<1>7. CASE Next
  BY <1>20, <1>1, <1>2, <1>3, <1>5, <1>6, <1>7 DEF Next, UploadFails, Crash
<1> QED BY <1>4, <1>7

\* A booked funeral keeps its deceased on file.
DeceasedStay ==
  /\ known' \subseteq known
  /\ \A d \in known \ known' : \A s \in Booked : funeral[s].of # d

FuneralQuiet == UNCHANGED funeralVars /\ DeceasedStay

FuneralStop ==
  /\ funeral' = FuneralsAfterStop
  /\ UNCHANGED <<now, prepared, sideBySide, late, known>>

\* Funerals change by their own steps, with the clock, and when the process
\* stops.
LEMMA FuneralStep ==
  ASSUME [Next]_vars
  PROVE  (\E t \in Task : FuneralNext(t)) \/ Tick \/ FuneralStop \/ FuneralQuiet
<1> DEFINE G == UNCHANGED funeralVars /\ UNCHANGED known
<1>1. G => FuneralQuiet
  BY DEF FuneralQuiet, DeceasedStay
<1>2. ASSUME NEW t \in Task, MemorialNext(t)
      PROVE  UNCHANGED known
  BY <1>2, MemorialMoves
<1>3. ASSUME NEW t \in Task, NEW d \in Deceased, RemoveDeceased(t, d)
      PROVE  FuneralQuiet
  BY <1>3 DEF RemoveDeceased, FuneralQuiet, DeceasedStay
<1>4. ASSUME NEW t \in Task, NEW d \in Assignee, RemoveAssignee(t, d)
      PROVE  G
  BY <1>4 DEF RemoveAssignee
<1>5. ASSUME NEW t \in Task, NEW d \in Valt, RemoveValt(t, d)
      PROVE  G
  BY <1>5 DEF RemoveValt
<1>6. Stop => FuneralStop
  BY DEF Stop, FuneralStop
<1>7. UNCHANGED vars => G
  BY DEF vars
<1> HIDE DEF FuneralQuiet
<1>20. ASSUME NEW t \in Task, NEW a \in Assignee, NEW on \in BOOLEAN,
             NEW owed \in OwedTyped, UpdateAssignee(t, a, on, owed)
      PROVE  G
  BY <1>20 DEF UpdateAssignee
<1>8. CASE Next
  BY <1>20, <1>8, <1>1, <1>2, <1>3, <1>4, <1>5, <1>6 DEF Next, UploadFails, Crash
<1> QED BY <1>1, <1>7, <1>8

(***************************************************************************)
(* Types.  Beside its type, each component keeps two things: a request     *)
(* that was not taken has no record in it, and a record under way names    *)
(* what it is about.                                                       *)
(***************************************************************************)

\* A request that is taken was not taken before, and the others keep what was
\* asked.
LEMMA TakenNow ==
  ASSUME RequestsTypeOK, NEW t \in Task, NEW k \in Kind, Take(t, k)
  PROVE  /\ kind[t] = "none"
         /\ \A s \in Task : kind'[s] = "none" => kind[s] = "none" /\ s # t
BY TakeKeepsKinds DEF KindsKept

\* A step never takes back what was asked.
LEMMA NotTakenBefore ==
  ASSUME RequestsTypeOK, [Next]_vars, NEW s \in Task, kind'[s] = "none"
  PROVE  kind[s] = "none"
BY KindsStep DEF KindsKept

PromotionsTyped ==
  /\ PromotionsTypeOK
  /\ \A t \in Task :
       /\ promoting[t].pc = "commit" => promoting[t].p \in Promo
       /\ kind[t] = "none" => promoting[t] = NoAssignment

\* What an assignment leaves behind is of its type.
LEMMA EndedType == Ended \in PromoAssignment /\ NoAssignment \in PromoAssignment
                   /\ Ended.pc = "ended"
BY DEF Ended, NoAssignment, PromoAssignment

\* Promotions keep their types.
LEMMA PromotionsTypedKept ==
  ASSUME RequestsTypeOK, PromotionsTyped, [Next]_vars
  PROVE  PromotionsTyped'
<1> USE DEF PromotionsTyped
<1>1. ASSUME NEW t \in Task, NEW p \in Promo, NEW places \in BOOLEAN,
             NEW types \in SUBSET ValtType, AssignCheck(t, p, places, types)
      PROVE  PromotionsTyped'
  <2> DEFINE r == [pc |-> "commit", p |-> p, places |-> places,
                   types |-> types]
  <2>1. r \in PromoAssignment
    BY DEF PromoAssignment
  <2>2. promoting' = [promoting EXCEPT ![t] = r]
        /\ UNCHANGED <<promo, ofGraveyard, ofType>>
    BY <1>1 DEF AssignCheck
  <2>3. \A s \in Task : kind'[s] = "none" => kind[s] = "none" /\ s # t
    BY <1>1, TakenNow DEF AssignCheck, Kind
  <2> QED BY <2>1, <2>2, <2>3 DEF PromotionsTypeOK
<1>2. ASSUME NEW t \in Task, AssignCommit(t)
      PROVE  PromotionsTyped'
  <2> DEFINE r == promoting[t]
  <2>1. r.p \in Promo /\ r \in PromoAssignment
    BY <1>2 DEF AssignCommit, PromotionsTypeOK
  <2>2. /\ ofGraveyard' \in Promo \cup {NoPromo}
        /\ ofType' \in [ValtType -> Promo \cup {NoPromo}]
        /\ UNCHANGED promo
    BY <1>2, <2>1 DEF AssignCommit, PromotionsTypeOK
  <2>3. promoting' = [promoting EXCEPT ![t] = Ended] /\ UNCHANGED kind
    BY <1>2 DEF AssignCommit, requestVars
  <2>4. kind[t] # "none"
    BY <1>2 DEF AssignCommit, NoAssignment
  <2> QED BY <2>2, <2>3, <2>4, EndedType DEF PromotionsTypeOK
<1>3. ASSUME NEW t \in Task, AssignFails(t)
      PROVE  PromotionsTyped'
  <2>1. promoting' = [promoting EXCEPT ![t] = Ended] /\ UNCHANGED kind
        /\ UNCHANGED <<promo, ofGraveyard, ofType>>
    BY <1>3 DEF AssignFails, requestVars
  <2>2. kind[t] # "none"
    BY <1>3 DEF AssignFails, NoAssignment
  <2> QED BY <2>1, <2>2, EndedType DEF PromotionsTypeOK
<1>4. CASE PromotionsRun
  <2>1. UNCHANGED <<promoting, kind>>
    BY <1>4 DEF PromotionsRun, CreatePromotion, SwitchPromotion,
       RemovePromotion, requestVars
  <2>2. PromotionsTypeOK'
    BY <1>4 DEF PromotionsTypeOK, PromotionsRun, CreatePromotion,
       SwitchPromotion, RemovePromotion
  <2> QED BY <2>1, <2>2
<1>5. CASE promoting' = PromotionsAfterStop
           /\ UNCHANGED <<promo, ofGraveyard, ofType>>
  <2>1. \A s \in Task : promoting'[s] = Ended
                        \/ promoting'[s] = promoting[s]
    BY <1>5 DEF PromotionsAfterStop
  <2>2. promoting' \in [Task -> PromoAssignment]
    BY <1>5, EndedType DEF PromotionsAfterStop, PromotionsTypeOK
  <2>3. \A s \in Task : kind[s] = "none" => promoting'[s] = NoAssignment
    <3>1. NoAssignment.pc = "none"
      BY DEF NoAssignment
    <3> QED BY <1>5, <3>1 DEF PromotionsAfterStop
  <2> QED BY <1>5, <2>1, <2>2, <2>3, NotTakenBefore, EndedType
          DEF PromotionsTypeOK
<1>6. CASE UNCHANGED promoVars
  BY <1>6, NotTakenBefore DEF promoVars, PromotionsTypeOK
<1> QED BY <1>1, <1>2, <1>3, <1>4, <1>5, <1>6, PromotionsStep
        DEF PromotionsNext

\* The discount of a vault is a percentage.
LEMMA DiscountsType ==
  ASSUME NEW v
  PROVE  Discounts(v) \subseteq 0..100
<1>1. \A p \in Promo : DiscountOf[p] \in 0..100
  BY DiscountAssumption
<1>2. \A x, y \in 0..100 : (x + y) \div 2 \in 0..100
  OBVIOUS
<1>3. GraveyardOffers \subseteq Promo /\ TypeOffers(v) \subseteq Promo
  BY DEF GraveyardOffers, TypeOffers
<1> QED BY <1>1, <1>2, <1>3 DEF Discounts

LocalTyped ==
  /\ LocalSaleTypeOK
  /\ \A t \in Task :
       /\ local[t].pc \in {"book", "done"} =>
            /\ local[t].buyer \in Assignee
            /\ local[t].valt \in Valt
            /\ local[t].row \in Assignee
       /\ kind[t] = "none" => local[t] = NoLocal

\* A payment that failed is of its type.
LEMMA LocalFailedType ==
  /\ NoLocal \in LocalRecord
  /\ LocalFailed \in LocalRecord
  /\ LocalFailed.pc = "failed"
BY DEF NoLocal, LocalFailed, LocalRecord, NoForm

RowsTyped ==
  /\ RowsTypeOK
  /\ LocalTyped

\* A price after a discount is an amount.
LEMMA PriceType ==
  ASSUME NEW base \in Nat, NEW d \in 0..100
  PROVE  base * (100 - d) \in Nat
OBVIOUS

\* What is read for a payment is of its type.
LEMMA LocalStartType ==
  ASSUME RowsTypeOK, LocalTyped, NEW t \in Task,
         NEW b \in Assignee, NEW r \in Assignee, NEW form \in Forms,
         LocalStart(t, b, r, form)
  PROVE  \E l \in LocalRecord :
           /\ local' = [local EXCEPT ![t] = l]
           /\ l.buyer \in Assignee /\ l.valt \in Valt /\ l.row \in Assignee
           /\ l.pc = "book"
<1> DEFINE v    == owner[r].valt
           had  == saleValue[b] > 0
           base == IF had THEN saleValue[b] ELSE Price[v]
<1>1. v \in Valt
  BY DEF LocalStart, RowsTypeOK
<1>2. base \in Nat /\ had \in BOOLEAN
  BY <1>1, PriceAssumption DEF LocalTyped, LocalSaleTypeOK
<1>3. PICK d \in Discounts(v) :
        local' = [local EXCEPT ![t] =
            [pc |-> "book", buyer |-> b, valt |-> v, row |-> r, base |-> base,
             price |-> base * (100 - d), had |-> had, form |-> form]]
  BY DEF LocalStart
<1>4. d \in 0..100
  BY <1>3, DiscountsType
<1>5. base * (100 - d) \in Nat
  BY <1>2, <1>4, PriceType
<1> HIDE DEF v, had, base
<1> DEFINE l == [pc |-> "book", buyer |-> b, valt |-> v, row |-> r,
                 base |-> base, price |-> base * (100 - d), had |-> had,
                 form |-> form]
<1>6. l \in LocalRecord
  BY <1>1, <1>2, <1>5 DEF LocalRecord
<1> QED BY <1>1, <1>3, <1>6

\* Payments at the desk keep their types.
LEMMA LocalTypedKept ==
  ASSUME RequestsTypeOK, RowsTypeOK, LocalTyped, [Next]_vars
  PROVE  LocalTyped'
<1> USE DEF LocalTyped
<1>1. ASSUME NEW t \in Task, NEW b \in Assignee, NEW r \in Assignee,
             NEW form \in Forms, LocalStart(t, b, r, form)
      PROVE  LocalTyped'
  <2>1. PICK l \in LocalRecord :
           /\ local' = [local EXCEPT ![t] = l]
           /\ l.buyer \in Assignee /\ l.valt \in Valt /\ l.row \in Assignee
    BY <1>1, LocalStartType
  <2>2. raced' \subseteq Assignee /\ UNCHANGED saleValue
    BY <1>1 DEF LocalStart, LocalSaleTypeOK
  <2>3. \A s \in Task : kind'[s] = "none" => kind[s] = "none" /\ s # t
    BY <1>1, TakenNow DEF LocalStart, Kind
  <2> QED BY <2>1, <2>2, <2>3 DEF LocalSaleTypeOK
<1>2. ASSUME NEW t \in Task, LocalBook(t)
      PROVE  LocalTyped'
  <2>1. local' = [local EXCEPT ![t].pc = "done"] /\ local[t].pc = "book"
        /\ UNCHANGED <<raced, kind>>
    BY <1>2 DEF LocalBook, requestVars
  <2>2. saleValue' \in [Assignee -> Int]
    <3>1. local[t].form.entry \in Int
      BY FormAssumption DEF LocalSaleTypeOK, LocalRecord, NoForm, Form
    <3>2. OwedAfter(local[t]) \in Int
      BY <2>1, <3>1 DEF OwedAfter, LocalSaleTypeOK
    <3> QED BY <1>2, <3>2 DEF LocalBook, LocalSaleTypeOK
  <2>3. local' \in [Task -> LocalRecord]
    BY <2>1 DEF LocalSaleTypeOK, LocalRecord
  <2>4. kind[t] # "none"
    BY <2>1 DEF NoLocal
  <2> QED BY <2>1, <2>2, <2>3, <2>4 DEF LocalSaleTypeOK
<1>3. ASSUME NEW t \in Task, LocalFails(t)
      PROVE  LocalTyped'
  <2>1. local' = [local EXCEPT ![t] = LocalFailed] /\ local[t].pc = "book"
        /\ UNCHANGED <<raced, saleValue, kind>>
    BY <1>3 DEF LocalFails, requestVars
  <2>2. kind[t] # "none"
    BY <2>1 DEF NoLocal
  <2> QED BY <2>1, <2>2, LocalFailedType DEF LocalSaleTypeOK
<1>6. ASSUME NEW a \in Assignee, NEW owed \in OwedTyped, TypeDebt(a, owed)
      PROVE  LocalTyped'
  <2>1. saleValue' \in [Assignee -> Int]
    BY <1>6, TypedAssumption DEF TypeDebt, LocalSaleTypeOK
  <2>2. raced' \subseteq Assignee /\ UNCHANGED local
    BY <1>6 DEF TypeDebt, LocalSaleTypeOK
  <2> QED BY <2>1, <2>2, NotTakenBefore DEF LocalSaleTypeOK
<1>4. CASE local' = LocalSalesAfterStop /\ UNCHANGED <<saleValue, raced>>
  <2>1. \A s \in Task : local'[s] = LocalFailed \/ local'[s] = local[s]
    BY <1>4 DEF LocalSalesAfterStop
  <2>2. local' \in [Task -> LocalRecord]
    BY <1>4, LocalFailedType DEF LocalSalesAfterStop, LocalSaleTypeOK
  <2>3. \A s \in Task : kind[s] = "none" => local'[s] = NoLocal
    <3>1. NoLocal.pc = "none"
      BY DEF NoLocal
    <3> QED BY <1>4, <3>1 DEF LocalSalesAfterStop
  <2> QED BY <1>4, <2>1, <2>2, <2>3, NotTakenBefore, LocalFailedType
          DEF LocalSaleTypeOK
<1>5. CASE UNCHANGED localVars
  BY <1>5, NotTakenBefore DEF localVars, LocalSaleTypeOK
<1> QED BY <1>1, <1>2, <1>3, <1>4, <1>5, <1>6, LocalStep DEF LocalSaleNext

\* A handover leaves a table of owner rows.
LEMMA HandoverType ==
  ASSUME RowsTypeOK, NEW r \in Assignee, NEW a \in Assignee, NEW v \in Valt,
         NEW t \in Task, NEW s \in PaymentStatus, Handover(r, a, v, t, s)
  PROVE  /\ owner' \in [Assignee -> OwnerRow]
         /\ held' \subseteq Assignee \X Assignee \X Valt
         /\ held \subseteq held'
         /\ <<r, a, v>> \in held'
         /\ \A x \in Assignee :
              /\ owner'[x].isActive = owner[x].isActive
              /\ x # r => /\ owner'[x].assignee = owner[x].assignee
                          /\ owner'[x].charge = owner[x].charge
                          /\ owner'[x].status = owner[x].status
                          /\ owner'[x].valt \in {owner[x].valt, NoValt}
         /\ owner'[r].assignee = a
         /\ owner'[r].valt = v
         /\ owner'[r].charge = t
         /\ owner'[r].status = s
<1> DEFINE given == [owner[r] EXCEPT !.assignee = a, !.valt = v, !.charge = t,
                                     !.status = s]
           without(x) == [owner[x] EXCEPT !.valt = NoValt]
<1>1. given \in OwnerRow /\ given.assignee = a /\ given.valt = v
      /\ given.charge = t /\ given.status = s
      /\ given.isActive = owner[r].isActive
  BY DEF RowsTypeOK, OwnerRow
<1>2. \A x \in Assignee :
        /\ without(x) \in OwnerRow
        /\ without(x).assignee = owner[x].assignee
        /\ without(x).charge = owner[x].charge
        /\ without(x).status = owner[x].status
        /\ without(x).isActive = owner[x].isActive
        /\ without(x).valt = NoValt
  BY DEF RowsTypeOK, OwnerRow
<1>3. owner' = [x \in Assignee |->
                  IF x = r THEN given
                  ELSE IF owner[x].valt = v THEN without(x) ELSE owner[x]]
  BY DEF Handover
<1> HIDE DEF given, without
<1>4. owner' \in [Assignee -> OwnerRow]
  BY <1>1, <1>2, <1>3 DEF RowsTypeOK
<1>5. owner'[r] = given
  BY <1>3
<1>6. \A x \in Assignee : x # r => owner'[x] \in {without(x), owner[x]}
  BY <1>3
<1>7. \A x \in Assignee :
        /\ owner'[x].isActive = owner[x].isActive
        /\ x # r => /\ owner'[x].assignee = owner[x].assignee
                    /\ owner'[x].charge = owner[x].charge
                    /\ owner'[x].status = owner[x].status
                    /\ owner'[x].valt \in {owner[x].valt, NoValt}
  BY <1>1, <1>2, <1>5, <1>6
<1>8. /\ held' \subseteq Assignee \X Assignee \X Valt
      /\ held \subseteq held'
      /\ <<r, a, v>> \in held'
  BY DEF Handover, RowsTypeOK
<1> QED BY <1>1, <1>4, <1>5, <1>7, <1>8

\* Owner rows keep their types.
LEMMA RowsTypedKept ==
  ASSUME RequestsTypeOK, RowsTypeOK, LocalTyped, [Next]_vars
  PROVE  RowsTypeOK'
<1>1. ASSUME NEW t \in Task, ActivateRow(t)
      PROVE  RowsTypeOK'
  <2>1. PICK r \in Assignee : owner' = [owner EXCEPT ![r].isActive = TRUE]
    BY <1>1 DEF ActivateRow, RowsOf
  <2>2. owner' \in [Assignee -> OwnerRow]
    BY <2>1 DEF RowsTypeOK, OwnerRow
  <2> QED BY <1>1, <2>2 DEF ActivateRow, RowsTypeOK
<1>2. ASSUME NEW t \in Task, LocalBook(t)
      PROVE  RowsTypeOK'
  <2> DEFINE l == local[t]
             s == IF IsEntry(l.form) THEN "ENTRADA_LOCAL" ELSE "PAGO_TOTAL"
  <2>1. l.buyer \in Assignee /\ l.valt \in Valt /\ l.row \in Assignee
    BY <1>2 DEF LocalBook, LocalTyped
  <2>2. Handover(l.row, l.buyer, l.valt, t, s)
    BY <1>2 DEF LocalBook
  <2>3. s \in PaymentStatus
    BY DEF PaymentStatus
  <2>4. /\ owner' \in [Assignee -> OwnerRow]
        /\ held' \subseteq Assignee \X Assignee \X Valt
    BY <2>1, <2>2, <2>3, HandoverType
  <2> QED BY <1>2, <2>4 DEF LocalBook, RowsTypeOK
<1>3. ASSUME NEW t \in Task, NEW a \in Assignee, RemoveAssignee(t, a)
      PROVE  RowsTypeOK'
  BY <1>3 DEF RemoveAssignee, RowsTypeOK
<1>4. ASSUME NEW t \in Task, NEW v \in Valt, RemoveValt(t, v)
      PROVE  RowsTypeOK'
  <2>1. owner' \in [Assignee -> OwnerRow]
    BY <1>4 DEF RemoveValt, RowsTypeOK, OwnerRow
  <2> QED BY <1>4, <2>1 DEF RemoveValt, RowsTypeOK
<1>5. CASE UNCHANGED rowVars
  BY <1>5 DEF rowVars, RowsTypeOK
<1> QED BY <1>1, <1>2, <1>3, <1>4, <1>5, RowsStep

ContractTyped ==
  /\ ContractTypeOK
  /\ \A t \in Task : kind[t] = "none" => contract[t] = NoContract

\* No contract is of the type of one, with no mark on it.
LEMMA NoContractType ==
  /\ NoContract \in ContractRecord
  /\ NoContract.upload = "none"
  /\ NoContract.paper = "none"
  /\ NoContract.hook = "none"
  /\ NoContract.valt = NoValt
  /\ NoContract.hooked = FALSE
  /\ NoContract.filed = "none"
BY DEF NoContract, ContractRecord, Upload, Hook

\* A step of one contract that is of its type keeps the types.
LEMMA OneContractTyped ==
  ASSUME ContractTyped, NEW t \in Task, NEW c \in ContractRecord,
         contract' = [contract EXCEPT ![t] = c],
         c.upload # "none" => c.who \in Assignee,
         flagged' \subseteq valts', enabled' \in [Assignee -> BOOLEAN],
         byHand' \subseteq Assignee,
         \A s \in Task : kind'[s] = "none" => kind[s] = "none" /\ s # t
  PROVE  ContractTyped'
BY DEF ContractTyped, ContractTypeOK

\* Contracts keep their types.
LEMMA ContractTypedKept ==
  ASSUME RequestsTypeOK, RowsTypeOK, ContractTyped, [Next]_vars
  PROVE  ContractTyped'
<1> USE NoContractType
<1>1. ASSUME NEW t \in Task, NEW a \in Assignee, NEW v \in Valt,
             GenerateContract(t, a, v)
      PROVE  ContractTyped'
  <2> DEFINE c == [NoContract EXCEPT !.who = a, !.valt = v, !.upload = "post"]
  <2>1. c \in ContractRecord /\ c.who = a
    BY DEF NoContract, ContractRecord, Upload, Hook
  <2>2. contract' = [contract EXCEPT ![t] = c]
        /\ UNCHANGED <<flagged, enabled, byHand, valts>>
    BY <1>1 DEF GenerateContract, rowVars
  <2>3. \A s \in Task : kind'[s] = "none" => kind[s] = "none" /\ s # t
    BY <1>1, TakenNow DEF GenerateContract, Kind
  <2> HIDE DEF c
  <2> QED BY <2>1, <2>2, <2>3, OneContractTyped DEF ContractTyped, ContractTypeOK
<1>2. ASSUME NEW t \in Task, ContractNext(t), UNCHANGED requestVars
      PROVE  ContractTyped'
  <2> DEFINE c == contract[t]
  <2>0. c \in ContractRecord /\ (c.upload # "none" => c.who \in Assignee)
        /\ contract = [contract EXCEPT ![t] = c]
    BY DEF ContractTyped, ContractTypeOK
  <2>00. /\ flagged \subseteq valts
         /\ enabled \in [Assignee -> BOOLEAN]
         /\ byHand \subseteq Assignee
    BY DEF ContractTyped, ContractTypeOK
  <2>1. CASE FlagValt(t)
    <3>1. contract' = [contract EXCEPT ![t] = [c EXCEPT !.valt = NoValt]]
          /\ c.valt # NoValt
      BY <2>1 DEF FlagValt
    <3>2. [c EXCEPT !.valt = NoValt] \in ContractRecord
      BY <2>0 DEF ContractRecord
    <3>3. [c EXCEPT !.valt = NoValt].upload = c.upload
          /\ [c EXCEPT !.valt = NoValt].who = c.who
      BY <2>0 DEF ContractRecord
    <3>4. flagged' \subseteq valts' /\ UNCHANGED <<enabled, byHand, kind>>
      BY <2>1, <2>00 DEF FlagValt, rowVars, requestVars
    <3>5. kind[t] # "none"
      BY <3>1 DEF ContractTyped
    <3> HIDE DEF c
    <3> QED BY <2>0, <2>00, <3>1, <3>2, <3>3, <3>4, <3>5, OneContractTyped
  <2>2. CASE ActivateRow(t)
    <3>1. contract' = [contract EXCEPT ![t] = [c EXCEPT !.hook = "confirmed"]]
          /\ c.hook = "row"
          /\ UNCHANGED <<valts, flagged, enabled, byHand, kind>>
      BY <2>2 DEF ActivateRow, requestVars
    <3>2. [c EXCEPT !.hook = "confirmed"] \in ContractRecord
      BY <2>0 DEF ContractRecord, Hook
    <3>3. [c EXCEPT !.hook = "confirmed"].upload = c.upload
          /\ [c EXCEPT !.hook = "confirmed"].who = c.who
      BY <2>0 DEF ContractRecord
    <3>4. kind[t] # "none"
      BY <3>1 DEF ContractTyped
    <3> HIDE DEF c
    <3> QED BY <2>0, <2>00, <3>1, <3>2, <3>3, <3>4, OneContractTyped
  <2>3. CASE \/ PostDocument(t) \/ InviteSigner(t) \/ DisableAssignee(t)
             \/ StoreDocument(t) \/ Decide(t) \/ HookCalled(t)
             \/ MarkDocument(t) \/ EnableAssignee(t) \/ HookFails(t)
    <3>1. UNCHANGED <<valts, flagged, kind>>
      BY <2>3 DEF PostDocument, InviteSigner, DisableAssignee, StoreDocument,
         Decide, HookCalled, MarkDocument, EnableAssignee, HookFails, rowVars,
         requestVars
    <3>2. enabled' \in [Assignee -> BOOLEAN] /\ byHand' \subseteq Assignee
      BY <2>3, <2>00 DEF PostDocument, InviteSigner, DisableAssignee,
         StoreDocument, Decide, HookCalled, MarkDocument, EnableAssignee,
         HookFails
    <3>3. c.upload # "none" \/ c.paper # "none" \/ c.hook # "none"
      BY <2>3 DEF PostDocument, InviteSigner, DisableAssignee, StoreDocument,
         Decide, HookCalled, MarkDocument, EnableAssignee, HookFails
    <3>4. kind[t] # "none"
      BY <3>3 DEF ContractTyped
    <3>5. PICK x \in ContractRecord :
             /\ contract' = [contract EXCEPT ![t] = x]
             /\ x.who = c.who
             /\ x.upload # "none" <=> c.upload # "none"
      <4>1. CASE PostDocument(t) \/ DisableAssignee(t) \/ StoreDocument(t)
        BY <2>0, <4>1 DEF PostDocument, DisableAssignee, StoreDocument,
           ContractRecord, Upload
      <4>2. CASE InviteSigner(t)
        <5>1. PICK hooked \in BOOLEAN, paper \in {"out", "sent"} :
                contract' = [contract EXCEPT ![t].upload = "status",
                               ![t].hooked = hooked, ![t].paper = paper]
          BY <4>2 DEF InviteSigner
        <5> DEFINE x == [c EXCEPT !.upload = "status", !.hooked = hooked,
                                  !.paper = paper]
        <5>2. contract' = [contract EXCEPT ![t] = x]
          BY <5>1 DEF ContractTyped, ContractTypeOK
        <5>3. x \in ContractRecord /\ x.who = c.who /\ x.upload = "status"
          BY <2>0 DEF ContractRecord, Upload
        <5>4. c.upload = "invite"
          BY <4>2 DEF InviteSigner
        <5> HIDE DEF x, c
        <5> QED BY <5>2, <5>3, <5>4
      <4>3. CASE Decide(t) \/ HookCalled(t) \/ EnableAssignee(t) \/ HookFails(t)
        BY <2>0, <4>3 DEF Decide, HookCalled, EnableAssignee, HookFails,
           ContractRecord, Hook
      <4>4. CASE MarkDocument(t)
        <5> DEFINE filed == IF c.paper = "Signed" THEN "ASSINADO"
                            ELSE "REJEITADO"
                   hook  == IF c.paper = "Signed" THEN "person" ELSE "confirmed"
                   x == [c EXCEPT !.filed = filed, !.hook = hook]
        <5>1. contract' = [contract EXCEPT ![t] = x]
          BY <4>4 DEF MarkDocument, ContractTyped, ContractTypeOK
        <5>2. filed \in {"ASSINADO", "REJEITADO"} /\ hook \in Hook
          BY DEF Hook
        <5> HIDE DEF filed, hook
        <5>3. x \in ContractRecord /\ x.who = c.who /\ x.upload = c.upload
          BY <2>0, <5>2 DEF ContractRecord
        <5> HIDE DEF x, c
        <5> QED BY <5>1, <5>3
      <4> QED BY <2>3, <4>1, <4>2, <4>3, <4>4
    <3> HIDE DEF c
    <3> QED BY <2>0, <2>00, <3>1, <3>2, <3>4, <3>5, OneContractTyped
  <2>4. ASSUME NEW a \in Assignee, NEW v \in Valt, GenerateContract(t, a, v)
        PROVE  ContractTyped'
    BY <1>1, <2>4
  <2> QED BY <1>2, <2>1, <2>2, <2>3, <2>4 DEF ContractNext
<1>3. CASE contract' = ContractsAfterStop
           /\ UNCHANGED <<flagged, enabled, byHand, rowVars>>
  <2>1. \A s \in Task : LET x == contract'[s] IN
          /\ x \in ContractRecord
          /\ x.who = contract[s].who
          /\ contract[s].upload = "none" => x.upload = "none"
          /\ contract[s] = NoContract => x = NoContract
    <3> TAKE s \in Task
    <3> DEFINE c == contract[s]
               upload == IF c.upload \in {"none", "stored"} THEN c.upload
                         ELSE "stopped"
               hook == IF c.hook \in {"mark", "person", "row"} THEN "failed"
                       ELSE c.hook
               x == [c EXCEPT !.valt = NoValt, !.upload = upload, !.hook = hook]
    <3>1. c \in ContractRecord
      BY DEF ContractTyped, ContractTypeOK
    <3>2. contract'[s] = x
      BY <1>3 DEF ContractsAfterStop
    <3>3. upload \in Upload /\ (c.upload = "none" => upload = "none")
      BY <3>1 DEF Upload, ContractRecord
    <3>4. hook \in Hook /\ (c.hook = "none" => hook = "none")
      BY <3>1 DEF Hook, ContractRecord
    <3> HIDE DEF upload, hook
    <3>5. x \in ContractRecord /\ x.who = c.who /\ x.upload = upload
      BY <3>1, <3>3, <3>4 DEF ContractRecord
    <3>6. c = NoContract => x = NoContract
      BY <3>3, <3>4 DEF NoContract
    <3> HIDE DEF x, c
    <3> QED BY <3>2, <3>3, <3>5, <3>6 DEF c
  <2>2. contract' = [s \in Task |-> contract'[s]]
    BY <1>3 DEF ContractsAfterStop
  <2>3. contract' \in [Task -> ContractRecord]
    BY <2>1, <2>2
  <2>4. UNCHANGED valts
    BY <1>3 DEF rowVars
  <2> QED BY <1>3, <2>1, <2>3, <2>4, NotTakenBefore
          DEF ContractTyped, ContractTypeOK
<1>4. ASSUME NEW t \in Task, NEW v \in Valt, RemoveValt(t, v)
      PROVE  ContractTyped'
  <2>1. flagged' \subseteq valts' /\ UNCHANGED <<contract, enabled, byHand>>
    BY <1>4 DEF RemoveValt, ContractTyped, ContractTypeOK
  <2> QED BY <2>1, NotTakenBefore DEF ContractTyped, ContractTypeOK
<1>7. ASSUME NEW a \in Assignee, NEW on \in BOOLEAN, SwitchByHand(a, on),
             UNCHANGED rowVars
      PROVE  ContractTyped'
  <2>1. /\ enabled' \in [Assignee -> BOOLEAN]
        /\ byHand' \subseteq Assignee
        /\ UNCHANGED <<contract, flagged, valts>>
    BY <1>7 DEF SwitchByHand, rowVars, ContractTyped, ContractTypeOK
  <2> QED BY <2>1, NotTakenBefore DEF ContractTyped, ContractTypeOK
<1>5. CASE UNCHANGED contractVars
           /\ ~ \E t \in Task, v \in Valt : RemoveValt(t, v)
  <2>1. UNCHANGED valts
    BY <1>5, RowsStep DEF ActivateRow, LocalBook, RemoveAssignee, rowVars
  <2> QED BY <1>5, <2>1, NotTakenBefore
          DEF contractVars, ContractTyped, ContractTypeOK
<1>6. ASSUME NEW t \in Task, ContractNext(t)
      PROVE  ContractTyped'
  <2>1. CASE UNCHANGED requestVars
    BY <1>2, <1>6, <2>1
  <2>2. CASE Take(t, "contract")
    <3>1. kind[t] = "none"
      BY <2>2 DEF Take, Due
    <3>2. contract[t] = NoContract
      BY <3>1 DEF ContractTyped
    <3>3. \E a \in Assignee, v \in Valt : GenerateContract(t, a, v)
      BY <1>6, <3>2 DEF ContractNext, FlagValt, PostDocument, InviteSigner,
         DisableAssignee, StoreDocument, Decide, HookCalled, MarkDocument,
         EnableAssignee, ActivateRow, HookFails
    <3> QED BY <1>1, <3>3
  <2> QED BY <1>6, <2>1, <2>2, ContractMoves
<1> QED BY <1>3, <1>4, <1>5, <1>6, <1>7, ContractStep

\* The table of files, as a function.
ReturnTable ==
  return \in [Task -> [pc   : {"none", "lines", "done", "failed"},
                       file : Files \cup {<<>>},
                       next : Nat \ {0}]]

ReturnTyped ==
  /\ ReturnTypeOK
  /\ ReturnTable
  /\ \A t \in Task : kind[t] = "none" =>
       return[t].pc = "none" /\ return[t].file = <<>>

\* The length of a sequence is a number.
LEMMA LenInNat ==
  ASSUME NEW S, NEW f \in Seq(S)
  PROVE  Len(f) \in Nat
OBVIOUS

\* A file has lines.
LEMMA FilesAreLines ==
  ASSUME NEW f \in Files \cup {<<>>}
  PROVE  f \in Seq(Line) /\ Len(f) \in Nat
<1>1. CASE f \in Files
  <2>1. f \in Seq(Line)
    BY <1>1, FilesAssumption
  <2> QED BY <2>1, LenInNat
<1>2. CASE f = <<>>
  <2>1. <<>> \in Seq(Line)
    OBVIOUS
  <2> QED BY <1>2, <2>1, LenInNat
<1> QED BY <1>1, <1>2

\* Return files keep their types.
LEMMA ReturnTypedKept ==
  ASSUME RequestsTypeOK, ReturnTyped, [Next]_vars
  PROVE  ReturnTyped'
<1> USE DEF ReturnTyped
<1>1. ASSUME NEW t \in Task, NEW file \in Files, ReturnStart(t, file)
      PROVE  ReturnTyped'
  <2>1. return' = [return EXCEPT ![t] = [pc |-> "lines", file |-> file,
                                         next |-> 1]]
        /\ UNCHANGED paidOld
    BY <1>1 DEF ReturnStart
  <2>2. ReturnTable'
    BY <2>1 DEF ReturnTable
  <2>3. \A s \in Task : kind'[s] = "none" => kind[s] = "none" /\ s # t
    BY <1>1, TakenNow DEF ReturnStart, Kind
  <2>4. Len(file) \in Nat
    BY FilesAreLines
  <2>5. ReturnTypeOK'
    BY <2>1, <2>4 DEF ReturnTypeOK, ReturnTable
  <2> QED BY <2>1, <2>2, <2>3, <2>5 DEF ReturnTable
<1>2. ASSUME NEW t \in Task, ReturnLine(t)
      PROVE  ReturnTyped'
  <2> DEFINE r == return[t]
  <2>1. /\ r.pc = "lines"
        /\ r.next <= Len(r.file)
        /\ return' = [return EXCEPT ![t].next = r.next + 1]
        /\ paidOld' \subseteq PaymentOld
        /\ UNCHANGED kind
    BY <1>2 DEF ReturnLine, ReturnTypeOK, requestVars
  <2>2. r.next \in Nat \ {0} /\ Len(r.file) \in Nat
    BY FilesAreLines DEF ReturnTable
  <2>3. ReturnTable'
    BY <2>1, <2>2 DEF ReturnTable
  <2>4. /\ return'[t].next = r.next + 1
        /\ return'[t].file = r.file
        /\ return'[t].pc = r.pc
        /\ \A s \in Task : s # t => return'[s] = return[s]
    BY <2>1 DEF ReturnTable
  <2>5. return'[t].next \in 1..(Len(return'[t].file) + 1)
    BY <2>1, <2>2, <2>4
  <2>6. ReturnTypeOK'
    BY <2>1, <2>4, <2>5 DEF ReturnTypeOK
  <2> QED BY <2>1, <2>3, <2>4, <2>6
<1>3. ASSUME NEW t \in Task, ReturnDone(t) \/ ReturnFails(t)
      PROVE  ReturnTyped'
  <2>1. PICK pc \in {"done", "failed"} :
          /\ return' = [return EXCEPT ![t].pc = pc]
          /\ return[t].pc = "lines"
          /\ UNCHANGED <<paidOld, kind>>
    BY <1>3 DEF ReturnDone, ReturnFails, requestVars
  <2>2. ReturnTable'
    BY <2>1 DEF ReturnTable
  <2>3. \A s \in Task : /\ return'[s].file = return[s].file
                        /\ return'[s].next = return[s].next
                        /\ return'[s].pc \in {return[s].pc, pc}
                        /\ return[s].pc = "none" => return'[s].pc = "none"
    BY <2>1 DEF ReturnTable
  <2>4. ReturnTypeOK'
    BY <2>1, <2>3 DEF ReturnTypeOK
  <2> QED BY <2>1, <2>2, <2>3, <2>4
<1>4. CASE return' = ReturnsAfterStop /\ UNCHANGED paidOld
  <2>1. ReturnTable'
    BY <1>4 DEF ReturnsAfterStop, ReturnTable
  <2>2. \A s \in Task : /\ return'[s].file = return[s].file
                        /\ return'[s].next = return[s].next
                        /\ return'[s].pc \in {return[s].pc, "failed"}
                        /\ return[s].pc = "none" => return'[s].pc = "none"
    BY <1>4 DEF ReturnsAfterStop, ReturnTable
  <2>3. ReturnTypeOK'
    BY <1>4, <2>2 DEF ReturnTypeOK
  <2> QED BY <2>1, <2>2, <2>3, NotTakenBefore
<1>5. CASE UNCHANGED returnVars
  BY <1>5, NotTakenBefore DEF returnVars, ReturnTypeOK, ReturnTable
<1> QED BY <1>1, <1>2, <1>3, <1>4, <1>5, ReturnStep DEF ReturnNext

(***************************************************************************)
(* The types of maintenance are bounds: no more parts are issued and       *)
(* billed than the choice has.                                             *)
(***************************************************************************)

\* The calls of a request ask for its parts: one call for all of them, or one
\* for each.
CallsAddUp(t) ==
  LET m == maintenance[t] IN
  /\ billed[t] <= m.parts
  /\ m.pc = "none" => m = NoMaintenance /\ issued[t] = 0 /\ billed[t] = 0
  /\ m.pc = "call" =>
       /\ \/ m.each = 1 /\ m.open >= 1 /\ issued[t] + m.open = m.parts
          \/ m.open = 1 /\ issued[t] + m.each = m.parts
       /\ billed[t] = 0
       /\ ~ m.made
  /\ m.pc \in {"record", "bill", "done"} =>
       m.open = 0 /\ issued[t] = m.parts
  /\ m.pc = "record" => billed[t] = 0 /\ ~ m.made
  /\ m.pc = "bill" => billed[t] < m.parts /\ m.made
  /\ m.pc = "done" => billed[t] = m.parts
  /\ m.pc = "failed" =>
       \/ m.each = 1 /\ issued[t] + m.open <= m.parts
       \/ m.open = 1 /\ issued[t] + m.each <= m.parts
       \/ m.open = 0 /\ issued[t] <= m.parts
  /\ billed[t] > 0 => m.made /\ issued[t] = m.parts /\ m.open = 0
  /\ m.made => m.who \in Assignee /\ m.pc \in {"bill", "done", "failed"}
  /\ m.rowFor # NoValt => m.made
  /\ m.pc # "none" => m.who \in Assignee /\ m.valt \in Valt /\ m.parts > 0

MaintenanceTyped ==
  /\ MaintenanceTypeOK
  /\ \A t \in Task : CallsAddUp(t)
  /\ \A t \in Task : kind[t] = "none" => maintenance[t].pc = "none"

\* A choice has parts, and its calls ask for them.
LEMMA CallsForParts ==
  ASSUME NEW method \in Method, NEW type \in MaintenanceChoice, NEW fee \in Nat,
         CallsFor(method, type, fee) > 0
  PROVE  LET calls == CallsFor(method, type, fee)
             each  == PartsOf[type] \div calls
         IN  /\ PartsOf[type] \in 1..12
             /\ calls \in 1..12 /\ each \in 1..12
             /\ \/ each = 1 /\ calls = PartsOf[type]
                \/ calls = 1 /\ each = PartsOf[type]
<1>1. PartsOf[type] \in {1, 2, 12}
  BY DEF PartsOf, MaintenanceChoice
<1>2. CASE method = "PIX"
  <2>1. CallsFor(method, type, fee) = 1
    BY <1>2 DEF CallsFor, PixCalls
  <2> QED BY <1>1, <2>1
<1>3. CASE method = "BOLETO"
  <2>1. CallsFor(method, type, fee) = PartsOf[type]
    BY <1>3 DEF CallsFor, BilletCalls
  <2> QED BY <1>1, <2>1
<1>4. CASE method = "CARNE"
  <2>1. CallsFor(method, type, fee) = 1
    BY <1>1, <1>4 DEF CallsFor, FleshCalls
  <2> QED BY <1>1, <2>1
<1>5. CASE method = "CREDITO"
  BY <1>5 DEF CallsFor, CreditCalls
<1> QED BY <1>2, <1>3, <1>4, <1>5 DEF Method

\* A step of one request that adds up keeps the types.
LEMMA OneMaintenanceTyped ==
  ASSUME MaintenanceTyped, NEW t \in Task, MaintenanceTypeOK', CallsAddUp(t)',
         \A s \in Task : s # t => /\ maintenance'[s] = maintenance[s]
                                 /\ issued'[s] = issued[s]
                                 /\ billed'[s] = billed[s],
         \A s \in Task : kind'[s] = "none" => kind[s] = "none" /\ s # t
  PROVE  MaintenanceTyped'
<1>1. \A s \in Task : CallsAddUp(s)'
  BY DEF MaintenanceTyped, CallsAddUp
<1> QED BY <1>1 DEF MaintenanceTyped

\* No request is of the type of one.
LEMMA NoMaintenanceType ==
  /\ NoMaintenance \in MaintenanceRecord
  /\ NoMaintenance.pc = "none"
  /\ NoMaintenance.made = FALSE
  /\ NoMaintenance.rowFor = NoValt
BY DEF NoMaintenance, MaintenanceRecord

\* The start of a request, and the ends of its calls.
LEMMA StartTyped ==
  ASSUME RequestsTypeOK, MaintenanceTyped, NEW t \in Task,
         NEW a \in Assignee, NEW v \in Valt, NEW method \in Method,
         NEW type \in MaintenanceChoice, StartMaintenance(t, a, v, method, type)
  PROVE  MaintenanceTyped'
<1> DEFINE calls == CallsFor(method, type, Fee[a])
           parts == PartsOf[type]
           each  == parts \div calls
           m == [NoMaintenance EXCEPT !.pc = "call", !.who = a, !.valt = v,
                   !.parts = parts, !.each = each, !.open = calls]
<1>1. /\ parts \in 1..12 /\ calls \in 1..12 /\ each \in 1..12
      /\ \/ each = 1 /\ calls = parts
         \/ calls = 1 /\ each = parts
  BY CallsForParts, FeeAssumption DEF StartMaintenance
<1>2. maintenance' = [maintenance EXCEPT ![t] = m] /\ UNCHANGED <<issued, billed>>
  BY DEF StartMaintenance
<1>3. kind[t] = "none"
      /\ \A s \in Task : kind'[s] = "none" => kind[s] = "none" /\ s # t
  BY TakenNow DEF StartMaintenance, Kind
<1>4. issued[t] = 0 /\ billed[t] = 0
  BY <1>3 DEF MaintenanceTyped, CallsAddUp
<1> HIDE DEF calls, parts, each
<1>5. /\ m \in MaintenanceRecord
      /\ m.pc = "call" /\ m.who = a /\ m.valt = v /\ m.parts = parts
      /\ m.each = each /\ m.open = calls /\ m.made = FALSE
      /\ m.rowFor = NoValt
  <2>1. parts \in 0..12 /\ each \in 0..12 /\ calls \in 0..12
    BY <1>1
  <2> QED BY <2>1, NoMaintenanceType DEF MaintenanceRecord
<1> HIDE DEF m
<1>6. maintenance'[t] = m
  BY <1>2 DEF MaintenanceTyped, MaintenanceTypeOK
<1>7. CallsAddUp(t)'
  BY <1>1, <1>2, <1>4, <1>5, <1>6 DEF CallsAddUp
<1>8. MaintenanceTypeOK'
      /\ \A s \in Task : s # t => /\ maintenance'[s] = maintenance[s]
                                  /\ issued'[s] = issued[s]
                                  /\ billed'[s] = billed[s]
  BY <1>2, <1>5 DEF MaintenanceTyped, MaintenanceTypeOK
<1> QED BY <1>3, <1>7, <1>8, OneMaintenanceTyped

\* Answers, lost and refused calls.
LEMMA CallsTyped ==
  ASSUME MaintenanceTyped, NEW t \in Task,
         CallAnswered(t) \/ CallFails(t) \/ CallGoesOn(t)
  PROVE  MaintenanceTyped'
<1> DEFINE m == maintenance[t]
<1>1. /\ m \in MaintenanceRecord /\ issued[t] \in 0..12 /\ billed[t] \in 0..12
      /\ CallsAddUp(t)
  BY DEF MaintenanceTyped, MaintenanceTypeOK
<1>2. PICK n \in {0, m.each}, pc \in {"record", "call", "failed"} :
        /\ issued' = [issued EXCEPT ![t] = issued[t] + n]
        /\ maintenance' = [maintenance EXCEPT ![t].open = m.open - 1,
                                              ![t].pc = pc]
        /\ pc # "failed" => m.pc = "call" /\ n = m.each
        /\ pc = "record" <=> (pc # "failed" /\ m.open = 1)
        /\ m.pc = "call" \/ (m.pc = "failed" /\ m.open > 0)
        /\ UNCHANGED <<billed, kind>>
  <2>1. CASE CallAnswered(t)
    <3> DEFINE pc == IF m.open = 1 THEN "record" ELSE "call"
    <3>1. /\ pc \in {"record", "call", "failed"} /\ pc # "failed"
          /\ pc = "record" <=> m.open = 1
      OBVIOUS
    <3>2. /\ issued' = [issued EXCEPT ![t] = issued[t] + m.each]
          /\ maintenance' = [maintenance EXCEPT ![t].open = m.open - 1,
                                                ![t].pc = pc]
          /\ m.pc = "call"
          /\ UNCHANGED <<billed, kind>>
      BY <2>1 DEF CallAnswered, requestVars
    <3> HIDE DEF pc
    <3> QED BY <3>1, <3>2
  <2>2. CASE CallFails(t)
    BY <2>2 DEF CallFails, requestVars
  <2>3. CASE CallGoesOn(t)
    <3>1. PICK n \in {0, m.each} : issued' = [issued EXCEPT ![t] = issued[t] + n]
      BY <2>3 DEF CallGoesOn
    <3>2. /\ m.pc = "failed" /\ m.open > 0
          /\ maintenance' = [maintenance EXCEPT ![t].open = m.open - 1]
          /\ UNCHANGED <<billed, kind>>
      BY <2>3 DEF CallGoesOn, requestVars
    <3>3. maintenance' = [maintenance EXCEPT ![t].open = m.open - 1,
                                             ![t].pc = "failed"]
      BY <3>2, <1>1 DEF MaintenanceTyped, MaintenanceTypeOK, MaintenanceRecord
    <3> QED BY <3>1, <3>2, <3>3
  <2> QED BY <2>1, <2>2, <2>3
<1> DEFINE x == [m EXCEPT !.open = m.open - 1, !.pc = pc]
<1>3. maintenance' = [maintenance EXCEPT ![t] = x]
  BY <1>2 DEF MaintenanceTyped, MaintenanceTypeOK
<1>4. m.open \in 1..12 /\ m.each \in 0..12 /\ m.parts \in 0..12
  BY <1>1, <1>2 DEF MaintenanceRecord, CallsAddUp
<1>5. /\ x \in MaintenanceRecord
      /\ x.pc = pc /\ x.who = m.who /\ x.valt = m.valt /\ x.parts = m.parts
      /\ x.each = m.each /\ x.open = m.open - 1 /\ x.made = m.made
      /\ x.rowFor = m.rowFor
  <2> DEFINE o == m.open - 1
  <2>1. o \in 0..12
    BY <1>4
  <2>2. pc \in {"none", "call", "record", "bill", "done", "failed"}
    OBVIOUS
  <2> HIDE DEF o, m
  <2> QED BY <1>1, <2>1, <2>2 DEF MaintenanceRecord, o
<1>6. issued[t] + n \in 0..12
  BY <1>1, <1>2, <1>4 DEF CallsAddUp
<1>7. maintenance'[t] = x /\ issued'[t] = issued[t] + n /\ billed'[t] = billed[t]
  BY <1>2, <1>3 DEF MaintenanceTyped, MaintenanceTypeOK
<1> HIDE DEF x
<1>8. billed[t] = 0
  BY <1>1, <1>2, <1>4 DEF CallsAddUp
<1>11. ASSUME CallsAddUp(t)' PROVE MaintenanceTyped'
  <2>1. \A s \in Task : kind'[s] = "none" => kind[s] = "none" /\ s # t
    BY <1>1, <1>2 DEF MaintenanceTyped
  <2>2. MaintenanceTypeOK'
        /\ \A s \in Task : s # t => /\ maintenance'[s] = maintenance[s]
                                    /\ issued'[s] = issued[s]
                                    /\ billed'[s] = billed[s]
    BY <1>2, <1>3, <1>5, <1>6 DEF MaintenanceTyped, MaintenanceTypeOK
  <2> QED BY <1>11, <2>1, <2>2, OneMaintenanceTyped
<1>9. CASE pc = "failed"
  <2>1. \/ x.each = 1 /\ issued'[t] + x.open <= x.parts
        \/ x.open = 1 /\ issued'[t] + x.each <= x.parts
        \/ x.open = 0 /\ issued'[t] <= x.parts
    BY <1>1, <1>2, <1>4, <1>5, <1>7 DEF CallsAddUp
  <2>2. CallsAddUp(t)'
    BY <1>1, <1>2, <1>4, <1>5, <1>7, <1>8, <1>9, <2>1 DEF CallsAddUp
  <2> QED BY <2>2, <1>11
<1>10. CASE pc # "failed"
  <2>1. m.pc = "call" /\ n = m.each /\ ~ m.made
    BY <1>1, <1>2, <1>10 DEF CallsAddUp
  <2>2. CallsAddUp(t)'
    BY <1>1, <1>2, <1>4, <1>5, <1>7, <1>8, <1>10, <2>1 DEF CallsAddUp
  <2> QED BY <2>2, <1>11
<1> QED BY <1>9, <1>10

\* A request that loses its vault, or nothing, is of its type.
LEMMA RowForTaken ==
  ASSUME NEW m \in MaintenanceRecord, NEW v
  PROVE  LET x == [m EXCEPT !.rowFor = IF m.rowFor = v THEN NoValt
                                       ELSE m.rowFor]
         IN  /\ x \in MaintenanceRecord
             /\ x.pc = m.pc /\ x.who = m.who /\ x.valt = m.valt
             /\ x.parts = m.parts /\ x.each = m.each /\ x.open = m.open
             /\ x.made = m.made
             /\ x.rowFor = IF m.rowFor = v THEN NoValt ELSE m.rowFor
             /\ m = NoMaintenance => x = NoMaintenance
<1> DEFINE w == IF m.rowFor = v THEN NoValt ELSE m.rowFor
<1>1. w \in Valt \cup {NoValt}
  BY DEF MaintenanceRecord
<1>2. m.rowFor = NoValt => w = NoValt
  OBVIOUS
<1> HIDE DEF w
<1> DEFINE x == [m EXCEPT !.rowFor = w]
<1>3. /\ x \in MaintenanceRecord
      /\ x.pc = m.pc /\ x.who = m.who /\ x.valt = m.valt
      /\ x.parts = m.parts /\ x.each = m.each /\ x.open = m.open
      /\ x.made = m.made /\ x.rowFor = w
  BY <1>1 DEF MaintenanceRecord
<1>4. w = m.rowFor => x = m
  BY DEF MaintenanceRecord
<1>5. m = NoMaintenance => x = NoMaintenance
  BY <1>2, <1>4, NoMaintenanceType
<1> QED BY <1>3, <1>5 DEF w

\* Requests of which some lose their vault add up as before.
LEMMA RowsForTaken ==
  ASSUME MaintenanceTyped, NEW v, NEW t \in Task,
         LET x == maintenance'[t] IN
         x = [maintenance[t] EXCEPT !.rowFor = IF maintenance[t].rowFor = v
                 THEN NoValt ELSE maintenance[t].rowFor],
         issued'[t] = issued[t], billed'[t] = billed[t]
  PROVE  maintenance'[t] \in MaintenanceRecord /\ CallsAddUp(t)'
         /\ maintenance'[t].pc = maintenance[t].pc
<1> DEFINE m == maintenance[t]
           x == maintenance'[t]
<1>1. m \in MaintenanceRecord /\ CallsAddUp(t)
  BY DEF MaintenanceTyped, MaintenanceTypeOK
<1>2. /\ x \in MaintenanceRecord
      /\ x.pc = m.pc /\ x.who = m.who /\ x.valt = m.valt
      /\ x.parts = m.parts /\ x.each = m.each /\ x.open = m.open
      /\ x.made = m.made
      /\ x.rowFor = IF m.rowFor = v THEN NoValt ELSE m.rowFor
      /\ m = NoMaintenance => x = NoMaintenance
  BY <1>1, RowForTaken
<1> QED BY <1>1, <1>2 DEF CallsAddUp

\* The writes of a request.
LEMMA WritesTyped ==
  ASSUME MaintenanceTyped, NEW t \in Task,
         RecordMaintenance(t) \/ BillPart(t) \/ MaintenanceFails(t)
  PROVE  MaintenanceTyped'
<1> DEFINE m == maintenance[t]
<1>1. /\ m \in MaintenanceRecord /\ issued[t] \in 0..12 /\ billed[t] \in 0..12
      /\ CallsAddUp(t)
  BY DEF MaintenanceTyped, MaintenanceTypeOK
<1>2. kind[t] # "none" /\ UNCHANGED <<kind, issued>>
  BY DEF RecordMaintenance, BillPart, MaintenanceFails, MaintenanceTyped,
     requestVars
<1>3. CASE RecordMaintenance(t)
  <2> DEFINE x == [m EXCEPT !.pc = "bill", !.made = TRUE, !.rowFor = m.valt]
  <2>1. m.pc = "record" /\ UNCHANGED billed
    BY <1>3 DEF RecordMaintenance
  <2>2. /\ x \in MaintenanceRecord
        /\ x.pc = "bill" /\ x.who = m.who /\ x.valt = m.valt
        /\ x.parts = m.parts /\ x.each = m.each /\ x.open = m.open
        /\ x.made = TRUE /\ x.rowFor = m.valt
    BY <1>1 DEF MaintenanceRecord
  <2>3. maintenance'[t] = x
    BY <1>3 DEF RecordMaintenance
  <2>4. m.parts > 0
    BY <1>1, <2>1 DEF CallsAddUp, MaintenanceRecord
  <2> HIDE DEF x
  <2>5. CallsAddUp(t)'
    BY <1>1, <1>2, <2>1, <2>2, <2>3, <2>4 DEF CallsAddUp, MaintenanceRecord
  <2>6. \A s \in Task : s # t =>
           /\ maintenance'[s] \in MaintenanceRecord
           /\ CallsAddUp(s)'
           /\ maintenance'[s].pc = maintenance[s].pc
    <3> SUFFICES ASSUME NEW s \in Task, s # t
                 PROVE  /\ maintenance'[s] \in MaintenanceRecord
                        /\ CallsAddUp(s)'
                        /\ maintenance'[s].pc = maintenance[s].pc
      OBVIOUS
    <3>1. maintenance'[s] = [maintenance[s] EXCEPT !.rowFor =
             IF maintenance[s].rowFor = m.valt THEN NoValt
             ELSE maintenance[s].rowFor]
      BY <1>3 DEF RecordMaintenance
    <3> QED BY <1>2, <2>1, <3>1, RowsForTaken
  <2>7. DOMAIN maintenance' = Task /\ maintenance' = [s \in Task |-> maintenance'[s]]
    BY <1>3 DEF RecordMaintenance
  <2>8. MaintenanceTypeOK'
    BY <1>2, <2>1, <2>2, <2>3, <2>6, <2>7 DEF MaintenanceTyped, MaintenanceTypeOK
  <2> QED BY <1>2, <2>5, <2>6, <2>8 DEF MaintenanceTyped
<1>4. CASE BillPart(t)
  <2> DEFINE pc == IF billed[t] + 1 = m.parts THEN "done" ELSE "bill"
             x == [m EXCEPT !.pc = pc]
  <2>1. /\ m.pc = "bill" /\ billed' = [billed EXCEPT ![t] = billed[t] + 1]
        /\ maintenance' = [maintenance EXCEPT ![t] = x]
    BY <1>4 DEF BillPart, MaintenanceTyped, MaintenanceTypeOK
  <2>2. pc \in {"done", "bill"} /\ (pc = "done" <=> billed[t] + 1 = m.parts)
    OBVIOUS
  <2> HIDE DEF pc
  <2>3. /\ x \in MaintenanceRecord
        /\ x.pc = pc /\ x.who = m.who /\ x.valt = m.valt
        /\ x.parts = m.parts /\ x.each = m.each /\ x.open = m.open
        /\ x.made = m.made /\ x.rowFor = m.rowFor
    BY <1>1, <2>2 DEF MaintenanceRecord
  <2> HIDE DEF x
  <2>4. maintenance'[t] = x /\ billed'[t] = billed[t] + 1
    BY <2>1 DEF MaintenanceTyped, MaintenanceTypeOK
  <2>5. billed[t] + 1 \in 0..12 /\ billed[t] + 1 <= m.parts
    BY <1>1, <2>1 DEF CallsAddUp, MaintenanceRecord
  <2>6. CallsAddUp(t)'
    BY <1>1, <1>2, <2>1, <2>2, <2>3, <2>4, <2>5 DEF CallsAddUp, MaintenanceRecord
  <2>7. MaintenanceTypeOK'
        /\ \A s \in Task : s # t => /\ maintenance'[s] = maintenance[s]
                                    /\ issued'[s] = issued[s]
                                    /\ billed'[s] = billed[s]
    BY <1>2, <2>1, <2>3, <2>5 DEF MaintenanceTyped, MaintenanceTypeOK
  <2> QED BY <1>2, <2>6, <2>7, OneMaintenanceTyped
<1>5. CASE MaintenanceFails(t)
  <2> DEFINE x == [m EXCEPT !.pc = "failed"]
  <2>1. /\ m.pc \in {"record", "bill"} /\ UNCHANGED billed
        /\ maintenance' = [maintenance EXCEPT ![t] = x]
    BY <1>5 DEF MaintenanceFails, MaintenanceTyped, MaintenanceTypeOK
  <2>2. /\ x \in MaintenanceRecord
        /\ x.pc = "failed" /\ x.who = m.who /\ x.valt = m.valt
        /\ x.parts = m.parts /\ x.each = m.each /\ x.open = m.open
        /\ x.made = m.made /\ x.rowFor = m.rowFor
    BY <1>1 DEF MaintenanceRecord
  <2> HIDE DEF x
  <2>3. maintenance'[t] = x
    BY <2>1 DEF MaintenanceTyped, MaintenanceTypeOK
  <2>4. CallsAddUp(t)'
    BY <1>1, <1>2, <2>1, <2>2, <2>3 DEF CallsAddUp, MaintenanceRecord
  <2>5. MaintenanceTypeOK'
        /\ \A s \in Task : s # t => /\ maintenance'[s] = maintenance[s]
                                    /\ issued'[s] = issued[s]
                                    /\ billed'[s] = billed[s]
    BY <1>2, <2>1, <2>2 DEF MaintenanceTyped, MaintenanceTypeOK
  <2> QED BY <1>2, <2>4, <2>5, OneMaintenanceTyped
<1> QED BY <1>3, <1>4, <1>5

\* Maintenance keeps its types and its bounds.
LEMMA MaintenanceTypedKept ==
  ASSUME RequestsTypeOK, MaintenanceTyped, [Next]_vars
  PROVE  MaintenanceTyped'
<1>1. ASSUME NEW t \in Task, MaintenanceNext(t)
      PROVE  MaintenanceTyped'
  BY <1>1, StartTyped, CallsTyped, WritesTyped DEF MaintenanceNext
<1>2. CASE maintenance' = MaintenanceAfterStop /\ UNCHANGED <<issued, billed>>
  <2>1. \A s \in Task : /\ maintenance'[s] \in MaintenanceRecord
                        /\ CallsAddUp(s)'
                        /\ maintenance[s].pc = "none" =>
                             maintenance'[s].pc = "none"
    <3> TAKE s \in Task
    <3> DEFINE m == maintenance[s]
               pc == IF m.pc \in {"none", "done"} THEN m.pc ELSE "failed"
               x == [m EXCEPT !.pc = pc]
    <3>1. m \in MaintenanceRecord /\ CallsAddUp(s)
          /\ issued[s] \in 0..12 /\ billed[s] \in 0..12
      BY DEF MaintenanceTyped, MaintenanceTypeOK
    <3>2. maintenance'[s] = x
      BY <1>2 DEF MaintenanceAfterStop
    <3>3. /\ pc \in {"none", "done", "failed"}
          /\ pc = "none" <=> m.pc = "none"
          /\ pc = "done" <=> m.pc = "done"
      OBVIOUS
    <3> HIDE DEF pc
    <3>4. /\ x \in MaintenanceRecord
          /\ x.pc = pc /\ x.who = m.who /\ x.valt = m.valt
          /\ x.parts = m.parts /\ x.each = m.each /\ x.open = m.open
          /\ x.made = m.made /\ x.rowFor = m.rowFor
      BY <3>1, <3>3 DEF MaintenanceRecord
    <3>5. m.pc = "none" => x = NoMaintenance
      <4>1. m.pc = "none" => pc = m.pc
        BY <3>3
      <4>2. pc = m.pc => x = m
        BY <3>1 DEF MaintenanceRecord
      <4> QED BY <3>1, <4>1, <4>2 DEF CallsAddUp
    <3> HIDE DEF x
    <3>6. CallsAddUp(s)'
      BY <1>2, <3>1, <3>2, <3>3, <3>4, <3>5 DEF CallsAddUp, MaintenanceRecord
    <3> QED BY <3>2, <3>3, <3>4, <3>6
  <2>2. maintenance' = [s \in Task |-> maintenance'[s]]
    BY <1>2 DEF MaintenanceAfterStop
  <2>3. MaintenanceTypeOK'
    BY <1>2, <2>1, <2>2 DEF MaintenanceTyped, MaintenanceTypeOK
  <2> QED BY <2>1, <2>3, NotTakenBefore DEF MaintenanceTyped
<1>3. ASSUME NEW t \in Task, NEW v \in Valt, RemoveValt(t, v)
      PROVE  MaintenanceTyped'
  <2>1. UNCHANGED <<issued, billed>>
        /\ maintenance' = [s \in Task |-> [maintenance[s] EXCEPT !.rowFor =
             IF maintenance[s].rowFor = v THEN NoValt
             ELSE maintenance[s].rowFor]]
    BY <1>3 DEF RemoveValt, MaintenanceWithout
  <2>2. \A s \in Task : /\ maintenance'[s] \in MaintenanceRecord
                        /\ CallsAddUp(s)'
                        /\ maintenance'[s].pc = maintenance[s].pc
    BY <2>1, RowsForTaken
  <2>3. maintenance' = [s \in Task |-> maintenance'[s]]
    BY <2>1
  <2>4. MaintenanceTypeOK'
    BY <2>1, <2>2, <2>3 DEF MaintenanceTyped, MaintenanceTypeOK
  <2> QED BY <2>2, <2>4, NotTakenBefore DEF MaintenanceTyped
<1>4. CASE UNCHANGED maintenanceVars
  BY <1>4, NotTakenBefore
  DEF maintenanceVars, MaintenanceTyped, MaintenanceTypeOK, CallsAddUp
<1> QED BY <1>1, <1>2, <1>3, <1>4, MaintenanceStep

MemorialTyped ==
  /\ MemorialTypeOK
  /\ DepartedTypeOK
  /\ \A t \in Task :
       /\ memorialJob[t].pc = "create" => memorialJob[t].of \in Deceased
       /\ memorialJob[t].pc = "link" => memorialJob[t].m \in MemorialId
       /\ tribute[t].pc # "none" => tribute[t].m \in MemorialId
       /\ tribute[t].posted => tribute[t].pc \in {"count", "done", "failed"}
       /\ kind[t] = "none" =>
            memorialJob[t].pc = "none" /\ tribute[t].pc = "none"

MemorialRow == [made  : BOOLEAN,
                of    : Deceased \cup {NoOne},
                token : Task \cup {NoTask},
                quota : Int]

MemorialJob == [pc : {"none", "create", "link", "done", "failed"},
                of : Deceased \cup {NoOne},
                m  : MemorialId \cup {NoTask}]

Tribute == [pc     : {"none", "clear", "post", "count", "refused", "done",
                      "failed"},
            m      : MemorialId \cup {NoTask},
            token  : Task \cup {NoTask},
            posted : BOOLEAN]

\* The three tables.
MemorialTables ==
  /\ memorial \in [MemorialId -> MemorialRow]
  /\ memorialJob \in [Task -> MemorialJob]
  /\ tribute \in [Task -> Tribute]

\* The same, with the tables by their names.
LEMMA MemorialTypes == MemorialTypeOK <=>
                         MemorialTables /\ crowded \subseteq MemorialId
BY DEF MemorialTypeOK, MemorialTables, MemorialRow, MemorialJob, Tribute

\* No request about a memorial is of the type of one.
LEMMA NoMemorialType ==
  /\ NoMemorialJob \in MemorialJob
  /\ NoTribute \in Tribute
  /\ NoTribute.posted = FALSE
BY DEF NoMemorialJob, NoTribute, MemorialJob, Tribute

\* Requests about memorials keep their types.
LEMMA MemorialJobTyped ==
  ASSUME RequestsTypeOK, MemorialTyped, NEW t \in Task,
         \/ \E d \in Deceased : MemorialCheck(t, d) \/ LinkCheck(t, d)
         \/ MemorialCreate(t) \/ LinkWrite(t) \/ MemorialFails(t)
  PROVE  MemorialTyped'
<1> USE DEF MemorialTyped
<1> DEFINE j == memorialJob[t]
<1>0. MemorialTables /\ crowded \subseteq MemorialId
  BY MemorialTypes
<1>1. ASSUME NEW x \in MemorialJob,
             memorialJob' = [memorialJob EXCEPT ![t] = x],
             memorial' \in [MemorialId -> MemorialRow],
             crowded' \subseteq MemorialId, UNCHANGED <<tribute, known>>,
             x.pc = "create" => x.of \in Deceased,
             x.pc = "link" => x.m \in MemorialId,
             \A s \in Task : kind'[s] = "none" => kind[s] = "none" /\ s # t
      PROVE  MemorialTyped'
  <2>1. MemorialTables'
    BY <1>0, <1>1 DEF MemorialTables
  <2>2. MemorialTypeOK'
    BY <1>1, <2>1 DEF MemorialTypeOK, MemorialTables,
       MemorialRow, MemorialJob, Tribute
  <2>3. \A s \in Task : s # t => memorialJob'[s] = memorialJob[s]
    BY <1>0, <1>1 DEF MemorialTables
  <2>4. memorialJob'[t] = x
    BY <1>0, <1>1 DEF MemorialTables
  <2> QED BY <1>1, <2>2, <2>3, <2>4 DEF DepartedTypeOK
<1>2. ASSUME NEW d \in Deceased, MemorialCheck(t, d)
      PROVE  MemorialTyped'
  <2> DEFINE x == [NoMemorialJob EXCEPT !.pc = "create", !.of = d]
  <2>1. x \in MemorialJob /\ x.pc = "create" /\ x.of = d
    BY NoMemorialType DEF MemorialJob
  <2>2. memorialJob' = [memorialJob EXCEPT ![t] = x]
        /\ UNCHANGED <<memorial, tribute, crowded, known>>
    BY <1>2 DEF MemorialCheck
  <2>3. \A s \in Task : kind'[s] = "none" => kind[s] = "none" /\ s # t
    BY <1>2, TakenNow DEF MemorialCheck, Kind
  <2> HIDE DEF x
  <2> QED BY <1>0, <1>1, <2>1, <2>2, <2>3 DEF MemorialTables
<1>3. ASSUME NEW d \in Deceased, LinkCheck(t, d)
      PROVE  MemorialTyped'
  <2>1. PICK m \in MemorialsOf(d) :
          /\ memorialJob' = [memorialJob EXCEPT ![t] =
                               [NoMemorialJob EXCEPT !.pc = "link", !.m = m]]
          /\ Crowd(m)
    BY <1>3 DEF LinkCheck
  <2>2. m \in MemorialId
    BY DEF MemorialsOf
  <2> DEFINE x == [NoMemorialJob EXCEPT !.pc = "link", !.m = m]
  <2>3. x \in MemorialJob /\ x.pc = "link" /\ x.m = m
    BY <2>2, NoMemorialType DEF MemorialJob
  <2>4. crowded' \subseteq MemorialId /\ UNCHANGED <<memorial, tribute, known>>
    BY <1>0, <1>3, <2>1, <2>2 DEF LinkCheck, Crowd
  <2>5. \A s \in Task : kind'[s] = "none" => kind[s] = "none" /\ s # t
    BY <1>3, TakenNow DEF LinkCheck, Kind
  <2> HIDE DEF x
  <2>6. memorialJob' = [memorialJob EXCEPT ![t] = x]
    BY <2>1 DEF x
  <2> QED BY <1>0, <1>1, <2>2, <2>3, <2>4, <2>5, <2>6 DEF MemorialTables
<1>4. ASSUME NEW pc \in {"done", "failed"}, j.pc \in {"create", "link"},
             memorialJob' = [memorialJob EXCEPT ![t].pc = pc],
             memorial' \in [MemorialId -> MemorialRow],
             UNCHANGED <<tribute, crowded, known, kind>>
      PROVE  MemorialTyped'
  <2> DEFINE x == [j EXCEPT !.pc = pc]
  <2>1. x \in MemorialJob /\ x.pc = pc
    BY <1>0 DEF MemorialTables, MemorialJob
  <2>2. memorialJob' = [memorialJob EXCEPT ![t] = x]
    BY <1>4, <1>0 DEF MemorialTables
  <2>3. \A s \in Task : kind'[s] = "none" => kind[s] = "none" /\ s # t
    BY <1>4
  <2> HIDE DEF x
  <2> QED BY <1>0, <1>1, <1>4, <2>1, <2>2, <2>3
<1>5. CASE MemorialCreate(t)
  <2> DEFINE d == j.of
  <2>1. /\ j.pc = "create"
        /\ memorialJob' = [memorialJob EXCEPT ![t].pc = "done"]
        /\ UNCHANGED <<tribute, crowded, known, kind>>
    BY <1>5 DEF MemorialCreate, requestVars
  <2>2. d \in Deceased
    BY <2>1
  <2>3. memorial' \in [MemorialId -> MemorialRow]
    <3>1. t \in MemorialId
      BY DEF MemorialId
    <3>2. [memorial[t] EXCEPT !.made = TRUE, !.of = d] \in MemorialRow
      BY <1>0, <2>2, <3>1 DEF MemorialTables, MemorialRow
    <3>3. \A m \in MemorialId :
             [memorial[m] EXCEPT !.of = NoOne] \in MemorialRow
      BY <1>0 DEF MemorialTables, MemorialRow
    <3> QED BY <1>0, <1>5, <3>2, <3>3 DEF MemorialCreate, MemorialTables
  <2> QED BY <1>4, <2>1, <2>3
<1>6. CASE LinkWrite(t)
  <2> DEFINE m == j.m
             x == [memorial[m] EXCEPT !.token = t, !.quota = LinkQuota]
  <2>1. /\ j.pc = "link"
        /\ memorialJob' = [memorialJob EXCEPT ![t].pc = "done"]
        /\ UNCHANGED <<tribute, crowded, known, kind>>
    BY <1>6 DEF LinkWrite, requestVars
  <2>2. m \in MemorialId
    BY <2>1
  <2>3. memorial' = [memorial EXCEPT ![m] = x]
    BY <1>0, <1>6, <2>2 DEF LinkWrite, MemorialTables
  <2>4. x \in MemorialRow
    <3> DEFINE y == memorial[m]
    <3>1. y \in MemorialRow
      BY <1>0, <2>2 DEF MemorialTables
    <3> DEFINE z == [y EXCEPT !.token = t]
    <3> HIDE DEF y
    <3>2. z \in MemorialRow
      BY <3>1 DEF MemorialRow
    <3>3. [z EXCEPT !.quota = LinkQuota] \in MemorialRow
      <4> HIDE DEF z
      <4> QED BY <3>2 DEF MemorialRow, LinkQuota
    <3>4. [z EXCEPT !.quota = LinkQuota] = x
      BY DEF y
    <3> QED BY <3>3, <3>4
  <2>5. memorial' \in [MemorialId -> MemorialRow]
    BY <1>0, <2>2, <2>3, <2>4 DEF MemorialTables
  <2> QED BY <1>4, <2>1, <2>5
<1>7. CASE MemorialFails(t)
  <2>1. /\ j.pc \in {"create", "link"}
        /\ memorialJob' = [memorialJob EXCEPT ![t].pc = "failed"]
        /\ UNCHANGED <<memorial, tribute, crowded, known, kind>>
    BY <1>7 DEF MemorialFails, requestVars
  <2> QED BY <1>0, <1>4, <2>1 DEF MemorialTables
<1> QED BY <1>2, <1>3, <1>5, <1>6, <1>7

\* Tributes keep their types.
LEMMA TributeTyped ==
  ASSUME RequestsTypeOK, MemorialTyped, NEW t \in Task,
         \/ \E m \in MemorialId : TributeCheck(t, m)
         \/ TributeClear(t) \/ TributePost(t) \/ TributeCount(t)
         \/ TributeFails(t)
  PROVE  MemorialTyped'
<1> USE DEF MemorialTyped
<1> DEFINE r == tribute[t]
<1>0. MemorialTables /\ crowded \subseteq MemorialId
  BY MemorialTypes
<1>1. ASSUME NEW x \in Tribute,
             tribute' = [tribute EXCEPT ![t] = x],
             memorial' \in [MemorialId -> MemorialRow],
             crowded' \subseteq MemorialId, UNCHANGED <<memorialJob, known>>,
             x.m \in MemorialId,
             x.posted => x.pc \in {"count", "done", "failed"},
             \A s \in Task : kind'[s] = "none" => kind[s] = "none" /\ s # t
      PROVE  MemorialTyped'
  <2>1. MemorialTables'
    BY <1>0, <1>1 DEF MemorialTables
  <2>2. MemorialTypeOK'
    BY <1>1, <2>1 DEF MemorialTypeOK, MemorialTables,
       MemorialRow, MemorialJob, Tribute
  <2>3. \A s \in Task : s # t => tribute'[s] = tribute[s]
    BY <1>0, <1>1 DEF MemorialTables
  <2>4. tribute'[t] = x
    BY <1>0, <1>1 DEF MemorialTables
  <2> QED BY <1>1, <2>2, <2>3, <2>4 DEF DepartedTypeOK
<1>2. ASSUME NEW m \in MemorialId, TributeCheck(t, m)
      PROVE  MemorialTyped'
  <2> DEFINE pc == IF memorial[m].quota < 1 THEN "clear" ELSE "post"
             k == memorial[m].token
             x == [NoTribute EXCEPT !.pc = pc, !.m = m, !.token = k]
  <2>1. pc \in {"clear", "post"} /\ k \in Task \cup {NoTask}
    BY <1>0 DEF MemorialTables, MemorialRow
  <2>2. tribute' = [tribute EXCEPT ![t] = x]
        /\ UNCHANGED <<memorial, memorialJob, known>>
    BY <1>2 DEF TributeCheck
  <2>3. crowded' \subseteq MemorialId
    BY <1>0, <1>2 DEF TributeCheck, Crowd
  <2>4. \A s \in Task : kind'[s] = "none" => kind[s] = "none" /\ s # t
    BY <1>2, TakenNow DEF TributeCheck, Kind
  <2> HIDE DEF pc, k
  <2>5. x \in Tribute /\ x.pc = pc /\ x.m = m /\ x.posted = FALSE
    BY <2>1, NoMemorialType DEF Tribute
  <2> HIDE DEF x
  <2> QED BY <1>0, <1>1, <2>2, <2>3, <2>4, <2>5 DEF MemorialTables
<1>3. ASSUME NEW pc \in {"count", "refused", "done", "failed"},
             NEW posted \in BOOLEAN,
             posted => pc # "refused", r.pc # "none",
             tribute' = [tribute EXCEPT ![t] = [r EXCEPT !.pc = pc,
                                                         !.posted = posted]],
             memorial' \in [MemorialId -> MemorialRow],
             crowded' \subseteq MemorialId,
             UNCHANGED <<memorialJob, known, kind>>
      PROVE  MemorialTyped'
  <2> DEFINE x == [r EXCEPT !.pc = pc, !.posted = posted]
  <2>1. x \in Tribute /\ x.pc = pc /\ x.m = r.m /\ x.posted = posted
    BY <1>0 DEF MemorialTables, Tribute
  <2>2. r.m \in MemorialId
    BY <1>3
  <2>3. \A s \in Task : kind'[s] = "none" => kind[s] = "none" /\ s # t
    BY <1>3
  <2> HIDE DEF x, r
  <2>4. tribute' = [tribute EXCEPT ![t] = x]
    BY <1>3 DEF x
  <2> QED BY <1>1, <1>3, <2>1, <2>2, <2>3, <2>4
<1>4. r.pc # "none" => r.m \in MemorialId /\ memorial[r.m] \in MemorialRow
  BY <1>0 DEF MemorialTables
<1>5. ASSUME NEW pc \in {"count", "refused", "done", "failed"}
      PROVE  [tribute EXCEPT ![t].pc = pc] =
               [tribute EXCEPT ![t] = [r EXCEPT !.pc = pc,
                                                !.posted = r.posted]]
  BY <1>0 DEF MemorialTables, Tribute
<1>6. r.posted \in BOOLEAN
  BY <1>0 DEF MemorialTables, Tribute
<1>7. CASE TributeClear(t)
  <2>1. /\ r.pc = "clear"
        /\ memorial' = [memorial EXCEPT ![r.m].token = NoTask]
        /\ tribute' = [tribute EXCEPT ![t].pc = "refused"]
        /\ UNCHANGED <<memorialJob, crowded, known, kind>>
    BY <1>7 DEF TributeClear, requestVars
  <2>2. memorial' \in [MemorialId -> MemorialRow]
    BY <1>0, <2>1 DEF MemorialTables, MemorialRow
  <2>3. ~ r.posted
    BY <2>1
  <2> HIDE DEF r
  <2> QED BY <1>0, <1>3, <1>5, <1>6, <2>1, <2>2, <2>3
<1>8. CASE TributePost(t)
  <2>1. /\ r.pc = "post"
        /\ tribute' = [tribute EXCEPT ![t].pc = "count", ![t].posted = TRUE]
        /\ UNCHANGED <<memorial, memorialJob, crowded, known, kind>>
    BY <1>8 DEF TributePost, requestVars
  <2>2. tribute' = [tribute EXCEPT ![t] = [r EXCEPT !.pc = "count",
                                                    !.posted = TRUE]]
    BY <1>0, <2>1 DEF MemorialTables
  <2> QED BY <1>0, <1>3, <2>1, <2>2 DEF MemorialTables
<1>9. CASE TributeCount(t)
  <2>1. /\ r.pc = "count"
        /\ memorial' = [memorial EXCEPT ![r.m].quota = memorial[r.m].quota - 1]
        /\ tribute' = [tribute EXCEPT ![t].pc = "done"]
        /\ UNCHANGED <<memorialJob, crowded, known, kind>>
    BY <1>9 DEF TributeCount, requestVars
  <2>2. memorial' \in [MemorialId -> MemorialRow]
    BY <1>0, <2>1 DEF MemorialTables, MemorialRow
  <2> HIDE DEF r
  <2> QED BY <1>0, <1>3, <1>5, <1>6, <2>1, <2>2
<1>10. CASE TributeFails(t)
  <2>1. /\ r.pc \in {"clear", "post", "count"}
        /\ crowded' \subseteq crowded \cup {r.m}
        /\ tribute' = [tribute EXCEPT ![t].pc = "failed"]
        /\ UNCHANGED <<memorial, memorialJob, known, kind>>
    BY <1>10 DEF TributeFails, requestVars
  <2>2. crowded' \subseteq MemorialId
    BY <1>0, <1>4, <2>1
  <2> HIDE DEF r
  <2> QED BY <1>0, <1>3, <1>5, <1>6, <2>1, <2>2 DEF MemorialTables
<1> QED BY <1>2, <1>7, <1>8, <1>9, <1>10

\* Memorials, links and tributes keep their types.
LEMMA MemorialTypedKept ==
  ASSUME RequestsTypeOK, MemorialTyped, [Next]_vars
  PROVE  MemorialTyped'
<1> USE DEF MemorialTyped
<1>0. MemorialTables /\ crowded \subseteq MemorialId
  BY MemorialTypes
<1>1. ASSUME NEW t \in Task, MemorialNext(t)
      PROVE  MemorialTyped'
  BY <1>1, MemorialJobTyped, TributeTyped DEF MemorialNext
<1>2. CASE MemorialStops /\ UNCHANGED known
  <2>1. \A s \in Task : /\ memorialJob'[s] \in MemorialJob
                        /\ memorialJob'[s].pc \in {"none", "done", "failed"}
                        /\ memorialJob[s].pc = "none" =>
                             memorialJob'[s].pc = "none"
    BY <1>0, <1>2 DEF MemorialStops, MemorialTables, MemorialJob
  <2>2. \A s \in Task : /\ tribute'[s] \in Tribute
                        /\ tribute'[s].m = tribute[s].m
                        /\ tribute'[s].posted = tribute[s].posted
                        /\ tribute'[s].pc \in {tribute[s].pc, "failed"}
                        /\ tribute[s].pc = "none" <=> tribute'[s].pc = "none"
    BY <1>0, <1>2 DEF MemorialStops, MemorialTables, Tribute
  <2>3. /\ memorialJob' = [s \in Task |-> memorialJob'[s]]
        /\ tribute' = [s \in Task |-> tribute'[s]]
        /\ UNCHANGED memorial
    BY <1>2 DEF MemorialStops
  <2>4. MemorialTables'
    BY <1>0, <2>1, <2>2, <2>3 DEF MemorialTables
  <2>5. crowded' \subseteq MemorialId
    BY <1>0, <1>2 DEF MemorialStops
  <2>6. MemorialTypeOK'
    BY <2>4, <2>5 DEF MemorialTypeOK, MemorialTables,
       MemorialRow, MemorialJob, Tribute
  <2> QED BY <1>2, <2>1, <2>2, <2>6, NotTakenBefore DEF DepartedTypeOK
<1>3. ASSUME NEW t \in Task, NEW d \in Deceased, RemoveDeceased(t, d)
      PROVE  MemorialTyped'
  <2>1. /\ known' = known \ {d} /\ UNCHANGED <<memorialJob, tribute, crowded>>
        /\ memorial' = MemorialsWithout(d)
    BY <1>3 DEF RemoveDeceased
  <2>2. memorial' \in [MemorialId -> MemorialRow]
    BY <1>0, <2>1 DEF MemorialsWithout, MemorialTables, MemorialRow
  <2>3. MemorialTypeOK'
    BY <1>0, <2>1, <2>2 DEF MemorialTypeOK, MemorialTables,
       MemorialRow, MemorialJob, Tribute
  <2> QED BY <2>1, <2>3, NotTakenBefore DEF DepartedTypeOK
<1>4. CASE UNCHANGED memorialVars /\ UNCHANGED known
  BY <1>4, NotTakenBefore DEF memorialVars, MemorialTypeOK, DepartedTypeOK
<1> QED BY <1>1, <1>2, <1>3, <1>4, MemorialStep

Reserved == { t \in Task : funeral[t].pc \in {"commit", "booked"} }

FuneralTyped ==
  /\ FuneralTypeOK
  /\ \A t \in Task :
       /\ t \in Reserved => funeral[t].of \in Deceased
                            /\ funeral[t].room \in Room
       /\ funeral[t].pc # "none" => kind[t] # "none"

\* A refused reservation is of the right type.
LEMMA NoFuneralType ==
  [NoFuneral EXCEPT !.pc = "failed"] \in
    [pc    : {"none", "commit", "booked", "failed"},
     of    : Deceased \cup {NoOne},
     room  : Room \cup {NoRoom},
     start : 0..MaxTime,
     end   : 0..MaxTime]
BY RoomAssumption DEF NoFuneral

\* Funerals keep their types.
LEMMA FuneralTypedKept ==
  ASSUME RequestsTypeOK, DepartedTypeOK, FuneralTyped, [Next]_vars
  PROVE  FuneralTyped'
<1> USE DEF FuneralTyped
<1>0. \A s \in Task : kind[s] # "none" => kind'[s] # "none"
  BY KindsStep DEF KindsKept
<1>1. ASSUME NEW t \in Task, NEW d \in Deceased, NEW room \in Room,
             NEW start \in 0..MaxTime, NEW end \in 0..MaxTime,
             ReserveCheck(t, d, room, start, end)
      PROVE  FuneralTyped'
  <2>1. kind'[t] # "none"
    <3>1. "funeral" \in Kind
      BY DEF Kind
    <3> QED BY <1>1, <3>1, TakeKeepsKinds DEF ReserveCheck
  <2> DEFINE f == [pc |-> "commit", of |-> d, room |-> room, start |-> start,
                   end |-> end]
  <2>2. funeral' = [funeral EXCEPT ![t] = f]
        /\ UNCHANGED <<now, prepared, late>>
    BY <1>1 DEF ReserveCheck
  <2>3. sideBySide' \subseteq Room
    BY <1>1 DEF ReserveCheck, FuneralTypeOK
  <2>4. FuneralTypeOK'
    BY <2>2, <2>3 DEF FuneralTypeOK
  <2> QED BY <1>0, <2>1, <2>2, <2>4 DEF FuneralTypeOK, Reserved
<1>2. ASSUME NEW t \in Task, ReserveCommit(t)
      PROVE  FuneralTyped'
  <2>1. /\ funeral' = [funeral EXCEPT ![t].pc = "booked"]
        /\ funeral[t].pc = "commit"
        /\ UNCHANGED <<now, sideBySide, late>>
    BY <1>2 DEF ReserveCommit
  <2>2. funeral[t].of \in Deceased /\ funeral[t].room \in Room
    BY <2>1 DEF Reserved
  <2>3. FuneralTypeOK'
    BY <1>2, <2>1, <2>2 DEF FuneralTypeOK, ReserveCommit
  <2> QED BY <1>0, <2>1, <2>2, <2>3 DEF FuneralTypeOK, Reserved
<1>3. ASSUME NEW t \in Task, ReserveFails(t)
      PROVE  FuneralTyped'
  <2>1. /\ funeral' = [funeral EXCEPT ![t] = [NoFuneral EXCEPT !.pc = "failed"]]
        /\ funeral[t].pc = "commit"
        /\ UNCHANGED <<now, prepared, sideBySide, late>>
    BY <1>3 DEF ReserveFails
  <2> QED BY <1>0, <2>1, NoFuneralType DEF FuneralTypeOK, Reserved
<1>4. ASSUME NEW t \in Task, Finish(t)
      PROVE  FuneralTyped'
  <2>1. /\ funeral' = [funeral EXCEPT ![t].end = now]
        /\ funeral[t].pc = "booked"
        /\ UNCHANGED <<now, prepared, sideBySide>>
        /\ late' \subseteq late \cup {t}
    BY <1>4 DEF Finish, Booked
  <2> QED BY <1>0, <2>1 DEF FuneralTypeOK, Reserved
<1>5. CASE Tick
  <2>1. now' \in 0..MaxTime
    BY <1>5, RoomAssumption DEF Tick, FuneralTypeOK
  <2> QED BY <1>0, <1>5, <2>1 DEF Tick, FuneralTypeOK, Reserved
<1>6. CASE FuneralStop
  <2>1. \A t \in Task : \/ funeral'[t] = funeral[t] /\ funeral[t].pc # "commit"
                        \/ /\ funeral'[t] = [NoFuneral EXCEPT !.pc = "failed"]
                           /\ funeral[t].pc = "commit"
    BY <1>6 DEF FuneralStop, FuneralsAfterStop
  <2>2. FuneralTypeOK'
    BY <1>6, NoFuneralType DEF FuneralStop, FuneralsAfterStop, FuneralTypeOK
  <2>3. Reserved' \subseteq Reserved
    BY <2>1, NoFuneralType DEF Reserved, NoFuneral
  <2>4. \A t \in Reserved' : funeral'[t] = funeral[t]
    BY <2>1 DEF Reserved, NoFuneral
  <2> QED BY <1>0, <2>1, <2>2, <2>3, <2>4 DEF Reserved
<1>7. CASE FuneralQuiet
  BY <1>0, <1>7 DEF FuneralQuiet, funeralVars, FuneralTypeOK, Reserved
<1> QED BY <1>1, <1>2, <1>3, <1>4, <1>5, <1>6, <1>7, FuneralStep DEF FuneralNext

(***************************************************************************)
(* Type correctness                                                        *)
(***************************************************************************)
TypeInv ==
  /\ RequestsTypeOK
  /\ RowsTypeOK
  /\ LocalTyped
  /\ ContractTyped
  /\ PromotionsTyped
  /\ ReturnTyped
  /\ MaintenanceTyped
  /\ MemorialTyped
  /\ FuneralTyped

\* What is on file at first is of its type.
LEMMA RowsInitTyped == RequestsInit /\ RowsInit => RowsTypeOK
<1> SUFFICES ASSUME RequestsInit, RowsInit PROVE RowsTypeOK
  OBVIOUS
<1>1. PICK home \in Registered[scene] :
       LET holders == { a \in DOMAIN home : home[a] # NoValt } IN
       /\ assignees = DOMAIN home
       /\ owner = [a \in Assignee |->
                     [assignee |-> IF a \in holders THEN a ELSE NoAssignee,
                      valt     |-> IF a \in holders THEN home[a] ELSE NoValt,
                      charge   |-> NoTask,
                      status   |-> "AGUARDANDO_PAGAMENTO",
                      isActive |-> FALSE]]
       /\ held = { <<a, a, home[a]>> : a \in holders }
  BY DEF RowsInit
<1> DEFINE holders == { a \in DOMAIN home : home[a] # NoValt }
<1>2. /\ Vaults[scene] \subseteq Valt
      /\ DOMAIN home \subseteq Assignee
      /\ \A a \in DOMAIN home : home[a] \in Vaults[scene] \cup {NoValt}
  BY RegisteredAssumption DEF RequestsInit
<1>3. holders \subseteq Assignee /\ \A a \in holders : home[a] \in Valt
  BY <1>2
<1>4. assignees \subseteq Assignee /\ valts \subseteq Valt
  BY <1>1, <1>2 DEF RowsInit
<1>5. held \subseteq Assignee \X Assignee \X Valt
  BY <1>1, <1>3
<1>6. owner \in [Assignee -> OwnerRow]
  <2> SUFFICES ASSUME NEW a \in Assignee PROVE owner[a] \in OwnerRow
    BY <1>1
  <2>1. CASE a \in holders
    BY <1>1, <1>3, <2>1 DEF OwnerRow, PaymentStatus
  <2>2. CASE a \notin holders
    BY <1>1, <2>2 DEF OwnerRow, PaymentStatus
  <2> QED BY <2>1, <2>2
<1> QED BY <1>4, <1>5, <1>6 DEF RowsTypeOK

\* At first nothing is under way.
LEMMA TypeInvInit == Init => TypeInv
<1> SUFFICES ASSUME Init PROVE TypeInv
  OBVIOUS
<1> USE DEF Init
<1>1. RequestsTypeOK
  BY DEF RequestsInit, RequestsTypeOK
<1>2. RowsTypeOK
  BY RowsInitTyped
<1>3. LocalTyped
  <2>1. NoLocal.pc = "none"
    BY DEF NoLocal
  <2>2. local \in [Task -> LocalRecord]
    BY LocalFailedType DEF LocalSaleInit
  <2>3. saleValue \in [Assignee -> Int]
    BY OwedAssumption DEF LocalSaleInit
  <2> QED BY <2>1, <2>2, <2>3 DEF LocalTyped, LocalSaleTypeOK, LocalSaleInit
<1>4. ContractTyped
  BY NoContractType DEF ContractTyped, ContractTypeOK, ContractInit
<1>5. PromotionsTyped
  <2>1. NoAssignment.pc = "none"
    BY DEF NoAssignment
  <2> QED BY <2>1, EndedType
          DEF PromotionsTyped, PromotionsTypeOK, PromotionsInit
<1>6. ReturnTyped
  BY DEF ReturnTyped, ReturnTypeOK, ReturnTable, ReturnInit
<1>7. MaintenanceTyped
  <2>1. \A t \in Task : maintenance[t] = NoMaintenance /\ issued[t] = 0
                        /\ billed[t] = 0
    BY DEF MaintenanceInit
  <2>2. NoMaintenance.parts = 0
    BY DEF NoMaintenance
  <2>3. MaintenanceTypeOK
    BY NoMaintenanceType DEF MaintenanceInit, MaintenanceTypeOK
  <2> QED BY <2>1, <2>2, <2>3, NoMaintenanceType DEF MaintenanceTyped, CallsAddUp
<1>8. MemorialTyped
  <2>1. \A m \in MemorialId :
          [made |-> m \in Born, of |-> IF m \in Born THEN m ELSE NoOne,
           token |-> NoTask, quota |-> 0] \in MemorialRow
    BY DeceasedAssumption DEF MemorialRow
  <2>2. /\ memorial \in [MemorialId -> MemorialRow]
        /\ memorialJob \in [Task -> MemorialJob]
        /\ tribute \in [Task -> Tribute]
    BY <2>1, NoMemorialType DEF MemorialInit
  <2>3. MemorialTypeOK
    BY <2>2, MemorialTypes DEF MemorialTables, MemorialInit
  <2>4. NoMemorialJob.pc = "none" /\ NoTribute.pc = "none"
    BY DEF NoMemorialJob, NoTribute
  <2> QED BY <2>3, <2>4, NoMemorialType
          DEF MemorialTyped, MemorialInit, DepartedInit, DepartedTypeOK
<1>9. FuneralTyped
  BY RoomAssumption DEF FuneralTyped, FuneralTypeOK, FuneralInit, NoFuneral,
     Reserved
<1> QED BY <1>1, <1>2, <1>3, <1>4, <1>5, <1>6, <1>7, <1>8, <1>9 DEF TypeInv

\* Every step of the office keeps the types.
LEMMA TypeInvKept ==
  ASSUME TypeInv, [Next]_vars
  PROVE  TypeInv'
<1> USE DEF TypeInv
<1>1. RequestsTypeOK' /\ RowsTypeOK' /\ LocalTyped'
  BY KindsStep, RowsTypedKept, LocalTypedKept
<1>2. ContractTyped' /\ PromotionsTyped' /\ ReturnTyped'
  BY ContractTypedKept, PromotionsTypedKept, ReturnTypedKept
<1>3. DepartedTypeOK
  BY DEF MemorialTyped
<1>4. MaintenanceTyped' /\ MemorialTyped' /\ FuneralTyped'
  BY <1>3, MaintenanceTypedKept, MemorialTypedKept, FuneralTypedKept
<1> QED BY <1>1, <1>2, <1>4

\* Every state of the office is of its type.
LEMMA Typed == Spec => []TypeInv
BY TypeInvInit, TypeInvKept, PTL DEF Spec

\* Every table of the office is of its type: contracts, owner rows, what is
\* owed, promotions, files, parts and their bounds, memorials and funerals.
THEOREM TypeCorrect == Spec => []TypeOK
<1>1. TypeInv => TypeOK
  BY DEF TypeInv, TypeOK, LocalTyped, ContractTyped, PromotionsTyped,
     ReturnTyped, MaintenanceTyped, MemorialTyped, FuneralTyped
<1> QED BY <1>1, Typed, PTL

===============================================================================
