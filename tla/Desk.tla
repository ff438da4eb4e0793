--------------------------------- MODULE Desk ---------------------------------
(***************************************************************************)
(* The office of the cemetery: contracts, promotions, payments at the      *)
(* desk, return files of the bank, maintenance, memorials and funerals,    *)
(* over the same assignees, vaults, owner rows and deceased, in one        *)
(* process that may stop, and with the removals that cut across them.      *)
(***************************************************************************)
EXTENDS Contract, LocalSale, BankReturn, Maintenance, Memorial, Funeral

vars == <<requestVars, rowVars, contractVars, promoVars, localVars, returnVars,
          maintenanceVars, known, memorialVars, funeralVars>>

TypeOK ==
  /\ RequestsTypeOK
  /\ RowsTypeOK
  /\ ContractTypeOK
  /\ PromotionsTypeOK
  /\ LocalSaleTypeOK
  /\ ReturnTypeOK
  /\ MaintenanceTypeOK
  /\ DepartedTypeOK
  /\ MemorialTypeOK
  /\ FuneralTypeOK

Init ==
  /\ RequestsInit
  /\ RowsInit
  /\ ContractInit
  /\ PromotionsInit
  /\ LocalSaleInit
  /\ ReturnInit
  /\ MaintenanceInit
  /\ DepartedInit
  /\ MemorialInit
  /\ FuneralInit

\* The file of an assignee is edited: one statement writes his status and what
\* he owes together, from the form, whatever they are by now.
UpdateAssignee(t, a, on, owed) ==
  /\ Take(t, "update")
  /\ a \in assignees
  /\ SwitchByHand(a, on)
  /\ TypeDebt(a, owed)
  /\ UNCHANGED <<rowVars, promoVars, returnVars, maintenanceVars, known,
                 memorialVars, funeralVars>>

(***************************************************************************)
(* Removals: one statement each, which a row that must name the removed    *)
(* one restricts, and which sets an optional foreign key to NULL.          *)
(***************************************************************************)
RemoveAssignee(t, a) ==
  /\ Take(t, "remove")
  /\ a \in assignees
  /\ RowsOf(a) = {}
  /\ \A s \in Task : /\ local[s].pc = "done" => local[s].buyer # a
                     /\ maintenance[s].made => maintenance[s].who # a
  /\ assignees' = assignees \ {a}
  /\ UNCHANGED <<valts, owner, held, contractVars, promoVars, localVars,
                 returnVars, maintenanceVars, known, memorialVars,
                 funeralVars>>

RemoveValt(t, v) ==
  /\ Take(t, "remove")
  /\ v \in valts
  /\ valts' = valts \ {v}
  /\ flagged' = flagged \ {v}
  /\ owner' = [r \in Assignee |-> [owner[r] EXCEPT
                 !.valt = IF @ = v THEN NoValt ELSE @]]
  /\ maintenance' = MaintenanceWithout(v)
  /\ UNCHANGED <<assignees, held, contract, enabled, byHand, promoVars,
                 localVars, returnVars, issued, billed, known, memorialVars,
                 funeralVars>>

RemoveDeceased(t, d) ==
  /\ Take(t, "remove")
  /\ d \in known
  /\ \A s \in Booked : funeral[s].of # d
  /\ known' = known \ {d}
  /\ memorial' = MemorialsWithout(d)
  /\ UNCHANGED <<rowVars, contractVars, promoVars, localVars, returnVars,
                 maintenanceVars, memorialJob, tribute, crowded, funeralVars>>

(***************************************************************************)
(* The process stops: what was under way ends, transactions roll back.     *)
(***************************************************************************)
Stop ==
  /\ contract' = ContractsAfterStop
  /\ promoting' = PromotionsAfterStop
  /\ local' = LocalSalesAfterStop
  /\ return' = ReturnsAfterStop
  /\ maintenance' = MaintenanceAfterStop
  /\ MemorialStops
  /\ funeral' = FuneralsAfterStop
  /\ UNCHANGED <<requestVars, rowVars, flagged, enabled, byHand, promo,
                 ofGraveyard, ofType, saleValue, raced, paidOld, issued, billed,
                 known, now, prepared, sideBySide, late>>

\* From outside.
Crash == Stop

\* Nobody awaits the upload of a contract: its rejection is unhandled, and the
\* process ends, with every other request in it.
UploadFails(t) == UploadThrows(t) /\ Stop

Next ==
  \/ \E t \in Task :
       \/ /\ ContractNext(t)
          /\ UNCHANGED <<promoVars, localVars, returnVars, maintenanceVars,
                         known, memorialVars, funeralVars>>
       \/ /\ PromotionsNext(t)
          /\ UNCHANGED <<contractVars, localVars, returnVars, maintenanceVars,
                         known, memorialVars, funeralVars>>
       \/ /\ LocalSaleNext(t)
          /\ UNCHANGED <<contractVars, returnVars, maintenanceVars, known,
                         memorialVars, funeralVars>>
       \/ /\ ReturnNext(t)
          /\ UNCHANGED <<rowVars, contractVars, promoVars, localVars,
                         maintenanceVars, known, memorialVars, funeralVars>>
       \/ /\ MaintenanceNext(t)
          /\ UNCHANGED <<contractVars, promoVars, localVars, returnVars, known,
                         memorialVars, funeralVars>>
       \/ /\ MemorialNext(t)
          /\ UNCHANGED <<rowVars, contractVars, promoVars, localVars,
                         returnVars, maintenanceVars, funeralVars>>
       \/ /\ FuneralNext(t)
          /\ UNCHANGED <<rowVars, contractVars, promoVars, localVars,
                         returnVars, maintenanceVars, memorialVars>>
       \/ /\ Due(t, "update")
          /\ \E a \in Assignee, on \in BOOLEAN, owed \in OwedTyped :
               UpdateAssignee(t, a, on, owed)
       \/ /\ Due(t, "remove")
          /\ \/ \E a \in Assignee : RemoveAssignee(t, a)
             \/ \E v \in Valt : RemoveValt(t, v)
             \/ \E d \in Deceased : RemoveDeceased(t, d)
       \/ UploadFails(t)
  \/ /\ PromotionsRun
     /\ UNCHANGED <<contractVars, localVars, returnVars, maintenanceVars, known,
                    memorialVars, funeralVars>>
  \/ /\ Tick
     /\ UNCHANGED <<rowVars, contractVars, promoVars, localVars, returnVars,
                    maintenanceVars, memorialVars>>
  \/ Crash

Spec == Init /\ [][Next]_vars

===============================================================================
