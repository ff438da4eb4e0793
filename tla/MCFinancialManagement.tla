------------------------- MODULE MCFinancialManagement -------------------------
(* Instance of FinancialManagement for the run about the static copy: two     *)
(* requests on two records.                                                   *)
EXTENDS FinancialManagement

================================================================================
