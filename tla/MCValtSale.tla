------------------------------ MODULE MCValtSale ------------------------------
(* Instances of ValtSale: two assignees to register, an imported one, two   *)
(* vaults, two purchases in up to two parts.                                *)
EXTENDS ValtSale, TLC

CONSTANTS a1, a2, old

MCCpfOf == (a1 :> "cpf1") @@ (a2 :> "cpf2") @@ (old :> "cpf3")

Interchangeable == Permutations(Request)

===============================================================================
