------------------------------ MODULE Promotions ------------------------------
(***************************************************************************)
(* Promotions: made, switched, assigned to the graveyard or to types of    *)
(* vault, removed, and looked up when a vault is paid for.  The graveyard  *)
(* and each type have room for one promotion.  Services are left out: no   *)
(* payment looks them up.                                                  *)
(***************************************************************************)
EXTENDS OwnerRows

CONSTANTS
  Promo,       \* ids of table promotions
  NoPromo,
  DiscountOf,  \* Promo -> per cent; even, so that averages of two are whole
  ValtType,    \* ids of table ValtType, numbers as in the database
  TypeOf,      \* Valt -> its type
  TypeName     \* ValtType -> its name; names need not differ

ASSUME PromoAssumption == NoPromo \notin Promo
ASSUME DiscountAssumption ==
  DiscountOf \in [Promo -> { d \in 0..100 : d % 2 = 0 }]
ASSUME TypeAssumption == ValtType \subseteq Nat /\ TypeOf \in [Valt -> ValtType]

VARIABLES
  promo,        \* Promo -> "new" (no row yet), "on", "off" or "gone"; on is
                \* active and within its dates
  ofGraveyard,  \* Graveyards.promotionId
  ofType,       \* ValtType -> ValtType.promotionId
  promoting     \* Task -> a request to assign a promotion

promoVars == <<promo, ofGraveyard, ofType, promoting>>

PromoAssignment == [pc     : {"none", "commit", "ended"},
                    p      : Promo \cup {NoPromo},
                    places : BOOLEAN,            \* the graveyard is given
                    types  : SUBSET ValtType]

NoAssignment == [pc |-> "none", p |-> NoPromo, places |-> FALSE,
                 types |-> {}]

Ended == [NoAssignment EXCEPT !.pc = "ended"]

PromotionsTypeOK ==
  /\ promo \in [Promo -> {"new", "on", "off", "gone"}]
  /\ ofGraveyard \in Promo \cup {NoPromo}
  /\ ofType \in [ValtType -> Promo \cup {NoPromo}]
  /\ promoting \in [Task -> PromoAssignment]

PromotionsInit ==
  /\ promo = [p \in Promo |-> "new"]
  /\ ofGraveyard = NoPromo
  /\ ofType = [y \in ValtType |-> NoPromo]
  /\ promoting = [t \in Task |-> NoAssignment]

OnFile(p) == promo[p] \in {"on", "off"}

\* The bound of a scene without promotions.
PromotionsOffered == Asked[scene]["promotion"] > 0

CreatePromotion(p) ==
  /\ PromotionsOffered
  /\ promo[p] = "new"
  /\ \E s \in {"on", "off"} : promo' = [promo EXCEPT ![p] = s]
  /\ UNCHANGED <<ofGraveyard, ofType, promoting, rowVars, requestVars>>

\* An update, or a date that passes.
SwitchPromotion(p) ==
  /\ OnFile(p)
  /\ promo' = [promo EXCEPT ![p] = IF @ = "on" THEN "off" ELSE "on"]
  /\ UNCHANGED <<ofGraveyard, ofType, promoting, rowVars, requestVars>>

\* The foreign keys of the graveyard and the types are set to NULL.
RemovePromotion(p) ==
  /\ OnFile(p)
  /\ promo' = [promo EXCEPT ![p] = "gone"]
  /\ ofGraveyard' = IF ofGraveyard = p THEN NoPromo ELSE ofGraveyard
  /\ ofType' = [y \in ValtType |-> IF ofType[y] = p THEN NoPromo
                                   ELSE ofType[y]]
  /\ UNCHANGED <<promoting, rowVars, requestVars>>

\* The ids of types are looked for among the ids of the vaults of these types.
TypesAccepted(types) ==
  types \subseteq { v \in valts : TypeOf[v] \in types }

AssignCheck(t, p, places, types) ==
  /\ Take(t, "promotion")
  /\ OnFile(p)
  /\ places \/ types # {}
  /\ TypesAccepted(types)
  /\ promoting' = [promoting EXCEPT ![t] =
       [pc |-> "commit", p |-> p, places |-> places, types |-> types]]
  /\ UNCHANGED <<promo, ofGraveyard, ofType, rowVars>>

AssignCommit(t) ==
  LET r == promoting[t] IN
  /\ r.pc = "commit"
  /\ OnFile(r.p)
  /\ ofGraveyard' = IF r.places THEN r.p ELSE ofGraveyard
  /\ ofType' = [y \in ValtType |-> IF y \in r.types THEN r.p ELSE ofType[y]]
  /\ promoting' = [promoting EXCEPT ![t] = Ended]
  /\ UNCHANGED <<promo, rowVars, requestVars>>

\* The promotion is gone, or the database fails.
AssignFails(t) ==
  /\ promoting[t].pc = "commit"
  /\ promoting' = [promoting EXCEPT ![t] = Ended]
  /\ UNCHANGED <<promo, ofGraveyard, ofType, rowVars, requestVars>>

PromotionsAfterStop ==
  [t \in Task |-> IF promoting[t].pc = "commit" THEN Ended ELSE promoting[t]]

PromotionsNext(t) ==
  \/ /\ Due(t, "promotion")
     /\ \E p \in Promo, places \in BOOLEAN, types \in SUBSET ValtType :
          AssignCheck(t, p, places, types)
  \/ AssignCommit(t)
  \/ AssignFails(t)

PromotionsRun ==
  \E p \in Promo : CreatePromotion(p) \/ SwitchPromotion(p)
                   \/ RemovePromotion(p)

(***************************************************************************)
(* The discount of a vault (verifyPromotions)                              *)
(***************************************************************************)

\* A promotion in force for the graveyard, one for any type that has the name
\* of the vault's; findFirst takes any.
GraveyardOffers == { p \in Promo : promo[p] = "on" /\ ofGraveyard = p }

TypeOffers(v) ==
  { p \in Promo : promo[p] = "on" /\ \E y \in ValtType :
      ofType[y] = p /\ TypeName[y] = TypeName[TypeOf[v]] }

MutantDiscounts(v) ==
  LET gs == GraveyardOffers
      ts == TypeOffers(v)
  IN  IF gs = {} \/ ts = {}
        THEN {0} \cup { DiscountOf[p] : p \in gs \cup ts }
        ELSE {0} \cup { DiscountOf[p] + DiscountOf[q] : p \in gs, q \in ts }

\* The average of what was found; an error of the look-up is no discount.
Discounts(v) ==
  LET gs == GraveyardOffers
      ts == TypeOffers(v)
  IN  IF gs = {} \/ ts = {}
        THEN {0} \cup { DiscountOf[p] : p \in gs \cup ts }
        ELSE {0} \cup { (DiscountOf[p] + DiscountOf[q]) \div 2 :
                          p \in gs, q \in ts }

===============================================================================
