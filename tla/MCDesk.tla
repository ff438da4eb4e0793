-------------------------------- MODULE MCDesk --------------------------------
(* Instance of Desk: two assignees, two vaults of one type, two promotions,   *)
(* two deceased, one room; and the scenes: requests that contend.             *)
EXTENDS Desk, TLC

CONSTANTS a1, a2, p1, p2

\* The first assignee has vault 1; the second has vault 2, or is imported.
two == (a1 :> 1) @@ (a2 :> 2)

one == (a1 :> 1) @@ (a2 :> NoValt)

Scenes ==
  { [name |-> "contracts", ask |-> [contract |-> 2], vaults |-> {1},
     homes |-> {one}],
    [name |-> "contract", ask |-> [contract |-> 1, remove |-> 1],
     vaults |-> {1, 2}, homes |-> {one}],
    [name |-> "sold", ask |-> [contract |-> 1, local |-> 1],
     vaults |-> {1, 2}, homes |-> {one, two}],
    [name |-> "edited", ask |-> [contract |-> 1, update |-> 2],
     vaults |-> {1}, homes |-> {one}],
    [name |-> "retyped", ask |-> [local |-> 2, update |-> 2],
     vaults |-> {1}, homes |-> {one}],
    [name |-> "promotions", ask |-> [promotion |-> 2, local |-> 1],
     vaults |-> {1}, homes |-> {a1 :> 1}],
    [name |-> "locals", ask |-> [local |-> 3], vaults |-> {1, 2},
     homes |-> {one, two}],
    [name |-> "returns", ask |-> [return |-> 2], vaults |-> {},
     homes |-> {a1 :> NoValt}],
    [name |-> "maintenances", ask |-> [maintenance |-> 2], vaults |-> {1, 2},
     homes |-> {two}],
    [name |-> "moved", ask |-> [maintenance |-> 1, local |-> 1, remove |-> 1],
     vaults |-> {1}, homes |-> {one}],
    [name |-> "memorials",
     ask |-> [memorial |-> 2, grant |-> 1, tribute |-> 1, remove |-> 1],
     vaults |-> {}, homes |-> {a1 :> NoValt}],
    [name |-> "tributes", ask |-> [grant |-> 2, tribute |-> 4],
     vaults |-> {}, homes |-> {a1 :> NoValt}],
    [name |-> "funerals", ask |-> [funeral |-> 2, remove |-> 1],
     vaults |-> {}, homes |-> {a1 :> NoValt}] }

MCScene == { c.name : c \in Scenes }

SceneOf(n) == CHOOSE c \in Scenes : c.name = n

MCAsked == [n \in MCScene |-> [k \in Kind |->
              IF k \in DOMAIN SceneOf(n).ask THEN SceneOf(n).ask[k] ELSE 0]]

MCRegistered == [n \in MCScene |-> SceneOf(n).homes]

MCVaults == [n \in MCScene |-> SceneOf(n).vaults]

MCDiscountOf == (p1 :> 20) @@ (p2 :> 50)

MCTypeOf == (1 :> 1) @@ (2 :> 1)

MCTypeName == (1 :> "adult") @@ (2 :> "adult")

MCOwedAtFirst == (a1 :> 10) @@ (a2 :> 0)

MCOwedTyped == {3, 12}

MCPrice == (1 :> 20) @@ (2 :> 10)

MCForms ==
  { [prohibited |-> "absent", entry |-> 0, total |-> TRUE, parts |-> 1],
    [prohibited |-> "absent", entry |-> 0, total |-> FALSE, parts |-> 2],
    [prohibited |-> "true", entry |-> 6, total |-> FALSE, parts |-> 1],
    [prohibited |-> "false", entry |-> 4, total |-> TRUE, parts |-> 1] }

Paid(x) == [payment |-> x, fits |-> TRUE]

MCFiles ==
  { <<Paid("p"), Paid("unknown"), Paid("q")>>,
    <<Paid("r"), [payment |-> "p", fits |-> FALSE], Paid("q")>> }

MCFee == (a1 :> 100) @@ (a2 :> 0)

===============================================================================
