--------------------------- MODULE MCAdministration ---------------------------
(* Instance of Administration: two plans, two ids, one of a user, two         *)
(* graveyards, two names, up to two drawers; and the scenes.                  *)
EXTENDS Administration, TLC

CONSTANT a1

\* A plan that was the static copy and is deleted takes three requests.
MCLimit ==
  ("plans"   :> [plans |-> 4, records |-> 0, grounds |-> 0,
                 restarts |-> 1, ids |-> {}]) @@
  ("records" :> [plans |-> 1, records |-> 2, grounds |-> 0,
                 restarts |-> 1, ids |-> Id]) @@
  ("deleted" :> [plans |-> 3, records |-> 2, grounds |-> 0,
                 restarts |-> 0, ids |-> {a1}]) @@
  ("grounds" :> [plans |-> 0, records |-> 0, grounds |-> 4,
                 restarts |-> 1, ids |-> {}])

MCScene == DOMAIN MCLimit

\* Requests of different kinds, and plans, graveyards and names, share their
\* model values: nothing compares one kind with another.
Interchangeable == 
  Permutations(Task) \cup Permutations(Call) \cup Permutations(Name)

===============================================================================
