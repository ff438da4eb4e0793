------------------------------- MODULE MCBurial -------------------------------
(* Instances of Burial: one vault with one or two drawers, two deceased.     *)
EXTENDS Burial, TLC

Interchangeable == Permutations(Task) \cup Permutations(Drawer)

===============================================================================
