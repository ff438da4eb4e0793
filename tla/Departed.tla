------------------------------- MODULE Departed -------------------------------
(***************************************************************************)
(* The rows of table Deceased as memorials and funerals find them.         *)
(***************************************************************************)
EXTENDS Requests

CONSTANTS
  Deceased,  \* ids of table Deceased
  Born,      \* those entered with their dates, which makes a memorial
  NoOne

ASSUME DeceasedAssumption == Born \subseteq Deceased /\ NoOne \notin Deceased

VARIABLE known   \* the deceased on file

DepartedTypeOK == known \subseteq Deceased

DepartedInit == known = Deceased

===============================================================================
