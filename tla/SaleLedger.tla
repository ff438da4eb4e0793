------------------------------ MODULE SaleLedger ------------------------------
(***************************************************************************)
(* What selling a vault promises, with no gateway, no transaction and no   *)
(* failure in sight: a request is booked at most once and in one step,     *)
(* which makes the buyer the holder of one title under that request, puts  *)
(* the buyer in the ledger and every parcel of the request on that title.  *)
(* A title changes its holder in no other way.                             *)
(***************************************************************************)
CONSTANTS Holder, Request, Parcel, NoHolder, NoRequest

VARIABLES
  title,     \* Holder -> who holds the title opened for Holder, under what
  ledger,    \* <<request, holder>>: who was booked for a request
  bills      \* <<request, parcel, title>>: what is billed, on which title

vars == <<title, ledger, bills>>

Booked(q) == \E h \in Holder : <<q, h>> \in ledger

Init ==
  /\ title = [t \in Holder |-> [holder |-> NoHolder, sale |-> NoRequest]]
  /\ ledger = {}
  /\ bills = {}

\* A registration opens a title held by the assignee itself.
Open(t) ==
  /\ title[t].holder = NoHolder
  /\ \A u \in Holder : title[u].holder # t
  /\ title' = [title EXCEPT ![t] = [holder |-> t, sale |-> NoRequest]]
  /\ UNCHANGED <<ledger, bills>>

\* A purchase is booked for a buyer who holds no other title.
Book(q, h, t, parcels) ==
  /\ ~ Booked(q)
  /\ parcels # {}
  /\ title[t].holder # NoHolder
  /\ \A u \in Holder \ {t} : title[u].holder # h
  /\ title' = [title EXCEPT ![t] = [holder |-> h, sale |-> q]]
  /\ ledger' = ledger \cup {<<q, h>>}
  /\ bills' = bills \cup ({q} \X parcels \X {t})

Next ==
  \/ \E t \in Holder : Open(t)
  \/ \E q \in Request, h, t \in Holder, parcels \in {{1}, Parcel} :
       Book(q, h, t, parcels)

Spec == Init /\ [][Next]_vars

===============================================================================
