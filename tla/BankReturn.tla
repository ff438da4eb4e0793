------------------------------ MODULE BankReturn ------------------------------
(***************************************************************************)
(* The return file of the bank (RET): its lines are worked through one by  *)
(* one, and each marks one imported payment as paid.  Nothing holds the    *)
(* lines of a file together: a line that throws ends the request and       *)
(* leaves what the lines before it did.                                    *)
(***************************************************************************)
EXTENDS Requests, Sequences

CONSTANTS
  PaymentOld,  \* ids of table PaymentOld, imported once
  Files        \* the files that are sent in

\* Of the lines with type 1: the payment they name, which need not be on file,
\* and whether amount and date fit their columns (the amount is divided by
\* 100000 and the column is Int).
Line == [payment : STRING, fits : BOOLEAN]

ASSUME FilesAssumption == \A f \in Files : f \in Seq(Line) /\ f # <<>>

VARIABLES
  return,   \* Task -> a file under way: its lines and the next one
  paidOld   \* the payments with status PAID

returnVars == <<return, paidOld>>

ReturnTypeOK ==
  /\ \A t \in Task :
       /\ return[t].pc \in {"none", "lines", "done", "failed"}
       /\ return[t].file \in Files \cup {<<>>}
       /\ return[t].next \in 1..Len(return[t].file) + 1
  /\ paidOld \subseteq PaymentOld

ReturnInit ==
  /\ return = [t \in Task |-> [pc |-> "none", file |-> <<>>, next |-> 1]]
  /\ paidOld = {}

ReturnStart(t, file) ==
  /\ Take(t, "return")
  /\ return' = [return EXCEPT ![t] = [pc |-> "lines", file |-> file,
                                      next |-> 1]]
  /\ UNCHANGED paidOld

MutantReturnLine(t) ==
  LET r == return[t]
      l == r.file[r.next]
  IN
  /\ r.pc = "lines"
  /\ r.next <= Len(r.file)
  /\ paidOld' = paidOld \cup { x \in PaymentOld : x = l.payment /\ l.fits }
  /\ return' = [return EXCEPT ![t].next = @ + 1]
  /\ UNCHANGED requestVars

\* A payment that is not on file is passed over; a value that does not fit
\* throws.
ReturnLine(t) ==
  LET r == return[t]
      l == r.file[r.next]
  IN
  /\ r.pc = "lines"
  /\ r.next <= Len(r.file)
  /\ l.payment \in PaymentOld => l.fits
  /\ paidOld' = paidOld \cup ({l.payment} \cap PaymentOld)
  /\ return' = [return EXCEPT ![t].next = @ + 1]
  /\ UNCHANGED requestVars

ReturnDone(t) ==
  /\ return[t].pc = "lines"
  /\ return[t].next > Len(return[t].file)
  /\ return' = [return EXCEPT ![t].pc = "done"]
  /\ UNCHANGED <<paidOld, requestVars>>

\* A value that does not fit, or the database.
ReturnFails(t) ==
  /\ return[t].pc = "lines"
  /\ return[t].next <= Len(return[t].file)
  /\ return' = [return EXCEPT ![t].pc = "failed"]
  /\ UNCHANGED <<paidOld, requestVars>>

ReturnsAfterStop ==
  [t \in Task |-> [return[t] EXCEPT !.pc = IF @ = "lines" THEN "failed"
                                           ELSE @]]

ReturnNext(t) ==
  \/ Due(t, "return") /\ \E file \in Files : ReturnStart(t, file)
  \/ ReturnLine(t)
  \/ ReturnDone(t)
  \/ ReturnFails(t)

(***************************************************************************)
(* Property                                                                *)
(***************************************************************************)

\* Payments are marked from the first line of a file on without a gap: for each
\* one that is paid, some file names it whose earlier lines are all carried out,
\* so that sending the file again from the line that failed completes it.
PaidFromTheTop ==
  \A x \in paidOld : \E t \in Task : \E i \in 1..Len(return[t].file) :
    /\ return[t].file[i].payment = x
    /\ \A j \in 1..i : return[t].file[j].payment \in PaymentOld =>
         return[t].file[j].payment \in paidOld

===============================================================================
