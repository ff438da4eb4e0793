--------------------------- MODULE DeskServiceProofs ---------------------------
(***************************************************************************)
(* Proofs about what the office does after a sale: funerals, return files, *)
(* maintenance and memorials, for every number of requests.                *)
(***************************************************************************)
EXTENDS DeskProofs, FiniteSetTheorems

(***************************************************************************)
(* Funerals                                                                *)
(***************************************************************************)

\* What RoomsNotShared says, of reservations that are still to be written too.
ReservedApart ==
  \A s, t \in Reserved \ late :
    s # t /\ funeral[s].room = funeral[t].room
          /\ funeral[s].room \notin sideBySide
      => \/ funeral[s].start > funeral[t].end
         \/ funeral[s].end < funeral[t].start

FuneralInv == ReservedApart /\ FuneralsStand

\* A step of a reservation.
LEMMA FuneralInvStep ==
  ASSUME TypeInv, FuneralInv, NEW t \in Task, FuneralNext(t)
  PROVE  FuneralInv'
<1> USE DEF FuneralInv
<1>0. /\ FuneralTypeOK /\ RequestsTypeOK
      /\ funeral[t].pc # "none" => kind[t] # "none"
  BY DEF TypeInv, FuneralTyped
<1>1. ASSUME NEW d \in Deceased, NEW room \in Room,
             NEW start \in 0..MaxTime, NEW end \in 0..MaxTime,
             ReserveCheck(t, d, room, start, end)
      PROVE  FuneralInv'
  <2>1. funeral[t].pc = "none"
    BY <1>0, <1>1 DEF ReserveCheck, Take, Due
  <2> DEFINE f == [pc |-> "commit", of |-> d, room |-> room, start |-> start,
                   end |-> end]
  <2>2. funeral' = [funeral EXCEPT ![t] = f]
        /\ UNCHANGED <<now, prepared, late, known>>
    BY <1>1 DEF ReserveCheck
  <2>3. sideBySide \subseteq sideBySide'
    BY <1>1 DEF ReserveCheck
  <2>4. ReservedApart'
    <3> SUFFICES ASSUME NEW s \in Reserved' \ late', NEW u \in Reserved' \ late',
                        s # u, funeral'[s].room = funeral'[u].room,
                        funeral'[s].room \notin sideBySide'
                 PROVE  \/ funeral'[s].start > funeral'[u].end
                        \/ funeral'[s].end < funeral'[u].start
      BY DEF ReservedApart
    <3>1. ASSUME NEW x \in Task, x # t, x \in Reserved', funeral[x].room = room,
                 room \notin sideBySide'
          PROVE  funeral[x].start > end \/ funeral[x].end < start
      <4>1. funeral[x].pc # "commit"
        BY <1>1, <3>1 DEF ReserveCheck
      <4>2. x \in Booked
        BY <1>0, <3>1, <4>1, <2>2 DEF Reserved, Booked, FuneralTypeOK
      <4> QED BY <1>0, <1>1, <4>2, <3>1 DEF ReserveCheck, Taken, FuneralTypeOK
    <3>2. CASE s = t
      BY <1>0, <3>1, <3>2, <2>2 DEF Reserved, FuneralTypeOK
    <3>3. CASE u = t
      BY <1>0, <3>1, <3>3, <2>2 DEF Reserved, FuneralTypeOK
    <3>4. CASE s # t /\ u # t
      BY <1>0, <3>4, <2>2, <2>3 DEF Reserved, ReservedApart, FuneralTypeOK
    <3> QED BY <3>2, <3>3, <3>4
  <2>5. FuneralsStand'
    BY <1>0, <2>1, <2>2 DEF FuneralsStand, Booked, FuneralTypeOK
  <2> QED BY <2>4, <2>5
<1>2. CASE ReserveCommit(t)
  <2>1. /\ funeral' = [funeral EXCEPT ![t].pc = "booked"]
        /\ funeral[t].pc = "commit"
        /\ UNCHANGED <<now, sideBySide, late, known>>
    BY <1>2 DEF ReserveCommit
  <2>2. Reserved' = Reserved
    BY <1>0, <2>1 DEF Reserved, FuneralTypeOK
  <2>3. ReservedApart'
    BY <1>0, <2>1, <2>2 DEF ReservedApart, Reserved, FuneralTypeOK
  <2>4. FuneralsStand'
    BY <1>0, <1>2, <2>1
    DEF FuneralsStand, Booked, FuneralTypeOK, ReserveCommit
  <2> QED BY <2>3, <2>4
<1>3. CASE ReserveFails(t)
  <2>1. /\ funeral' = [funeral EXCEPT ![t] = [NoFuneral EXCEPT !.pc = "failed"]]
        /\ funeral[t].pc = "commit"
        /\ UNCHANGED <<now, prepared, sideBySide, late, known>>
    BY <1>3 DEF ReserveFails
  <2>2. ReservedApart'
    BY <1>0, <2>1 DEF ReservedApart, Reserved, FuneralTypeOK, NoFuneral
  <2>3. FuneralsStand'
    BY <1>0, <2>1 DEF FuneralsStand, Booked, FuneralTypeOK
  <2> QED BY <2>2, <2>3
<1>4. CASE Finish(t)
  <2>1. /\ funeral' = [funeral EXCEPT ![t].end = now]
        /\ funeral[t].pc = "booked"
        /\ UNCHANGED <<now, prepared, sideBySide, known>>
        /\ late \subseteq late' /\ late' \subseteq late \cup {t}
        /\ t \notin late' => now <= funeral[t].end
    BY <1>0, <1>4 DEF Finish, Booked, FuneralTypeOK
  <2>2. ReservedApart'
    BY <1>0, <2>1 DEF ReservedApart, Reserved, FuneralTypeOK
  <2>3. FuneralsStand'
    BY <1>0, <2>1 DEF FuneralsStand, Booked, FuneralTypeOK
  <2> QED BY <2>2, <2>3
<1> QED BY <1>1, <1>2, <1>3, <1>4 DEF FuneralNext

\* Every step of the office.
LEMMA FuneralInvKept ==
  ASSUME TypeInv, FuneralInv, [Next]_vars
  PROVE  FuneralInv'
<1> USE DEF FuneralInv
<1>1. ASSUME NEW t \in Task, FuneralNext(t)
      PROVE  FuneralInv'
  BY <1>1, FuneralInvStep
<1>2. CASE Tick
  BY <1>2 DEF Tick, ReservedApart, Reserved, FuneralsStand, Booked
<1>3. CASE FuneralStop
  <2>1. \A t \in Task : \/ funeral'[t] = funeral[t] /\ funeral[t].pc # "commit"
                        \/ /\ funeral'[t] = [NoFuneral EXCEPT !.pc = "failed"]
                           /\ funeral[t].pc = "commit"
    BY <1>3 DEF FuneralStop, FuneralsAfterStop
  <2>2. Reserved' \subseteq Reserved /\ Booked' = Booked
    BY <2>1 DEF Reserved, Booked, NoFuneral
  <2>3. ReservedApart'
    BY <1>3, <2>1, <2>2 DEF FuneralStop, ReservedApart, Reserved, NoFuneral
  <2>4. FuneralsStand'
    BY <1>3, <2>1, <2>2 DEF FuneralStop, FuneralsStand, Booked
  <2> QED BY <2>3, <2>4
<1>4. CASE FuneralQuiet
  <2>1. FuneralsStand'
    BY <1>4 DEF FuneralQuiet, funeralVars, DeceasedStay, FuneralsStand,
       Booked
  <2> QED BY <1>4, <2>1 DEF FuneralQuiet, funeralVars, ReservedApart, Reserved
<1> QED BY <1>1, <1>2, <1>3, <1>4, FuneralStep

\* No room is reserved at first.
LEMMA FuneralInvInit == Init => FuneralInv
BY DEF Init, FuneralInit, NoFuneral, FuneralInv, ReservedApart, Reserved,
       FuneralsStand, Booked

\* Two funerals of one room do not overlap (funeral.service.ts, create), unless
\* reservations ran side by side or a funeral was finished late.
THEOREM RoomsKeptApart == Spec => []RoomsNotShared
<1>1. FuneralInv => RoomsNotShared
  BY DEF FuneralInv, ReservedApart, Reserved, RoomsNotShared, Booked
<1> QED BY <1>1, Typed, FuneralInvInit, FuneralInvKept, PTL DEF Spec

\* A booked funeral is the only one of its deceased, keeps him on file and its
\* room EM_PREPARACAO, whatever ran side by side, rolled back or was removed
\* (funeral.service.ts, create_funeral; deceaseds.service.ts, remove).
THEOREM BookedFuneralsStand == Spec => []FuneralsStand
<1>1. FuneralInv => FuneralsStand
  BY DEF FuneralInv
<1> QED BY <1>1, Typed, FuneralInvInit, FuneralInvKept, PTL DEF Spec

(***************************************************************************)
(* Return files                                                            *)
(***************************************************************************)

\* The lines before the next one are carried out.
LinesCarriedOut ==
  \A t \in Task : return[t].pc = "lines" =>
    \A j \in 1..(return[t].next - 1) :
      return[t].file[j].payment \in PaymentOld =>
        return[t].file[j].payment \in paidOld

ReturnInv == LinesCarriedOut /\ PaidFromTheTop

\* Files that are kept, with more payments marked, keep PaidFromTheTop for the
\* payments that were marked.
LEMMA FilesKept ==
  ASSUME PaidFromTheTop, paidOld \subseteq paidOld',
         \A t \in Task : return[t].file # <<>> =>
                           return'[t].file = return[t].file,
         NEW x \in paidOld
  PROVE  \E t \in Task : \E i \in 1..Len(return'[t].file) :
           /\ return'[t].file[i].payment = x
           /\ \A j \in 1..i : return'[t].file[j].payment \in PaymentOld =>
                return'[t].file[j].payment \in paidOld'
<1>0. PICK t \in Task : \E i \in 1..Len(return[t].file) :
        /\ return[t].file[i].payment = x
        /\ \A j \in 1..i : return[t].file[j].payment \in PaymentOld =>
             return[t].file[j].payment \in paidOld
  BY DEF PaidFromTheTop
<1>1. PICK i \in 1..Len(return[t].file) :
        /\ return[t].file[i].payment = x
        /\ \A j \in 1..i : return[t].file[j].payment \in PaymentOld =>
             return[t].file[j].payment \in paidOld
  BY <1>0
<1>2. return[t].file # <<>>
  BY <1>1
<1>3. return'[t].file = return[t].file
  BY <1>2
<1> QED BY <1>1, <1>3

\* A step of a file.
LEMMA ReturnInvStep ==
  ASSUME TypeInv, ReturnInv, NEW t \in Task, ReturnNext(t)
  PROVE  ReturnInv'
<1> USE DEF ReturnInv
<1> DEFINE r == return[t]
<1>0. /\ ReturnTable
      /\ r.file \in Seq(Line) /\ Len(r.file) \in Nat /\ r.next \in Nat \ {0}
  BY FilesAreLines DEF TypeInv, ReturnTyped, ReturnTable
<1>1. ASSUME NEW file \in Files, ReturnStart(t, file)
      PROVE  ReturnInv'
  <2>1. return[t].file = <<>>
    BY <1>1 DEF ReturnStart, Take, Due, TypeInv, ReturnTyped
  <2>2. return' = [return EXCEPT ![t] = [pc |-> "lines", file |-> file,
                                         next |-> 1]]
        /\ UNCHANGED paidOld
    BY <1>1 DEF ReturnStart
  <2>3. LinesCarriedOut'
    BY <1>0, <2>2 DEF LinesCarriedOut, ReturnTable
  <2>4. \A s \in Task : return[s].file # <<>> =>
                          return'[s].file = return[s].file
    BY <1>0, <2>1, <2>2 DEF ReturnTable
  <2>5. PaidFromTheTop'
    BY <2>2, <2>4, FilesKept DEF PaidFromTheTop
  <2> QED BY <2>3, <2>5
<1>2. CASE ReturnLine(t)
  <2> DEFINE l == r.file[r.next]
  <2>1. /\ r.pc = "lines"
        /\ r.next <= Len(r.file)
        /\ paidOld' = paidOld \cup ({l.payment} \cap PaymentOld)
        /\ return' = [return EXCEPT ![t].next = r.next + 1]
    BY <1>2 DEF ReturnLine
  <2>2. \A s \in Task : /\ return'[s].file = return[s].file
                        /\ return'[s].pc = return[s].pc
                        /\ s # t => return'[s] = return[s]
    BY <1>0, <2>1 DEF ReturnTable
  <2>3. \A j \in 1..r.next : r.file[j].payment \in PaymentOld =>
                               r.file[j].payment \in paidOld'
    <3> SUFFICES ASSUME NEW j \in 1..r.next, r.file[j].payment \in PaymentOld
                 PROVE  r.file[j].payment \in paidOld'
      OBVIOUS
    <3>1. CASE j = r.next
      BY <2>1, <3>1
    <3>2. CASE j # r.next
      <4>1. j \in 1..(r.next - 1)
        BY <3>2, <1>0
      <4> QED BY <2>1, <4>1 DEF LinesCarriedOut
    <3> QED BY <3>1, <3>2
  <2>4. return'[t].next - 1 = r.next
    BY <2>1, <1>0 DEF ReturnTable
  <2>5. LinesCarriedOut'
    <3> SUFFICES ASSUME NEW s \in Task, return'[s].pc = "lines",
                        NEW j \in 1..(return'[s].next - 1),
                        return'[s].file[j].payment \in PaymentOld
                 PROVE  return'[s].file[j].payment \in paidOld'
      BY DEF LinesCarriedOut
    <3>1. CASE s = t
      BY <3>1, <2>2, <2>3, <2>4
    <3>2. CASE s # t
      BY <3>2, <2>1, <2>2 DEF LinesCarriedOut
    <3> QED BY <3>1, <3>2
  <2>6. PaidFromTheTop'
    <3> SUFFICES ASSUME NEW x \in paidOld'
                 PROVE  \E s \in Task : \E i \in 1..Len(return'[s].file) :
                          /\ return'[s].file[i].payment = x
                          /\ \A j \in 1..i :
                               return'[s].file[j].payment \in PaymentOld =>
                                 return'[s].file[j].payment \in paidOld'
      BY DEF PaidFromTheTop
    <3>1. CASE x \in paidOld
      BY <3>1, <2>1, <2>2, FilesKept
    <3>2. CASE x \notin paidOld
      <4>1. x = r.file[r.next].payment
        BY <3>2, <2>1
      <4>2. r.next \in 1..Len(r.file)
        BY <2>1, <1>0
      <4> QED BY <4>1, <4>2, <2>2, <2>3
    <3> QED BY <3>1, <3>2
  <2> QED BY <2>5, <2>6
<1>3. CASE ReturnDone(t) \/ ReturnFails(t)
  <2>1. /\ UNCHANGED paidOld
        /\ \E pc \in {"done", "failed"} : return' = [return EXCEPT ![t].pc = pc]
    BY <1>3 DEF ReturnDone, ReturnFails
  <2>2. \A s \in Task : /\ return'[s].file = return[s].file
                        /\ s # t => return'[s] = return[s]
                        /\ return'[t].pc # "lines"
    BY <1>0, <2>1 DEF ReturnTable
  <2>3. LinesCarriedOut'
    BY <2>1, <2>2 DEF LinesCarriedOut
  <2>4. PaidFromTheTop'
    BY <2>1, <2>2, FilesKept DEF PaidFromTheTop
  <2> QED BY <2>3, <2>4
<1> QED BY <1>1, <1>2, <1>3 DEF ReturnNext

\* Every step of the office.
LEMMA ReturnInvKept ==
  ASSUME TypeInv, ReturnInv, [Next]_vars
  PROVE  ReturnInv'
<1>1. ASSUME NEW t \in Task, ReturnNext(t)
      PROVE  ReturnInv'
  BY <1>1, ReturnInvStep
<1>2. CASE return' = ReturnsAfterStop /\ UNCHANGED paidOld
  <2>1. \A t \in Task : /\ return'[t].file = return[t].file
                        /\ return'[t].pc # "lines"
    BY <1>2 DEF ReturnsAfterStop, TypeInv, ReturnTyped, ReturnTable
  <2>2. LinesCarriedOut'
    BY <2>1 DEF LinesCarriedOut
  <2>3. PaidFromTheTop'
    BY <1>2, <2>1, FilesKept DEF PaidFromTheTop, ReturnInv
  <2> QED BY <2>2, <2>3 DEF ReturnInv
<1>3. CASE UNCHANGED returnVars
  BY <1>3 DEF returnVars, ReturnInv, LinesCarriedOut, PaidFromTheTop
<1> QED BY <1>1, <1>2, <1>3, ReturnStep

\* Nothing is sent in at first.
LEMMA ReturnInvInit == Init => ReturnInv
BY DEF Init, ReturnInit, ReturnInv, LinesCarriedOut, PaidFromTheTop

\* Payments are marked from the top of a file, whichever line threw and
\* whenever the process stopped (assignee.controller.ts, processRetFile).
THEOREM FilesPaidFromTheTop == Spec => []PaidFromTheTop
<1>1. ReturnInv => PaidFromTheTop
  BY DEF ReturnInv
<1> QED BY <1>1, Typed, ReturnInvInit, ReturnInvKept, PTL DEF Spec

(***************************************************************************)
(* Memorials: on one that no two requests crowd, a request finds what the  *)
(* one before it left, so that the tributes of a token and what is left of *)
(* its quota add up.                                                       *)
(***************************************************************************)

\* The requests under way on a memorial.
Linking(m) == { t \in Task : memorialJob[t].pc = "link" /\ memorialJob[t].m = m }

Paying(m) == { t \in Task : tribute[t].pc \in {"clear", "post", "count"}
                            /\ tribute[t].m = m }

Counting(m) == { t \in Task : tribute[t].pc = "count" /\ tribute[t].m = m }

\* The tributes of one token.
PostedWith(m, k) == { t \in Task : /\ tribute[t].posted
                                   /\ tribute[t].m = m
                                   /\ tribute[t].token = k }

\* A token is the number of a link that was written; no request is both.
TokensWritten ==
  /\ \A t \in Task : memorialJob[t].pc = "none" \/ tribute[t].pc = "none"
  /\ \A m \in MemorialId : memorial[m].token # NoTask =>
       memorialJob[memorial[m].token].pc = "done"
  /\ \A t \in Task : tribute[t].pc # "none" =>
       tribute[t].token \in Task /\ memorialJob[tribute[t].token].pc = "done"

OneAtATime(m) == \A s, t \in Linking(m) \cup Paying(m) : s = t

\* What a tribute under way has read is still so.
ReadStands(m) ==
  \A t \in Paying(m) :
    /\ tribute[t].pc = "clear" => memorial[m].quota < 1
    /\ tribute[t].pc \in {"post", "count"} =>
         tribute[t].token = memorial[m].token /\ memorial[m].quota >= 1

TokenStands(m) == memorial[m].quota > 0 => memorial[m].token # NoTask

\* No token has more tributes than its quota; the tributes of the token in
\* force and what is left of it are the quota, but for one that is counted yet.
QuotaAddsUp(m) ==
  /\ \A k \in Task : IsFiniteSet(PostedWith(m, k))
                     /\ Cardinality(PostedWith(m, k)) <= LinkQuota
  /\ memorial[m].token # NoTask =>
       LET n == Cardinality(PostedWith(m, memorial[m].token)) IN
       /\ memorial[m].quota >= 0
       /\ Counting(m) = {} => n + memorial[m].quota = LinkQuota
       /\ Counting(m) # {} => n + memorial[m].quota = LinkQuota + 1

Fine(m) == OneAtATime(m) /\ ReadStands(m) /\ TokenStands(m) /\ QuotaAddsUp(m)

MemorialInv ==
  /\ TokensWritten
  /\ \A m \in MemorialId \ crowded : Fine(m)

\* Tokens and quota of a memorial add up as long as they and its tributes stay.
LEMMA QuotaKept ==
  ASSUME NEW m, Fine(m),
         memorial'[m].token = memorial[m].token,
         memorial'[m].quota = memorial[m].quota,
         Counting(m)' = Counting(m),
         \A k \in Task : PostedWith(m, k)' = PostedWith(m, k),
         memorial[m].token \in Task \cup {NoTask}
  PROVE  TokenStands(m)' /\ QuotaAddsUp(m)'
<1>1. TokenStands(m)'
  BY DEF Fine, TokenStands
<1>2. \A k \in Task : IsFiniteSet(PostedWith(m, k)')
                      /\ Cardinality(PostedWith(m, k)') <= LinkQuota
  BY DEF Fine, QuotaAddsUp
<1>3. CASE memorial[m].token = NoTask
  BY <1>1, <1>2, <1>3 DEF QuotaAddsUp
<1>4. CASE memorial[m].token # NoTask
  <2>1. PostedWith(m, memorial[m].token)' = PostedWith(m, memorial[m].token)
    BY <1>4 DEF PostedWith
  <2> QED BY <1>1, <1>2, <1>4, <2>1 DEF Fine, QuotaAddsUp
<1> QED BY <1>3, <1>4

\* A memorial that nothing happens to stays fine.
LEMMA FineKept ==
  ASSUME NEW m, Fine(m),
         memorial'[m].token = memorial[m].token,
         memorial'[m].quota = memorial[m].quota,
         Linking(m)' \subseteq Linking(m), Paying(m)' \subseteq Paying(m),
         Counting(m)' = Counting(m),
         \A t \in Paying(m)' : tribute'[t] = tribute[t],
         \A k \in Task : PostedWith(m, k)' = PostedWith(m, k),
         memorial[m].token \in Task \cup {NoTask}
  PROVE  Fine(m)'
<1>1. OneAtATime(m)'
  BY DEF Fine, OneAtATime
<1>2. ReadStands(m)'
  BY DEF Fine, ReadStands
<1> QED BY <1>1, <1>2, QuotaKept DEF Fine

\* A request about a link moves, the tributes stay.
LEMMA FineJob ==
  ASSUME TypeInv, NEW t \in Task, NEW m \in MemorialId, Fine(m),
         memorial'[m].token = memorial[m].token,
         memorial'[m].quota = memorial[m].quota,
         UNCHANGED tribute,
         \A s \in Task : s # t => memorialJob'[s] = memorialJob[s],
         memorialJob'[t].pc = "link" => memorialJob'[t].m # m
  PROVE  Fine(m)'
<1>1. memorial[m].token \in Task \cup {NoTask}
  BY DEF TypeInv, MemorialTyped, MemorialTypeOK
<1>2. /\ Linking(m)' \subseteq Linking(m)
      /\ Paying(m)' = Paying(m)
      /\ Counting(m)' = Counting(m)
      /\ \A s \in Paying(m)' : tribute'[s] = tribute[s]
      /\ \A k \in Task : PostedWith(m, k)' = PostedWith(m, k)
  BY DEF Linking, Paying, Counting, PostedWith
<1> QED BY <1>1, <1>2, FineKept

\* A tribute moves that neither is under way on m after nor is counted or
\* written on it.
LEMMA FineTribute ==
  ASSUME TypeInv, NEW t \in Task, NEW m \in MemorialId, Fine(m),
         memorial'[m].token = memorial[m].token,
         memorial'[m].quota = memorial[m].quota,
         UNCHANGED memorialJob,
         \A s \in Task : s # t => tribute'[s] = tribute[s],
         t \notin Paying(m)', t \notin Counting(m),
         \A k \in Task : t \in PostedWith(m, k)' <=> t \in PostedWith(m, k)
  PROVE  Fine(m)'
<1>1. memorial[m].token \in Task \cup {NoTask}
  BY DEF TypeInv, MemorialTyped, MemorialTypeOK
<1>2. /\ Linking(m)' = Linking(m)
      /\ Paying(m)' \subseteq Paying(m)
      /\ Counting(m)' = Counting(m)
      /\ \A s \in Paying(m)' : tribute'[s] = tribute[s]
  BY DEF Linking, Paying, Counting
<1>3. \A k \in Task : PostedWith(m, k)' = PostedWith(m, k)
  BY DEF PostedWith
<1> QED BY <1>1, <1>2, <1>3, FineKept

\* What the types say of the tables of memorials.
LEMMA MemorialFacts ==
  ASSUME TypeInv
  PROVE  /\ MemorialTables
         /\ \A t \in Task :
              /\ memorialJob[t].pc = "link" => memorialJob[t].m \in MemorialId
              /\ tribute[t].pc # "none" => tribute[t].m \in MemorialId
              /\ tribute[t].posted => tribute[t].pc \in {"count", "done", "failed"}
              /\ kind[t] = "none" =>
                   memorialJob[t].pc = "none" /\ tribute[t].pc = "none"
BY MemorialTypes DEF TypeInv, MemorialTyped

\* Requests about memorials and links.
LEMMA LinksFine ==
  ASSUME TypeInv, MemorialInv, NEW t \in Task,
         \/ \E d \in Deceased : MemorialCheck(t, d) \/ LinkCheck(t, d)
         \/ MemorialCreate(t) \/ LinkWrite(t) \/ MemorialFails(t)
  PROVE  MemorialInv'
<1>0. /\ MemorialTables
      /\ \A s \in Task :
           /\ memorialJob[s].pc = "link" => memorialJob[s].m \in MemorialId
           /\ tribute[s].pc # "none" => tribute[s].m \in MemorialId
           /\ kind[s] = "none" =>
                memorialJob[s].pc = "none" /\ tribute[s].pc = "none"
  BY MemorialFacts
<1>1. /\ TokensWritten
      /\ \A m \in MemorialId \ crowded : Fine(m)
  BY DEF MemorialInv
<1> DEFINE Token(m) == memorial[m].token \in Task \cup {NoTask}
<1>8. \A m \in MemorialId : Token(m)
  BY <1>0 DEF MemorialTables, MemorialRow
<1>2. UNCHANGED tribute /\ crowded \subseteq crowded'
  BY DEF MemorialCheck, LinkCheck, MemorialCreate, LinkWrite, MemorialFails,
         Crowd
<1>3. ASSUME UNCHANGED memorial,
             \A s \in Task : s # t => memorialJob'[s] = memorialJob[s],
             memorialJob[t].pc # "done", tribute[t].pc = "none"
      PROVE  TokensWritten'
  BY <1>1, <1>2, <1>3, <1>8 DEF TokensWritten
<1>4. ASSUME NEW d \in Deceased, MemorialCheck(t, d)
      PROVE  MemorialInv'
  <2>1. kind[t] = "none"
    BY <1>4 DEF MemorialCheck, Take, Due
  <2>2. /\ UNCHANGED <<memorial, crowded>>
        /\ \A s \in Task : s # t => memorialJob'[s] = memorialJob[s]
        /\ memorialJob'[t].pc = "create"
    BY <1>0, <1>4, NoMemorialType DEF MemorialCheck, MemorialTables, MemorialJob
  <2>3. \A m \in MemorialId \ crowded' : Fine(m)'
    BY <1>1, <1>2, <2>2, FineJob
  <2> QED BY <1>0, <1>3, <2>1, <2>2, <2>3 DEF MemorialInv
<1>5. ASSUME NEW d \in Deceased, LinkCheck(t, d)
      PROVE  MemorialInv'
  <2>1. kind[t] = "none"
    BY <1>5 DEF LinkCheck, Take, Due
  <2>2. PICK m \in MemorialsOf(d) :
          /\ memorialJob' = [memorialJob EXCEPT ![t] =
                               [NoMemorialJob EXCEPT !.pc = "link", !.m = m]]
          /\ Crowd(m)
    BY <1>5 DEF LinkCheck
  <2>3. /\ UNCHANGED memorial
        /\ \A s \in Task : s # t => memorialJob'[s] = memorialJob[s]
        /\ memorialJob'[t].m = m
        /\ m \in MemorialId
    BY <1>0, <1>5, <2>2, NoMemorialType
    DEF LinkCheck, MemorialTables, MemorialJob, MemorialsOf
  <2>4. ASSUME NEW x \in MemorialId \ crowded'
        PROVE  Fine(x)'
    <3>1. x \notin crowded /\ Fine(x)
      BY <1>1, <1>2
    <3>2. CASE x # m
      BY <1>2, <2>3, <3>1, <3>2, FineJob
    <3>3. CASE x = m
      <4>1. Linking(m) = {} /\ Paying(m) = {}
        BY <2>2, <3>3 DEF Crowd, Linking, Paying
      <4>2. Linking(m)' \subseteq {t} /\ Paying(m)' = {}
        BY <1>2, <2>3, <4>1 DEF Linking, Paying
      <4>3. OneAtATime(m)' /\ ReadStands(m)'
        BY <4>2 DEF OneAtATime, ReadStands
      <4>4. /\ memorial[m].token \in Task \cup {NoTask}
            /\ Counting(m)' = Counting(m)
            /\ \A k \in Task : PostedWith(m, k)' = PostedWith(m, k)
        BY <1>0, <1>2, <2>3 DEF Counting, PostedWith, MemorialTables, MemorialRow
      <4> QED BY <2>3, <3>1, <3>3, <4>3, <4>4, QuotaKept DEF Fine
    <3> QED BY <3>2, <3>3
  <2> QED BY <1>0, <1>3, <2>1, <2>3, <2>4 DEF MemorialInv
<1>6. CASE MemorialCreate(t) \/ MemorialFails(t)
  <2>1. /\ memorialJob[t].pc \in {"create", "link"}
        /\ UNCHANGED crowded
        /\ \A s \in Task : s # t => memorialJob'[s] = memorialJob[s]
        /\ memorialJob'[t].pc \in {"done", "failed"}
    BY <1>0, <1>6 DEF MemorialCreate, MemorialFails, MemorialTables, MemorialJob
  <2>2. \A m \in MemorialId : /\ memorial'[m].token = memorial[m].token
                              /\ memorial'[m].quota = memorial[m].quota
    <3>1. CASE MemorialFails(t)
      BY <3>1 DEF MemorialFails
    <3>2. CASE MemorialCreate(t)
      <4> SUFFICES ASSUME NEW m \in MemorialId
                   PROVE  /\ memorial'[m].token = memorial[m].token
                          /\ memorial'[m].quota = memorial[m].quota
        OBVIOUS
      <4> DEFINE r == memorial[m]
                 d == memorialJob[t].of
      <4>1. r \in MemorialRow
        BY <1>0 DEF MemorialTables
      <4>2. memorial'[m] \in {[r EXCEPT !.made = TRUE, !.of = d],
                              [r EXCEPT !.of = NoOne], r}
        BY <3>2 DEF MemorialCreate
      <4> HIDE DEF r
      <4>3. memorial'[m].token = r.token /\ memorial'[m].quota = r.quota
        BY <4>1, <4>2 DEF MemorialRow
      <4> QED BY <4>3 DEF r
    <3> QED BY <1>6, <3>1, <3>2
  <2>3. \A m \in MemorialId \ crowded' : Fine(m)'
    BY <1>1, <1>2, <2>1, <2>2, FineJob
  <2>4. tribute[t].pc = "none"
    BY <1>1, <2>1 DEF TokensWritten
  <2>5. TokensWritten'
    BY <1>1, <1>2, <1>8, <2>1, <2>2, <2>4 DEF TokensWritten
  <2> QED BY <2>3, <2>5 DEF MemorialInv
<1>7. CASE LinkWrite(t)
  <2>0. PICK m : m = memorialJob[t].m
    OBVIOUS
  <2>1. /\ memorialJob[t].pc = "link"
        /\ m \in MemorialId
        /\ UNCHANGED crowded
        /\ \A s \in Task : s # t => memorialJob'[s] = memorialJob[s]
        /\ memorialJob'[t].pc = "done"
    BY <1>0, <1>7, <2>0 DEF LinkWrite, MemorialTables, MemorialJob
  <2>2. /\ memorial' = [memorial EXCEPT ![m].token = t, ![m].quota = LinkQuota]
        /\ memorial[m] \in MemorialRow
    BY <1>0, <1>7, <2>0, <2>1 DEF LinkWrite, MemorialTables
  <2>3. \A x \in MemorialId : x # m => memorial'[x] = memorial[x]
    BY <1>0, <2>1, <2>2 DEF MemorialTables
  <2>4. memorial'[m].token = t /\ memorial'[m].quota = LinkQuota
    BY <1>0, <2>1, <2>2 DEF MemorialTables, MemorialRow
  <2>5. tribute[t].pc = "none"
    BY <1>1, <2>1 DEF TokensWritten
  <2>6. TokensWritten'
    BY <1>1, <1>2, <1>8, <2>1, <2>3, <2>4, <2>5 DEF TokensWritten
  <2>7. ASSUME NEW x \in MemorialId \ crowded'
        PROVE  Fine(x)'
    <3>1. x \notin crowded /\ Fine(x)
      BY <1>1, <1>2
    <3>2. CASE x # m
      BY <1>2, <2>1, <2>3, <3>1, <3>2, FineJob
    <3>3. CASE x = m
      <4>1. t \in Linking(m)
        BY <2>0, <2>1 DEF Linking
      <4>2. Linking(m) = {t} /\ Paying(m) = {}
        BY <2>5, <3>1, <3>3, <4>1 DEF Fine, OneAtATime, Paying, Linking
      <4>3. Linking(m)' = {} /\ Paying(m)' = {}
        BY <1>2, <2>1, <4>2 DEF Linking, Paying
      <4>4. OneAtATime(m)' /\ ReadStands(m)'
        BY <4>3 DEF OneAtATime, ReadStands
      <4>5. Counting(m)' = {}
        BY <4>3 DEF Counting, Paying
      <4>6. PostedWith(m, t)' = {}
        <5>1. \A s \in Task : tribute[s].posted => tribute[s].pc # "none"
          BY MemorialFacts
        <5>2. \A s \in Task : tribute[s].posted => tribute[s].token # t
          BY <1>1, <2>1, <5>1 DEF TokensWritten
        <5> QED BY <1>2, <5>2 DEF PostedWith
      <4>7. \A k \in Task : PostedWith(m, k)' = PostedWith(m, k)
        BY <1>2 DEF PostedWith
      <4>8. \A k \in Task : IsFiniteSet(PostedWith(m, k)')
                            /\ Cardinality(PostedWith(m, k)') <= LinkQuota
        BY <3>1, <3>3, <4>7 DEF Fine, QuotaAddsUp
      <4>9. Cardinality(PostedWith(m, t)') = 0
        BY <4>6, FS_EmptySet
      <4>10. PostedWith(m, memorial[m].token)' = PostedWith(m, t)'
        BY <2>4 DEF PostedWith
      <4>11. QuotaAddsUp(m)'
        BY <2>4, <4>5, <4>8, <4>9, <4>10 DEF QuotaAddsUp, LinkQuota
      <4>12. TokenStands(m)'
        BY <2>4, RequestAssumption DEF TokenStands
      <4> QED BY <3>3, <4>4, <4>11, <4>12 DEF Fine
    <3> QED BY <3>2, <3>3
  <2> QED BY <2>6, <2>7 DEF MemorialInv
<1> QED BY <1>4, <1>5, <1>6, <1>7

\* Tributes.
LEMMA TributesFine ==
  ASSUME TypeInv, MemorialInv, NEW t \in Task,
         \/ \E m \in MemorialId : TributeCheck(t, m)
         \/ TributeClear(t) \/ TributePost(t) \/ TributeCount(t)
         \/ TributeFails(t)
  PROVE  MemorialInv'
<1>0. /\ MemorialTables
      /\ \A s \in Task :
           /\ tribute[s].pc # "none" => tribute[s].m \in MemorialId
           /\ tribute[s].posted => tribute[s].pc \in {"count", "done", "failed"}
           /\ kind[s] = "none" =>
                memorialJob[s].pc = "none" /\ tribute[s].pc = "none"
  BY MemorialFacts
<1>1. /\ TokensWritten
      /\ \A m \in MemorialId \ crowded : Fine(m)
  BY DEF MemorialInv
<1>2. UNCHANGED memorialJob /\ crowded \subseteq crowded'
  BY DEF TributeCheck, TributeClear, TributePost, TributeCount, TributeFails,
         Crowd
<1>3. /\ tribute[t] \in Tribute
      /\ \A m \in MemorialId : memorial[m] \in MemorialRow
  BY <1>0 DEF MemorialTables
<1>4. ASSUME NEW m \in MemorialId, TributeCheck(t, m)
      PROVE  MemorialInv'
  <2> DEFINE pc == IF memorial[m].quota < 1 THEN "clear" ELSE "post"
             k == memorial[m].token
             x == [NoTribute EXCEPT !.pc = pc, !.m = m, !.token = k]
  <2>1. /\ kind[t] = "none"
        /\ k # NoTask
        /\ tribute' = [tribute EXCEPT ![t] = x]
        /\ Crowd(m)
        /\ UNCHANGED memorial
    BY <1>4 DEF TributeCheck, Take, Due
  <2>2. k \in Task /\ pc \in {"clear", "post"}
    BY <1>3, <2>1 DEF MemorialRow
  <2>3. /\ x.pc = pc /\ x.m = m /\ x.token = k /\ x.posted = FALSE
    BY <2>2, NoMemorialType DEF Tribute
  <2>4. /\ \A s \in Task : s # t => tribute'[s] = tribute[s]
        /\ tribute'[t] = x
    BY <1>0, <2>1 DEF MemorialTables
  <2> HIDE DEF x
  <2>5. TokensWritten'
    BY <1>0, <1>1, <1>2, <2>1, <2>2, <2>3, <2>4 DEF TokensWritten
  <2>6. tribute[t].pc = "none" /\ tribute[t].posted = FALSE
    BY <1>0, <1>3, <2>1 DEF Tribute
  <2>7. \A y \in MemorialId : \A i \in Task :
          t \in PostedWith(y, i)' <=> t \in PostedWith(y, i)
    BY <2>3, <2>4, <2>6 DEF PostedWith
  <2>8. \A y \in MemorialId : t \notin Counting(y)
    BY <2>6 DEF Counting
  <2>9. ASSUME NEW y \in MemorialId \ crowded'
        PROVE  Fine(y)'
    <3>1. y \notin crowded /\ Fine(y)
      BY <1>1, <1>2
    <3>2. CASE y # m
      <4>1. t \notin Paying(y)'
        BY <2>3, <2>4, <3>2 DEF Paying
      <4> QED BY <1>2, <2>1, <2>4, <2>7, <2>8, <3>1, <4>1, FineTribute
    <3>3. CASE y = m
      <4>1. Linking(m) = {} /\ Paying(m) = {}
        BY <2>1, <3>3 DEF Crowd, Linking, Paying
      <4>2. Linking(m)' = {} /\ Paying(m)' \subseteq {t}
        BY <1>2, <2>4, <4>1 DEF Linking, Paying
      <4>3. OneAtATime(m)'
        BY <4>2 DEF OneAtATime
      <4>4. ReadStands(m)'
        BY <1>3, <2>1, <2>3, <2>4, <4>2 DEF ReadStands, MemorialRow
      <4>5. Counting(m) = {} /\ Counting(m)' = {}
        BY <2>2, <2>3, <2>4, <4>1 DEF Counting, Paying
      <4>6. \A i \in Task : PostedWith(m, i)' = PostedWith(m, i)
        BY <2>4, <2>7 DEF PostedWith
      <4> QED BY <2>1, <2>2, <3>1, <3>3, <4>3, <4>4, <4>5, <4>6, QuotaKept
              DEF Fine
    <3> QED BY <3>2, <3>3
  <2> QED BY <2>5, <2>9 DEF MemorialInv
<1>5. PICK m : m = tribute[t].m
  OBVIOUS
<1>6. PICK k : k = tribute[t].token
  OBVIOUS
<1>8. CASE TributeClear(t)
  <2>1. /\ tribute[t].pc = "clear"
        /\ memorial' = [memorial EXCEPT ![m].token = NoTask]
        /\ tribute' = [tribute EXCEPT ![t].pc = "refused"]
        /\ UNCHANGED crowded
    BY <1>5, <1>8 DEF TributeClear
  <2>2. /\ \A s \in Task : s # t => tribute'[s] = tribute[s]
        /\ tribute'[t].pc = "refused" /\ tribute'[t].m = m
        /\ tribute'[t].token = k
        /\ \A y \in MemorialId : \A i \in Task :
             PostedWith(y, i)' = PostedWith(y, i)
        /\ m \in MemorialId
    BY <1>0, <1>3, <1>5, <1>6, <2>1 DEF MemorialTables, Tribute, PostedWith
  <2>3. /\ \A y \in MemorialId : y # m => memorial'[y] = memorial[y]
        /\ memorial'[m].token = NoTask /\ memorial'[m].quota = memorial[m].quota
    BY <1>0, <1>3, <2>1, <2>2 DEF MemorialTables, MemorialRow
  <2>4. TokensWritten'
    BY <1>1, <1>2, <1>6, <2>1, <2>2, <2>3 DEF TokensWritten
  <2>5. ASSUME NEW y \in MemorialId \ crowded'
        PROVE  Fine(y)'
    <3>1. y \notin crowded /\ Fine(y)
      BY <1>1, <1>2
    <3>2. t \notin Paying(y)' /\ t \notin Counting(y)
      BY <2>1, <2>2 DEF Paying, Counting
    <3>3. CASE y # m
      BY <1>2, <2>2, <2>3, <3>1, <3>2, <3>3, FineTribute DEF PostedWith
    <3>4. CASE y = m
      <4>1. t \in Paying(m)
        BY <1>5, <2>1 DEF Paying
      <4>2. Paying(m) = {t} /\ Linking(m) \subseteq {t}
        BY <3>1, <3>4, <4>1 DEF Fine, OneAtATime, Paying, Linking
      <4>3. Paying(m)' = {} /\ Linking(m)' \subseteq {t}
        BY <1>2, <2>2, <3>2, <3>4, <4>2 DEF Paying, Linking
      <4>4. OneAtATime(m)' /\ ReadStands(m)'
        BY <4>3 DEF OneAtATime, ReadStands
      <4>5. memorial[m].quota < 1
        BY <2>1, <3>1, <3>4, <4>1 DEF Fine, ReadStands
      <4>6. TokenStands(m)'
        BY <1>3, <2>2, <2>3, <4>5 DEF TokenStands, MemorialRow
      <4>7. QuotaAddsUp(m)'
        BY <2>2, <2>3, <3>1, <3>4 DEF Fine, QuotaAddsUp
      <4> QED BY <3>4, <4>4, <4>6, <4>7 DEF Fine
    <3> QED BY <3>3, <3>4
  <2> QED BY <2>4, <2>5 DEF MemorialInv
<1>9. CASE TributePost(t)
  <2>1. /\ tribute[t].pc = "post"
        /\ tribute' = [tribute EXCEPT ![t].pc = "count", ![t].posted = TRUE]
        /\ UNCHANGED <<memorial, crowded>>
    BY <1>9 DEF TributePost
  <2>2. /\ \A s \in Task : s # t => tribute'[s] = tribute[s]
        /\ tribute'[t].pc = "count" /\ tribute'[t].m = m
        /\ tribute'[t].token = k /\ tribute'[t].posted
        /\ m \in MemorialId
    BY <1>0, <1>3, <1>5, <1>6, <2>1 DEF MemorialTables, Tribute
  <2>3. TokensWritten'
    <3>1. /\ memorialJob[t].pc = "none"
          /\ k \in Task /\ memorialJob[k].pc = "done"
      BY <1>1, <1>6, <2>1 DEF TokensWritten
    <3>2. \A s \in Task : tribute'[s].pc # "none" =>
            tribute'[s].token \in Task
            /\ memorialJob'[tribute'[s].token].pc = "done"
      BY <1>1, <1>2, <2>2, <3>1 DEF TokensWritten
    <3>3. \A s \in Task : memorialJob'[s].pc = "none" \/ tribute'[s].pc = "none"
      BY <1>1, <1>2, <2>2, <3>1 DEF TokensWritten
    <3>4. \A y \in MemorialId : memorial'[y].token # NoTask =>
            memorialJob'[memorial'[y].token].pc = "done"
      BY <1>1, <1>2, <2>1 DEF TokensWritten
    <3> QED BY <3>2, <3>3, <3>4 DEF TokensWritten
  <2>4. ~ tribute[t].posted
    BY <1>0, <2>1
  <2>5. ASSUME NEW y \in MemorialId \ crowded'
        PROVE  Fine(y)'
    <3>1. y \notin crowded /\ Fine(y)
      BY <1>1, <1>2
    <3>2. t \notin Counting(y)
      BY <2>1 DEF Counting
    <3>3. CASE y # m
      <4>1. t \notin Paying(y)'
        BY <2>2, <3>3 DEF Paying
      <4>2. \A i \in Task : t \in PostedWith(y, i)' <=> t \in PostedWith(y, i)
        BY <2>2, <2>4, <3>3 DEF PostedWith
      <4> QED BY <1>2, <2>1, <2>2, <3>1, <3>2, <4>1, <4>2, FineTribute
    <3>4. CASE y = m
      <4>1. t \in Paying(m)
        BY <1>5, <2>1 DEF Paying
      <4>2. Paying(m) = {t} /\ Linking(m) \subseteq {t}
        BY <3>1, <3>4, <4>1 DEF Fine, OneAtATime, Paying, Linking
      <4>3. Paying(m)' = {t} /\ Linking(m)' \subseteq {t}
        BY <1>2, <2>2, <4>2 DEF Paying, Linking
      <4>4. OneAtATime(m)'
        BY <4>3 DEF OneAtATime
      <4>5. k = memorial[m].token /\ memorial[m].quota >= 1
        BY <1>6, <2>1, <3>1, <3>4, <4>1 DEF Fine, ReadStands
      <4>6. ReadStands(m)'
        BY <2>1, <2>2, <4>3, <4>5 DEF ReadStands
      <4>7. TokenStands(m)'
        BY <2>1, <3>1, <3>4 DEF Fine, TokenStands
      <4>8. Counting(m) = {} /\ Counting(m)' # {}
        BY <2>1, <2>2, <4>2 DEF Counting, Paying
      <4>9. k \in Task
        BY <1>1, <1>6, <2>1 DEF TokensWritten
      <4>10. \A i \in Task : i # k => PostedWith(m, i)' = PostedWith(m, i)
        BY <2>2, <2>4 DEF PostedWith
      <4>11. PostedWith(m, k)' = PostedWith(m, k) \cup {t}
             /\ t \notin PostedWith(m, k)
        BY <2>2, <2>4 DEF PostedWith
      <4>12. IsFiniteSet(PostedWith(m, k))
        BY <3>1, <3>4, <4>9 DEF Fine, QuotaAddsUp
      <4>13. /\ IsFiniteSet(PostedWith(m, k)')
             /\ Cardinality(PostedWith(m, k)') = Cardinality(PostedWith(m, k)) + 1
        BY <4>11, <4>12, FS_AddElement
      <4>14. Cardinality(PostedWith(m, k)) + memorial[m].quota = LinkQuota
        BY <3>1, <3>4, <4>5, <4>8, <4>9, RequestAssumption
        DEF Fine, QuotaAddsUp
      <4>15. /\ Cardinality(PostedWith(m, k)) \in Nat
             /\ memorial[m].quota \in Int
        BY <1>3, <2>2, <4>12, FS_CardinalityType DEF MemorialRow
      <4>16. Cardinality(PostedWith(m, k)') <= LinkQuota
        BY <4>5, <4>13, <4>14, <4>15 DEF LinkQuota
      <4>17. \A i \in Task : IsFiniteSet(PostedWith(m, i)')
                             /\ Cardinality(PostedWith(m, i)') <= LinkQuota
        BY <3>1, <3>4, <4>10, <4>13, <4>16 DEF Fine, QuotaAddsUp
      <4>18. Cardinality(PostedWith(m, k)') + memorial[m].quota = LinkQuota + 1
        BY <4>13, <4>14, <4>15 DEF LinkQuota
      <4>19. PostedWith(m, memorial[m].token)' = PostedWith(m, k)'
        BY <2>1, <4>5 DEF PostedWith
      <4>20. QuotaAddsUp(m)'
        BY <2>1, <4>5, <4>8, <4>15, <4>17, <4>18, <4>19 DEF QuotaAddsUp
      <4> QED BY <3>4, <4>4, <4>6, <4>7, <4>20 DEF Fine
    <3> QED BY <3>3, <3>4
  <2> QED BY <2>3, <2>5 DEF MemorialInv
<1>10. CASE TributeCount(t)
  <2>1. /\ tribute[t].pc = "count"
        /\ memorial' = [memorial EXCEPT ![m].quota = memorial[m].quota - 1]
        /\ tribute' = [tribute EXCEPT ![t].pc = "done"]
        /\ UNCHANGED crowded
    BY <1>5, <1>10 DEF TributeCount
  <2>2. /\ \A s \in Task : s # t => tribute'[s] = tribute[s]
        /\ tribute'[t].pc = "done" /\ tribute'[t].m = m
        /\ tribute'[t].token = k
        /\ \A y \in MemorialId : \A i \in Task :
             PostedWith(y, i)' = PostedWith(y, i)
        /\ m \in MemorialId
    BY <1>0, <1>3, <1>5, <1>6, <2>1 DEF MemorialTables, Tribute, PostedWith
  <2>3. /\ \A y \in MemorialId : y # m => memorial'[y] = memorial[y]
        /\ memorial'[m].token = memorial[m].token
        /\ memorial'[m].quota = memorial[m].quota - 1
    BY <1>0, <1>3, <2>1, <2>2 DEF MemorialTables, MemorialRow
  <2>4. TokensWritten'
    BY <1>1, <1>2, <1>6, <2>1, <2>2, <2>3 DEF TokensWritten
  <2>5. ASSUME NEW y \in MemorialId \ crowded'
        PROVE  Fine(y)'
    <3>1. y \notin crowded /\ Fine(y)
      BY <1>1, <1>2
    <3>2. t \notin Paying(y)'
      BY <2>2 DEF Paying
    <3>3. CASE y # m
      <4>1. t \notin Counting(y)
        BY <1>5, <3>3 DEF Counting
      <4> QED BY <1>2, <2>2, <2>3, <3>1, <3>2, <3>3, <4>1, FineTribute
              DEF PostedWith
    <3>4. CASE y = m
      <4>1. t \in Paying(m) /\ t \in Counting(m)
        BY <1>5, <2>1 DEF Paying, Counting
      <4>2. Paying(m) = {t} /\ Linking(m) \subseteq {t}
        BY <3>1, <3>4, <4>1 DEF Fine, OneAtATime, Paying, Linking
      <4>3. Paying(m)' = {} /\ Linking(m)' \subseteq {t}
        BY <1>2, <2>2, <3>2, <3>4, <4>2 DEF Paying, Linking
      <4>4. OneAtATime(m)' /\ ReadStands(m)' /\ Counting(m)' = {}
        BY <4>3 DEF OneAtATime, ReadStands, Counting, Paying
      <4>5. k = memorial[m].token /\ memorial[m].quota >= 1
        BY <1>6, <2>1, <3>1, <3>4, <4>1 DEF Fine, ReadStands
      <4>6. k \in Task
        BY <1>1, <1>6, <2>1 DEF TokensWritten
      <4>7. memorial[m].quota \in Int
        BY <1>3, <2>2 DEF MemorialRow
      <4>8. TokenStands(m)'
        BY <2>3, <4>5, <4>6, RequestAssumption DEF TokenStands
      <4>9. Cardinality(PostedWith(m, k)) + memorial[m].quota = LinkQuota + 1
        BY <3>1, <3>4, <4>1, <4>5, <4>6, RequestAssumption
        DEF Fine, QuotaAddsUp
      <4>10. Cardinality(PostedWith(m, k)) \in Nat
        BY <3>1, <3>4, <4>6, FS_CardinalityType DEF Fine, QuotaAddsUp
      <4>11. PostedWith(m, memorial[m].token)' = PostedWith(m, k)
        BY <2>2, <2>3, <4>5, <4>6 DEF PostedWith
      <4>12. /\ memorial'[m].quota >= 0
             /\ Cardinality(PostedWith(m, k)) + memorial'[m].quota = LinkQuota
        BY <2>3, <4>5, <4>7, <4>9, <4>10 DEF LinkQuota
      <4>13. \A i \in Task : IsFiniteSet(PostedWith(m, i)')
                             /\ Cardinality(PostedWith(m, i)') <= LinkQuota
        BY <2>2, <3>1, <3>4 DEF Fine, QuotaAddsUp
      <4>14. QuotaAddsUp(m)'
        BY <2>3, <4>4, <4>5, <4>11, <4>12, <4>13 DEF QuotaAddsUp
      <4> QED BY <3>4, <4>4, <4>8, <4>14 DEF Fine
    <3> QED BY <3>3, <3>4
  <2> QED BY <2>4, <2>5 DEF MemorialInv
<1>11. CASE TributeFails(t)
  <2>1. /\ tribute[t].pc \in {"clear", "post", "count"}
        /\ tribute' = [tribute EXCEPT ![t].pc = "failed"]
        /\ tribute[t].pc = "count" => m \in crowded'
        /\ UNCHANGED memorial
    BY <1>5, <1>11 DEF TributeFails
  <2>2. /\ \A s \in Task : s # t => tribute'[s] = tribute[s]
        /\ tribute'[t].pc = "failed" /\ tribute'[t].m = m
        /\ tribute'[t].token = k
        /\ \A y \in MemorialId : \A i \in Task :
             PostedWith(y, i)' = PostedWith(y, i)
        /\ m \in MemorialId
    BY <1>0, <1>3, <1>5, <1>6, <2>1 DEF MemorialTables, Tribute, PostedWith
  <2>3. TokensWritten'
    BY <1>1, <1>2, <1>6, <2>1, <2>2 DEF TokensWritten
  <2>4. ASSUME NEW y \in MemorialId \ crowded'
        PROVE  Fine(y)'
    <3>1. y \notin crowded /\ Fine(y)
      BY <1>1, <1>2
    <3>2. t \notin Paying(y)' /\ t \notin Counting(y)
      BY <1>5, <2>1, <2>2 DEF Paying, Counting
    <3> QED BY <1>2, <2>1, <2>2, <3>1, <3>2, FineTribute DEF PostedWith
  <2> QED BY <2>3, <2>4 DEF MemorialInv
<1> QED BY <1>4, <1>8, <1>9, <1>10, <1>11

\* Every step of the office.
LEMMA MemorialInvKept ==
  ASSUME TypeInv, MemorialInv, [Next]_vars
  PROVE  MemorialInv'
<1>0. /\ MemorialTables
      /\ TokensWritten
      /\ \A m \in MemorialId \ crowded : Fine(m)
  BY MemorialFacts DEF MemorialInv
<1>1. ASSUME NEW t \in Task, MemorialNext(t)
      PROVE  MemorialInv'
  BY <1>1, LinksFine, TributesFine DEF MemorialNext
<1>2. CASE MemorialStops
  <2>1. \A s \in Task :
          /\ memorialJob'[s].pc \notin {"create", "link"}
          /\ memorialJob[s].pc = "done" => memorialJob'[s].pc = "done"
          /\ memorialJob[s].pc = "none" => memorialJob'[s].pc = "none"
    BY <1>0, <1>2 DEF MemorialStops, MemorialTables, MemorialJob
  <2>2. \A s \in Task :
          /\ tribute'[s].pc \notin {"clear", "post", "count"}
          /\ tribute[s].pc = "none" <=> tribute'[s].pc = "none"
          /\ tribute'[s].m = tribute[s].m
          /\ tribute'[s].token = tribute[s].token
          /\ tribute'[s].posted = tribute[s].posted
    BY <1>0, <1>2 DEF MemorialStops, MemorialTables, Tribute
  <2>3. /\ UNCHANGED memorial
        /\ crowded \subseteq crowded'
        /\ \A s \in Task : tribute[s].pc = "count" => tribute[s].m \in crowded'
    BY <1>2 DEF MemorialStops
  <2>4. \A m \in MemorialId : memorial[m].token \in Task \cup {NoTask}
    BY <1>0 DEF MemorialTables, MemorialRow
  <2>5. TokensWritten'
    BY <1>0, <2>1, <2>2, <2>3, <2>4 DEF TokensWritten
  <2>6. ASSUME NEW m \in MemorialId \ crowded'
        PROVE  Fine(m)'
    <3>1. Fine(m)
      BY <1>0, <2>3
    <3>2. Linking(m)' = {} /\ Paying(m)' = {}
      BY <2>1, <2>2 DEF Linking, Paying
    <3>3. Counting(m) = {} /\ Counting(m)' = {}
      BY <2>2, <2>3 DEF Counting
    <3>4. \A k \in Task : PostedWith(m, k)' = PostedWith(m, k)
      BY <2>2 DEF PostedWith
    <3> QED BY <2>3, <2>4, <3>1, <3>2, <3>3, <3>4, FineKept
  <2> QED BY <2>5, <2>6 DEF MemorialInv
<1>3. ASSUME UNCHANGED <<memorialJob, tribute, crowded>>,
             \A m \in MemorialId : /\ memorial'[m].token = memorial[m].token
                                   /\ memorial'[m].quota = memorial[m].quota
      PROVE  MemorialInv'
  <2>1. TokensWritten'
    BY <1>0, <1>3 DEF TokensWritten
  <2>2. ASSUME NEW m \in MemorialId \ crowded'
        PROVE  Fine(m)'
    <3>1. Fine(m) /\ memorial[m].token \in Task \cup {NoTask}
      BY <1>0, <1>3 DEF MemorialTables, MemorialRow
    <3>2. /\ Linking(m)' = Linking(m) /\ Paying(m)' = Paying(m)
          /\ Counting(m)' = Counting(m)
          /\ \A k \in Task : PostedWith(m, k)' = PostedWith(m, k)
          /\ \A t \in Paying(m)' : tribute'[t] = tribute[t]
      BY <1>3 DEF Linking, Paying, Counting, PostedWith
    <3> QED BY <1>3, <3>1, <3>2, FineKept
  <2> QED BY <2>1, <2>2 DEF MemorialInv
<1>4. ASSUME NEW t \in Task, NEW d \in Deceased, RemoveDeceased(t, d)
      PROVE  MemorialInv'
  <2>1. /\ memorial' = MemorialsWithout(d)
        /\ UNCHANGED <<memorialJob, tribute, crowded>>
    BY <1>4 DEF RemoveDeceased
  <2>2. \A m \in MemorialId : /\ memorial'[m].token = memorial[m].token
                              /\ memorial'[m].quota = memorial[m].quota
    BY <1>0, <2>1 DEF MemorialsWithout, MemorialTables, MemorialRow
  <2> QED BY <1>3, <2>1, <2>2
<1>5. CASE UNCHANGED memorialVars
  BY <1>3, <1>5 DEF memorialVars
<1> QED BY <1>1, <1>2, <1>4, <1>5, MemorialStep

\* No memorial has a token at first.
LEMMA MemorialInvInit == Init => MemorialInv
<1> SUFFICES ASSUME Init
             PROVE  MemorialInv
  OBVIOUS
<1>1. /\ \A m \in MemorialId : memorial[m].token = NoTask /\ memorial[m].quota = 0
      /\ \A t \in Task : /\ memorialJob[t].pc = "none"
                         /\ tribute[t].pc = "none"
                         /\ tribute[t].posted = FALSE
  BY DEF Init, MemorialInit, NoMemorialJob, NoTribute
<1>2. TokensWritten
  BY <1>1 DEF TokensWritten
<1>3. ASSUME NEW m \in MemorialId
      PROVE  Fine(m)
  <2>1. Linking(m) = {} /\ Paying(m) = {} /\ Counting(m) = {}
    BY <1>1 DEF Linking, Paying, Counting
  <2>2. \A k \in Task : PostedWith(m, k) = {}
    BY <1>1 DEF PostedWith
  <2>3. QuotaAddsUp(m)
    <3>1. \A k \in Task : IsFiniteSet(PostedWith(m, k))
                          /\ Cardinality(PostedWith(m, k)) <= LinkQuota
      BY <2>2, FS_EmptySet DEF LinkQuota
    <3> QED BY <1>1, <3>1 DEF QuotaAddsUp
  <2> QED BY <1>1, <2>1, <2>3 DEF Fine, OneAtATime, ReadStands, TokenStands
<1> QED BY <1>2, <1>3 DEF MemorialInv

\* A token is good for LinkQuota tributes and no more, on a memorial no two
\* requests crowd, whatever fails and however often the process stops
\* (homage.service.ts, create; memorial.service.ts, grantPermission).
THEOREM TokensWithinQuota == Spec => []AloneWithinQuota
<1>1. TypeInv /\ MemorialInv => AloneWithinQuota
  <2> SUFFICES ASSUME TypeInv, MemorialInv, NEW s \in Task,
                      tribute[s].posted, tribute[s].m \notin crowded
               PROVE  Cardinality(PostedWith(tribute[s].m, tribute[s].token))
                        <= LinkQuota
    BY DEF AloneWithinQuota, PostedWith
  <2>1. tribute[s].pc # "none" /\ tribute[s].m \in MemorialId
    BY MemorialFacts
  <2>2. tribute[s].token \in Task
    BY <2>1 DEF MemorialInv, TokensWritten
  <2> QED BY <2>1, <2>2 DEF MemorialInv, Fine, QuotaAddsUp
<1> QED BY <1>1, Typed, MemorialInvInit, MemorialInvKept, PTL DEF Spec

\* While some of its quota is left, the token of such a memorial is not cleared
\* (homage.service.ts, create).
THEOREM TokensNotClearedEarly == Spec => []AloneTokenStands
<1>1. MemorialInv => AloneTokenStands
  BY DEF MemorialInv, Fine, TokenStands, AloneTokenStands
<1> QED BY <1>1, Typed, MemorialInvInit, MemorialInvKept, PTL DEF Spec

===============================================================================
