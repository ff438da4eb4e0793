-------------------------------- MODULE Funeral --------------------------------
(***************************************************************************)
(* Reservations of rooms for funerals (wakes).  A reservation checks and   *)
(* writes in one transaction, read committed, so that two may both see a   *)
(* room free.  Finishing a funeral sets its end to now.  Reservations are  *)
(* never cancelled, and no room is ever set free again.  The status of the *)
(* deceased, which a reservation writes too, is no column here: it comes   *)
(* from the forms of DeceasedsService as well, and nobody reads it.        *)
(***************************************************************************)
EXTENDS Departed

CONSTANTS
  Room,     \* ids of table FuneralRooms
  NoRoom,
  MaxTime   \* the bound of the clock, in slots

ASSUME RoomAssumption == NoRoom \notin Room /\ MaxTime \in Nat

VARIABLES
  funeral,   \* Task -> a reservation and the row it made
  now,       \* the clock
  prepared,  \* rooms with status EM_PREPARACAO
  sideBySide,\* history: rooms two of whose reservations overlapped
  late       \* history: funerals finished after their end

funeralVars == <<funeral, now, prepared, sideBySide, late>>

NoFuneral == [pc |-> "none", of |-> NoOne, room |-> NoRoom,
              start |-> 0, end |-> 0]

FuneralTypeOK ==
  /\ funeral \in [Task ->
       [pc    : {"none", "commit", "booked", "failed"},
        of    : Deceased \cup {NoOne},
        room  : Room \cup {NoRoom},
        start : 0..MaxTime,
        end   : 0..MaxTime]]
  /\ now \in 0..MaxTime
  /\ prepared \subseteq Room
  /\ sideBySide \subseteq Room
  /\ late \subseteq Task

\* A room is entered with any status.
FuneralInit ==
  /\ funeral = [t \in Task |-> NoFuneral]
  /\ now = 0
  /\ prepared \in IF Asked[scene]["funeral"] > 0 THEN SUBSET Room ELSE {{}}
  /\ sideBySide = {}
  /\ late = {}

Booked == { t \in Task : funeral[t].pc = "booked" }

\* The clock stands still in a scene without funerals.
Tick ==
  /\ Asked[scene]["funeral"] > 0
  /\ now < MaxTime
  /\ now' = now + 1
  /\ UNCHANGED <<funeral, prepared, sideBySide, late, known, requestVars>>

\* The column finished does not matter, and ends that touch overlap.
MutantTaken(room, start, end) ==
  \E t \in Booked : /\ funeral[t].room = room
                    /\ funeral[t].start <= start
                    /\ funeral[t].end >= start

Taken(room, start, end) ==
  \E t \in Booked : /\ funeral[t].room = room
                    /\ funeral[t].start <= end
                    /\ funeral[t].end >= start

ReserveCheck(t, d, room, start, end) ==
  /\ Take(t, "funeral")
  /\ start < end
  /\ start >= now
  /\ ~ Taken(room, start, end)
  /\ \A s \in Booked : funeral[s].of # d
  /\ funeral' = [funeral EXCEPT ![t] =
       [pc |-> "commit", of |-> d, room |-> room, start |-> start,
        end |-> end]]
  /\ sideBySide' = sideBySide \cup { x \in {room} : \E s \in Task :
                     funeral[s].pc = "commit" /\ funeral[s].room = room }
  /\ UNCHANGED <<now, prepared, late, known>>

ReserveCommit(t) ==
  LET f == funeral[t] IN
  /\ f.pc = "commit"
  /\ f.of \in known
  /\ \A s \in Booked : funeral[s].of # f.of
  /\ funeral' = [funeral EXCEPT ![t].pc = "booked"]
  /\ prepared' = prepared \cup {f.room}
  /\ UNCHANGED <<now, sideBySide, late, known, requestVars>>

\* The transaction rolls back.
ReserveFails(t) ==
  /\ funeral[t].pc = "commit"
  /\ funeral' = [funeral EXCEPT ![t] = [NoFuneral EXCEPT !.pc = "failed"]]
  /\ UNCHANGED <<now, prepared, sideBySide, late, known, requestVars>>

Finish(t) ==
  /\ t \in Booked
  /\ funeral' = [funeral EXCEPT ![t].end = now]
  /\ late' = late \cup { x \in {t} : now > funeral[t].end }
  /\ UNCHANGED <<now, prepared, sideBySide, known, requestVars>>

FuneralsAfterStop ==
  [t \in Task |-> IF funeral[t].pc = "commit"
                    THEN [NoFuneral EXCEPT !.pc = "failed"] ELSE funeral[t]]

FuneralNext(t) ==
  \/ /\ Due(t, "funeral")
     /\ \E d \in Deceased, room \in Room, start, end \in 0..MaxTime :
          ReserveCheck(t, d, room, start, end)
  \/ ReserveCommit(t)
  \/ ReserveFails(t)
  \/ Finish(t)

(***************************************************************************)
(* Properties                                                              *)
(***************************************************************************)

\* Two funerals of one room do not overlap, unless reservations of the room ran
\* side by side or one of the two was finished after its end.
RoomsNotShared ==
  \A s, t \in Booked \ late :
    s # t /\ funeral[s].room = funeral[t].room
          /\ funeral[s].room \notin sideBySide
      => \/ funeral[s].start > funeral[t].end
         \/ funeral[s].end < funeral[t].start

\* A funeral that is booked is the only one of its deceased, who stays on file
\* for it, and its room stays EM_PREPARACAO, also when reservations for one
\* deceased ran side by side and removals came between.
FuneralsStand ==
  \A t \in Booked :
    /\ funeral[t].of \in known
    /\ funeral[t].room \in prepared
    /\ \A s \in Booked : funeral[s].of = funeral[t].of => s = t

===============================================================================
