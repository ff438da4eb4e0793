-------------------------------- MODULE Memorial --------------------------------
(***************************************************************************)
(* Memorials and their tributes (homages).  A link that is sent to the     *)
(* family carries a token with which LinkQuota tributes may be left; a     *)
(* tribute looks at the quota, is written, and is counted, each step of    *)
(* its own.                                                                *)
(*                                                                         *)
(* Memorials are never removed: DELETE /memorial/:id hands the id on as a  *)
(* string, which the look-up refuses.  generatePermissionToken has no      *)
(* caller.                                                                 *)
(***************************************************************************)
EXTENDS Departed

LinkQuota == 3

VARIABLES
  memorial,    \* id -> the memorial: made by a burial or by a task
  memorialJob, \* Task -> a request to make a memorial or to send a link
  tribute,     \* Task -> a tribute
  crowded      \* history: memorials two of whose requests overlapped, or one
               \* of whose tributes was cut before it was counted

memorialVars == <<memorial, memorialJob, tribute, crowded>>

MemorialId == Deceased \cup Task

NoMemorialJob == [pc |-> "none", of |-> NoOne, m |-> NoTask]

NoTribute == [pc |-> "none", m |-> NoTask, token |-> NoTask, posted |-> FALSE]

MemorialTypeOK ==
  /\ memorial \in [MemorialId ->
       [made  : BOOLEAN,
        of    : Deceased \cup {NoOne},  \* Memorial.deceasedId
        token : Task \cup {NoTask},     \* permissionToken: the link's task
        quota : Int]]                   \* createHomageQuantity
  /\ memorialJob \in [Task ->
       [pc : {"none", "create", "link", "done", "failed"},
        of : Deceased \cup {NoOne},
        m  : MemorialId \cup {NoTask}]]
  /\ tribute \in [Task ->
       [pc     : {"none", "clear", "post", "count", "refused", "done",
                  "failed"},
        m      : MemorialId \cup {NoTask},
        token  : Task \cup {NoTask},
        posted : BOOLEAN]]              \* the homage is there
  /\ crowded \subseteq MemorialId

MemorialInit ==
  /\ memorial = [m \in MemorialId |->
       [made |-> m \in Born, of |-> IF m \in Born THEN m ELSE NoOne,
        token |-> NoTask, quota |-> 0]]
  /\ memorialJob = [t \in Task |-> NoMemorialJob]
  /\ tribute = [t \in Task |-> NoTribute]
  /\ crowded = {}

MemorialsOf(d) == { m \in MemorialId : memorial[m].made /\ memorial[m].of = d }

\* A request on m begins while another is under way.
Crowd(m) ==
  crowded' = crowded \cup { x \in {m} : \E s \in Task :
               \/ memorialJob[s].pc = "link" /\ memorialJob[s].m = m
               \/ tribute[s].pc \in {"clear", "post", "count"}
                  /\ tribute[s].m = m }

(***************************************************************************)
(* Memorials and links                                                     *)
(***************************************************************************)
MemorialCheck(t, d) ==
  /\ Take(t, "memorial")
  /\ MemorialsOf(d) = {}
  /\ memorialJob' = [memorialJob EXCEPT ![t] =
                       [NoMemorialJob EXCEPT !.pc = "create", !.of = d]]
  /\ UNCHANGED <<memorial, tribute, crowded, known>>

\* A memorial that was made meanwhile is taken off the deceased.
MemorialCreate(t) ==
  LET d == memorialJob[t].of IN
  /\ memorialJob[t].pc = "create"
  /\ d \in known
  /\ memorial' = [m \in MemorialId |->
       IF m = t THEN [memorial[t] EXCEPT !.made = TRUE, !.of = d]
       ELSE IF memorial[m].of = d THEN [memorial[m] EXCEPT !.of = NoOne]
       ELSE memorial[m]]
  /\ memorialJob' = [memorialJob EXCEPT ![t].pc = "done"]
  /\ UNCHANGED <<tribute, crowded, known, requestVars>>

LinkCheck(t, d) ==
  /\ Take(t, "grant")
  /\ d \in known
  /\ \E m \in MemorialsOf(d) :
       /\ memorialJob' = [memorialJob EXCEPT ![t] =
                            [NoMemorialJob EXCEPT !.pc = "link", !.m = m]]
       /\ Crowd(m)
  /\ UNCHANGED <<memorial, tribute, known>>

\* A new token replaces the one before, with a full quota.
LinkWrite(t) ==
  /\ memorialJob[t].pc = "link"
  /\ memorial' = [memorial EXCEPT ![memorialJob[t].m].token = t,
                                  ![memorialJob[t].m].quota = LinkQuota]
  /\ memorialJob' = [memorialJob EXCEPT ![t].pc = "done"]
  /\ UNCHANGED <<tribute, crowded, known, requestVars>>

\* The deceased is gone, or the database fails.
MemorialFails(t) ==
  /\ memorialJob[t].pc \in {"create", "link"}
  /\ memorialJob' = [memorialJob EXCEPT ![t].pc = "failed"]
  /\ UNCHANGED <<memorial, tribute, crowded, known, requestVars>>

(***************************************************************************)
(* Tributes                                                                *)
(***************************************************************************)
MutantTributeCheck(t, m) ==
  /\ Take(t, "tribute")
  /\ memorial[m].made
  /\ memorial[m].token # NoTask
  /\ tribute' = [tribute EXCEPT ![t] =
       [NoTribute EXCEPT !.pc = IF memorial[m].quota <= 1 THEN "clear"
                                ELSE "post",
                         !.m = m, !.token = memorial[m].token]]
  /\ Crowd(m)
  /\ UNCHANGED <<memorial, memorialJob, known>>

TributeCheck(t, m) ==
  /\ Take(t, "tribute")
  /\ memorial[m].made
  /\ memorial[m].token # NoTask
  /\ tribute' = [tribute EXCEPT ![t] =
       [NoTribute EXCEPT !.pc = IF memorial[m].quota < 1 THEN "clear"
                                ELSE "post",
                         !.m = m, !.token = memorial[m].token]]
  /\ Crowd(m)
  /\ UNCHANGED <<memorial, memorialJob, known>>

\* The token of the memorial is cleared, whichever it has by now.
TributeClear(t) ==
  /\ tribute[t].pc = "clear"
  /\ memorial' = [memorial EXCEPT ![tribute[t].m].token = NoTask]
  /\ tribute' = [tribute EXCEPT ![t].pc = "refused"]
  /\ UNCHANGED <<memorialJob, crowded, known, requestVars>>

TributePost(t) ==
  /\ tribute[t].pc = "post"
  /\ tribute' = [tribute EXCEPT ![t].pc = "count", ![t].posted = TRUE]
  /\ UNCHANGED <<memorial, memorialJob, crowded, known, requestVars>>

MutantTributeCount(t) ==
  /\ tribute[t].pc = "count"
  /\ tribute' = [tribute EXCEPT ![t].pc = "done"]
  /\ UNCHANGED <<memorial, memorialJob, crowded, known, requestVars>>

TributeCount(t) ==
  /\ tribute[t].pc = "count"
  /\ memorial' = [memorial EXCEPT ![tribute[t].m].quota = @ - 1]
  /\ tribute' = [tribute EXCEPT ![t].pc = "done"]
  /\ UNCHANGED <<memorialJob, crowded, known, requestVars>>

\* A tribute that was written stays when the count of it fails.
TributeFails(t) ==
  /\ tribute[t].pc \in {"clear", "post", "count"}
  /\ tribute' = [tribute EXCEPT ![t].pc = "failed"]
  /\ crowded' = crowded \cup
       { m \in {tribute[t].m} : tribute[t].pc = "count" }
  /\ UNCHANGED <<memorial, memorialJob, known, requestVars>>

\* The foreign key of a memorial is set to NULL with its deceased.
MemorialsWithout(d) ==
  [m \in MemorialId |-> [memorial[m] EXCEPT !.of = IF @ = d THEN NoOne ELSE @]]

MemorialStops ==
  /\ memorialJob' = [t \in Task |-> [memorialJob[t] EXCEPT
       !.pc = IF @ \in {"create", "link"} THEN "failed" ELSE @]]
  /\ tribute' = [t \in Task |-> [tribute[t] EXCEPT
       !.pc = IF @ \in {"clear", "post", "count"} THEN "failed" ELSE @]]
  /\ crowded' = crowded \cup
       { tribute[t].m : t \in { s \in Task : tribute[s].pc = "count" } }
  /\ UNCHANGED memorial

MemorialNext(t) ==
  \/ \E d \in Deceased : MemorialCheck(t, d) \/ LinkCheck(t, d)
  \/ Due(t, "tribute") /\ \E m \in MemorialId : TributeCheck(t, m)
  \/ MemorialCreate(t)
  \/ LinkWrite(t)
  \/ MemorialFails(t)
  \/ TributeClear(t)
  \/ TributePost(t)
  \/ TributeCount(t)
  \/ TributeFails(t)

(***************************************************************************)
(* Properties                                                              *)
(***************************************************************************)

\* Unless requests on a memorial overlap, or a tribute is cut before it is
\* counted, no token is good for more tributes than its quota.
AloneWithinQuota ==
  \A s \in Task : tribute[s].posted /\ tribute[s].m \notin crowded =>
    Cardinality({ t \in Task : /\ tribute[t].posted
                               /\ tribute[t].m = tribute[s].m
                               /\ tribute[t].token = tribute[s].token })
      <= LinkQuota

\* With the same proviso, a token is not cleared before its quota is used up.
\* (A late refusal clears the token of a link that was sent since.)
AloneTokenStands ==
  \A m \in MemorialId \ crowded :
    memorial[m].quota > 0 => memorial[m].token # NoTask

===============================================================================
