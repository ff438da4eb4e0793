-------------------------------- MODULE Contract --------------------------------
(***************************************************************************)
(* The contract of a sale: generated as a PDF, uploaded to the signing     *)
(* service (D4Sign), signed or rejected there, and reported back by a      *)
(* webhook.                                                                *)
(*                                                                         *)
(* The upload is started and not awaited: it goes on beside the rest of    *)
(* the request, and when it fails nobody handles its rejection, so the     *)
(* process stops (see Desk).  The document is sent out before it is        *)
(* stored, so the signature may come back first.                           *)
(***************************************************************************)
EXTENDS OwnerRows

VARIABLES
  contract,    \* Task -> a contract request, its document and its webhook
  flagged,     \* vaults with pendingSubscription
  enabled,     \* Assignee -> Assignee.status
  byHand       \* history: assignees whose status was last written TRUE by hand

contractVars == <<contract, flagged, enabled, byHand>>

Upload == {"none", "post", "invite", "status", "store", "stored", "stopped"}

Hook == {"none", "mark", "person", "row", "confirmed", "ignored", "failed"}

ContractRecord ==
  [who    : Assignee \cup {NoAssignee},  \* Documents.assigneeId
   valt   : Valt \cup {NoValt},          \* the vault, until it is flagged
   upload : Upload,                      \* how far the upload got
   paper  : {"none", "out", "sent", "Signed", "Rejected"},  \* at D4Sign
   hooked : BOOLEAN,                     \* the webhook is registered
   filed  : {"none", "PENDENTE", "ASSINADO", "REJEITADO"},  \* Documents
   hook   : Hook]                        \* the call of the webhook

NoContract == [who |-> NoAssignee, valt |-> NoValt, upload |-> "none",
               paper |-> "none", hooked |-> FALSE,
               filed |-> "none", hook |-> "none"]

ContractTypeOK ==
  /\ contract \in [Task -> ContractRecord]
  /\ \A t \in Task :
       contract[t].upload # "none" => contract[t].who \in Assignee
  /\ flagged \subseteq valts
  /\ enabled \in [Assignee -> BOOLEAN]
  /\ byHand \subseteq Assignee

ContractInit ==
  /\ contract = [t \in Task |-> NoContract]
  /\ flagged = {}
  /\ enabled = [a \in Assignee |-> TRUE]
  /\ byHand = {}

(***************************************************************************)
(* The request                                                             *)
(***************************************************************************)

\* The PDF of a sale (VENDA_JAZIGO) is made of what was read of the assignee
\* and the vault, and its upload is started.
GenerateContract(t, a, v) ==
  /\ Take(t, "contract")
  /\ a \in assignees
  /\ v \in valts
  /\ contract' = [contract EXCEPT ![t] =
       [NoContract EXCEPT !.who = a, !.valt = v, !.upload = "post"]]
  /\ UNCHANGED <<flagged, enabled, byHand, rowVars>>

MutantFlagValt(t) ==
  /\ contract[t].valt # NoValt
  /\ contract' = [contract EXCEPT ![t].valt = NoValt]
  /\ flagged' = flagged \cup {contract[t].valt}
  /\ UNCHANGED <<enabled, byHand, rowVars, requestVars>>

\* The answer is the PDF, or empty when the vault is gone; the upload does
\* not matter to it.
FlagValt(t) ==
  /\ contract[t].valt # NoValt
  /\ contract' = [contract EXCEPT ![t].valt = NoValt]
  /\ flagged' = flagged \cup ({contract[t].valt} \cap valts)
  /\ UNCHANGED <<enabled, byHand, rowVars, requestVars>>

(***************************************************************************)
(* The upload                                                              *)
(***************************************************************************)
PostDocument(t) ==
  /\ contract[t].upload = "post"
  /\ contract' = [contract EXCEPT ![t].upload = "invite", ![t].paper = "out"]
  /\ UNCHANGED <<flagged, enabled, byHand, rowVars, requestVars>>

\* The webhook, the list of signers and the invitation each may fail; these
\* errors are logged and the upload goes on.
InviteSigner(t) ==
  /\ contract[t].upload = "invite"
  /\ \E hooked \in BOOLEAN, paper \in {"out", "sent"} :
       contract' = [contract EXCEPT ![t].upload = "status",
                                    ![t].hooked = hooked, ![t].paper = paper]
  /\ UNCHANGED <<flagged, enabled, byHand, rowVars, requestVars>>

MutantStatusKept(t) ==
  /\ contract[t].upload = "status"
  /\ contract[t].who \in assignees
  /\ contract' = [contract EXCEPT ![t].upload = "store"]
  /\ UNCHANGED <<flagged, enabled, byHand, rowVars, requestVars>>

DisableAssignee(t) ==
  /\ contract[t].upload = "status"
  /\ contract[t].who \in assignees
  /\ enabled' = [enabled EXCEPT ![contract[t].who] = FALSE]
  /\ byHand' = byHand \ {contract[t].who}
  /\ contract' = [contract EXCEPT ![t].upload = "store"]
  /\ UNCHANGED <<flagged, rowVars, requestVars>>

StoreDocument(t) ==
  /\ contract[t].upload = "store"
  /\ contract[t].who \in assignees
  /\ contract' = [contract EXCEPT ![t].upload = "stored",
                                  ![t].filed = "PENDENTE"]
  /\ UNCHANGED <<flagged, enabled, byHand, rowVars, requestVars>>

\* Where an upload may throw: the post and the two writes.
UploadThrows(t) ==
  contract[t].upload \in {"post", "status", "store"}

(***************************************************************************)
(* The signer and the webhook                                              *)
(***************************************************************************)
Decide(t) ==
  /\ contract[t].paper = "sent"
  /\ \E d \in {"Signed", "Rejected"} :
       contract' = [contract EXCEPT ![t].paper = d]
  /\ UNCHANGED <<flagged, enabled, byHand, rowVars, requestVars>>

\* A call of the webhook, the first or one after a call that was not answered
\* with 200.  A document that is not on file is answered with 200 and dropped.
HookCalled(t) ==
  /\ contract[t].hooked
  /\ contract[t].paper \in {"Signed", "Rejected"}
  /\ contract[t].hook \in {"none", "failed"}
  /\ contract' = [contract EXCEPT ![t].hook =
       IF contract[t].filed = "none" THEN "ignored" ELSE "mark"]
  /\ UNCHANGED <<flagged, enabled, byHand, rowVars, requestVars>>

MutantMarkRejected(t) ==
  /\ contract[t].hook = "mark"
  /\ contract' = [contract EXCEPT
       ![t].filed = IF contract[t].paper = "Signed" THEN "ASSINADO"
                    ELSE "REJEITADO",
       ![t].hook = "person"]
  /\ UNCHANGED <<flagged, enabled, byHand, rowVars, requestVars>>

\* Three writes, each of its own.
MarkDocument(t) ==
  /\ contract[t].hook = "mark"
  /\ contract' = [contract EXCEPT
       ![t].filed = IF contract[t].paper = "Signed" THEN "ASSINADO"
                    ELSE "REJEITADO",
       ![t].hook = IF contract[t].paper = "Signed" THEN "person"
                   ELSE "confirmed"]
  /\ UNCHANGED <<flagged, enabled, byHand, rowVars, requestVars>>

EnableAssignee(t) ==
  /\ contract[t].hook = "person"
  /\ contract[t].who \in assignees
  /\ enabled' = [enabled EXCEPT ![contract[t].who] = TRUE]
  /\ byHand' = byHand \ {contract[t].who}
  /\ contract' = [contract EXCEPT ![t].hook = "row"]
  /\ UNCHANGED <<flagged, rowVars, requestVars>>

MutantActivateQuietly(t) ==
  /\ contract[t].hook = "row"
  /\ owner' = [r \in Assignee |->
                 [owner[r] EXCEPT !.isActive =
                    @ \/ owner[r].assignee = contract[t].who]]
  /\ contract' = [contract EXCEPT ![t].hook = "confirmed"]
  /\ UNCHANGED <<assignees, valts, held, flagged, enabled, byHand,
                 requestVars>>

\* The row that names the assignee by now: without one the update throws.
ActivateRow(t) ==
  /\ contract[t].hook = "row"
  /\ \E r \in RowsOf(contract[t].who) :
       owner' = [owner EXCEPT ![r].isActive = TRUE]
  /\ contract' = [contract EXCEPT ![t].hook = "confirmed"]
  /\ UNCHANGED <<assignees, valts, held, flagged, enabled, byHand,
                 requestVars>>

\* A write of the webhook throws and the call is answered with 500.
HookFails(t) ==
  /\ contract[t].hook \in {"mark", "person", "row"}
  /\ contract' = [contract EXCEPT ![t].hook = "failed"]
  /\ UNCHANGED <<flagged, enabled, byHand, rowVars, requestVars>>

\* An assignee is switched on or off with the rest of what is on file of him.
SwitchByHand(a, on) ==
  /\ enabled' = [enabled EXCEPT ![a] = on]
  /\ byHand' = IF on THEN byHand \cup {a} ELSE byHand \ {a}
  /\ UNCHANGED <<contract, flagged>>

\* What is left of the contracts when the process stops.
ContractsAfterStop ==
  [t \in Task |->
     [contract[t] EXCEPT
        !.valt = NoValt,
        !.upload = IF @ \in {"none", "stored"} THEN @ ELSE "stopped",
        !.hook = IF @ \in {"mark", "person", "row"} THEN "failed" ELSE @]]

ContractNext(t) ==
  \/ /\ Due(t, "contract")
     /\ \E a \in Assignee, v \in Valt : GenerateContract(t, a, v)
  \/ FlagValt(t)
  \/ PostDocument(t)
  \/ InviteSigner(t)
  \/ DisableAssignee(t)
  \/ StoreDocument(t)
  \/ Decide(t)
  \/ HookCalled(t)
  \/ MarkDocument(t)
  \/ EnableAssignee(t)
  \/ ActivateRow(t)
  \/ HookFails(t)

(***************************************************************************)
(* Properties                                                              *)
(***************************************************************************)

\* An owner row is active only if somebody it named signed a contract: no
\* rejection, failed call or sale of the row makes it active.  (It stays
\* active when it is handed to a buyer who has signed nothing.)
ActiveBySignature ==
  \A r \in Assignee : owner[r].isActive =>
    \E t \in Task, v \in Valt :
      contract[t].paper = "Signed" /\ <<r, contract[t].who, v>> \in held

\* A signature whose webhook was carried out and answered with 200 shows on the
\* document and on a row the signer has held; a call that dropped it had come
\* before the document was stored.
SignatureApplied ==
  \A t \in Task : contract[t].hook = "confirmed" =>
    IF contract[t].paper = "Signed"
      THEN /\ contract[t].filed = "ASSINADO"
           /\ \E r \in Assignee, v \in Valt :
                owner[r].isActive /\ <<r, contract[t].who, v>> \in held
      ELSE contract[t].filed = "REJEITADO"

\* An assignee whose documents on file all wait for a signature is switched
\* off, whatever uploads and webhooks of his overlap, unless it was by hand that
\* he was switched on, and no upload has switched him off since.
PendingIsDisabled ==
  \A a \in assignees \ byHand :
    LET stored == { t \in Task : contract[t].who = a
                                 /\ contract[t].filed # "none" } IN
    stored # {} /\ (\A t \in stored : contract[t].filed = "PENDENTE")
      => ~ enabled[a]

===============================================================================
