------------------------ MODULE ApprovalQueueHistory ------------------------
(***************************************************************************)
(* The approval queue with history variables: the decisions the API         *)
(* acknowledged with 200 and the submissions an operator deleted, each with *)
(* whether another request held the same submission at that moment.         *)
(***************************************************************************)
EXTENDS ApprovalQueueLedger

VARIABLES
    acks,       \* the acknowledged reviews; alone: nobody held the submission when it landed
    withdrawn,  \* the deleted submissions; held: a handler was about to open their file
    contested   \* the writers waiting to answer that did not land alone

historyVars == <<file, req, persistence, clock, given, acks, withdrawn, contested>>

(* Slot s has yet to write to item i a version of submission t. *)
Holds(s, i, t) ==
    req[s].pc \in {"opening", "writing"} /\ req[s].job.item = i /\ req[s].out.at = t

(* The bytes of s land beside another version of its submission, or nowhere. *)
Overlapped(s) ==
    \/ req[s].pc = "unlinked"
    \/ \E t \in Slots \ {s} : Holds(t, req[s].job.item, req[s].out.at)

AckedNow ==
    {[item |-> req[s].job.item, at |-> req[s].out.at, decision |-> req[s].job.decision,
      role |-> req[s].job.role, alone |-> s \notin contested] :
        s \in {t \in Slots : /\ req[t].pc = "closing" /\ req[t].job.op = "review"
                             /\ Answer(t)}}

WithdrawnNow ==
    {[item |-> i, at |-> file[i].at,
      held |-> \E s \in Slots : req[s].pc = "opening" /\ Holds(s, i, file[i].at)] :
        i \in {j \in Items : Readable(file[j]) /\ file'[j] = Absent}}

(* A writer waits to answer from the landing of its bytes to its answer.     *)
RecordLanding ==
    contested' = {s \in Slots : /\ req'[s].pc = "closing"
                               /\ IF req[s].pc = "closing" THEN s \in contested
                                                           ELSE Overlapped(s)}

Record ==
    /\ acks' = acks \cup AckedNow
    /\ withdrawn' = withdrawn \cup WithdrawnNow
    /\ RecordLanding

HistoryInit == Init /\ acks = {} /\ withdrawn = {} /\ contested = {}

HistorySpec == HistoryInit /\ [][Next /\ Record]_historyVars

SerialHistorySpec == HistoryInit /\ [][SerialNext /\ Record]_historyVars
-----------------------------------------------------------------------------
(* A rejection the API acknowledged is final for the submission it was given *)
(* to: a rejected item leaves that state only by being submitted again.      *)
RejectionsStand ==
    \A d \in acks :
        (d.decision = "reject" /\ Readable(file[d.item]) /\ file[d.item].at = d.at)
            => file[d.item].state = Rejected

(* An approval the API acknowledged stays recorded with the submission it    *)
(* was given to, so two acknowledged approvals do approve an item.           *)
ApprovalsStand ==
    \A d \in acks :
        (d.decision = "approve" /\ Readable(file[d.item]) /\ file[d.item].at = d.at)
            => \E a \in file[d.item].approvals : a.role = d.role

(* With any number of requests in flight, an acknowledged decision is lost   *)
(* in one way only: when its bytes landed another request held a version of  *)
(* the same submission made before it (or the file had been deleted under    *)
(* it).  A decision that landed alone is in every later version: a rejection *)
(* keeps the item rejected, an approval stays recorded, through reviews that *)
(* overlap each other, torn and failed writes, deletions and restarts.       *)
LostOnlyToOverlap ==
    \A d \in acks :
        (d.alone /\ Readable(file[d.item]) /\ file[d.item].at = d.at)
            => IF d.decision = "reject"
               THEN file[d.item].state = Rejected
               ELSE \E a \in file[d.item].approvals : a.role = d.role

(* A submission deleted as the rollback path says, at any moment, comes back *)
(* in one way only: a review had read it and not yet opened its file when it *)
(* was deleted.  One that had the file open writes to the deleted inode.     *)
ReturnsOnlyIfHeld ==
    \A w \in withdrawn :
        (Readable(file[w.item]) /\ file[w.item].at = w.at) => w.held

(* An approval recorded by mistake can be undone by a rejection: a review    *)
(* that rejects an approved item is accepted.                                *)
MistakesCanBeRejected ==
    [][\A s \in Slots :
         (/\ ReadForReview(s)
          /\ req[s].job.decision = "reject"
          /\ file[req[s].job.item].state = Approved) => req'[s].pc = "opening"]_vars
=============================================================================
