---------------------------- MODULE ApprovalQueue ----------------------------
(***************************************************************************)
(* The RAG approval queue of packages/rag/src/approvalQueue.ts as the HTTP  *)
(* API serves it: one JSON file per queue item, and handlers that run       *)
(* concurrently because each of them awaits its file operations.  A handler *)
(* is split exactly at its awaits:                                          *)
(*                                                                          *)
(*   submit:  Receive -> (mkdir, open "w") -> write                         *)
(*   review:  Receive -> readFile + decide -> open "w" -> write             *)
(*   plan:    Receive -> readFile + answer                                  *)
(*                                                                          *)
(* fs.writeFile is not atomic: open truncates the file at once, the bytes   *)
(* land later.  Two writers that both truncated before either wrote leave   *)
(* the later bytes over the earlier ones, which is not JSON when the later  *)
(* artifact is the shorter.                                                 *)
(***************************************************************************)
EXTENDS Naturals, FiniteSets

CONSTANTS
    Drafts,          \* validation requests (tenant, file name, markdown) an author may submit
    AcceptedDrafts,  \* the drafts validateRagDocumentIntake accepts
    Items,           \* queueItemId values, each the name of one JSON file
    ItemOf,          \* ItemOf[d]: the id derived from the validation hash of d
    Roles,           \* role strings a review may carry
    RequiredRoles,   \* ["rag-owner", "cluster-sre"] in the code
    Reviewers,
    Slots,           \* requests the server can hold at once
    MaxSubmissions   \* bound on persisted submissions received (the model's clock)

\* The hash covers the redacted and truncated chunk previews, not the markdown,
\* so ItemOf need not be injective.
ASSUME ItemOfType == ItemOf \in [Drafts -> Items]
ASSUME AcceptedDraftsType == AcceptedDrafts \subseteq Drafts
ASSUME RequiredRolesType == RequiredRoles \subseteq Roles /\ RequiredRoles # {}
ASSUME MaxSubmissionsType == MaxSubmissions \in Nat

VARIABLES
    file,         \* what the file of each item holds
    req,          \* the request in each slot, and how far its handler is
    persistence,  \* CYWELL_OPSLENS_RAG_APPROVAL_QUEUE_PERSISTENCE, read per call
    clock,        \* source of generatedAt: identifies a submission
    given         \* history: approvals some reviewer gave, with the submission read

vars == <<file, req, persistence, clock, given>>
-----------------------------------------------------------------------------
Pending  == "pending-human-approval"
Approved == "approved-for-ingestion"
Rejected == "rejected-by-reviewer"

Approval   == [role : Roles, approver : Reviewers]
Submission == [draft : Drafts, at : Nat, state : {Pending, Approved, Rejected},
               approvals : SUBSET Approval]

Absent  == [state |-> "absent"]    \* ENOENT
Empty   == [state |-> "empty"]     \* truncated, not yet written
Garbage == [state |-> "garbage"]   \* bytes that are not one JSON artifact

FileContent == Submission \cup {Absent, Empty, Garbage}

\* JSON.parse of the file succeeds.
Readable(f) == f.state \in {Pending, Approved, Rejected}

SubmitJob == [op : {"submit"}, item : Items]
ReviewJob == [op : {"review"}, item : Items, decision : {"approve", "reject"},
              role : Roles, reviewer : Reviewers]
PlanJob   == [op : {"plan"}, item : Items]

Idle    == [pc |-> "idle"]
Reading == [pc : {"reading"}, job : ReviewJob \cup PlanJob]
Saving  == [pc : {"opening", "writing", "unlinked", "closing"},
            job : SubmitJob \cup ReviewJob, out : Submission]
Planned == [pc : {"planned"}, job : PlanJob, at : Nat,
            verdict : {"ready-for-ingestion-job", "blocked"}]

Given == [item : Items, at : Nat, role : Roles, approver : Reviewers]
-----------------------------------------------------------------------------
\* Fault: a state the queue does not know is persisted.
FreshSubmissionAsDraft(d, t) ==
    [draft |-> d, at |-> t, state |-> "draft-validated", approvals |-> {}]

(* The artifact a submission persists: pending, with no approvals. *)
FreshSubmission(d, t) ==
    [draft |-> d, at |-> t, state |-> Pending, approvals |-> {}]

RemainingApprovals(approvals) == RequiredRoles \ {a.role : a \in approvals}

\* Fault: the new approval replaces the whole list.
WithApprovalReplacing(approvals, role, reviewer) ==
    {[role |-> role, approver |-> reviewer]}

(* A role approves once; its new approval replaces its old one. *)
WithApproval(approvals, role, reviewer) ==
    {a \in approvals : a.role # role} \cup {[role |-> role, approver |-> reviewer]}

\* Fault: any approval decides.
StateAfterAnyApproval(approvals) == IF approvals = {} THEN Pending ELSE Approved

StateAfterApproval(approvals) ==
    IF RemainingApprovals(approvals) = {} THEN Approved ELSE Pending

\* Fault: the state is computed from the approvals before this one.
ReviewedLate(sub, job) ==
    IF job.decision = "approve"
    THEN [sub EXCEPT !.approvals = WithApproval(sub.approvals, job.role, job.reviewer),
                     !.state = StateAfterApproval(sub.approvals)]
    ELSE [sub EXCEPT !.state = Rejected]

(* The artifact a review persists for the submission it read. *)
Reviewed(sub, job) ==
    IF job.decision = "approve"
    THEN LET approvals == WithApproval(sub.approvals, job.role, job.reviewer)
         IN  [sub EXCEPT !.approvals = approvals,
                         !.state = StateAfterApproval(approvals)]
    ELSE [sub EXCEPT !.state = Rejected]

\* Fault: a decided item can be reviewed again.
ReviewAllowedAnyState(f, job) ==
    /\ Readable(f)
    /\ job.decision = "approve" => job.role \in RequiredRoles

(* The guards of the review handler after its read: the file parses, the    *)
(* item is pending, and an approving role is a required one.  A rejection   *)
(* is taken from any role.                                                  *)
ReviewAllowed(f, job) ==
    /\ Readable(f)
    /\ f.state = Pending
    /\ job.decision = "approve" => job.role \in RequiredRoles

(* What the file holds once a writer's bytes land on what it now holds. *)
Landed(old, new) == IF old = Empty THEN {new} ELSE {new, Garbage}
-----------------------------------------------------------------------------
Init ==
    /\ file = [i \in Items |-> Absent]
    /\ req = [s \in Slots |-> Idle]
    /\ persistence \in BOOLEAN
    /\ clock = 0
    /\ given = {}

\* Fault: a resubmission keeps the approvals the item had.
ReceiveSubmitKeepingApprovals(s, d) ==
    /\ req[s] = Idle
    /\ persistence
    /\ d \in AcceptedDrafts
    /\ clock < MaxSubmissions
    /\ clock' = clock + 1
    /\ req' = [req EXCEPT ![s] =
                 [pc |-> "opening", job |-> [op |-> "submit", item |-> ItemOf[d]],
                  out |-> [FreshSubmission(d, clock + 1) EXCEPT
                             !.approvals = IF Readable(file[ItemOf[d]])
                                           THEN file[ItemOf[d]].approvals ELSE {}]]]
    /\ UNCHANGED <<file, persistence, given>>

(* A submission that will be persisted.  With persistence off, or for a     *)
(* draft validation refused, the handler answers "design-only" or           *)
(* "rejected-before-approval" and changes nothing.                          *)
ReceiveSubmit(s, d) ==
    /\ req[s] = Idle
    /\ persistence
    /\ d \in AcceptedDrafts
    /\ clock < MaxSubmissions
    /\ clock' = clock + 1
    /\ req' = [req EXCEPT ![s] =
                 [pc |-> "opening", job |-> [op |-> "submit", item |-> ItemOf[d]],
                  out |-> FreshSubmission(d, clock + 1)]]
    /\ UNCHANGED <<file, persistence, given>>

(* A review or a plan with its required fields; both are refused when       *)
(* persistence is off.                                                      *)
Receive(s, job) ==
    /\ req[s] = Idle
    /\ persistence
    /\ req' = [req EXCEPT ![s] = [pc |-> "reading", job |-> job]]
    /\ UNCHANGED <<file, persistence, clock, given>>

\* Fault: a file that does not parse leaves the request open.
ReadForReviewNoErrorPath(s) ==
    /\ req[s].pc = "reading"
    /\ req[s].job.op = "review"
    /\ LET job == req[s].job
           sub == file[job.item]
       IN  /\ ReviewAllowed(sub, job)
           /\ req' = [req EXCEPT ![s] =
                        [pc |-> "opening", job |-> job, out |-> Reviewed(sub, job)]]
           /\ given' = IF job.decision = "approve"
                       THEN given \cup {[item |-> job.item, at |-> sub.at,
                                         role |-> job.role, approver |-> job.reviewer]}
                       ELSE given
    /\ UNCHANGED <<file, persistence, clock>>

(* The read of a review resolves: decide on the snapshot, or refuse. *)
ReadForReview(s) ==
    /\ req[s].pc = "reading"
    /\ req[s].job.op = "review"
    /\ LET job == req[s].job
           sub == file[job.item]
       IN  IF ReviewAllowed(sub, job)
           THEN /\ req' = [req EXCEPT ![s] =
                             [pc |-> "opening", job |-> job, out |-> Reviewed(sub, job)]]
                /\ given' = IF job.decision = "approve"
                            THEN given \cup {[item |-> job.item, at |-> sub.at,
                                              role |-> job.role, approver |-> job.reviewer]}
                            ELSE given
           ELSE /\ req' = [req EXCEPT ![s] = Idle]
                /\ given' = given
    /\ UNCHANGED <<file, persistence, clock>>

PlanVerdict(sub) ==
    IF sub.state = Approved THEN "ready-for-ingestion-job" ELSE "blocked"

(* The read of a plan resolves: the plan is "ready-for-ingestion-job" for an *)
(* approved item, "blocked" for any other, and refused for no item.          *)
ReadForPlan(s) ==
    /\ req[s].pc = "reading"
    /\ req[s].job.op = "plan"
    /\ LET sub == file[req[s].job.item]
       IN  req' = [req EXCEPT ![s] =
                     IF Readable(sub)
                     THEN [pc |-> "planned", job |-> req[s].job, at |-> sub.at,
                           verdict |-> PlanVerdict(sub)]
                     ELSE Idle]
    /\ UNCHANGED <<file, persistence, clock, given>>

(* fs.writeFile opens the file with flag "w", which truncates or creates it. *)
OpenForWrite(s) ==
    /\ req[s].pc = "opening"
    /\ file' = [file EXCEPT ![req[s].job.item] = Empty]
    /\ req' = [req EXCEPT ![s].pc = "writing"]
    /\ UNCHANGED <<persistence, clock, given>>

\* Fault: the bytes are written beside the file and renamed over it.
LandWriteByRename(s) ==
    /\ req[s].pc \in {"writing", "unlinked"}
    /\ file' = [file EXCEPT ![req[s].job.item] = req[s].out]
    /\ req' = [req EXCEPT ![s].pc = "closing"]
    /\ UNCHANGED <<persistence, clock, given>>

(* The bytes land on the file this writer opened, if it is still linked. *)
LandWrite(s) ==
    /\ \/ /\ req[s].pc = "writing"
          /\ \E f \in Landed(file[req[s].job.item], req[s].out) :
                file' = [file EXCEPT ![req[s].job.item] = f]
       \/ /\ req[s].pc = "unlinked"
          /\ file' = file
    /\ req' = [req EXCEPT ![s].pc = "closing"]
    /\ UNCHANGED <<persistence, clock, given>>

(* The handler answers 200: a writer once its file is closed, with the new   *)
(* state; a plan with its verdict.                                           *)
Answer(s) ==
    /\ req[s].pc \in {"closing", "planned"}
    /\ req' = [req EXCEPT ![s] = Idle]
    /\ UNCHANGED <<file, persistence, clock, given>>

(* mkdir, open or write fails (quota, permissions): the handler answers 400  *)
(* and what reached the file stays there.                                    *)
FailWrite(s) ==
    /\ req[s].pc \in {"opening", "writing", "unlinked"}
    /\ \/ file' = file
       \/ /\ req[s].pc = "writing"
          /\ file' = [file EXCEPT ![req[s].job.item] = Garbage]
    /\ req' = [req EXCEPT ![s] = Idle]
    /\ UNCHANGED <<persistence, clock, given>>

(* The documented rollback: an operator deletes the JSON of an item.  A      *)
(* writer that holds the file open goes on writing to the unlinked inode.    *)
Withdraw(i) ==
    /\ file[i] # Absent
    /\ file' = [file EXCEPT ![i] = Absent]
    /\ req' = [s \in Slots |->
                 IF req[s].pc = "writing" /\ req[s].job.item = i
                 THEN [req[s] EXCEPT !.pc = "unlinked"]
                 ELSE req[s]]
    /\ UNCHANGED <<persistence, clock, given>>

(* The server stops, losing the requests in flight but not what reached the  *)
(* files, and comes back with a possibly different environment.              *)
Restart(mode) ==
    /\ req' = [s \in Slots |-> Idle]
    /\ persistence' = mode
    /\ UNCHANGED <<file, clock, given>>

HandlerStep(s) ==
    \/ ReadForReview(s)
    \/ ReadForPlan(s)
    \/ OpenForWrite(s)
    \/ LandWrite(s)
    \/ Answer(s)

Next ==
    \/ \E s \in Slots :
          \/ \E d \in Drafts : ReceiveSubmit(s, d)
          \/ \E job \in ReviewJob \cup PlanJob : Receive(s, job)
          \/ HandlerStep(s)
          \/ FailWrite(s)
    \/ \E i \in Items : Withdraw(i)
    \/ \E mode \in BOOLEAN : Restart(mode)

Spec == Init /\ [][Next]_vars

(* One request at a time, and an operator who deletes files only between     *)
(* requests: the use the queue's design document has in mind.                *)
Busy == {s \in Slots : req[s] # Idle}

SerialNext ==
    \/ /\ Busy = {}
       /\ \/ \E s \in Slots, d \in Drafts : ReceiveSubmit(s, d)
          \/ \E s \in Slots, job \in ReviewJob \cup PlanJob : Receive(s, job)
          \/ \E i \in Items : Withdraw(i)
    \/ \E s \in Slots : HandlerStep(s) \/ FailWrite(s)
    \/ \E mode \in BOOLEAN : Restart(mode)

SerialSpec == Init /\ [][SerialNext]_vars
-----------------------------------------------------------------------------
TypeOK ==
    /\ file \in [Items -> FileContent]
    /\ req \in [Slots -> {Idle} \cup Reading \cup Saving \cup Planned]
    /\ persistence \in BOOLEAN
    /\ clock \in Nat
    /\ given \subseteq Given

(* No approval is carried to a submission its reviewer did not read: however *)
(* reviews, resubmissions, deletions and restarts interleave, each approval  *)
(* stored in a file was given by that reviewer, in that role, to that very   *)
(* submission.                                                               *)
ApprovalsWereGiven ==
    \A i \in Items : Readable(file[i]) =>
        \A a \in file[i].approvals :
            [item |-> i, at |-> file[i].at, role |-> a.role, approver |-> a.approver]
                \in given

(* Every role that must approve submission t of item i has done so. *)
FullyApproved(i, t) ==
    \A role \in RequiredRoles :
        \E g \in given : g.item = i /\ g.at = t /\ g.role = role

(* A plan that says "ready-for-ingestion-job", and an item whose stored      *)
(* state is approved-for-ingestion, rest on one approval of that submission  *)
(* per required role, even when reviews overwrite each other.                *)
ReadyMeansFullyApproved ==
    /\ \A s \in Slots : (req[s].pc = "planned" /\ req[s].verdict = "ready-for-ingestion-job")
                           => FullyApproved(req[s].job.item, req[s].at)
    /\ \A i \in Items : (Readable(file[i]) /\ file[i].state = Approved)
                           => FullyApproved(i, file[i].at)

(* A stored item is pending only while a required approval is missing from   *)
(* it, so the reviewers of a pending item always have something left to do   *)
(* and the last approval never leaves an item pending.                       *)
PendingMeansApprovalsMissing ==
    \A i \in Items : (Readable(file[i]) /\ file[i].state = Pending)
                        => RemainingApprovals(file[i].approvals) # {}
=============================================================================
